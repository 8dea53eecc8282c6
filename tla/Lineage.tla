------------------------------- MODULE Lineage -------------------------------
(***************************************************************************)
(* Lineage: snapshots that are published while pages read them, and the    *)
(* walk of a page over the one it has found.  A snapshot that is committed *)
(* keeps its nodes and edges, so a behaviour shows one of the two.         *)
(***************************************************************************)
EXTENDS LineagePublish, LineageWalk

-----------------------------------------------------------------------------
(* What the collector makes of the scheduler's tables: build_snapshot.  Jobs and *)
(* tables are nodes; `results' holds the result tables of each job it knows,     *)
(* `dependencies' the jobs each declared job depends on.                         *)

\* Jobs that are declared or that another one depends on; tables of other jobs are
\* nodes without edges.
AllJobs(dependencies) ==
    DOMAIN dependencies \cup UNION {dependencies[j] : j \in DOMAIN dependencies}

\* A job writes its results, and reads those of the jobs it depends on; one without
\* results is linked to it directly.
CollectedEdges(results, dependencies) ==
    LET jobs == AllJobs(dependencies)
        resultsOf(j) == IF j \in DOMAIN results THEN results[j] ELSE {}
    IN UNION {{j} \X resultsOf(j) : j \in jobs}
       \cup UNION {UNION {IF resultsOf(up) # {} THEN resultsOf(up) \X {j} ELSE {<<up, j>>}
                            : up \in dependencies[j]} : j \in DOMAIN dependencies}

CollectedKinds(results, dependencies) ==
    [n \in AllJobs(dependencies) \cup UNION {results[j] : j \in DOMAIN results} |->
        IF n \in AllJobs(dependencies) THEN "task" ELSE "table"]

-----------------------------------------------------------------------------

CONSTANT Sides  \* "publish", "walk": what a behaviour shows

VARIABLE side

allVars == <<vars, walkVars, side>>

NotAsked == graph = NoSnapshot /\ request = <<>> /\ walk = NoWalk /\ page = NoPage

LineageInit ==
    /\ side \in Sides
    /\ Init
    /\ IF side = "walk" THEN WalkInit ELSE NotAsked

LineageNext ==
    /\ UNCHANGED side
    /\ \/ side = "publish" /\ Next /\ UNCHANGED walkVars
       \/ side = "walk" /\ WalkNext /\ UNCHANGED vars

LineageSpec == LineageInit /\ [][LineageNext]_allVars
=============================================================================
