----------------------------- MODULE LineageWalk -----------------------------
(***************************************************************************)
(* The subgraph of one snapshot that a lineage page shows: get_subgraph    *)
(* and get_initial_view.  A walk goes breadth first from a root, one batch *)
(* of adjacent edges per read, within bounds on nodes, edge rows, jobs and *)
(* projected pairs; the answer says whether one of them cut it short.      *)
(*                                                                         *)
(* The nodes and edges of a snapshot do not change once it is committed    *)
(* (LineagePublish), so a walk is alone with its graph.  Nodes are numbers *)
(* in the order of node_id; the edges are listed in the order of edge_id.  *)
(***************************************************************************)
EXTENDS Integers, SequencesExt

CONSTANTS
    Graphs,              \* snapshots: kind and layer of each node, the DWF tables, the edges
    Requests,            \* requests that have passed the validation of their options
    MaxEdgeRows,         \* MAX_LINEAGE_SUBGRAPH_EDGE_ROWS
    EdgeReadsPerNode,    \* LINEAGE_SUBGRAPH_EDGE_READS_PER_NODE
    MaxTableViewTasks,   \* MAX_LINEAGE_TABLE_VIEW_TASKS
    MaxProjectionPairs,  \* MAX_LINEAGE_TABLE_PROJECTION_PAIRS
    NoNode, NoSnapshot

\* A node has a kind and, if it is a table, a layer; an edge is read with the nodes at
\* both its ends (the join of LineageDatabaseReader.adjacent).
ASSUME GraphsAssumption ==
    \A g \in Graphs :
       /\ IsFiniteSet(DOMAIN g.kind) /\ DOMAIN g.kind \subseteq Nat
       /\ \A n \in DOMAIN g.kind : g.layer[n] \in Nat
       /\ g.edges \in Seq((DOMAIN g.kind) \X (DOMAIN g.kind))

\* What _validated_graph_options lets pass.
ASSUME RequestsAssumption ==
    \A r \in Requests :
       /\ r.direction \in {"both", "upstream", "downstream"} /\ r.view \in {"table", "detail"}
       /\ r.depth \in Nat /\ r.maxNodes \in Nat \ {0} /\ r.initial \in BOOLEAN

ASSUME BudgetsAssumption ==
    /\ MaxEdgeRows \in Nat /\ EdgeReadsPerNode \in Nat
    /\ MaxTableViewTasks \in Nat /\ MaxProjectionPairs \in Nat

VARIABLES
    graph,    \* the snapshot that is ACTIVE, if one is
    request,  \* what is asked for
    walk,     \* the walk
    page      \* the answer

walkVars == <<graph, request, walk, page>>

Nodes == DOMAIN graph.kind
IsTable(n) == graph.kind[n] = "table"
IsTask(n) == graph.kind[n] = "task"
IsDwf(n) == IsTable(n) /\ n \in graph.dwf

\* The elements of a list that are in S.
Within(seq, S) ==
    FoldLeft(LAMBDA kept, x : IF x \in S THEN Append(kept, x) ELSE kept, <<>>, seq)

NoWalk ==
    [pc |-> "asked", root |-> NoNode, view |-> "table", branches |-> <<>>,
     best |-> <<>>, expanded |-> {}, frontier |-> <<>>, next |-> <<>>,
     selected |-> {}, edges |-> {}, tasks |-> {}, pairs |-> 0, rows |-> 0,
     truncated |-> FALSE]

NoPage == [status |-> "none", notice |-> "none"]

WalkInit ==
    /\ graph \in Graphs \cup {NoSnapshot}
    /\ request \in Requests
    /\ walk = NoWalk
    /\ page = NoPage

Answer(status) == page' = [page EXCEPT !.status = status]
Stop == walk' = [walk EXCEPT !.pc = "done"]

-----------------------------------------------------------------------------
(* The root *)

\* A node with edges on both sides, before one without; a table before a job; then
\* the order of the layers, and of the ids.
Connected == {n \in Nodes : /\ \E e \in ToSet(graph.edges) : e[1] = n
                            /\ \E e \in ToSet(graph.edges) : e[2] = n}
Tables == {n \in Nodes : IsTable(n)}

Ranked(S) ==
    CHOOSE n \in S : \A m \in S :
        graph.layer[n] < graph.layer[m] \/ (graph.layer[n] = graph.layer[m] /\ n <= m)

DefaultRoot ==
    CASE Tables \cap Connected # {} -> Ranked(Tables \cap Connected)
      [] Tables \cap Connected = {} /\ Tables # {} -> Ranked(Tables)
      [] Tables = {} /\ Connected # {} -> Ranked(Connected)
      [] OTHER -> IF Nodes = {} THEN NoNode ELSE Ranked(Nodes)

Branches == IF request.direction = "both" THEN <<"upstream", "downstream">>
                                          ELSE <<request.direction>>

\* Each branch starts again from the root; what is selected, and the budgets, stay.
StartBranch(w) ==
    [w EXCEPT !.best = [n \in {w.root} |-> 0], !.expanded = {}, !.next = <<>>,
              !.frontier = <<[node |-> w.root, cost |-> 0]>>]

Begin(root, view) ==
    walk' = StartBranch([walk EXCEPT !.pc = "walking", !.root = root, !.view = view,
                                     !.branches = Branches, !.selected = {root}])

Wanted == IF request.root = NoNode THEN DefaultRoot ELSE request.root

\* Why _database_subgraph refuses a root, or "none" if it does not.
Refusal(root, view) ==
    CASE root \notin Nodes -> "not_found"
      [] root \in Nodes /\ view = "table" /\ ~IsTable(root) -> "needs_table"
      [] OTHER -> "none"

\* Without a snapshot, or with an empty one, the initial view shows no graph.
HasNodes == graph # NoSnapshot /\ Nodes # {}

NothingToShow ==
    /\ walk.pc = "asked" /\ ~HasNodes
    /\ Answer(IF request.initial THEN "no_graph" ELSE "not_found")
    /\ Stop
    /\ UNCHANGED <<graph, request>>

OpenRoot ==
    /\ walk.pc = "asked" /\ HasNodes
    /\ Refusal(Wanted, request.view) = "none"
    /\ Begin(Wanted, request.view)
    /\ UNCHANGED <<graph, request, page>>

\* The initial view falls back to the default root, in the table view; a job that
\* is asked for in that view counts as a root that is not there.
FallsBack ==
    /\ request.initial /\ request.root # NoNode /\ request.root # DefaultRoot
    /\ Refusal(Wanted, request.view) # "none"

RefuseRoot ==
    /\ walk.pc = "asked" /\ HasNodes
    /\ Refusal(Wanted, request.view) # "none" /\ ~FallsBack
    /\ Answer(Refusal(Wanted, request.view))
    /\ Stop
    /\ UNCHANGED <<graph, request>>

FallBack ==
    /\ walk.pc = "asked" /\ HasNodes /\ FallsBack
    /\ IF Refusal(DefaultRoot, "table") = "none"
       THEN /\ Begin(DefaultRoot, "table")
            /\ page' = [page EXCEPT !.notice = Refusal(Wanted, request.view)]
       ELSE Answer(Refusal(DefaultRoot, "table")) /\ Stop
    /\ UNCHANGED <<graph, request>>

-----------------------------------------------------------------------------
(* Reading *)

Branch == Head(walk.branches)
Near(e) == IF Branch = "downstream" THEN e[1] ELSE e[2]
Far(e) == IF Branch = "downstream" THEN e[2] ELSE e[1]

Least(a, b) == IF a <= b THEN a ELSE b
Most(a, b) == IF a <= b THEN b ELSE a

\* One bounded batch of the edges that leave `nodes' in the direction of the branch.
Adjacent(w, nodes) ==
    LET found == Within(graph.edges, {e \in ToSet(graph.edges) : Near(e) \in nodes})
        left == MaxEdgeRows - w.rows
        desired == Least(left, EdgeReadsPerNode * Most(1, request.maxNodes - Cardinality(w.selected)))
    IN [rows |-> SubSeq(found, 1, Least(desired, Len(found))),
        cut |-> nodes # {} /\ (left <= 0 \/ Len(found) > desired)]

\* Fault: a batch that was cut is not reported.
ReadUnmarked(w, batch) == [w EXCEPT !.rows = @ + Len(batch.rows)]

\* `fetch' counts the rows it hands out and notes whether it has left some.
ReadBatch(w, batch) ==
    [w EXCEPT !.rows = @ + Len(batch.rows), !.truncated = @ \/ batch.cut]

\* A neighbour is taken if it was not reached as cheaply before, while there is
\* room; one that is selected already is only reached anew.
Admit(w, found) ==
    LET n == found.node IN
    IF found.cost > request.depth THEN w
    ELSE IF n \in DOMAIN w.best /\ w.best[n] <= found.cost THEN w
    ELSE IF Cardinality(w.selected \cup {n}) > request.maxNodes THEN [w EXCEPT !.truncated = TRUE]
    ELSE [w EXCEPT !.selected = @ \cup {n},
                   !.best = [m \in DOMAIN @ \cup {n} |-> IF m = n THEN found.cost ELSE @[m]],
                   !.next = IF Contains(@, n) THEN @ ELSE Append(@, n)]

AdmitAll(w, list) == FoldLeft(Admit, w, list)

-----------------------------------------------------------------------------
(* One group of the frontier: the nodes reached at one cost *)

Cost == Head(walk.frontier).cost
Group == {f.node : f \in {g \in ToSet(walk.frontier) : g.cost = Cost}}
Rest == Within(walk.frontier, {f \in ToSet(walk.frontier) : f.cost # Cost})

StopsAt(n) == Branch = "upstream" /\ IsDwf(n)

Expandable ==
    {n \in Group : /\ n \notin walk.expanded /\ ~StopsAt(n)
                   /\ IsTable(n) => Cost < request.depth}

Expanding ==
    /\ walk.pc = "walking" /\ walk.frontier # <<>>

SkipGroup ==
    /\ Expanding /\ Expandable = {}
    /\ walk' = [walk EXCEPT !.frontier = Rest]
    /\ UNCHANGED <<graph, request, page>>

\* The detail view: the edges as they are; a table costs one hop, any other node none.
ExpandDetail ==
    LET batch == Adjacent(walk, Expandable)
        start == [ReadBatch(walk, batch) EXCEPT !.frontier = Rest, !.expanded = @ \cup Expandable]
        after == AdmitAll(start, [i \in DOMAIN batch.rows |->
                     [node |-> Far(batch.rows[i]),
                      cost |-> Cost + IF IsTable(Far(batch.rows[i])) THEN 1 ELSE 0]])
    IN
    /\ Expanding /\ Expandable # {} /\ walk.view = "detail"
    /\ walk' = [after EXCEPT !.edges =
                   @ \cup {e \in ToSet(batch.rows) : {e[1], e[2]} \subseteq after.selected}]
    /\ UNCHANGED <<graph, request, page>>

\* The table view: edges between tables, and pairs of an edge into a job and an
\* edge out of it.  A second batch reads the far side of the jobs found.
JobsOf(rows) ==
    LET IsFirst(i) == IsTask(Far(rows[i])) /\ \A j \in 1..i - 1 : Far(rows[j]) # Far(rows[i])
        firsts == Within([i \in DOMAIN rows |-> i], {i \in DOMAIN rows : IsFirst(i)})
    IN [k \in DOMAIN firsts |-> Far(rows[firsts[k]])]

\* New jobs count against the budget of the request, in the order they were found.
AdmitJobs(w, jobs) ==
    LET new == Within(jobs, ToSet(jobs) \ w.tasks)
        room == Least(Len(new), Most(0, MaxTableViewTasks - Cardinality(w.tasks)))
    IN [w EXCEPT !.tasks = @ \cup ToSet(SubSeq(new, 1, room)),
                 !.truncated = @ \/ room < Len(new)]

\* The pairs of one job, inputs before outputs: first and second are the rows on
\* the near and on the far side.
PairsOf(job, first, second) ==
    LET near == Within(first, {e \in ToSet(first) : Far(e) = job})
        far == Within(second, {e \in ToSet(second) : Near(e) = job /\ IsTable(Far(e))})
        outer == IF Branch = "downstream" THEN near ELSE far
        inner == IF Branch = "downstream" THEN far ELSE near
    IN FlattenSeq([i \in DOMAIN outer |->
                     [j \in DOMAIN inner |->
                        [ends |-> <<outer[i][1], inner[j][2]>>, job |-> job]]])

Before(p, q) == p[1] < q[1] \/ (p[1] = q[1] /\ p[2] < q[2])

Sorted(S) ==
    CHOOSE list \in [1..Cardinality(S) -> S] :
        \A i, j \in DOMAIN list : i < j => Before(list[i], list[j])

ExpandTable ==
    LET first == Adjacent(walk, Expandable)
        found == JobsOf(first.rows)
        asked == AdmitJobs([ReadBatch(walk, first) EXCEPT !.frontier = Rest,
                                !.expanded = @ \cup Expandable], found)
        jobs == Within(found, asked.tasks)
        second == Adjacent(asked, ToSet(jobs))
        read == ReadBatch(asked, second)
        all == FlattenSeq([i \in DOMAIN jobs |-> PairsOf(jobs[i], first.rows, second.rows)])
        pairs == SubSeq(all, 1, Least(Len(all), MaxProjectionPairs - walk.pairs))
        projected == {e \in {p.ends : p \in ToSet(pairs)} : e[1] # e[2]}
        direct == Within(first.rows, {e \in ToSet(first.rows) : IsTable(Far(e))})
        shown == direct \o Sorted(projected)
        start == [read EXCEPT !.pairs = @ + Len(pairs), !.truncated = @ \/ Len(pairs) < Len(all),
                              !.edges = @ \cup ToSet(shown)]
    IN
    /\ Expanding /\ Expandable # {} /\ walk.view = "table"
    /\ walk' = AdmitAll(start, [i \in DOMAIN shown |-> [node |-> Far(shown[i]), cost |-> Cost + 1]])
    /\ UNCHANGED <<graph, request, page>>

-----------------------------------------------------------------------------
(* The end of a round, of a branch and of the walk *)

RoundDone == walk.pc = "walking" /\ walk.frontier = <<>>
Full == Cardinality(walk.selected) >= request.maxNodes

NextRound ==
    /\ RoundDone /\ walk.next # <<>> /\ ~Full
    /\ walk' = [walk EXCEPT
                  !.frontier = [i \in DOMAIN walk.next |->
                                  [node |-> walk.next[i], cost |-> walk.best[walk.next[i]]]],
                  !.next = <<>>]
    /\ UNCHANGED <<graph, request, page>>

\* A branch that ends because the page is full says that it was cut.
EndBranch ==
    LET w == [walk EXCEPT !.truncated = @ \/ walk.next # <<>>, !.branches = Tail(@)] IN
    /\ RoundDone /\ (walk.next = <<>> \/ Full)
    /\ IF w.branches # <<>>
       THEN walk' = StartBranch(w) /\ page' = page
       ELSE walk' = [w EXCEPT !.pc = "done"] /\ Answer("shown")
    /\ UNCHANGED <<graph, request>>

WalkNext ==
    \/ NothingToShow \/ OpenRoot \/ RefuseRoot \/ FallBack
    \/ SkipGroup \/ ExpandDetail \/ ExpandTable \/ NextRound \/ EndBranch

-----------------------------------------------------------------------------
(* What a page should show, by paths instead of rounds *)

EdgeSet == ToSet(graph.edges)
Along(direction) ==
    IF direction = "downstream" THEN EdgeSet ELSE {<<e[2], e[1]>> : e \in EdgeSet}

\* In the table view a step leads from a table to a table, through one job or none.
StepsOf(direction) ==
    LET steps == Along(direction) IN
    IF walk.view = "detail" THEN steps
    ELSE {s \in Tables \X Tables :
            s \in steps \/ (s[1] # s[2] /\ \E j \in Nodes :
                              IsTask(j) /\ {<<s[1], j>>, <<j, s[2]>>} \subseteq steps)}

\* May a path that has crossed `cost' tables after the root go on from n?
GoesOn(direction, n, cost) ==
    /\ IsTable(n) => cost < request.depth
    /\ ~(direction = "upstream" /\ IsDwf(n))

\* A branch, by its paths: its steps, the nodes and costs from which a path goes on,
\* and the tables, each of which costs one.
Course(direction) ==
    [nodes |-> Nodes, tables |-> Tables, root |-> walk.root, depth |-> request.depth,
     steps |-> StepsOf(direction), flip |-> direction = "upstream",
     on |-> {q \in Nodes \X (0..request.depth) : GoesOn(direction, q[1], q[2])}]

Toll(b, n) == IF n \in b.tables THEN 1 ELSE 0

\* One step further, with the tables crossed; and the ends of the paths of no step,
\* of at most one, of at most two, and so on.
Further(b, S) ==
    S \cup UNION {{<<s[2], q[2] + Toll(b, s[2])>> : s \in {s \in b.steps : s[1] = q[1]}} :
                     q \in S \cap b.on}

Paths(b) ==
    LET reached[k \in 0..Cardinality(b.nodes)] ==
          IF k = 0 THEN {<<b.root, 0>>}
          ELSE {q \in Further(b, reached[k - 1]) : q[2] <= b.depth}
    IN reached

\* The ends of all paths: a longer one only comes back to a node.
Ends(b) == Paths(b)[Cardinality(b.nodes)]

\* The fewest steps to a node never cross more tables than another path to it.
IsStraight(b) ==
    LET paths == Paths(b) IN
    \A k \in 0..Cardinality(b.nodes) : \A q \in paths[k], r \in Ends(b) :
        q[1] = r[1] => \E p \in paths[k] : p[1] = r[1] /\ p[2] <= r[2]

\* The edges on the paths, as they are shown.
Drawn(b, s) == IF b.flip THEN <<s[2], s[1]>> ELSE s
Onward(b) == {Drawn(b, s) : s \in {s \in b.steps : \E q \in Ends(b) \cap b.on : q[1] = s[1]}}

Directions == ToSet(Branches)
Courses == {Course(d) : d \in Directions}
Reachable == UNION {{q[1] : q \in Ends(b)} : b \in Courses}
Inside(S, nodes) == {e \in S : {e[1], e[2]} \subseteq nodes}

WithinBounds ==
    /\ Cardinality(walk.selected) <= request.maxNodes
    /\ walk.rows <= MaxEdgeRows
    /\ Cardinality(walk.tasks) <= MaxTableViewTasks
    /\ walk.pairs <= MaxProjectionPairs

-----------------------------------------------------------------------------
(* Properties *)

\* A page shows nothing that is not within the depth asked for, keeps the bounds,
\* and leaves no node and no edge out without saying so.  (In the detail view a
\* node found first on a path of fewer edges and more tables is not expanded again
\* when a cheaper path comes along: see DepthCountsTables.)
PageIsComplete ==
    page.status = "shown" =>
        LET reachable == Reachable
            shown == Inside(walk.edges, walk.selected)
        IN
        /\ WithinBounds
        /\ walk.selected \subseteq reachable
        /\ shown \subseteq StepsOf("downstream")
        /\ ~walk.truncated /\ (\A b \in Courses : IsStraight(b))
             => /\ walk.selected = reachable
                /\ \A b \in Courses : Inside(Onward(b), reachable) \subseteq shown

\* docs/lineage_bulk_import_guide.md and docs/api-contract.md: the depth counts
\* tables in both views, jobs cost nothing, and what is cut off is reported.
DepthCountsTables ==
    page.status = "shown" /\ ~walk.truncated => walk.selected = Reachable

\* As long as the snapshot has a table, the initial view shows a graph, whatever
\* root an old link names, and says so when it is not the graph of that root.
InitialViewAnswers ==
    walk.pc = "done" /\ request.initial /\ HasNodes /\ Tables # {} =>
        /\ page.status = "shown"
        /\ (page.notice = "none") = (walk.root = Wanted)

\* A page shows all it should and says what it leaves out, be it a part of the graph
\* or the root that was asked for.
PagesAreTrue == PageIsComplete /\ InitialViewAnswers
=============================================================================
