------------------------------ MODULE MCLineage ------------------------------
(* Instances of Lineage. *)
EXTENDS Lineage, TLC

CONSTANTS g1, g2, g3, k1, k2

\* g1 and g2 publish under one import with different content.
MCSnapshotOf == [p \in Publishers |->
    CASE p \in {g1, g2} -> "s1" [] p = g3 -> "s2" [] p = k1 -> "s3" [] p = k2 -> "s4"]
MCContentOf == [p \in Publishers |-> p]
Alike == Permutations({g1, g2})

\* The collectors' snapshots are the oldest and the newest.
MCGeneratedAt == [s \in Snapshots |->
    CASE s = "s3" -> 1 [] s = "s1" -> 2 [] s = "s2" -> 3 [] s = "s4" -> 4]

Snapshot(kind, dwf, edges) ==
    [kind |-> kind, layer |-> [n \in DOMAIN kind |-> IF n \in dwf THEN 0 ELSE 1 + (n % 2)],
     dwf |-> dwf, edges |-> edges]

\* Every graph of four nodes with some of these edges: a cycle, cross-links and a
\* loop, with jobs in any place and a node of another kind in one.
Links == << <<1, 2>>, <<1, 3>>, <<2, 3>>, <<3, 2>>, <<4, 1>>, <<4, 4>> >>
Kinds == {k \in [1..4 -> {"table", "task", "report"}] : \A n \in 1..4 : k[n] = "report" => n = 3}
SmallGraphs ==
    {Snapshot(kind, {4}, SelectSeq(Links, LAMBDA e : e \in E)) :
        kind \in Kinds, E \in SUBSET ToSet(Links)}

\* Jobs without results in a row: 11 fills table 1, which 2 and 4 read; 7 depends on
\* the result of 2 and on 6, which follows 5 and 4; 9 uses the result of 7.
Results == (11 :> {1}) @@ (2 :> {3}) @@ (7 :> {8}) @@ (9 :> {10})
Dependencies ==
    (2 :> {11}) @@ (4 :> {11}) @@ (5 :> {4}) @@ (6 :> {5}) @@ (7 :> {2, 6}) @@ (9 :> {7})

\* The ids of the edges are hashes: any order will do.
InOrder(E, n) == SelectSeq([i \in 1..n * n |-> <<1 + ((i - 1) \div n), 1 + ((i - 1) % n)>>],
                           LAMBDA e : e \in E)
Chain == Snapshot(CollectedKinds(Results, Dependencies), {},
                  InOrder(CollectedEdges(Results, Dependencies), 11))

MCGraphs == SmallGraphs \cup {Chain, Snapshot(<<>>, {}, <<>>)}

Asked(initial, root, direction, depth, maxNodes, view) ==
    [initial |-> initial, root |-> root, direction |-> direction, depth |-> depth,
     maxNodes |-> maxNodes, view |-> view]

\* Node 12 is one that is gone.
MCRequests ==
    {Asked(FALSE, 1, "both", depth, max, view) :
        depth \in {1, 2}, max \in {3, 12}, view \in {"table", "detail"}}
    \cup {Asked(TRUE, root, "upstream", 2, 4, view) :
            root \in {NoNode, 4, 12}, view \in {"table", "detail"}}

MCDepthGraphs == {Chain}
=============================================================================
