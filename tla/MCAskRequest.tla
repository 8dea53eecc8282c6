---------------------------- MODULE MCAskRequest ----------------------------
EXTENDS AskRequest, TLC

\* Requests are alike; used only where no liveness is checked.
Symmetry == Permutations(Request)

EveryMix == [Request -> {"stream", "json"}]

\* Five requests in threads overfill the slots and the queue.  Children have many
\* more states: only three requests come to them, in every mix of endpoints.
FewIsolated ==
    isolate =>
        /\ Cardinality({r \in Request : kind[r] = "stream"}) \in {0, 3}
        /\ Cardinality({r \in Request : pc[r] # "new"}) <= 3

\* A coroutine among threads.
CONSTANT r1
OneStream == {[r \in Request |-> IF r = r1 THEN "stream" ELSE "json"]}
=============================================================================
