---------------------------- MODULE LineagePublish ----------------------------
(***************************************************************************)
(* Publication of lineage snapshots: POST /api/metadata/lineage/ingestions *)
(* (ingesters), the collector script (collectors), and the lineage page    *)
(* that reads what is published (readers).                                 *)
(*                                                                         *)
(* Each publication is one transaction that inserts an INACTIVE row, its   *)
(* nodes and edges, deactivates what is ACTIVE and activates its own row.  *)
(* The collector takes a table lock first, the ingester does not, but has  *)
(* looked for the import in a transaction of its own.                      *)
(*                                                                         *)
(* The database is modelled from how it is used: READ COMMITTED, the       *)
(* default of PostgreSQL and DWS.  A statement sees what was committed     *)
(* when it began; an UPDATE waits for the rows others have written, and    *)
(* tests them again once it has them; an INSERT waits for an uncommitted   *)
(* row with its key; LOCK TABLE ... EXCLUSIVE waits for every writer of    *)
(* the table, and every writer for it; readers wait for nobody.            *)
(***************************************************************************)
EXTENDS Integers, FiniteSets, Functions

CONSTANTS
    Ingesters,      \* requests to the ingestion endpoint
    Collectors,     \* runs of the collector script
    Readers,        \* requests of the lineage page
    Snapshots,      \* snapshot identities: "metadata-" and the hash of (source,
                    \* importId), or a collector's "JOB_TABLE_" and its start
    SnapshotOf,     \* the identity each publisher publishes
    ContentOf,      \* the hash of its content
    GeneratedAt,    \* generated_at of each snapshot
    None,
    MaxRetries      \* bound: calls that are made again

Publishers == Ingesters \cup Collectors

ASSUME LineageAssumption ==
    /\ Ingesters \cap Collectors = {} /\ IsFiniteSet(Publishers)
    /\ SnapshotOf \in [Publishers -> Snapshots]
    /\ \A p \in Collectors, q \in Ingesters : SnapshotOf[p] # SnapshotOf[q]
    /\ GeneratedAt \in [Snapshots -> Nat] /\ IsInjective(GeneratedAt)
    /\ None \notin Snapshots
    /\ MaxRetries \in Nat

VARIABLES
    table,       \* the committed rows, with the parts stored for each
    tx,          \* the call of each publisher and its open transaction
    attempts,    \* how often a publisher was called
    outcome,     \* how its last call ended
    reading      \* the transaction of each reader

vars == <<table, tx, attempts, outcome, reading>>

-----------------------------------------------------------------------------
(* State *)

Parts == {"nodes", "edges"}

NoRow == [status |-> "absent", content |-> None, parts |-> {}]

\* `writes' holds the status of each row the transaction has written and so locked.
NoWrites == [s \in Snapshots |-> "none"]
NoTx == [pc |-> "idle", writes |-> NoWrites, parts |-> {}, targets |-> {}]
InTransaction == {"nodes", "edges", "deactivate", "activate", "commit"}
NoRead == [pc |-> "idle", snapshot |-> None, parts |-> {}]

\* The calls that repeat an earlier one of the same publisher.
Retries == Cardinality({c \in Publishers \X (2..MaxRetries + 1) : c[2] <= attempts[c[1]]})

Active == {s \in Snapshots : table[s].status = "ACTIVE"}
Exists(s) == table[s].status # "absent"

Init ==
    /\ table = [s \in Snapshots |-> NoRow]
    /\ tx = [p \in Publishers |-> NoTx]
    /\ attempts = [p \in Publishers |-> 0]
    /\ outcome = [p \in Publishers |-> "none"]
    /\ reading = [r \in Readers |-> NoRead]

-----------------------------------------------------------------------------
(* Locks, as the database keeps them *)

Others(p) == Publishers \ {p}

\* The table lock: shared by those who write, exclusive for a collector.
Writes(p) == tx[p].pc \in InTransaction
LocksTable(p) == p \in Collectors /\ (Writes(p) \/ tx[p].pc = "insert")

\* Fault: the collector does not lock the table.
TableNeverWaits(p) == TRUE

TableIsFreeFor(p) == \A q \in Others(p) : ~Writes(q) /\ ~LocksTable(q)

RowIsFreeFor(s, p) == \A q \in Others(p) : tx[q].writes[s] = "none"

At(p, pc) == tx[p].pc = pc
Goto(p, pc) == tx' = [tx EXCEPT ![p].pc = pc]
End(p, how) ==
    /\ tx' = [tx EXCEPT ![p] = NoTx]
    /\ outcome' = [outcome EXCEPT ![p] = how]

-----------------------------------------------------------------------------
(* ingest_lineage: first a look for the import, in its own transaction *)

\* A client calls again when its call failed or its answer was lost.  A script
\* that is run again draws a new identity: that is another collector.
Call(p) ==
    /\ At(p, "idle")
    /\ attempts[p] = 0 \/ (p \in Ingesters /\ Retries < MaxRetries)
    /\ outcome[p] \in {"none", "failed", "lost"}
    /\ attempts' = [attempts EXCEPT ![p] = @ + 1]
    /\ Goto(p, IF p \in Collectors THEN "lock" ELSE "look")
    /\ UNCHANGED <<table, outcome, reading>>

\* Fault: an import that is there is taken for the same import.
AnyContent(p) == TRUE

SameContent(p) == table[SnapshotOf[p]].content = ContentOf[p]

LookFindsNone(p) ==
    /\ At(p, "look") /\ ~Exists(SnapshotOf[p])
    /\ Goto(p, "insert")
    /\ UNCHANGED <<table, attempts, outcome, reading>>

LookFindsOther(p) ==
    /\ At(p, "look") /\ Exists(SnapshotOf[p]) /\ ~SameContent(p)
    /\ End(p, "conflict")
    /\ UNCHANGED <<table, attempts, reading>>

\* An idempotent replay: only an audit record is written.
Replay(p) ==
    /\ At(p, "look") /\ Exists(SnapshotOf[p]) /\ SameContent(p)
    /\ End(p, "already_applied")
    /\ UNCHANGED <<table, attempts, reading>>

-----------------------------------------------------------------------------
(* publish_snapshot, _persist_lineage *)

LockTable(p) ==
    /\ At(p, "lock") /\ TableIsFreeFor(p)
    /\ Goto(p, "insert")
    /\ UNCHANGED <<table, attempts, outcome, reading>>

InsertRow(p) ==
    LET s == SnapshotOf[p] IN
    /\ At(p, "insert") /\ ~Exists(s)
    /\ \A q \in Others(p) : ~LocksTable(q)
    /\ RowIsFreeFor(s, p)
    /\ tx' = [tx EXCEPT ![p].pc = "nodes", ![p].writes[s] = "INACTIVE"]
    /\ UNCHANGED <<table, attempts, outcome, reading>>

\* The unique key of snapshot_id and import_batch_id: the error is passed on.
InsertIsDuplicate(p) ==
    LET s == SnapshotOf[p] IN
    /\ At(p, "insert") /\ Exists(s)
    /\ \A q \in Others(p) : ~LocksTable(q)
    /\ End(p, "failed")
    /\ UNCHANGED <<table, attempts, reading>>

\* Fault: a batch that cannot be written is skipped.
InsertNodesMaybe(p) ==
    /\ At(p, "nodes")
    /\ \E stored \in SUBSET {"nodes"} :
          tx' = [tx EXCEPT ![p].pc = "edges", ![p].parts = stored]
    /\ UNCHANGED <<table, attempts, outcome, reading>>

InsertNodes(p) ==
    /\ At(p, "nodes")
    /\ tx' = [tx EXCEPT ![p].pc = "edges", ![p].parts = {"nodes"}]
    /\ UNCHANGED <<table, attempts, outcome, reading>>

\* The UPDATE that follows finds its rows among those committed as it begins.
InsertEdges(p) ==
    /\ At(p, "edges")
    /\ tx' = [tx EXCEPT ![p].pc = "deactivate", ![p].parts = @ \cup {"edges"},
                        ![p].targets = Active]
    /\ UNCHANGED <<table, attempts, outcome, reading>>

\* Fault: each row is committed as it is updated.
DeactivateAtOnce(p, s) ==
    /\ At(p, "deactivate") /\ s \in tx[p].targets /\ RowIsFreeFor(s, p)
    /\ table' = [table EXCEPT ![s].status = "INACTIVE"]
    /\ tx' = [tx EXCEPT ![p].targets = @ \ {s}]
    /\ UNCHANGED <<attempts, outcome, reading>>

\* One row of the UPDATE: waited for, tested again, then written.
DeactivateRow(p, s) ==
    /\ At(p, "deactivate") /\ s \in tx[p].targets /\ RowIsFreeFor(s, p)
    /\ tx' = [tx EXCEPT ![p].targets = @ \ {s},
                        ![p].writes[s] = IF s \in Active THEN "INACTIVE" ELSE @]
    /\ UNCHANGED <<table, attempts, outcome, reading>>

Activate(p) ==
    /\ At(p, "deactivate") /\ tx[p].targets = {}
    /\ tx' = [tx EXCEPT ![p].pc = "commit", ![p].writes[SnapshotOf[p]] = "ACTIVE"]
    /\ UNCHANGED <<table, attempts, outcome, reading>>

\* The answer may be lost on its way to the client.
Commit(p) ==
    LET own == SnapshotOf[p]
        written == tx[p].writes
    IN
    /\ At(p, "commit")
    /\ table' = [s \in Snapshots |->
                    IF s = own
                    THEN [status |-> written[s], content |-> ContentOf[p],
                          parts |-> tx[p].parts]
                    ELSE IF written[s] # "none"
                    THEN [table[s] EXCEPT !.status = written[s]]
                    ELSE table[s]]
    /\ \E how \in {"completed", "lost"} : End(p, how)
    /\ UNCHANGED <<attempts, reading>>

\* A statement, the audit record or the commit fails, or the process dies: the
\* transaction is rolled back.
RollBack(p) ==
    /\ Writes(p) \/ LocksTable(p)
    /\ End(p, "failed")
    /\ UNCHANGED <<table, attempts, reading>>

-----------------------------------------------------------------------------
(* The lineage page: active_snapshot, then its nodes and edges *)

Newest(S) == CHOOSE s \in S : \A t \in S : GeneratedAt[t] <= GeneratedAt[s]

SelectActive(r) ==
    /\ reading[r].pc = "idle"
    /\ reading' = [reading EXCEPT
                     ![r].pc = IF Active = {} THEN "read" ELSE "nodes",
                     ![r].snapshot = IF Active = {} THEN None ELSE Newest(Active)]
    /\ UNCHANGED <<table, tx, attempts, outcome>>

ReadPart(r, part, next) ==
    /\ reading[r].pc = part
    /\ reading' = [reading EXCEPT
                     ![r].pc = next,
                     ![r].parts = @ \cup ({part} \cap table[reading[r].snapshot].parts)]
    /\ UNCHANGED <<table, tx, attempts, outcome>>

ReadNodes(r) == ReadPart(r, "nodes", "edges")
ReadEdges(r) == ReadPart(r, "edges", "read")

ShowPage(r) ==
    /\ reading[r].pc = "read"
    /\ reading' = [reading EXCEPT ![r] = NoRead]
    /\ UNCHANGED <<table, tx, attempts, outcome>>

-----------------------------------------------------------------------------

Publish(p) ==
    \/ Call(p) \/ LookFindsNone(p) \/ LookFindsOther(p) \/ Replay(p)
    \/ LockTable(p) \/ InsertRow(p) \/ InsertIsDuplicate(p)
    \/ InsertNodes(p) \/ InsertEdges(p)
    \/ \E s \in Snapshots : DeactivateRow(p, s)
    \/ Activate(p) \/ Commit(p) \/ RollBack(p)

Read(r) == SelectActive(r) \/ ReadNodes(r) \/ ReadEdges(r) \/ ShowPage(r)

Next == (\E p \in Publishers : Publish(p)) \/ (\E r \in Readers : Read(r))

Spec == Init /\ [][Next]_vars

-----------------------------------------------------------------------------
(* Properties *)

\* A page shows a snapshot with all its nodes and edges, or the empty state: never
\* one that is being written, was half written, or was replaced half way through.
ReadsWhole ==
    \A r \in Readers :
        reading[r].pc = "read" /\ reading[r].snapshot # None => reading[r].parts = Parts

\* Once a snapshot was published there is always one to read: publications that
\* overlap, fail or are rolled back never leave the page without a graph.  And a
\* snapshot that was replaced does not come back: the retry of an import whose
\* answer was lost does not undo the publications that followed it.
NeverUndone ==
    [][/\ Active # {} => Active' # {}
       /\ \A s \in Active' : ~Exists(s) \/ s \in Active]_vars

\* A publisher told `completed' or `already_applied' finds its own content stored
\* under its import, whoever else published under the same one.
SuccessMeansStored ==
    \A p \in Publishers :
        outcome[p] \in {"completed", "already_applied"} =>
            table[SnapshotOf[p]].content = ContentOf[p]

\* A collector's snapshot is never ACTIVE beside another: its table lock orders it
\* against every other publication, those of ingesters that take none included.
CollectedIsAlone ==
    \A p \in Collectors : SnapshotOf[p] \in Active => Active = {SnapshotOf[p]}
=============================================================================
