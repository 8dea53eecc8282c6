----------------------------- MODULE LineageProofs -----------------------------
(***************************************************************************)
(* Theorems about Lineage.  Of its publication, for any number of          *)
(* ingesters, collectors and pages, any snapshots and any content: a page  *)
(* shows a whole snapshot, a success is stored, a collector's snapshot is  *)
(* alone, and nothing that was published is undone.  Of the walk, for any  *)
(* graphs, requests and budgets: a page shows what it should.              *)
(***************************************************************************)
EXTENDS Lineage, SequenceTheorems, FiniteSetTheorems, WellFoundedInduction, TLAPS

-----------------------------------------------------------------------------
(* The inductive invariant *)

IsRow(row) ==
    /\ DOMAIN row = {"status", "content", "parts"}
    /\ row.status \in {"absent", "INACTIVE", "ACTIVE"} /\ row.parts \subseteq Parts

IsTx(t) ==
    /\ DOMAIN t = {"pc", "writes", "parts", "targets"}
    /\ t.pc \in InTransaction \cup {"idle", "look", "lock", "insert"}
    /\ DOMAIN t.writes = Snapshots
    /\ \A s \in Snapshots : t.writes[s] \in {"none", "INACTIVE", "ACTIVE"}
    /\ t.parts \subseteq Parts /\ t.targets \subseteq Snapshots

IsReading(d) ==
    /\ DOMAIN d = {"pc", "snapshot", "parts"}
    /\ d.pc \in {"idle", "nodes", "edges", "read"}
    /\ d.snapshot \in Snapshots \cup {None} /\ d.parts \subseteq Parts

TypeOK ==
    /\ DOMAIN table = Snapshots /\ \A s \in Snapshots : IsRow(table[s])
    /\ DOMAIN tx = Publishers /\ \A p \in Publishers : IsTx(tx[p])
    /\ DOMAIN outcome = Publishers /\ DOMAIN attempts = Publishers
    /\ DOMAIN reading = Readers /\ \A r \in Readers : IsReading(reading[r])

\* A committed row has all its nodes and edges.
RowsAreWhole ==
    \A s \in Snapshots : Exists(s) =>
        table[s].parts = Parts /\ \E p \in Publishers : SnapshotOf[p] = s

\* What an open transaction has written: its own row, which nobody can see, and
\* rows of others, which it only deactivates.
TxInPlace(p) ==
    LET t == tx[p]
        own == SnapshotOf[p]
    IN
    /\ p \in Collectors => t.pc # "look"
    /\ ~Writes(p) => \A s \in Snapshots : t.writes[s] = "none"
    /\ Writes(p) => ~Exists(own) /\ t.writes[own] # "none"
    /\ \A s \in Snapshots \ {own} : \/ t.writes[s] = "none"
                                    \/ t.writes[s] = "INACTIVE" /\ Exists(s)
    /\ \A s \in t.targets : Exists(s)
    /\ t.pc = "edges" => t.parts = {"nodes"}
    /\ t.pc \in {"deactivate", "commit"} => t.parts = Parts
    /\ t.pc = "commit" => t.writes[own] = "ACTIVE" /\ t.targets = {}

WritersInPlace == \A p \in Publishers : TxInPlace(p)

\* A row is written by one transaction at a time, and while a collector holds the
\* table lock nobody else writes at all.
RowsAreLocked ==
    \A p \in Publishers : \A q \in Others(p) : \A s \in Snapshots :
        tx[p].writes[s] = "none" \/ tx[q].writes[s] = "none"

TableIsLocked ==
    \A p \in Collectors : \A q \in Others(p) : LocksTable(p) => ~Writes(q) /\ ~LocksTable(q)

\* The UPDATE of p found the row s, and has not yet lost it.
Deactivates(p, s) == s \in tx[p].targets \/ tx[p].writes[s] = "INACTIVE"

PastUpdate(p) == tx[p].pc \in {"deactivate", "commit"}

\* Nobody who is past the start of its UPDATE misses a collector's snapshot, and a
\* collector misses none.
NoCollectedIsMissed ==
    \A p \in Publishers : PastUpdate(p) =>
        \A k \in Collectors : SnapshotOf[k] \in Active => Deactivates(p, SnapshotOf[k])

CollectorsMissNone ==
    \A k \in Collectors : PastUpdate(k) => \A s \in Active : Deactivates(k, s)

SuccessIsStored ==
    \A p \in Publishers : outcome[p] \in {"completed", "already_applied"} =>
        Exists(SnapshotOf[p]) /\ table[SnapshotOf[p]].content = ContentOf[p]

\* A page keeps to the snapshot it has found.
ReaderInPlace(r) ==
    LET d == reading[r] IN
    /\ d.pc \in {"idle", "nodes"} => d.parts = {}
    /\ d.pc \in {"nodes", "edges"} => d.snapshot \in Snapshots /\ Exists(d.snapshot)
    /\ d.pc = "edges" => d.parts = {"nodes"}
    /\ d.pc = "read" /\ d.snapshot # None => d.parts = Parts

ReadersInPlace == \A r \in Readers : ReaderInPlace(r)

Locks == WritersInPlace /\ RowsAreLocked /\ TableIsLocked

Alone == NoCollectedIsMissed /\ CollectorsMissNone /\ CollectedIsAlone

IInv == TypeOK /\ RowsAreWhole /\ Locks /\ Alone /\ SuccessIsStored /\ ReadersInPlace

-----------------------------------------------------------------------------
(* The newest of the active snapshots *)

\* Only published snapshots are in the table.
LEMMA ActiveIsFinite ==
  ASSUME RowsAreWhole
  PROVE  IsFiniteSet(Active)
<1> DEFINE Published == {SnapshotOf[p] : p \in Publishers}
<1>1. SnapshotOf \in Surjection(Publishers, Published)
  BY LineageAssumption DEF Surjection
<1>2. IsFiniteSet(Published)
  BY <1>1, FS_Surjection, LineageAssumption
<1>3. Active \subseteq Published
  BY DEF Active, RowsAreWhole, Exists
<1> QED
  BY <1>2, <1>3, FS_Subset

\* A finite set that is not empty has a newest snapshot: one with the fewest above it.
LEMMA NewestExists ==
  ASSUME NEW S \in SUBSET Snapshots, IsFiniteSet(S), S # {}
  PROVE  Newest(S) \in S /\ \A t \in S : GeneratedAt[t] <= GeneratedAt[Newest(S)]
<1> DEFINE Above(s) == {t \in S : GeneratedAt[s] < GeneratedAt[t]}
           Tails == {Above(s) : s \in S}
<1>1. Tails \subseteq FiniteSubsetsOf(S) /\ Tails # {}
  <2>1. \A s \in S : Above(s) \in SUBSET S
    OBVIOUS
  <2>2. FiniteSubsetsOf(S) = SUBSET S
    BY FS_FiniteSubsetsOfFinite
  <2> HIDE DEF Above
  <2> QED
    BY <2>1, <2>2
<1>2. PICK T \in Tails : \A U \in Tails : ~(<<U, T>> \in StrictSubsetOrdering(S))
  BY <1>1, FS_StrictSubsetOrderingWellFounded, WFMin
<1>3. PICK s \in S : T = Above(s)
  BY <1>2
<1>4. \A t \in S : GeneratedAt[t] <= GeneratedAt[s]
  <2> SUFFICES ASSUME NEW t \in S, ~(GeneratedAt[t] <= GeneratedAt[s]) PROVE FALSE
    OBVIOUS
  <2>0. \A u \in S : GeneratedAt[u] \in Nat
    BY LineageAssumption
  <2>1. Above(t) \subseteq T /\ t \in T /\ t \notin Above(t) /\ T \subseteq S
    BY <1>3, <2>0
  <2>2. <<Above(t), T>> \in StrictSubsetOrdering(S)
    BY <2>1 DEF StrictSubsetOrdering
  <2>3. Above(t) \in Tails
    OBVIOUS
  <2> QED
    BY <1>2, <2>2, <2>3
<1> QED
  BY <1>4 DEF Newest

-----------------------------------------------------------------------------
(* What a publisher's step leaves alone *)

LEMMA OthersKeepTx ==
  ASSUME TypeOK, NEW p \in Publishers, Publish(p)
  PROVE  /\ \A q \in Others(p) : tx'[q] = tx[q] /\ outcome'[q] = outcome[q]
         /\ reading' = reading
BY DEF TypeOK, Publish, Call, LookFindsNone, LookFindsOther, Replay, LockTable, InsertRow,
       InsertIsDuplicate, InsertNodes, InsertEdges, DeactivateRow, Activate, Commit, RollBack,
       Goto, End, Others
LEMMA OthersKeepPlaces ==
  ASSUME TypeOK, NEW p \in Publishers, Publish(p), NEW q \in Others(p)
  PROVE  /\ tx'[q] = tx[q] /\ Writes(q)' = Writes(q) /\ LocksTable(q)' = LocksTable(q)
         /\ PastUpdate(q)' = PastUpdate(q) /\ q \in Publishers /\ q # p
BY OthersKeepTx DEF Writes, LocksTable, PastUpdate, Others

-----------------------------------------------------------------------------
(* Types *)

LEMMA NoTxTypes == IsTx(NoTx) /\ \A s \in Snapshots : NoTx.writes[s] = "none"
BY DEF IsTx, NoTx, NoWrites

LEMMA PublishTypes ==
  ASSUME TypeOK, WritersInPlace, NEW p \in Publishers, Publish(p)
  PROVE  TypeOK'
<1> USE DEF TypeOK, Goto, At, InTransaction
<1>0. SnapshotOf[p] \in Snapshots
  BY LineageAssumption
<1>1. ASSUME NEW how, End(p, how) PROVE IsTx(tx'[p]) /\ DOMAIN tx' = Publishers /\ DOMAIN outcome' = Publishers
  BY <1>1, NoTxTypes DEF End
<1>2. IsTx(tx'[p]) /\ DOMAIN tx' = Publishers /\ DOMAIN outcome' = Publishers /\ DOMAIN attempts' = Publishers
  <2>1. CASE Call(p)
    <3> DEFINE pc == IF p \in Collectors THEN "lock" ELSE "look"
    <3>1. tx' = [tx EXCEPT ![p].pc = pc] /\ pc \in {"lock", "look"}
      BY <2>1 DEF Call
    <3> HIDE DEF pc
    <3> QED
      BY <2>1, <3>1 DEF IsTx, Call
  <2>2. CASE LookFindsNone(p) \/ LockTable(p)
    BY <2>2 DEF LookFindsNone, LockTable, IsTx
  <2>3. CASE LookFindsOther(p) \/ Replay(p) \/ InsertIsDuplicate(p) \/ RollBack(p) \/ Commit(p)
    BY <1>1, <2>3 DEF LookFindsOther, Replay, InsertIsDuplicate, RollBack, Commit
  <2>4. CASE InsertRow(p)
    BY <1>0, <2>4 DEF InsertRow, IsTx
  <2>5. CASE InsertNodes(p)
    BY <2>5 DEF InsertNodes, IsTx, Parts
  <2>6. CASE InsertEdges(p)
    <3> DEFINE parts == tx[p].parts \cup {"edges"}
    <3>1. tx' = [tx EXCEPT ![p].pc = "deactivate", ![p].parts = parts, ![p].targets = Active]
      BY <2>6 DEF InsertEdges
    <3>2. parts \subseteq Parts /\ Active \subseteq Snapshots
      BY DEF IsTx, Parts, Active
    <3> HIDE DEF parts
    <3> QED
      BY <2>6, <3>1, <3>2 DEF InsertEdges, IsTx
  <2>7. ASSUME NEW s \in Snapshots, DeactivateRow(p, s) PROVE IsTx(tx'[p]) /\ DOMAIN tx' = Publishers
    <3> DEFINE status == IF s \in Active THEN "INACTIVE" ELSE tx[p].writes[s]
               targets == tx[p].targets \ {s}
    <3>1. tx' = [tx EXCEPT ![p].targets = targets, ![p].writes[s] = status]
      BY <2>7 DEF DeactivateRow
    <3>2. status \in {"none", "INACTIVE", "ACTIVE"} /\ targets \subseteq Snapshots
      BY DEF IsTx
    <3> HIDE DEF status, targets
    <3> QED
      BY <3>1, <3>2 DEF IsTx
  <2>8. CASE Activate(p)
    BY <1>0, <2>8 DEF Activate, IsTx
  <2> QED
    BY <2>1, <2>2, <2>3, <2>4, <2>5, <2>6, <2>7, <2>8
       DEF Publish, LookFindsNone, LockTable, LookFindsOther, Replay, InsertRow, InsertIsDuplicate,
           InsertNodes, InsertEdges, DeactivateRow, Activate, Commit, RollBack
<1>3. \A q \in Publishers : IsTx(tx'[q])
  BY <1>2, OthersKeepTx DEF Others
<1>4. DOMAIN table' = Snapshots /\ \A s \in Snapshots : IsRow(table'[s])
  <2>1. CASE Commit(p)
    <3>1. SUFFICES ASSUME NEW s \in Snapshots PROVE IsRow(table'[s])
      BY <2>1 DEF Commit
    <3>2. IsTx(tx[p]) /\ tx[p].writes[s] \in {"none", "INACTIVE", "ACTIVE"} /\ IsRow(table[s])
      BY DEF IsTx
    <3>4. tx[p].writes[SnapshotOf[p]] = "ACTIVE"
      BY <2>1 DEF Commit, WritersInPlace, TxInPlace
    <3>3. \/ table'[s] = [status |-> tx[p].writes[s], content |-> ContentOf[p], parts |-> tx[p].parts]
             /\ s = SnapshotOf[p]
          \/ table'[s] = [table[s] EXCEPT !.status = tx[p].writes[s]] /\ tx[p].writes[s] # "none"
          \/ table'[s] = table[s]
      BY <2>1 DEF Commit
    <3> QED
      BY <3>2, <3>3, <3>4 DEF IsRow, IsTx
  <2>2. CASE ~Commit(p)
    BY <2>2 DEF Publish, Call, LookFindsNone, LockTable, LookFindsOther, Replay, InsertRow,
                InsertIsDuplicate, InsertNodes, InsertEdges, DeactivateRow, Activate, RollBack
  <2> QED
    BY <2>1, <2>2
<1> QED
  BY <1>2, <1>3, <1>4, OthersKeepTx

-----------------------------------------------------------------------------
(* The table *)

\* Until its commit a publication changes nothing that others can see.
LEMMA OnlyCommitPublishes ==
  ASSUME NEW p \in Publishers, Publish(p), ~Commit(p)
  PROVE  table' = table
BY DEF Publish, Call, LookFindsNone, LockTable, LookFindsOther, Replay, InsertRow,
       InsertIsDuplicate, InsertNodes, InsertEdges, DeactivateRow, Activate, RollBack

\* A commit makes one row, its own, and keeps what others have stored.
LEMMA CommitPublishes ==
  ASSUME TypeOK, WritersInPlace, NEW p \in Publishers, Commit(p)
  PROVE  /\ ~Exists(SnapshotOf[p]) /\ SnapshotOf[p] \in Snapshots
         /\ table'[SnapshotOf[p]].status = "ACTIVE"
         /\ table'[SnapshotOf[p]].content = ContentOf[p]
         /\ table'[SnapshotOf[p]].parts = Parts
         /\ \A s \in Snapshots \ {SnapshotOf[p]} :
               /\ table'[s].content = table[s].content /\ table'[s].parts = table[s].parts
               /\ table'[s].status = IF tx[p].writes[s] = "INACTIVE" THEN "INACTIVE"
                                     ELSE table[s].status
               /\ tx[p].writes[s] = "INACTIVE" => Exists(s)
<1> DEFINE own == SnapshotOf[p]
           t == tx[p]
<1>1. own \in Snapshots
  BY LineageAssumption
<1>2. /\ t.pc = "commit" /\ ~Exists(own) /\ t.writes[own] = "ACTIVE" /\ t.parts = Parts
      /\ \A s \in Snapshots \ {own} : \/ t.writes[s] = "none"
                                      \/ t.writes[s] = "INACTIVE" /\ Exists(s)
  <2>1. t.pc = "commit" /\ Writes(p) /\ TxInPlace(p)
    BY DEF WritersInPlace, Commit, At, Writes, InTransaction
  <2> QED
    BY <2>1 DEF TxInPlace
<1>3. table'[own] = [status |-> "ACTIVE", content |-> ContentOf[p], parts |-> Parts]
  BY <1>1, <1>2 DEF Commit
<1>4. ASSUME NEW s \in Snapshots \ {own}
      PROVE  /\ table'[s].content = table[s].content /\ table'[s].parts = table[s].parts
             /\ table'[s].status = IF t.writes[s] = "INACTIVE" THEN "INACTIVE" ELSE table[s].status
  <2>1. \/ t.writes[s] = "none" /\ table'[s] = table[s]
        \/ t.writes[s] = "INACTIVE" /\ table'[s] = [table[s] EXCEPT !.status = "INACTIVE"]
    BY <1>2 DEF Commit
  <2> QED
    BY <2>1 DEF TypeOK, IsRow
<1> QED
  BY <1>1, <1>2, <1>3, <1>4

LEMMA RowsStay ==
  ASSUME TypeOK, WritersInPlace, NEW p \in Publishers, Publish(p), NEW s \in Snapshots, Exists(s)
  PROVE  /\ Exists(s)' /\ table'[s].content = table[s].content
         /\ table'[s].parts = table[s].parts
         /\ s \in Active' => s \in Active
<1>1. CASE Commit(p)
  BY <1>1, CommitPublishes DEF Exists, Active
<1>2. CASE ~Commit(p)
  BY <1>2, OnlyCommitPublishes DEF Exists, Active
<1> QED
  BY <1>1, <1>2

LEMMA PublishKeepsRowsWhole ==
  ASSUME TypeOK, WritersInPlace, RowsAreWhole, NEW p \in Publishers, Publish(p)
  PROVE  RowsAreWhole'
<1>1. CASE Commit(p)
  <2>1. SUFFICES ASSUME NEW s \in Snapshots, Exists(s)'
                 PROVE  table'[s].parts = Parts /\ \E q \in Publishers : SnapshotOf[q] = s
    BY DEF RowsAreWhole
  <2>2. CASE s = SnapshotOf[p]
    BY <1>1, <2>2, CommitPublishes
  <2>3. CASE s # SnapshotOf[p]
    BY <1>1, <2>1, <2>3, CommitPublishes DEF Exists, RowsAreWhole
  <2> QED
    BY <2>2, <2>3
<1>2. CASE ~Commit(p)
  BY <1>2, OnlyCommitPublishes DEF Exists, RowsAreWhole
<1> QED
  BY <1>1, <1>2
-----------------------------------------------------------------------------
(* The locks *)

\* The fields of a transaction after each step of its publisher.
Begins(p) ==
    /\ ~Writes(p) /\ tx'[p].pc \in {"lock", "look", "insert"}
    /\ tx'[p].pc = "insert" /\ p \in Collectors => TableIsFreeFor(p)
    /\ p \in Collectors => tx'[p].pc # "look"
    /\ tx'[p].writes = tx[p].writes /\ tx'[p].targets = tx[p].targets

Inserts(p) ==
    /\ tx[p].pc = "insert" /\ tx'[p].pc = "nodes"
    /\ ~Exists(SnapshotOf[p]) /\ RowIsFreeFor(SnapshotOf[p], p)
    /\ \A q \in Others(p) : ~LocksTable(q)
    /\ \A s \in Snapshots : tx'[p].writes[s] = IF s = SnapshotOf[p] THEN "INACTIVE" ELSE tx[p].writes[s]
    /\ tx'[p].targets = tx[p].targets

Fills(p) ==
    /\ tx'[p].writes = tx[p].writes
    /\ \/ /\ tx[p].pc = "nodes" /\ tx'[p].pc = "edges"
          /\ tx'[p].parts = {"nodes"} /\ tx'[p].targets = tx[p].targets
       \/ /\ tx[p].pc = "edges" /\ tx'[p].pc = "deactivate"
          /\ tx'[p].parts = tx[p].parts \cup {"edges"} /\ tx'[p].targets = Active

Updates(p, s) ==
    /\ tx[p].pc = "deactivate" /\ tx'[p].pc = "deactivate" /\ tx'[p].parts = tx[p].parts
    /\ s \in tx[p].targets /\ RowIsFreeFor(s, p)
    /\ tx'[p].targets = tx[p].targets \ {s}
    /\ \A r \in Snapshots : tx'[p].writes[r] = IF r = s /\ s \in Active THEN "INACTIVE"
                                               ELSE tx[p].writes[r]

Activates(p) ==
    /\ tx[p].pc = "deactivate" /\ tx'[p].pc = "commit" /\ tx'[p].parts = tx[p].parts
    /\ tx[p].targets = {} /\ tx'[p].targets = {}
    /\ \A s \in Snapshots : tx'[p].writes[s] = IF s = SnapshotOf[p] THEN "ACTIVE" ELSE tx[p].writes[s]

EndsTx(p) == tx'[p] = NoTx

LEMMA PublishSteps ==
  ASSUME TypeOK, WritersInPlace, NEW p \in Publishers, Publish(p)
  PROVE  \/ Begins(p) \/ Inserts(p) \/ Fills(p) \/ Activates(p) \/ EndsTx(p)
         \/ \E s \in Snapshots : Updates(p, s)
<1>0. SnapshotOf[p] \in Snapshots /\ IsTx(tx[p]) /\ p \in DOMAIN tx /\ TxInPlace(p)
  BY LineageAssumption DEF TypeOK, WritersInPlace
<1> USE DEF Goto, At
<1>1. CASE Call(p)
  <2> DEFINE pc == IF p \in Collectors THEN "lock" ELSE "look"
  <2>1. tx' = [tx EXCEPT ![p].pc = pc] /\ tx[p].pc = "idle"
    BY <1>1 DEF Call
  <2>2. pc = IF p \in Collectors THEN "lock" ELSE "look"
    OBVIOUS
  <2> HIDE DEF pc
  <2> QED
    BY <1>0, <2>1, <2>2 DEF Begins, Writes, InTransaction, IsTx
<1>2. CASE LookFindsNone(p)
  BY <1>0, <1>2 DEF LookFindsNone, Begins, Writes, InTransaction, IsTx, TxInPlace
<1>3. CASE LockTable(p)
  BY <1>0, <1>3 DEF LockTable, Begins, Writes, InTransaction, IsTx
<1>4. CASE LookFindsOther(p) \/ Replay(p) \/ InsertIsDuplicate(p) \/ RollBack(p) \/ Commit(p)
  BY <1>0, <1>4 DEF LookFindsOther, Replay, InsertIsDuplicate, RollBack, Commit, End, EndsTx
<1>5. CASE InsertRow(p)
  BY <1>0, <1>5 DEF InsertRow, Inserts, IsTx
<1>6. CASE InsertNodes(p)
  BY <1>0, <1>6 DEF InsertNodes, Fills, IsTx
<1>7. CASE InsertEdges(p)
  <2> DEFINE parts == tx[p].parts \cup {"edges"}
             active == Active
  <2>1. tx' = [tx EXCEPT ![p].pc = "deactivate", ![p].parts = parts, ![p].targets = active]
    BY <1>7 DEF InsertEdges
  <2> HIDE DEF parts, active
  <2>2. tx'[p].parts = parts /\ tx'[p].targets = active /\ tx'[p].pc = "deactivate"
        /\ tx'[p].writes = tx[p].writes
    BY <1>0, <2>1 DEF IsTx
  <2> QED
    BY <1>7, <2>2 DEF InsertEdges, Fills, parts, active
<1>8. ASSUME NEW s \in Snapshots, DeactivateRow(p, s) PROVE Updates(p, s)
  <2> DEFINE status == IF s \in Active THEN "INACTIVE" ELSE tx[p].writes[s]
             targets == tx[p].targets \ {s}
  <2>1. tx' = [tx EXCEPT ![p].targets = targets, ![p].writes[s] = status]
    BY <1>8 DEF DeactivateRow
  <2> HIDE DEF status, targets
  <2>2. /\ tx'[p].pc = tx[p].pc /\ tx'[p].parts = tx[p].parts /\ tx'[p].targets = targets
        /\ \A r \in Snapshots : tx'[p].writes[r] = IF r = s THEN status ELSE tx[p].writes[r]
    BY <1>0, <2>1 DEF IsTx
  <2> QED
    BY <1>8, <2>2 DEF DeactivateRow, Updates, status, targets
<1>9. CASE Activate(p)
  BY <1>0, <1>9 DEF Activate, Activates, IsTx
<1> QED
  BY <1>1, <1>2, <1>3, <1>4, <1>5, <1>6, <1>7, <1>8, <1>9 DEF Publish

\* What holds of a transaction that only reads what others commit.
LEMMA OthersStayInPlace ==
  ASSUME TypeOK, Locks, NEW p \in Publishers, Publish(p), NEW q \in Others(p)
  PROVE  TxInPlace(q)'
<1>1. TxInPlace(q) /\ tx'[q] = tx[q] /\ Writes(q)' = Writes(q) /\ q \in Publishers /\ q # p
  BY OthersKeepPlaces DEF Locks, WritersInPlace
<1>2. \A s \in Snapshots : Exists(s) => Exists(s)'
  BY RowsStay DEF Locks
<1>3. Writes(q) => ~Exists(SnapshotOf[q])'
  <2> SUFFICES ASSUME Writes(q) PROVE ~Exists(SnapshotOf[q])'
    OBVIOUS
  <2>1. ~Exists(SnapshotOf[q]) /\ tx[q].writes[SnapshotOf[q]] # "none" /\ SnapshotOf[q] \in Snapshots
    BY <1>1, LineageAssumption DEF TxInPlace
  <2>2. CASE Commit(p)
    <3>1. tx[p].writes[SnapshotOf[p]] = "ACTIVE" /\ SnapshotOf[p] \in Snapshots
      BY <2>2, LineageAssumption DEF Commit, At, Locks, WritersInPlace, TxInPlace
    <3>2. SnapshotOf[p] # SnapshotOf[q]
      BY <1>1, <2>1, <3>1 DEF Locks, RowsAreLocked
    <3> QED
      BY <2>1, <2>2, <3>2, CommitPublishes DEF Locks, Exists
  <2>3. CASE ~Commit(p)
    BY <2>1, <2>3, OnlyCommitPublishes DEF Exists
  <2> QED
    BY <2>2, <2>3
<1>4. IsTx(tx[q])
  BY <1>1 DEF TypeOK
<1> QED
  BY <1>1, <1>2, <1>3, <1>4 DEF TxInPlace, IsTx

LEMMA CommitEnds ==
  ASSUME TypeOK, NEW p \in Publishers, Commit(p)
  PROVE  EndsTx(p) /\ Writes(p) /\ PastUpdate(p)
BY DEF TypeOK, Commit, At, Writes, PastUpdate, InTransaction, End, EndsTx

LEMMA EndsInPlace ==
  ASSUME NEW p \in Publishers, EndsTx(p)
  PROVE  /\ TxInPlace(p)' /\ ~Writes(p)' /\ ~LocksTable(p)' /\ ~PastUpdate(p)'
         /\ \A s \in Snapshots : tx'[p].writes[s] = "none"
<1>1. /\ tx'[p].pc = "idle" /\ tx'[p].targets = {}
      /\ \A s \in Snapshots : tx'[p].writes[s] = "none"
  BY DEF EndsTx, NoTx, NoWrites
<1>2. ~Writes(p)' /\ ~LocksTable(p)' /\ ~PastUpdate(p)'
  BY <1>1 DEF Writes, LocksTable, PastUpdate, InTransaction
<1> QED
  BY <1>1, <1>2 DEF TxInPlace

LEMMA OwnStaysInPlace ==
  ASSUME TypeOK, WritersInPlace, NEW p \in Publishers, Publish(p)
  PROVE  TxInPlace(p)'
<1>1. SnapshotOf[p] \in Snapshots /\ IsTx(tx[p]) /\ TxInPlace(p)
  BY LineageAssumption DEF TypeOK, WritersInPlace
<1>2. CASE EndsTx(p)
  BY <1>2, EndsInPlace
<1>3. ASSUME ~EndsTx(p) PROVE TxInPlace(p)'
  <2>1. table' = table
    BY <1>3, OnlyCommitPublishes, CommitEnds
  <2>2. \A s : Exists(s)' <=> Exists(s)
    BY <2>1 DEF Exists
  <2> USE <1>1, <2>2 DEF Writes, InTransaction, IsTx
  <2>3. CASE Begins(p)
    BY <2>3 DEF Begins, TxInPlace
  <2>4. CASE Inserts(p)
    BY <2>4 DEF Inserts, TxInPlace
  <2>5. CASE Fills(p)
    <3>1. \A s \in Active : Exists(s)
      BY DEF Active, Exists
    <3> QED
      BY <2>5, <3>1 DEF Fills, TxInPlace, Parts
  <2>6. CASE Activates(p)
    BY <2>6 DEF Activates, TxInPlace
  <2>7. ASSUME NEW s \in Snapshots, Updates(p, s) PROVE TxInPlace(p)'
    <3>1. s # SnapshotOf[p] /\ Exists(s)
      BY <2>7 DEF Updates, TxInPlace
    <3> QED
      BY <2>7, <3>1 DEF Updates, TxInPlace
  <2> QED
    BY <1>3, <2>3, <2>4, <2>5, <2>6, <2>7, PublishSteps
<1> QED
  BY <1>2, <1>3

LEMMA PublishKeepsTableLocked ==
  ASSUME TypeOK, Locks, NEW p \in Publishers, Publish(p)
  PROVE  TableIsLocked'
<1>1. \A q \in Others(p) : /\ Writes(q)' = Writes(q) /\ LocksTable(q)' = LocksTable(q)
                           /\ q \in Publishers /\ q # p
  BY OthersKeepPlaces
<1>2. /\ LocksTable(p) => \A q \in Others(p) : ~Writes(q) /\ ~LocksTable(q)
      /\ \A q \in Others(p) : LocksTable(q) => ~Writes(p) /\ ~LocksTable(p)
  BY <1>1 DEF Locks, TableIsLocked, LocksTable, Others
<1>3. /\ LocksTable(p)' => \A q \in Others(p) : ~Writes(q) /\ ~LocksTable(q)
      /\ \A q \in Others(p) : LocksTable(q) => ~Writes(p)' /\ ~LocksTable(p)'
  <2> USE <1>2 DEF Writes, LocksTable, InTransaction, TableIsFreeFor
  <2>1. CASE Begins(p)
    BY <2>1 DEF Begins
  <2>2. CASE Inserts(p)
    BY <2>2 DEF Inserts
  <2>3. CASE Fills(p)
    BY <2>3 DEF Fills
  <2>4. CASE Activates(p)
    BY <2>4 DEF Activates
  <2>5. CASE EndsTx(p)
    BY <2>5, EndsInPlace
  <2>6. ASSUME NEW s \in Snapshots, Updates(p, s)
        PROVE  /\ LocksTable(p)' => \A q \in Others(p) : ~Writes(q) /\ ~LocksTable(q)
               /\ \A q \in Others(p) : LocksTable(q) => ~Writes(p)' /\ ~LocksTable(p)'
    BY <2>6 DEF Updates
  <2> QED
    BY <2>1, <2>2, <2>3, <2>4, <2>5, <2>6, PublishSteps DEF Locks
<1> SUFFICES ASSUME NEW k \in Collectors, NEW q \in Others(k), LocksTable(k)'
             PROVE  ~Writes(q)' /\ ~LocksTable(q)'
  BY DEF TableIsLocked
<1>4. CASE k = p
  BY <1>1, <1>3, <1>4
<1>5. CASE k # p /\ q = p
  BY <1>1, <1>3, <1>5 DEF Others, Publishers
<1>6. CASE k # p /\ q # p
  BY <1>1, <1>6 DEF Locks, TableIsLocked, Others, Publishers
<1> QED
  BY <1>4, <1>5, <1>6

LEMMA PublishKeepsRowsLocked ==
  ASSUME TypeOK, Locks, NEW p \in Publishers, Publish(p)
  PROVE  RowsAreLocked'
<1>1. \A q \in Others(p) : tx'[q] = tx[q] /\ q \in Publishers /\ q # p
  BY OthersKeepPlaces
<1> DEFINE Disjoint(w, q) == \A s \in Snapshots : w[s] = "none" \/ tx[q].writes[s] = "none"
<1>2. \A q \in Others(p) : Disjoint(tx[p].writes, q)
  BY <1>1 DEF Locks, RowsAreLocked
<1>3. \A q \in Others(p) : Disjoint(tx'[p].writes, q)
  <2>1. CASE Begins(p)
    BY <1>2, <2>1 DEF Begins
  <2>2. CASE Inserts(p)
    BY <1>2, <2>2 DEF Inserts, RowIsFreeFor
  <2>3. CASE Fills(p)
    BY <1>2, <2>3 DEF Fills
  <2>4. CASE Activates(p)
    <3>1. tx[p].writes[SnapshotOf[p]] # "none" /\ SnapshotOf[p] \in Snapshots
      BY <2>4, LineageAssumption DEF Activates, Locks, WritersInPlace, TxInPlace, Writes, InTransaction
    <3> QED
      BY <1>2, <2>4, <3>1 DEF Activates
  <2>5. CASE EndsTx(p)
    BY <2>5, EndsInPlace
  <2>6. ASSUME NEW s \in Snapshots, Updates(p, s) PROVE \A q \in Others(p) : Disjoint(tx'[p].writes, q)
    BY <1>2, <2>6 DEF Updates, RowIsFreeFor
  <2> QED
    BY <2>1, <2>2, <2>3, <2>4, <2>5, <2>6, PublishSteps DEF Locks
<1> QED
  BY <1>1, <1>2, <1>3 DEF Locks, RowsAreLocked, Others

LEMMA PublishKeepsLocks ==
  ASSUME TypeOK, Locks, NEW p \in Publishers, Publish(p)
  PROVE  Locks'
<1>1. WritersInPlace'
  BY OthersStayInPlace, OwnStaysInPlace DEF Locks, WritersInPlace, Others
<1> QED
  BY <1>1, PublishKeepsTableLocked, PublishKeepsRowsLocked DEF Locks

-----------------------------------------------------------------------------
(* Collectors *)

\* While a collector writes, what is ACTIVE stays as it is.
LEMMA CollectorsAlone ==
  ASSUME TypeOK, Locks, NEW k \in Collectors, Writes(k), NEW p \in Others(k)
  PROVE  ~PastUpdate(p)
BY DEF Locks, TableIsLocked, LocksTable, PastUpdate, Writes, InTransaction

\* A step of the UPDATE loses no row that is ACTIVE.
LEMMA UpdateMissesNone ==
  ASSUME TypeOK, WritersInPlace, NEW p \in Publishers, Publish(p), PastUpdate(p)',
         NEW s \in Active, PastUpdate(p) => Deactivates(p, s)
  PROVE  Deactivates(p, s)'
<1> USE DEF PastUpdate, Deactivates
<1>0. s \in Snapshots /\ Exists(s)
  BY DEF Active, Exists
<1>1. CASE Begins(p)
  BY <1>1 DEF Begins
<1>2. CASE Inserts(p)
  BY <1>2 DEF Inserts
<1>3. CASE Fills(p)
  BY <1>3 DEF Fills
<1>4. CASE Activates(p)
  <2>1. s # SnapshotOf[p]
    BY <1>0, <1>4 DEF Activates, WritersInPlace, TxInPlace, Writes, InTransaction
  <2> QED
    BY <1>0, <1>4, <2>1 DEF Activates
<1>5. CASE EndsTx(p)
  BY <1>5, EndsInPlace
<1>6. ASSUME NEW r \in Snapshots, Updates(p, r) PROVE Deactivates(p, s)'
  BY <1>0, <1>6 DEF Updates
<1> QED
  BY <1>1, <1>2, <1>3, <1>4, <1>5, <1>6, PublishSteps

\* What a commit leaves ACTIVE of the rows of others.
LEMMA CommitDeactivates ==
  ASSUME TypeOK, WritersInPlace, NEW p \in Publishers, Commit(p)
  PROVE  /\ Active' \subseteq Active \cup {SnapshotOf[p]} /\ SnapshotOf[p] \in Active'
         /\ \A s \in Active : Deactivates(p, s) => s \notin Active'
<1>1. tx[p].targets = {} /\ tx[p].pc = "commit"
  BY DEF WritersInPlace, TxInPlace, Commit, At
<1> QED
  BY <1>1, CommitPublishes DEF Active, Deactivates, Exists

LEMMA PublishKeepsAlone ==
  ASSUME TypeOK, Locks, Alone, NEW p \in Publishers, Publish(p)
  PROVE  Alone'
<1>0. \A q \in Others(p) : /\ tx'[q] = tx[q] /\ PastUpdate(q)' = PastUpdate(q)
                           /\ q \in Publishers /\ q # p
  BY OthersKeepPlaces
<1>1. CASE Commit(p)
  <2>0. Writes(p) /\ PastUpdate(p) /\ EndsTx(p) /\ WritersInPlace
    BY <1>1, CommitEnds DEF Locks
  <2>1. /\ Active' \subseteq Active \cup {SnapshotOf[p]}
        /\ \A s \in Active : Deactivates(p, s) => s \notin Active'
    BY <1>1, <2>0, CommitDeactivates
  <2>2. ~PastUpdate(p)'
    BY <2>0, EndsInPlace
  <2>3. NoCollectedIsMissed'
    <3> SUFFICES ASSUME NEW q \in Publishers, PastUpdate(q)', NEW k \in Collectors,
                        SnapshotOf[k] \in Active'
                 PROVE  Deactivates(q, SnapshotOf[k])'
      BY DEF NoCollectedIsMissed
    <3>1. q \in Others(p) /\ PastUpdate(q) /\ tx'[q] = tx[q]
      BY <1>0, <2>2 DEF Others
    <3>2. p \notin Collectors
      BY <2>0, <3>1, CollectorsAlone
    <3>3. SnapshotOf[k] \in Active
      BY <2>1, <3>2, LineageAssumption DEF Publishers
    <3>4. Deactivates(q, SnapshotOf[k])
      BY <3>1, <3>3 DEF Alone, NoCollectedIsMissed
    <3> QED
      BY <3>1, <3>4 DEF Deactivates
  <2>4. CollectorsMissNone'
    <3> SUFFICES ASSUME NEW k \in Collectors, PastUpdate(k)' PROVE FALSE
      BY DEF CollectorsMissNone
    <3>1. k \in Others(p) /\ PastUpdate(k)
      BY <1>0, <2>2 DEF Others, Publishers
    <3>2. Writes(k) /\ p \in Others(k)
      BY <3>1 DEF PastUpdate, Writes, InTransaction, Others
    <3> QED
      BY <2>0, <3>2, CollectorsAlone
  <2>5. CollectedIsAlone'
    <3> SUFFICES ASSUME NEW k \in Collectors, SnapshotOf[k] \in Active'
                 PROVE  Active' = {SnapshotOf[k]}
      BY DEF CollectedIsAlone
    <3>1. CASE SnapshotOf[k] \in Active
      <4>1. Active = {SnapshotOf[k]} /\ Deactivates(p, SnapshotOf[k])
        BY <2>0, <3>1 DEF Alone, CollectedIsAlone, NoCollectedIsMissed
      <4> QED
        BY <2>1, <4>1
    <3>2. CASE SnapshotOf[k] \notin Active
      <4>1. SnapshotOf[p] = SnapshotOf[k]
        BY <2>1, <3>2
      <4>2. p \in Collectors
        BY <4>1, LineageAssumption DEF Publishers
      <4>3. \A s \in Active : Deactivates(p, s)
        BY <2>0, <4>2 DEF Alone, CollectorsMissNone
      <4> QED
        BY <2>1, <4>1, <4>3
    <3> QED
      BY <3>1, <3>2
  <2> QED
    BY <2>3, <2>4, <2>5 DEF Alone
<1>2. CASE ~Commit(p)
  <2>1. Active' = Active
    BY <1>2, OnlyCommitPublishes DEF Active
  <2>2. ASSUME NEW q \in Publishers, PastUpdate(q)', NEW s \in Active,
               PastUpdate(q) => Deactivates(q, s)
        PROVE  Deactivates(q, s)'
    <3>1. CASE q = p
      BY <2>2, <3>1, UpdateMissesNone DEF Locks
    <3>2. CASE q # p
      BY <1>0, <2>2, <3>2 DEF Others, Deactivates
    <3> QED
      BY <3>1, <3>2
  <2>3. NoCollectedIsMissed'
    BY <2>1, <2>2 DEF Alone, NoCollectedIsMissed
  <2>4. CollectorsMissNone'
    BY <2>1, <2>2 DEF Alone, CollectorsMissNone, Publishers
  <2> QED
    BY <2>1, <2>3, <2>4 DEF Alone, CollectedIsAlone
<1> QED
  BY <1>1, <1>2
-----------------------------------------------------------------------------
(* Answers and pages *)

LEMMA PublishKeepsSuccess ==
  ASSUME TypeOK, WritersInPlace, SuccessIsStored, NEW p \in Publishers, Publish(p)
  PROVE  SuccessIsStored'
<1> DEFINE Told(q) == outcome[q] \in {"completed", "already_applied"}
           Stored(q) == Exists(SnapshotOf[q]) /\ table[SnapshotOf[q]].content = ContentOf[q]
<1>0. \A q \in Publishers : SnapshotOf[q] \in Snapshots
  BY LineageAssumption
<1>1. \A q \in Publishers : Stored(q) => Stored(q)'
  BY <1>0, RowsStay
<1>2. \A q \in Others(p) : Told(q)' => Stored(q)
  BY OthersKeepTx DEF SuccessIsStored, Others
<1>3. Told(p)' => Stored(p)'
  <2>1. CASE Commit(p)
    BY <2>1, CommitPublishes DEF Exists
  <2>2. CASE Replay(p)
    BY <1>1, <2>2 DEF Replay, SameContent
  <2>3. CASE LookFindsOther(p) \/ InsertIsDuplicate(p) \/ RollBack(p)
    BY <2>3 DEF LookFindsOther, InsertIsDuplicate, RollBack, End, TypeOK
  <2>4. CASE outcome' = outcome
    BY <1>1, <2>4 DEF SuccessIsStored
  <2> QED
    BY <2>1, <2>2, <2>3, <2>4 DEF Publish, Call, LookFindsNone, LockTable, InsertRow, InsertNodes,
       InsertEdges, DeactivateRow, Activate
<1> QED
  BY <1>1, <1>2, <1>3 DEF SuccessIsStored, Others

LEMMA PublishKeepsReaders ==
  ASSUME TypeOK, WritersInPlace, ReadersInPlace, NEW p \in Publishers, Publish(p)
  PROVE  ReadersInPlace'
<1>1. reading' = reading
  BY OthersKeepTx
<1>2. \A s \in Snapshots : Exists(s) => Exists(s)'
  BY RowsStay
<1> QED
  BY <1>1, <1>2 DEF ReadersInPlace, ReaderInPlace

LEMMA ReadKeepsReaders ==
  ASSUME TypeOK, RowsAreWhole, ReadersInPlace, NEW r \in Readers, Read(r)
  PROVE  /\ ReadersInPlace' /\ TypeOK'
<1>1. /\ UNCHANGED <<table, tx, attempts, outcome>> /\ DOMAIN reading' = Readers
      /\ \A q \in Readers \ {r} : reading'[q] = reading[q]
  BY DEF Read, SelectActive, ReadNodes, ReadEdges, ReadPart, ShowPage, TypeOK
<1>2. SUFFICES ReaderInPlace(r)' /\ IsReading(reading'[r])
  <2>1. \A q \in Readers \ {r} : ReaderInPlace(q)'
    BY <1>1 DEF ReadersInPlace, ReaderInPlace, Exists
  <2>2. IsReading(reading'[r]) => TypeOK'
    BY <1>1 DEF TypeOK
  <2> QED
    BY <2>1, <2>2 DEF ReadersInPlace
<1>3. IsReading(reading[r]) /\ ReaderInPlace(r) /\ r \in DOMAIN reading
  BY DEF TypeOK, ReadersInPlace
<1>4. \A s : Exists(s)' = Exists(s)
  BY <1>1 DEF Exists
<1> USE <1>3, <1>4 DEF ReaderInPlace, IsReading
<1>5. CASE SelectActive(r)
  <2> DEFINE pc == IF Active = {} THEN "read" ELSE "nodes"
             found == IF Active = {} THEN None ELSE Newest(Active)
  <2>1. reading' = [reading EXCEPT ![r].pc = pc, ![r].snapshot = found] /\ reading[r].pc = "idle"
    BY <1>5 DEF SelectActive
  <2>2. \/ pc = "read" /\ found = None
        \/ pc = "nodes" /\ found \in Snapshots /\ Exists(found)
    <3>1. CASE Active = {}
      BY <3>1
    <3>2. CASE Active # {}
      <4>1. Newest(Active) \in Active /\ Active \subseteq Snapshots
        BY <3>2, ActiveIsFinite, NewestExists DEF Active
      <4> QED
        BY <3>2, <4>1 DEF Active, Exists
    <3> QED
      BY <3>1, <3>2
  <2> HIDE DEF pc, found
  <2> QED
    BY <2>1, <2>2
<1>6. ASSUME NEW part \in Parts, NEW next \in {"edges", "read"}, ReadPart(r, part, next),
             part = "nodes" <=> next = "edges"
      PROVE  ReaderInPlace(r)' /\ IsReading(reading'[r])
  <2> DEFINE parts == reading[r].parts \cup ({part} \cap table[reading[r].snapshot].parts)
  <2>1. reading' = [reading EXCEPT ![r].pc = next, ![r].parts = parts] /\ reading[r].pc = part
    BY <1>6 DEF ReadPart
  <2>2. reading[r].snapshot \in Snapshots /\ Exists(reading[r].snapshot)
    BY <1>6, <2>1 DEF Parts
  <2>3. parts = IF part = "nodes" THEN {"nodes"} ELSE Parts
    BY <1>6, <2>1, <2>2 DEF RowsAreWhole, Parts
  <2> HIDE DEF parts
  <2> QED
    BY <1>6, <2>1, <2>2, <2>3 DEF Parts
<1>7. CASE ReadNodes(r)
  BY <1>6, <1>7 DEF ReadNodes, Parts
<1>8. CASE ReadEdges(r)
  BY <1>6, <1>8 DEF ReadEdges, Parts
<1>9. CASE ShowPage(r)
  BY <1>9 DEF ShowPage, NoRead
<1> QED
  BY <1>5, <1>7, <1>8, <1>9 DEF Read

-----------------------------------------------------------------------------
(* The invariant, and what it implies *)

LEMMA InitIInv == Init => IInv
<1> SUFFICES ASSUME Init PROVE IInv
  OBVIOUS
<1>1. /\ \A s \in Snapshots : table[s].status = "absent" /\ table[s].parts = {}
      /\ \A p \in Publishers : tx[p] = NoTx /\ outcome[p] = "none"
      /\ \A r \in Readers : reading[r].pc = "idle" /\ reading[r].parts = {}
  BY DEF Init, NoRow, NoRead
<1>2. TypeOK
  BY NoTxTypes DEF Init, TypeOK, NoRow, NoRead, IsRow, IsReading
<1>3. \A p \in Publishers : /\ tx[p].pc = "idle" /\ tx[p].targets = {}
                            /\ \A s \in Snapshots : tx[p].writes[s] = "none"
  BY <1>1 DEF NoTx, NoWrites
<1>4. Active = {} /\ \A s \in Snapshots : ~Exists(s)
  BY <1>1 DEF Active, Exists
<1>5. \A p \in Publishers : SnapshotOf[p] \in Snapshots
  BY LineageAssumption
<1>6. Locks
  BY <1>3, <1>4, <1>5 DEF Locks, WritersInPlace, TxInPlace, RowsAreLocked, TableIsLocked, LocksTable,
     Writes, InTransaction, Publishers
<1>7. RowsAreWhole /\ Alone /\ SuccessIsStored /\ ReadersInPlace
  BY <1>1, <1>4, <1>5 DEF RowsAreWhole, Alone, NoCollectedIsMissed, CollectorsMissNone,
     CollectedIsAlone, SuccessIsStored, ReadersInPlace, ReaderInPlace
<1> QED
  BY <1>2, <1>6, <1>7 DEF IInv

LEMMA NextIInv == IInv /\ [Next]_vars => IInv'
<1> SUFFICES ASSUME IInv, [Next]_vars PROVE IInv'
  OBVIOUS
<1> USE DEF IInv
<1>1. ASSUME NEW p \in Publishers, Publish(p) PROVE IInv'
  BY <1>1, PublishTypes, PublishKeepsRowsWhole, PublishKeepsLocks, PublishKeepsAlone,
     PublishKeepsSuccess, PublishKeepsReaders DEF Locks
<1>2. ASSUME UNCHANGED <<table, tx, outcome>> PROVE (RowsAreWhole /\ Locks /\ Alone /\ SuccessIsStored)'
  BY <1>2 DEF RowsAreWhole, Exists, Locks, WritersInPlace, TxInPlace, RowsAreLocked, TableIsLocked,
     LocksTable, Writes, Alone, NoCollectedIsMissed, CollectorsMissNone, CollectedIsAlone, Active,
     Deactivates, PastUpdate, SuccessIsStored
<1>3. ASSUME NEW r \in Readers, Read(r) PROVE IInv'
  <2>1. UNCHANGED <<table, tx, outcome>>
    BY <1>3 DEF Read, SelectActive, ReadNodes, ReadEdges, ReadPart, ShowPage
  <2> QED
    BY <1>2, <1>3, <2>1, ReadKeepsReaders
<1>4. CASE UNCHANGED vars
  <2>1. UNCHANGED <<table, tx, outcome>>
    BY <1>4 DEF vars
  <2>2. TypeOK' /\ ReadersInPlace'
    BY <1>4 DEF vars, TypeOK, ReadersInPlace, ReaderInPlace, Exists
  <2> QED
    BY <1>2, <2>1, <2>2
<1> QED
  BY <1>1, <1>3, <1>4 DEF Next

LEMMA Invariance == Spec => []IInv
BY InitIInv, NextIInv, PTL DEF Spec

\* A page shows a snapshot with all its nodes and edges or none at all, whatever is
\* published, replaced or rolled back between its three queries.
THEOREM PagesAreWhole == Spec => []ReadsWhole
<1>1. IInv => ReadsWhole
  BY DEF IInv, ReadsWhole, ReadersInPlace, ReaderInPlace
<1> QED
  BY <1>1, Invariance, PTL

\* `completed' and `already_applied' are never told of a content that is not the
\* stored one, for any number of publishers of one import.
THEOREM SuccessIsTrue == Spec => []SuccessMeansStored
<1>1. IInv => SuccessMeansStored
  BY DEF IInv, SuccessMeansStored, SuccessIsStored
<1> QED
  BY <1>1, Invariance, PTL

\* The table lock of a collector is enough to keep its snapshot alone, though the
\* ingesters take no such lock.
THEOREM CollectorsPublishAlone == Spec => []CollectedIsAlone
<1>1. IInv => CollectedIsAlone
  BY DEF IInv, Alone
<1> QED
  BY <1>1, Invariance, PTL

\* No publication leaves the page without a graph, and none brings a replaced
\* snapshot back.
THEOREM NothingIsUndone == Spec => NeverUndone
<1> DEFINE Kept == /\ Active # {} => Active' # {}
                   /\ \A s \in Active' : ~Exists(s) \/ s \in Active
<1>1. IInv /\ [Next]_vars => [Kept]_vars
  <2> SUFFICES ASSUME IInv, Next PROVE Kept
    OBVIOUS
  <2> USE DEF IInv, Locks
  <2>1. ASSUME NEW p \in Publishers, Commit(p) PROVE Kept
    <3>1. SnapshotOf[p] \in Active' /\ Publish(p) /\ Active' \subseteq Snapshots
      BY <2>1, CommitDeactivates, PublishTypes DEF Publish, Active, TypeOK
    <3> QED
      BY <3>1, RowsStay
  <2>2. CASE UNCHANGED table
    BY <2>2 DEF Active
  <2> QED
    BY <2>1, <2>2, OnlyCommitPublishes
       DEF Next, Read, SelectActive, ReadNodes, ReadEdges, ReadPart, ShowPage
<1> QED
  BY <1>1, Invariance, PTL DEF Spec, NeverUndone

\* What a behaviour of the whole shows of the publication is one of LineagePublish:
\* the four theorems hold of it too.
THEOREM LineagePublishes == LineageSpec => Spec
<1>1. LineageInit => Init
  BY DEF LineageInit
<1>2. [LineageNext]_allVars => [Next]_vars
  BY DEF LineageNext, allVars
<1> QED
  BY <1>1, <1>2, PTL DEF LineageSpec, Spec

-----------------------------------------------------------------------------
(* Lists *)

IsList(seq) == seq \in Seq(ToSet(seq))

\* A set that holds 0 and with each number the next one holds them all.
LEMMA SetInduction ==
    ASSUME NEW S, 0 \in S, \A n \in Nat : n \in S => n + 1 \in S
    PROVE  Nat \subseteq S
<1> DEFINE R == OpToRel(<, Nat)
           T == Nat \ S
<1>1. R = {ss \in Nat \X Nat : ss[1] < ss[2]}
    BY DEF OpToRel
<1>2. IsWellFoundedOn(R, Nat)
    BY NatLessThanWellFounded
<1> HIDE DEF R
<1>3. ASSUME T # {} PROVE FALSE
    <2>1. T \subseteq Nat
        OBVIOUS
    <2> HIDE DEF T
    <2>2. PICK x \in T : \A y \in T : ~ (<<y, x>> \in R)
        BY <1>2, <1>3, <2>1, WFMin
    <2> USE DEF T
    <2>3. x # 0 /\ x \in Nat
        OBVIOUS
    <2>4. x - 1 \in Nat /\ x - 1 \in T
        BY <2>3
    <2>5. <<x - 1, x>> \in R
        BY <1>1, <2>3, <2>4
    <2> QED BY <2>2, <2>4, <2>5
<1> QED BY <1>3

LEMMA MaxOf ==
    ASSUME NEW n \in Nat, NEW t \in SUBSET (1 .. n + 1), n + 1 \in t
    PROVE  Max(t) = n + 1
<1>1. n + 1 \in t /\ \A y \in t : n + 1 >= y
    OBVIOUS
<1>2. \A x \in t : (\A y \in t : x >= y) => x = n + 1
    OBVIOUS
<1> QED BY <1>1, <1>2 DEF Max

\* What the folds over the first elements are.
LEMMA UpTo ==
    ASSUME NEW m \in Nat
    PROVE  /\ 1 .. m + 1 # {} /\ Max(1 .. m + 1) = m + 1
           /\ (1 .. m + 1) \ {m + 1} = 1 .. m
<1>1. m + 1 \in 1 .. m + 1
    OBVIOUS
<1>2. Max(1 .. m + 1) = m + 1
    BY <1>1, MaxOf
<1>3. \A x : x \in (1 .. m + 1) \ {m + 1} <=> x \in 1 .. m
    OBVIOUS
<1>4. (1 .. m + 1) \ {m + 1} = 1 .. m
    BY <1>3
<1> QED BY <1>1, <1>2, <1>4

LEMMA ListIs ==
    ASSUME NEW seq, IsList(seq)
    PROVE  /\ Len(seq) \in Nat /\ DOMAIN seq = 1 .. Len(seq)
           /\ seq \in Seq(ToSet(seq))
           /\ \A x : x \in ToSet(seq) <=> \E i \in 1 .. Len(seq) : x = seq[i]
<1>1. Len(seq) \in Nat /\ DOMAIN seq = 1 .. Len(seq)
    BY LenProperties DEF IsList
<1> QED BY <1>1 DEF IsList, ToSet

LEMMA ListOf ==
    ASSUME NEW n \in Nat, NEW f, f = [i \in 1 .. n |-> f[i]]
    PROVE  /\ IsList(f) /\ Len(f) = n /\ DOMAIN f = 1 .. n
           /\ \A x : x \in ToSet(f) <=> \E i \in 1 .. n : x = f[i]
<1>1. DOMAIN f = 1 .. n
    OBVIOUS
<1>2. \A x : x \in ToSet(f) <=> \E i \in 1 .. n : x = f[i]
    BY <1>1 DEF ToSet
<1> DEFINE S == ToSet(f)
<1>3. \A i \in 1 .. n : f[i] \in S
    BY <1>2
<1> HIDE DEF S
<1>4. f \in [1 .. n -> S]
    BY <1>3
<1>5. f \in Seq(S)
    BY <1>4, SeqDef
<1>6. Len(f) = n
    BY <1>1, <1>5, LenProperties
<1> QED BY <1>1, <1>2, <1>5, <1>6 DEF IsList, S

LEMMA ListOfAny ==
    ASSUME NEW S, NEW seq \in Seq(S)
    PROVE  IsList(seq) /\ ToSet(seq) \subseteq S
<1>1. /\ Len(seq) \in Nat /\ seq \in [1 .. Len(seq) -> S]
    BY LenProperties
<1>2. seq = [i \in 1 .. Len(seq) |-> seq[i]]
    BY <1>1
<1>3. IsList(seq) /\ \A x : x \in ToSet(seq) <=> \E i \in 1 .. Len(seq) : x = seq[i]
    BY <1>1, <1>2, ListOf
<1> QED BY <1>1, <1>3

LEMMA NoList == IsList(<<>>) /\ ToSet(<<>>) = {}
BY DEF IsList, ToSet

LEMMA Joins ==
    ASSUME NEW a, NEW b, IsList(a), IsList(b)
    PROVE  IsList(a \o b) /\ ToSet(a \o b) = ToSet(a) \cup ToSet(b)
<1> DEFINE S == ToSet(a) \cup ToSet(b)
           c == a \o b
<1>1. ToSet(a) \subseteq S /\ ToSet(b) \subseteq S
    OBVIOUS
<1>2. /\ Len(a) \in Nat /\ \A x : x \in ToSet(a) <=> \E i \in 1 .. Len(a) : x = a[i]
      /\ Len(b) \in Nat /\ \A x : x \in ToSet(b) <=> \E i \in 1 .. Len(b) : x = b[i]
    BY ListIs
<1> HIDE DEF S
<1>3. a \in Seq(S) /\ b \in Seq(S)
    BY <1>1, SeqMonotonic DEF IsList
<1>4. /\ c \in Seq(S) /\ Len(c) = Len(a) + Len(b)
      /\ \A i \in 1 .. Len(a) + Len(b) :
            c[i] = IF i <= Len(a) THEN a[i] ELSE b[i - Len(a)]
    BY <1>3, ConcatProperties
<1> HIDE DEF c
<1>5. IsList(c) /\ ToSet(c) \subseteq S
    BY <1>4, ListOfAny
<1>6. \A x : x \in ToSet(c) <=> \E i \in 1 .. Len(c) : x = c[i]
    BY <1>5, ListIs
<1>7. ASSUME NEW i \in 1 .. Len(a) PROVE a[i] \in ToSet(c)
    <2>1. i \in 1 .. Len(c) /\ c[i] = a[i]
        BY <1>2, <1>4
    <2> QED BY <1>6, <2>1
<1>8. ASSUME NEW i \in 1 .. Len(b) PROVE b[i] \in ToSet(c)
    <2> DEFINE k == i + Len(a)
    <2>1. k \in 1 .. Len(a) + Len(b) /\ ~(k <= Len(a)) /\ k - Len(a) = i
        BY <1>2
    <2> HIDE DEF k
    <2>2. k \in 1 .. Len(c) /\ c[k] = b[k - Len(a)]
        BY <1>4, <2>1
    <2>3. c[k] = b[i]
        BY <2>1, <2>2
    <2> QED BY <1>6, <2>2, <2>3
<1>9. ToSet(a) \subseteq ToSet(c) /\ ToSet(b) \subseteq ToSet(c)
    BY <1>2, <1>7, <1>8
<1> QED BY <1>5, <1>9 DEF S, c

\* Lists joined one after the other.
IsFlat(f, seqs, n) ==
    f = [i \in 1 .. n |-> IF i = 1 THEN seqs[i] ELSE f[i - 1] \o seqs[i]]

LEMMA FlatExists ==
    ASSUME NEW seqs, NEW n \in Nat
    PROVE  \E f : IsFlat(f, seqs, n)
<1> DEFINE T == {m \in Nat : \E f : IsFlat(f, seqs, m)}
<1>1. 0 \in T
    <2> DEFINE f == [i \in 1 .. 0 |-> seqs[i]]
    <2>1. f = [i \in 1 .. 0 |-> IF i = 1 THEN seqs[i] ELSE f[i - 1] \o seqs[i]]
        OBVIOUS
    <2> HIDE DEF f
    <2>2. IsFlat(f, seqs, 0)
        BY <2>1 DEF IsFlat
    <2> QED BY <2>2
<1>2. ASSUME NEW m \in Nat, m \in T PROVE m + 1 \in T
    <2>1. PICK f : IsFlat(f, seqs, m)
        BY <1>2
    <2> DEFINE next == IF m = 0 THEN seqs[1] ELSE f[m] \o seqs[m + 1]
               g == [i \in 1 .. m + 1 |-> IF i = m + 1 THEN next ELSE f[i]]
               h == [i \in 1 .. m + 1 |-> IF i = 1 THEN seqs[i] ELSE g[i - 1] \o seqs[i]]
    <2>2. ASSUME NEW i \in 1 .. m + 1 PROVE g[i] = h[i]
        <3>1. CASE i = m + 1 /\ m = 0
            BY <3>1
        <3>2. CASE i = m + 1 /\ m # 0
            <4>1. i # 1 /\ i - 1 = m /\ m \in 1 .. m + 1 /\ m # m + 1
                BY <3>2
            <4>2. g[i - 1] = f[m] /\ g[i] = f[m] \o seqs[i]
                BY <3>2, <4>1
            <4>3. h[i] = g[i - 1] \o seqs[i]
                BY <4>1
            <4> QED BY <4>2, <4>3
        <3>3. CASE i # m + 1
            <4>1. i \in 1 .. m /\ g[i] = f[i]
                BY <3>3
            <4>2. f[i] = IF i = 1 THEN seqs[i] ELSE f[i - 1] \o seqs[i]
                BY <2>1, <4>1 DEF IsFlat
            <4>3. i # 1 => g[i - 1] = f[i - 1]
                BY <4>1
            <4> QED BY <4>1, <4>2, <4>3
        <3> QED BY <3>1, <3>2, <3>3
    <2>3. g = h
        BY <2>2
    <2>4. IsFlat(g, seqs, m + 1)
        <3> HIDE DEF g
        <3> QED BY <2>3 DEF IsFlat
    <2> HIDE DEF g
    <2> QED BY <2>4
<1> HIDE DEF T
<1>3. n \in T
    BY <1>1, <1>2, SetInduction
<1> QED BY <1>3 DEF T

LEMMA Flattens ==
    ASSUME NEW seqs, IsList(seqs), \A i \in DOMAIN seqs : IsList(seqs[i])
    PROVE  /\ IsList(FlattenSeq(seqs))
           /\ \A x : x \in ToSet(FlattenSeq(seqs)) <=> \E i \in DOMAIN seqs : x \in ToSet(seqs[i])
<1> DEFINE n == Len(seqs)
<1>1. n \in Nat /\ DOMAIN seqs = 1 .. n
    BY ListIs
<1>2. CASE n = 0
    <2>1. FlattenSeq(seqs) = seqs
        BY <1>2 DEF FlattenSeq
    <2>2. DOMAIN seqs = {}
        BY <1>1, <1>2
    <2>3. ToSet(seqs) = {}
        BY <2>2 DEF ToSet
    <2> QED BY <2>1, <2>2, <2>3
<1>3. CASE n # 0
    <2> DEFINE G == CHOOSE flatten : flatten = [i \in 1 .. n |->
                      IF i = 1 THEN seqs[i] ELSE flatten[i - 1] \o seqs[i]]
    <2>1. FlattenSeq(seqs) = G[n]
        BY <1>3 DEF FlattenSeq
    <2>2. IsFlat(G, seqs, n)
        BY <1>1, FlatExists DEF IsFlat
    <2> HIDE DEF G, n
    <2> DEFINE Good(m) == /\ IsList(G[m])
                          /\ \A x : x \in ToSet(G[m]) <=> \E i \in 1 .. m : x \in ToSet(seqs[i])
               T == {m \in Nat : m + 1 \in 1 .. n => Good(m + 1)}
    <2>3. 0 \in T
        <3> SUFFICES ASSUME 0 + 1 \in 1 .. n PROVE Good(1)
            OBVIOUS
        <3>1. G[1] = seqs[1] /\ 1 \in DOMAIN seqs
            BY <1>1, <2>2 DEF IsFlat
        <3>2. 1 .. 1 = {1}
            OBVIOUS
        <3> QED BY <3>1, <3>2
    <2>4. ASSUME NEW m \in Nat, m \in T PROVE m + 1 \in T
        <3> SUFFICES ASSUME m + 2 \in 1 .. n PROVE Good(m + 2)
            OBVIOUS
        <3>1. Good(m + 1)
            BY <1>1, <2>4
        <3>2. m + 2 # 1 /\ m + 2 - 1 = m + 1 /\ m + 2 \in DOMAIN seqs
            BY <1>1
        <3>3. G[m + 2] = G[m + 1] \o seqs[m + 2]
            <4>1. \A i \in 1 .. n : G[i] = IF i = 1 THEN seqs[i] ELSE G[i - 1] \o seqs[i]
                BY <2>2 DEF IsFlat
            <4>2. G[m + 2] = IF m + 2 = 1 THEN seqs[m + 2] ELSE G[m + 2 - 1] \o seqs[m + 2]
                BY <4>1
            <4> QED BY <3>2, <4>2
        <3>4. IsList(G[m + 2]) /\ ToSet(G[m + 2]) = ToSet(G[m + 1]) \cup ToSet(seqs[m + 2])
            BY <3>1, <3>2, <3>3, Joins
        <3>5. 1 .. m + 2 = (1 .. m + 1) \cup {m + 2}
            OBVIOUS
        <3> QED BY <3>1, <3>4, <3>5
    <2> HIDE DEF T
    <2>5. n - 1 \in Nat /\ n - 1 + 1 = n /\ n \in 1 .. n
        BY <1>1, <1>3
    <2>6. n - 1 \in T
        BY <2>3, <2>4, <2>5, SetInduction
    <2>7. Good(n)
        BY <2>5, <2>6 DEF T
    <2> QED BY <1>1, <2>1, <2>7
<1> QED BY <1>2, <1>3

IsWithin(f, seq, S, n) ==
    f = [t \in SUBSET (1 .. n) |->
           IF t = {} THEN <<>>
           ELSE IF seq[Max(t)] \in S THEN Append(f[t \ {Max(t)}], seq[Max(t)])
           ELSE f[t \ {Max(t)}]]

LEMMA WithinExists ==
    ASSUME NEW seq, NEW S, NEW n \in Nat
    PROVE  \E f : IsWithin(f, seq, S, n)
<1> DEFINE T == {m \in Nat : \E f : IsWithin(f, seq, S, m)}
           Step(kept, i) == IF seq[i] \in S THEN Append(kept, seq[i]) ELSE kept
<1>1. 0 \in T
    <2> DEFINE f == [t \in SUBSET (1 .. 0) |-> <<>>]
    <2>1. \A t \in SUBSET (1 .. 0) : t = {}
        OBVIOUS
    <2>2. f = [t \in SUBSET (1 .. 0) |-> IF t = {} THEN <<>> ELSE Step(f[t \ {Max(t)}], Max(t))]
        BY <2>1
    <2> HIDE DEF f
    <2>3. IsWithin(f, seq, S, 0)
        BY <2>2 DEF IsWithin
    <2> QED BY <2>3
<1>2. ASSUME NEW m \in Nat, m \in T PROVE m + 1 \in T
    <2>1. PICK f : IsWithin(f, seq, S, m)
        BY <1>2
    <2> DEFINE g == [t \in SUBSET (1 .. m + 1) |->
                       IF m + 1 \in t THEN Step(f[t \ {m + 1}], m + 1) ELSE f[t]]
               h == [t \in SUBSET (1 .. m + 1) |->
                       IF t = {} THEN <<>> ELSE Step(g[t \ {Max(t)}], Max(t))]
    <2>2. f = [t \in SUBSET (1 .. m) |-> IF t = {} THEN <<>> ELSE Step(f[t \ {Max(t)}], Max(t))]
        BY <2>1 DEF IsWithin
    <2>3. ASSUME NEW t \in SUBSET (1 .. m + 1) PROVE g[t] = h[t]
        <3> HIDE DEF Step
        <3>1. CASE m + 1 \in t
            <4>1. Max(t) = m + 1 /\ t # {}
                BY <3>1, MaxOf
            <4>2. t \ {m + 1} \in SUBSET (1 .. m + 1) /\ m + 1 \notin t \ {m + 1}
                OBVIOUS
            <4>3. g[t \ {m + 1}] = f[t \ {m + 1}]
                BY <4>2
            <4>4. g[t] = Step(f[t \ {m + 1}], m + 1)
                BY <3>1
            <4>5. h[t] = Step(g[t \ {m + 1}], m + 1)
                BY <4>1
            <4> QED BY <4>3, <4>4, <4>5
        <3>2. CASE m + 1 \notin t
            <4>1. t \in SUBSET (1 .. m) /\ g[t] = f[t]
                BY <3>2
            <4>2. f[t] = IF t = {} THEN <<>> ELSE Step(f[t \ {Max(t)}], Max(t))
                BY <2>2, <4>1
            <4>3. t # {} => g[t \ {Max(t)}] = f[t \ {Max(t)}]
                BY <3>2
            <4> QED BY <4>1, <4>2, <4>3
        <3> QED BY <3>1, <3>2
    <2>4. g = h
        BY <2>3
    <2>5. IsWithin(g, seq, S, m + 1)
        <3> HIDE DEF g
        <3> QED BY <2>4 DEF IsWithin
    <2> HIDE DEF g
    <2> QED BY <2>5
<1> HIDE DEF T
<1>3. n \in T
    BY <1>1, <1>2, SetInduction
<1> QED BY <1>3 DEF T

LEMMA Appended ==
    ASSUME NEW l, NEW x, IsList(l)
    PROVE  IsList(Append(l, x)) /\ ToSet(Append(l, x)) = ToSet(l) \cup {x}
<1> DEFINE S == ToSet(l) \cup {x}
           c == Append(l, x)
<1>1. Len(l) \in Nat /\ l \in Seq(ToSet(l)) /\ \A y : y \in ToSet(l) <=> \E i \in 1 .. Len(l) : y = l[i]
    BY ListIs
<1>2. ToSet(l) \subseteq S /\ x \in S
    OBVIOUS
<1> HIDE DEF S
<1>3. l \in Seq(S)
    BY <1>1, <1>2, SeqMonotonic
<1>4. /\ c \in Seq(S) /\ Len(c) = Len(l) + 1
      /\ \A i \in 1 .. Len(l) : c[i] = l[i]
      /\ c[Len(l) + 1] = x
    BY <1>1, <1>2, <1>3, AppendProperties
<1> HIDE DEF c
<1>5. IsList(c) /\ ToSet(c) \subseteq S
    BY <1>4, ListOfAny
<1>6. \A y : y \in ToSet(c) <=> \E i \in 1 .. Len(c) : y = c[i]
    BY <1>5, ListIs
<1>7. ASSUME NEW y \in ToSet(l) PROVE y \in ToSet(c)
    <2>1. PICK i \in 1 .. Len(l) : y = l[i]
        BY <1>1, <1>7
    <2>2. i \in 1 .. Len(c) /\ y = c[i]
        BY <1>1, <1>4, <2>1
    <2> QED BY <1>6, <2>2
<1>8. x \in ToSet(c)
    BY <1>1, <1>4, <1>6
<1> QED BY <1>5, <1>7, <1>8 DEF S, c

\* What a list has of a set, is all of it.
LEMMA WithinIs ==
    ASSUME NEW seq, NEW S, IsList(seq)
    PROVE  IsList(Within(seq, S)) /\ ToSet(Within(seq, S)) = ToSet(seq) \cap S
<1> DEFINE n == Len(seq)
           Kept(m) == {seq[i] : i \in {i \in 1 .. m : seq[i] \in S}}
           G == CHOOSE iter : iter = [t \in SUBSET (1 .. n) |->
              IF t = {} THEN <<>>
              ELSE LET x == Max(t)
                   IN  IF seq[x] \in S THEN Append(iter[t \ {x}], seq[x]) ELSE iter[t \ {x}]]
<1>1. n \in Nat /\ DOMAIN seq = 1 .. n
    BY ListIs
<1> HIDE DEF n
<1>2. Within(seq, S) = G[1 .. n]
    BY <1>1 DEF Within, FoldLeft, MapThenFoldSet
<1> DEFINE Fits(iter) == iter = [t \in SUBSET (1 .. n) |->
              IF t = {} THEN <<>>
              ELSE LET x == Max(t)
                   IN  IF seq[x] \in S THEN Append(iter[t \ {x}], seq[x]) ELSE iter[t \ {x}]]
<1>3. \A f : IsWithin(f, seq, S, n) <=> Fits(f)
    BY DEF IsWithin
<1>4. \E f : Fits(f)
    BY <1>1, <1>3, WithinExists
<1>5. G = CHOOSE iter : Fits(iter)
    OBVIOUS
<1> HIDE DEF Fits, G
<1>6. IsWithin(G, seq, S, n)
    BY <1>3, <1>4, <1>5
<1>7. \A x : x \in ToSet(seq) <=> \E i \in 1 .. n : x = seq[i]
    BY <1>1, ListIs DEF n
<1>8. /\ G[{}] = <<>>
      /\ \A t \in SUBSET (1 .. n) : t # {} =>
           G[t] = IF seq[Max(t)] \in S THEN Append(G[t \ {Max(t)}], seq[Max(t)])
                  ELSE G[t \ {Max(t)}]
    BY <1>6 DEF IsWithin
<1> DEFINE T == {m \in Nat : m \in 0 .. n => IsList(G[1 .. m]) /\ ToSet(G[1 .. m]) = Kept(m)}
<1>9. 0 \in T
    <2>1. 1 .. 0 = {} /\ 0 \in Nat
        OBVIOUS
    <2>2. Kept(0) = {}
        BY <2>1
    <2> QED BY <1>8, <2>1, <2>2, NoList
<1>10. ASSUME NEW m \in Nat, m \in T PROVE m + 1 \in T
    <2> SUFFICES ASSUME m + 1 \in 0 .. n
                 PROVE  IsList(G[1 .. m + 1]) /\ ToSet(G[1 .. m + 1]) = Kept(m + 1)
        OBVIOUS
    <2>1. IsList(G[1 .. m]) /\ ToSet(G[1 .. m]) = Kept(m)
        BY <1>1, <1>10
    <2>2. 1 .. m + 1 \in SUBSET (1 .. n)
        BY <1>1
    <2>3. G[1 .. m + 1] = IF seq[m + 1] \in S THEN Append(G[1 .. m], seq[m + 1]) ELSE G[1 .. m]
        BY <1>8, <2>2, UpTo
    <2>4. 1 .. m + 1 = (1 .. m) \cup {m + 1}
        OBVIOUS
    <2>5. Kept(m + 1) = IF seq[m + 1] \in S THEN Kept(m) \cup {seq[m + 1]} ELSE Kept(m)
        BY <2>4
    <2>6. /\ IsList(Append(G[1 .. m], seq[m + 1]))
          /\ ToSet(Append(G[1 .. m], seq[m + 1])) = ToSet(G[1 .. m]) \cup {seq[m + 1]}
        BY <2>1, Appended
    <2> HIDE DEF Kept
    <2>7. CASE seq[m + 1] \in S
        BY <2>1, <2>3, <2>5, <2>6, <2>7
    <2>8. CASE seq[m + 1] \notin S
        BY <2>1, <2>3, <2>5, <2>8
    <2> QED BY <2>7, <2>8
<1> HIDE DEF T
<1>11. n \in T
    BY <1>1, <1>9, <1>10, SetInduction
<1>12. IsList(G[1 .. n]) /\ ToSet(G[1 .. n]) = Kept(n)
    BY <1>1, <1>11 DEF T
<1>13. Kept(n) = ToSet(seq) \cap S
    BY <1>7
<1> QED BY <1>2, <1>12, <1>13

\* The first elements of a list.
LEMMA FirstsAre ==
    ASSUME NEW seq, IsList(seq), NEW k \in 0 .. Len(seq)
    PROVE  /\ IsList(SubSeq(seq, 1, k)) /\ Len(SubSeq(seq, 1, k)) = k
           /\ ToSet(SubSeq(seq, 1, k)) \subseteq ToSet(seq)
           /\ k = Len(seq) => SubSeq(seq, 1, k) = seq
<1>1. /\ Len(seq) \in Nat /\ seq \in Seq(ToSet(seq))
      /\ \A x : x \in ToSet(seq) <=> \E i \in 1 .. Len(seq) : x = seq[i]
    BY ListIs
<1> DEFINE S == ToSet(seq)
           c == SubSeq(seq, 1, k)
<1> HIDE DEF S
<1>2. c \in Seq(S) /\ Len(c) = k
    <2>1. seq \in Seq(S) /\ k \in Nat /\ k <= Len(seq)
        BY <1>1 DEF S
    <2>2. \A i \in 1 .. k : seq[i] \in S
        BY <1>1, <2>1 DEF S
    <2>3. c = [i \in 1 .. k |-> seq[i]]
        BY <2>1
    <2>4. c \in [1 .. k -> S]
        BY <2>2, <2>3
    <2> QED BY <2>1, <2>4, LenProperties, SeqDef
<1>3. k = Len(seq) => c = seq
    BY <1>1
<1> HIDE DEF c
<1>4. IsList(c) /\ ToSet(c) \subseteq S
    BY <1>2, ListOfAny
<1> QED BY <1>2, <1>3, <1>4 DEF S, c

-----------------------------------------------------------------------------
(* What admitting a list of neighbours does to a walk                       *)

WalkFields == {"pc", "root", "view", "branches", "best", "expanded", "frontier", "next",
               "selected", "edges", "tasks", "pairs", "rows", "truncated"}

\* What is reached is selected, within the bound.
IsReach(w) ==
    /\ DOMAIN w = WalkFields
    /\ w.best \in [DOMAIN w.best -> Nat] /\ DOMAIN w.best \subseteq w.selected
    /\ IsFiniteSet(w.selected) /\ Cardinality(w.selected) <= request.maxNodes
    /\ IsList(w.next) /\ ToSet(w.next) \subseteq DOMAIN w.best
    /\ w.truncated \in BOOLEAN

\* v is w after the neighbours F were admitted or not.
Grown(w, v, F) ==
    /\ IsReach(v)
    /\ \A x \in WalkFields \ {"selected", "best", "next", "truncated"} : v[x] = w[x]
    /\ w.selected \subseteq v.selected /\ v.selected \subseteq w.selected \cup DOMAIN v.best
    /\ \A n \in DOMAIN w.best : n \in DOMAIN v.best /\ v.best[n] <= w.best[n]
    /\ \A n \in DOMAIN v.best :
          \/ n \in DOMAIN w.best /\ v.best[n] = w.best[n]
          \/ /\ n \in ToSet(v.next)
             /\ \E f \in F : f.node = n /\ f.cost = v.best[n] /\ f.cost <= request.depth
    /\ ToSet(w.next) \subseteq ToSet(v.next)
    /\ \A n \in ToSet(v.next) \ ToSet(w.next) : n \in DOMAIN w.best => v.best[n] < w.best[n]
    /\ w.truncated => v.truncated
    /\ ~v.truncated => \A f \in F : f.cost <= request.depth =>
                          f.node \in DOMAIN v.best /\ v.best[f.node] <= f.cost

LEMMA ContainsIs ==
    ASSUME NEW l, NEW x, IsList(l)
    PROVE  Contains(l, x) <=> x \in ToSet(l)
<1>1. \A y : y \in ToSet(l) <=> \E i \in 1 .. Len(l) : y = l[i]
    BY ListIs
<1> QED BY <1>1 DEF Contains

LEMMA GrownOnce ==
    ASSUME request.depth \in Nat, request.maxNodes \in Nat,
           NEW w, IsReach(w), NEW f, f.cost \in Nat, NEW v, v = Admit(w, f)
    PROVE  Grown(w, v, {f})
<1> DEFINE n == f.node
<1>1. CASE f.cost > request.depth
    BY <1>1 DEF Admit, Grown, IsReach
<1>2. CASE f.cost <= request.depth /\ n \in DOMAIN w.best /\ w.best[n] <= f.cost
    BY <1>2 DEF Admit, Grown, IsReach
<1>3. CASE /\ f.cost <= request.depth /\ ~(n \in DOMAIN w.best /\ w.best[n] <= f.cost)
           /\ Cardinality(w.selected \cup {n}) > request.maxNodes
    <2>1. ~(f.cost > request.depth)
        BY <1>3
    <2>2. v = [w EXCEPT !.truncated = TRUE]
        BY <1>3, <2>1 DEF Admit
    <2>3. /\ DOMAIN v = WalkFields /\ v.truncated = TRUE
          /\ \A x \in WalkFields \ {"truncated"} : v[x] = w[x]
        BY <2>2 DEF IsReach, WalkFields
    <2>4. v.best = w.best /\ v.selected = w.selected /\ v.next = w.next
        BY <2>3 DEF WalkFields
    <2>5. IsReach(v)
        BY <2>3, <2>4 DEF IsReach
    <2>6. \A x \in WalkFields \ {"selected", "best", "next", "truncated"} : v[x] = w[x]
        BY <2>3
    <2>7. w.best \in [DOMAIN w.best -> Nat]
        BY DEF IsReach
    <2> QED BY <2>3, <2>4, <2>5, <2>6, <2>7 DEF Grown
<1>4. CASE /\ f.cost <= request.depth /\ ~(n \in DOMAIN w.best /\ w.best[n] <= f.cost)
           /\ ~(Cardinality(w.selected \cup {n}) > request.maxNodes)
    <2> DEFINE best == [m \in DOMAIN w.best \cup {n} |-> IF m = n THEN f.cost ELSE w.best[m]]
               next == IF Contains(w.next, n) THEN w.next ELSE Append(w.next, n)
               selected == w.selected \cup {n}
    <2>1. ~(f.cost > request.depth)
        BY <1>4
    <2>2. v = [w EXCEPT !.selected = selected, !.best = best, !.next = next]
        BY <1>4, <2>1 DEF Admit
    <2>3. IsList(next) /\ ToSet(next) = ToSet(w.next) \cup {n}
        <3>1. IsList(w.next) /\ (Contains(w.next, n) <=> n \in ToSet(w.next))
            BY ContainsIs DEF IsReach
        <3>2. IsList(Append(w.next, n)) /\ ToSet(Append(w.next, n)) = ToSet(w.next) \cup {n}
            BY <3>1, Appended
        <3> QED BY <3>1, <3>2
    <2>4. IsFiniteSet(selected) /\ Cardinality(selected) <= request.maxNodes
        <3>1. IsFiniteSet(selected)
            BY FS_AddElement DEF IsReach
        <3>2. Cardinality(selected) \in Nat
            BY <3>1, FS_CardinalityType
        <3> QED BY <1>4, <3>1, <3>2
    <2>5. /\ DOMAIN best = DOMAIN w.best \cup {n} /\ best \in [DOMAIN best -> Nat]
          /\ best[n] = f.cost /\ \A m \in DOMAIN w.best : m # n => best[m] = w.best[m]
        BY DEF IsReach
    <2> HIDE DEF best, next
    <2>6. /\ DOMAIN v = WalkFields
          /\ v.best = best /\ v.next = next /\ v.selected = selected
          /\ \A x \in WalkFields \ {"selected", "best", "next"} : v[x] = w[x]
        BY <2>2 DEF IsReach, WalkFields
    <2> HIDE DEF selected
    <2>7. v.truncated = w.truncated
        BY <2>6 DEF WalkFields
    <2>8. w.best \in [DOMAIN w.best -> Nat] /\ DOMAIN w.best \subseteq w.selected
          /\ ToSet(w.next) \subseteq DOMAIN w.best /\ w.truncated \in BOOLEAN
        BY DEF IsReach
    <2>9. IsReach(v)
        BY <2>3, <2>4, <2>5, <2>6, <2>7, <2>8 DEF IsReach, selected
    <2>10. \A m \in DOMAIN w.best : m \in DOMAIN v.best /\ v.best[m] <= w.best[m]
        BY <1>4, <2>5, <2>6, <2>8
    <2>11. \A m \in DOMAIN v.best :
             \/ m \in DOMAIN w.best /\ v.best[m] = w.best[m]
             \/ m \in ToSet(v.next) /\ f.node = m /\ f.cost = v.best[m] /\ f.cost <= request.depth
        BY <1>4, <2>3, <2>5, <2>6
    <2>12. \A m \in ToSet(v.next) \ ToSet(w.next) : m \in DOMAIN w.best => v.best[m] < w.best[m]
        BY <1>4, <2>3, <2>5, <2>6, <2>8
    <2>13. f.node \in DOMAIN v.best /\ v.best[f.node] <= f.cost
        BY <2>5, <2>6
    <2>14. w.selected \subseteq v.selected /\ v.selected \subseteq w.selected \cup DOMAIN v.best
        BY <2>5, <2>6 DEF selected
    <2>15. \A x \in WalkFields \ {"selected", "best", "next", "truncated"} : v[x] = w[x]
        BY <2>6
    <2> QED BY <2>3, <2>6, <2>7, <2>9, <2>10, <2>11, <2>12, <2>13, <2>14, <2>15 DEF Grown
<1> QED BY <1>1, <1>2, <1>3, <1>4

LEMMA GrownOn ==
    ASSUME NEW w, NEW v, NEW u, NEW F, NEW f, IsReach(w), request.depth \in Nat,
           Grown(w, v, F), Grown(v, u, {f}), f.cost \in Nat, \A g \in F : g.cost \in Nat
    PROVE  Grown(w, u, F \cup {f})
<1>1. /\ w.best \in [DOMAIN w.best -> Nat] /\ v.best \in [DOMAIN v.best -> Nat]
      /\ u.best \in [DOMAIN u.best -> Nat]
      /\ ToSet(v.next) \subseteq DOMAIN v.best
    BY DEF Grown, IsReach
<1>2. \A n \in DOMAIN w.best : n \in DOMAIN u.best /\ u.best[n] <= w.best[n]
    <2>1. \A n \in DOMAIN w.best : n \in DOMAIN v.best /\ v.best[n] <= w.best[n]
        BY DEF Grown
    <2>2. \A n \in DOMAIN v.best : n \in DOMAIN u.best /\ u.best[n] <= v.best[n]
        BY DEF Grown
    <2> QED BY <1>1, <2>1, <2>2
<1>3. \A n \in DOMAIN u.best :
         \/ n \in DOMAIN w.best /\ u.best[n] = w.best[n]
         \/ /\ n \in ToSet(u.next)
            /\ \E g \in F \cup {f} : g.node = n /\ g.cost = u.best[n] /\ g.cost <= request.depth
    <2>1. \A n \in DOMAIN v.best :
             \/ n \in DOMAIN w.best /\ v.best[n] = w.best[n]
             \/ /\ n \in ToSet(v.next)
                /\ \E g \in F : g.node = n /\ g.cost = v.best[n] /\ g.cost <= request.depth
        BY DEF Grown
    <2>2. \A n \in DOMAIN u.best :
             \/ n \in DOMAIN v.best /\ u.best[n] = v.best[n]
             \/ /\ n \in ToSet(u.next)
                /\ f.node = n /\ f.cost = u.best[n] /\ f.cost <= request.depth
        BY DEF Grown
    <2>3. ToSet(v.next) \subseteq ToSet(u.next)
        BY DEF Grown
    <2> QED BY <2>1, <2>2, <2>3
<1>4. \A n \in ToSet(u.next) \ ToSet(w.next) : n \in DOMAIN w.best => u.best[n] < w.best[n]
    <2>1. \A n \in ToSet(v.next) \ ToSet(w.next) : n \in DOMAIN w.best => v.best[n] < w.best[n]
        BY DEF Grown
    <2>2. \A n \in ToSet(u.next) \ ToSet(v.next) : n \in DOMAIN v.best => u.best[n] < v.best[n]
        BY DEF Grown
    <2>3. /\ \A n \in DOMAIN w.best : n \in DOMAIN v.best /\ v.best[n] <= w.best[n]
          /\ \A n \in DOMAIN v.best : n \in DOMAIN u.best /\ u.best[n] <= v.best[n]
        BY DEF Grown
    <2> QED BY <1>1, <2>1, <2>2, <2>3
<1>5. ~u.truncated => \A g \in F \cup {f} : g.cost <= request.depth =>
                        g.node \in DOMAIN u.best /\ u.best[g.node] <= g.cost
    <2>1. v.truncated => u.truncated
        BY DEF Grown
    <2>2. ~v.truncated => \A g \in F : g.cost <= request.depth =>
                            g.node \in DOMAIN v.best /\ v.best[g.node] <= g.cost
        BY DEF Grown
    <2>3. ~u.truncated => (f.cost <= request.depth =>
                            f.node \in DOMAIN u.best /\ u.best[f.node] <= f.cost)
        BY DEF Grown
    <2>4. \A n \in DOMAIN v.best : n \in DOMAIN u.best /\ u.best[n] <= v.best[n]
        BY DEF Grown
    <2> QED BY <1>1, <2>1, <2>2, <2>3, <2>4
<1>6. /\ \A x \in WalkFields \ {"selected", "best", "next", "truncated"} : u[x] = w[x]
      /\ w.selected \subseteq u.selected
      /\ ToSet(w.next) \subseteq ToSet(u.next)
      /\ w.truncated => u.truncated
      /\ IsReach(u)
    BY DEF Grown
<1>7. u.selected \subseteq w.selected \cup DOMAIN u.best
    BY DEF Grown
<1> QED BY <1>2, <1>3, <1>4, <1>5, <1>6, <1>7 DEF Grown

IsAdmission(h, w, list, n) ==
    h = [t \in SUBSET (1 .. n) |->
           IF t = {} THEN w ELSE Admit(h[t \ {Max(t)}], list[Max(t)])]

LEMMA AdmissionExists ==
    ASSUME NEW w, NEW list, NEW n \in Nat
    PROVE  \E h : IsAdmission(h, w, list, n)
<1> DEFINE T == {m \in Nat : \E h : IsAdmission(h, w, list, m)}
           Step(v, i) == Admit(v, list[i])
<1>1. 0 \in T
    <2> DEFINE h == [t \in SUBSET (1 .. 0) |-> w]
    <2>1. \A t \in SUBSET (1 .. 0) : t = {}
        OBVIOUS
    <2>2. h = [t \in SUBSET (1 .. 0) |-> IF t = {} THEN w ELSE Step(h[t \ {Max(t)}], Max(t))]
        BY <2>1
    <2> HIDE DEF h
    <2>3. IsAdmission(h, w, list, 0)
        BY <2>2 DEF IsAdmission
    <2> QED BY <2>3
<1>2. ASSUME NEW m \in Nat, m \in T PROVE m + 1 \in T
    <2>1. PICK f : IsAdmission(f, w, list, m)
        BY <1>2
    <2> DEFINE g == [t \in SUBSET (1 .. m + 1) |->
                       IF m + 1 \in t THEN Step(f[t \ {m + 1}], m + 1) ELSE f[t]]
               h == [t \in SUBSET (1 .. m + 1) |->
                       IF t = {} THEN w ELSE Step(g[t \ {Max(t)}], Max(t))]
    <2>2. f = [t \in SUBSET (1 .. m) |-> IF t = {} THEN w ELSE Step(f[t \ {Max(t)}], Max(t))]
        BY <2>1 DEF IsAdmission
    <2>3. ASSUME NEW t \in SUBSET (1 .. m + 1) PROVE g[t] = h[t]
        <3> HIDE DEF Step
        <3>1. CASE m + 1 \in t
            <4>1. Max(t) = m + 1 /\ t # {}
                BY <3>1, MaxOf
            <4>2. t \ {m + 1} \in SUBSET (1 .. m + 1) /\ m + 1 \notin t \ {m + 1}
                OBVIOUS
            <4>3. g[t \ {m + 1}] = f[t \ {m + 1}]
                BY <4>2
            <4>4. g[t] = Step(f[t \ {m + 1}], m + 1)
                BY <3>1
            <4>5. h[t] = Step(g[t \ {m + 1}], m + 1)
                BY <4>1
            <4> QED BY <4>3, <4>4, <4>5
        <3>2. CASE m + 1 \notin t
            <4>1. t \in SUBSET (1 .. m) /\ g[t] = f[t]
                BY <3>2
            <4>2. f[t] = IF t = {} THEN w ELSE Step(f[t \ {Max(t)}], Max(t))
                BY <2>2, <4>1
            <4>3. t # {} => g[t \ {Max(t)}] = f[t \ {Max(t)}]
                BY <3>2
            <4> QED BY <4>1, <4>2, <4>3
        <3> QED BY <3>1, <3>2
    <2>4. g = h
        BY <2>3
    <2>5. IsAdmission(g, w, list, m + 1)
        <3> HIDE DEF g
        <3> QED BY <2>4 DEF IsAdmission
    <2> HIDE DEF g
    <2> QED BY <2>5
<1> HIDE DEF T
<1>3. n \in T
    BY <1>1, <1>2, SetInduction
<1> QED BY <1>3 DEF T

\* Every neighbour of the list is admitted, in turn.
LEMMA AllGrown ==
    ASSUME request.depth \in Nat, request.maxNodes \in Nat,
           NEW w, IsReach(w), NEW list, IsList(list), \A f \in ToSet(list) : f.cost \in Nat
    PROVE  Grown(w, AdmitAll(w, list), ToSet(list))
<1> DEFINE n == Len(list)
           F(m) == {list[i] : i \in 1 .. m}
           G == CHOOSE iter : iter = [t \in SUBSET (1 .. n) |->
              IF t = {} THEN w ELSE LET x == Max(t) IN Admit(iter[t \ {x}], list[x])]
<1>1. n \in Nat /\ DOMAIN list = 1 .. n /\ \A x : x \in ToSet(list) <=> \E i \in 1 .. n : x = list[i]
    BY ListIs
<1> HIDE DEF n
<1>2. AdmitAll(w, list) = G[1 .. n]
    BY <1>1 DEF AdmitAll, FoldLeft, MapThenFoldSet
<1> DEFINE Fits(iter) == iter = [t \in SUBSET (1 .. n) |->
              IF t = {} THEN w ELSE LET x == Max(t) IN Admit(iter[t \ {x}], list[x])]
<1>a. \A h : IsAdmission(h, w, list, n) <=> Fits(h)
    BY DEF IsAdmission
<1>b. \E h : Fits(h)
    BY <1>1, <1>a, AdmissionExists
<1>c. G = CHOOSE iter : Fits(iter)
    OBVIOUS
<1> HIDE DEF Fits, G
<1>3. IsAdmission(G, w, list, n)
    BY <1>a, <1>b, <1>c
<1>4. /\ G[{}] = w
      /\ \A t \in SUBSET (1 .. n) : t # {} => G[t] = Admit(G[t \ {Max(t)}], list[Max(t)])
    BY <1>3 DEF IsAdmission
<1> DEFINE T == {m \in Nat : m \in 0 .. n => Grown(w, G[1 .. m], F(m))}
<1>5. 0 \in T
    <2>1. 1 .. 0 = {} /\ 0 \in Nat
        OBVIOUS
    <2>2. F(0) = {}
        BY <2>1
    <2>3. Grown(w, w, {})
        BY DEF Grown, IsReach
    <2> QED BY <1>4, <2>1, <2>2, <2>3
<1>6. ASSUME NEW m \in Nat, m \in T PROVE m + 1 \in T
    <2> SUFFICES ASSUME m + 1 \in 0 .. n PROVE Grown(w, G[1 .. m + 1], F(m + 1))
        OBVIOUS
    <2>1. Grown(w, G[1 .. m], F(m))
        BY <1>1, <1>6
    <2>2. 1 .. m + 1 \in SUBSET (1 .. n)
        BY <1>1
    <2>3. G[1 .. m + 1] = Admit(G[1 .. m], list[m + 1])
        BY <1>4, <2>2, UpTo
    <2>4. list[m + 1].cost \in Nat /\ \A f \in F(m) : f.cost \in Nat
        BY <1>1
    <2>5. IsReach(G[1 .. m])
        BY <2>1 DEF Grown
    <2> DEFINE v == G[1 .. m]
               u == G[1 .. m + 1]
               f == list[m + 1]
    <2>6. F(m + 1) = F(m) \cup {f}
        <3>1. 1 .. m + 1 = (1 .. m) \cup {m + 1}
            OBVIOUS
        <3> QED BY <3>1
    <2> HIDE DEF v, u, f, F
    <2>7. Grown(v, u, {f})
        BY <2>3, <2>4, <2>5, GrownOnce DEF v, u, f
    <2>8. Grown(w, u, F(m) \cup {f})
        BY <2>1, <2>4, <2>7, GrownOn DEF v, f
    <2> QED BY <2>6, <2>8 DEF u
<1> HIDE DEF T
<1>7. n \in T
    BY <1>1, <1>5, <1>6, SetInduction
<1>8. Grown(w, G[1 .. n], F(n))
    BY <1>1, <1>7 DEF T
<1>9. F(n) = ToSet(list)
    BY <1>1
<1> QED BY <1>2, <1>8, <1>9

-----------------------------------------------------------------------------
(* One branch of a walk: rounds against paths                               *)

\* A branch: the steps it may take, the nodes and costs it goes on from, and the ends
\* of the paths of at most k steps, for every k.
Size(b) == Cardinality(b.nodes)

IsBranch(b) ==
    /\ IsFiniteSet(b.nodes) /\ b.depth \in Nat
    /\ b.steps \subseteq b.nodes \X b.nodes /\ b.root \in b.nodes
    /\ \A n, c, d : <<n, c>> \in b.on /\ d \in 0 .. c => <<n, d>> \in b.on
    /\ \A n, c : <<n, c>> \in b.on /\ n \in b.tables => c < b.depth
    /\ Paths(b)[0] = {<<b.root, 0>>}
    /\ \A k \in 0 .. Size(b) : Paths(b)[k] \subseteq b.nodes \X (0 .. b.depth)
    /\ \A k \in 0 .. Size(b) - 1 :
         /\ Paths(b)[k] \subseteq Paths(b)[k + 1]
         /\ \A n, c, m : /\ <<n, c>> \in Paths(b)[k] /\ <<n, c>> \in b.on
                         /\ <<n, m>> \in b.steps /\ c + Toll(b, m) <= b.depth
                         => <<m, c + Toll(b, m)>> \in Paths(b)[k + 1]
         /\ \A m, d : <<m, d>> \in Paths(b)[k + 1] =>
              \/ <<m, d>> \in Paths(b)[k]
              \/ \E n, c : /\ <<n, c>> \in Paths(b)[k] /\ <<n, c>> \in b.on
                           /\ <<n, m>> \in b.steps /\ d = c + Toll(b, m)

\* IsStraight and its like, of a branch.
Straight(b) ==
    \A k \in 0 .. Size(b) : \A n, c, d :
        <<n, c>> \in Paths(b)[k] /\ <<n, d>> \in Ends(b) =>
            \E e \in 0 .. d : <<n, e>> \in Paths(b)[k]

\* The steps from n are in the walk, as far as its depth goes.
Followed(b, w, n) ==
    <<n, w.best[n]>> \in b.on =>
      \A m : <<n, m>> \in b.steps /\ w.best[n] + Toll(b, m) <= b.depth =>
        /\ m \in DOMAIN w.best /\ w.best[m] <= w.best[n] + Toll(b, m)
        /\ Drawn(b, <<n, m>>) \in w.edges

\* In round r: the frontier holds ends of paths of r steps, and what has been reached
\* from it those of r + 1.  Each round but the last expands a node.
Sound(b, w, r) ==
    /\ r <= Cardinality(w.expanded)
    /\ \A f \in ToSet(w.frontier) : <<f.node, f.cost>> \in Paths(b)[r]
    /\ \A n \in w.expanded : \E c : <<n, c>> \in Paths(b)[r]
    /\ ToSet(w.next) # {} => r + 1 <= Cardinality(w.expanded)
    /\ \A n \in DOMAIN w.best :
          \/ <<n, w.best[n]>> \in Paths(b)[r]
          \/ n \in ToSet(w.next) /\ <<n, w.best[n]>> \in Paths(b)[r + 1]

\* ... and all of them, at the least cost: whoever is not in the frontier any more
\* has been followed.
Complete(b, w, r) ==
    /\ \A n, c : <<n, c>> \in Paths(b)[r] => n \in DOMAIN w.best /\ w.best[n] <= c
    /\ \A f \in ToSet(w.frontier) : w.best[f.node] = f.cost
    /\ \A n \in DOMAIN w.best : \/ n \in ToSet(w.next)
                                \/ \E f \in ToSet(w.frontier) : f.node = n
                                \/ Followed(b, w, n)
    /\ \A n \in w.expanded : Followed(b, w, n)
    /\ \A n \in ToSet(w.next) : \A c : <<n, c>> \notin Paths(b)[r]

RoundOK(b, w) ==
    /\ w.expanded \subseteq b.nodes
    /\ \E r \in 0 .. Size(b) : /\ Sound(b, w, r)
                               /\ ~w.truncated /\ Straight(b) => Complete(b, w, r)

\* What a branch leaves when it ends.
BranchKept(b, w) ==
    \A n, c : <<n, c>> \in Ends(b) =>
      /\ n \in w.selected
      /\ <<n, c>> \in b.on =>
           \A m : <<n, m>> \in b.steps /\ c + Toll(b, m) <= b.depth =>
             Drawn(b, <<n, m>>) \in w.edges

LEMMA SizeOf ==
    ASSUME NEW b, IsBranch(b)
    PROVE  Size(b) \in Nat
BY FS_CardinalityType DEF IsBranch, Size

\* A longer path ends where a shorter one does, or a step further.
LEMMA LastStep ==
    ASSUME NEW b, IsBranch(b), NEW k \in 0 .. Size(b) - 1
    PROVE  \A m, d : <<m, d>> \in Paths(b)[k + 1] =>
               \/ <<m, d>> \in Paths(b)[k]
               \/ \E n, c : /\ <<n, c>> \in Paths(b)[k] /\ <<n, c>> \in b.on
                            /\ <<n, m>> \in b.steps /\ d = c + Toll(b, m)
<1>1. \A i \in 0 .. Size(b) - 1 : \A m, d : <<m, d>> \in Paths(b)[i + 1] =>
          \/ <<m, d>> \in Paths(b)[i]
          \/ \E n, c : /\ <<n, c>> \in Paths(b)[i] /\ <<n, c>> \in b.on
                       /\ <<n, m>> \in b.steps /\ d = c + Toll(b, m)
    BY DEF IsBranch
<1> QED BY <1>1

\* A path that is longer may end wherever a shorter one does.
LEMMA LevelsRise ==
    ASSUME NEW b, IsBranch(b), NEW k \in 0 .. Size(b), NEW j \in k .. Size(b)
    PROVE  Paths(b)[k] \subseteq Paths(b)[j]
<1> DEFINE T == {i \in Nat : k + i <= Size(b) => Paths(b)[k] \subseteq Paths(b)[k + i]}
<1>1. Size(b) \in Nat
    BY SizeOf
<1>2. 0 \in T
    OBVIOUS
<1>3. ASSUME NEW i \in Nat, i \in T PROVE i + 1 \in T
    <2> SUFFICES ASSUME k + (i + 1) <= Size(b) PROVE Paths(b)[k] \subseteq Paths(b)[k + (i + 1)]
        OBVIOUS
    <2>1. Paths(b)[k] \subseteq Paths(b)[k + i]
        BY <1>1, <1>3
    <2>2. k + i \in 0 .. Size(b) - 1 /\ k + (i + 1) = (k + i) + 1
        BY <1>1
    <2>3. Paths(b)[k + i] \subseteq Paths(b)[(k + i) + 1]
        BY <2>2 DEF IsBranch
    <2> QED BY <2>1, <2>2, <2>3
<1> HIDE DEF T
<1>4. j - k \in T
    BY <1>1, <1>2, <1>3, SetInduction
<1> QED BY <1>1, <1>4 DEF T

LEMMA LevelPairs ==
    ASSUME NEW b, IsBranch(b), NEW k \in 0 .. Size(b), NEW n, NEW c, <<n, c>> \in Paths(b)[k]
    PROVE  n \in b.nodes /\ c \in 0 .. b.depth /\ c \in Nat
BY DEF IsBranch

\* What is reached is at the end of a path.
LEMMA ReachedIsEnd ==
    ASSUME NEW b, IsBranch(b), NEW w, NEW r \in 0 .. Size(b), Sound(b, w, r),
           w.expanded \subseteq b.nodes, NEW n \in DOMAIN w.best
    PROVE  <<n, w.best[n]>> \in Ends(b)
<1>1. Size(b) \in Nat
    BY SizeOf
<1>2. CASE <<n, w.best[n]>> \in Paths(b)[r]
    <2>1. Size(b) \in r .. Size(b)
        BY <1>1
    <2> QED BY <1>2, <2>1, LevelsRise DEF Ends, Size
<1>3. CASE n \in ToSet(w.next) /\ <<n, w.best[n]>> \in Paths(b)[r + 1]
    <2>1. Cardinality(w.expanded) \in Nat /\ Cardinality(w.expanded) <= Size(b)
        BY FS_Subset, FS_CardinalityType DEF IsBranch, Size
    <2>2. r + 1 <= Cardinality(w.expanded)
        BY <1>3 DEF Sound
    <2>3. r + 1 \in 0 .. Size(b) /\ Size(b) \in r + 1 .. Size(b)
        BY <1>1, <2>1, <2>2
    <2> QED BY <1>3, <2>3, LevelsRise DEF Ends, Size
<1> QED BY <1>2, <1>3 DEF Sound

\* Of a node that has been followed, what is cheaper still is followed.
LEMMA FollowedStays ==
    ASSUME NEW b, NEW w, NEW u, NEW n, Followed(b, w, n),
           u.best[n] = w.best[n], w.edges \subseteq u.edges,
           w.best \in [DOMAIN w.best -> Nat], u.best \in [DOMAIN u.best -> Nat],
           n \in DOMAIN w.best,
           \A m \in DOMAIN w.best : m \in DOMAIN u.best /\ u.best[m] <= w.best[m]
    PROVE  Followed(b, u, n)
<1> SUFFICES ASSUME <<n, u.best[n]>> \in b.on,
                    NEW m, <<n, m>> \in b.steps, u.best[n] + Toll(b, m) <= b.depth
             PROVE  /\ m \in DOMAIN u.best /\ u.best[m] <= u.best[n] + Toll(b, m)
                    /\ Drawn(b, <<n, m>>) \in u.edges
    BY DEF Followed
<1>1. /\ m \in DOMAIN w.best /\ w.best[m] <= w.best[n] + Toll(b, m)
      /\ Drawn(b, <<n, m>>) \in w.edges
    BY DEF Followed
<1>2. Toll(b, m) \in Nat
    BY DEF Toll
<1> QED BY <1>1, <1>2

\* A step from w to u that expands the group of cost c: X are its nodes that are expanded,
\* F their neighbours, all of them unless the batch was cut.
Expands(b, w, c, X, start, F, v, u) ==
    /\ \A n \in X : n \notin w.expanded /\ <<n, c>> \in b.on
                      /\ \E f \in ToSet(w.frontier) : f.node = n /\ f.cost = c
    /\ \A f \in ToSet(w.frontier) : f.cost = c =>
           f.node \in X \/ f.node \in w.expanded \/ <<f.node, c>> \notin b.on
    /\ IsReach(start) /\ start.best = w.best /\ start.next = w.next
    /\ \A f : f \in ToSet(start.frontier) <=> f \in ToSet(w.frontier) /\ f.cost # c
    /\ start.expanded = w.expanded \cup X
    /\ w.truncated => start.truncated
    /\ \A f \in F : \E n \in X : <<n, f.node>> \in b.steps /\ f.cost = c + Toll(b, f.node)
    /\ ~start.truncated => \A n \in X : \A m : <<n, m>> \in b.steps =>
           \E f \in F : f.node = m /\ f.cost = c + Toll(b, m)
    /\ Grown(start, v, F)
    /\ u.best = v.best /\ u.next = v.next /\ u.frontier = v.frontier
    /\ u.expanded = v.expanded /\ u.truncated = v.truncated /\ w.edges \subseteq u.edges
    /\ ~v.truncated => \A n \in X : \A m :
           <<n, m>> \in b.steps /\ c + Toll(b, m) <= b.depth => Drawn(b, <<n, m>>) \in u.edges

LEMMA ExpandingKeeps ==
    ASSUME NEW b, IsBranch(b), request.depth = b.depth, NEW w, RoundOK(b, w), IsReach(w),
           NEW c, NEW X, NEW start, NEW F, NEW v, NEW u, Expands(b, w, c, X, start, F, v, u)
    PROVE  RoundOK(b, u)
<1> SUFFICES
      ASSUME \A n \in X : n \notin w.expanded /\ <<n, c>> \in b.on
                 /\ \E f \in ToSet(w.frontier) : f.node = n /\ f.cost = c,
             \A f \in ToSet(w.frontier) : f.cost = c =>
                 f.node \in X \/ f.node \in w.expanded \/ <<f.node, c>> \notin b.on,
             IsReach(start), start.best = w.best, start.next = w.next,
             \A f : f \in ToSet(start.frontier) <=> f \in ToSet(w.frontier) /\ f.cost # c,
             start.expanded = w.expanded \cup X, w.truncated => start.truncated,
             \A f \in F : \E n \in X : <<n, f.node>> \in b.steps /\ f.cost = c + Toll(b, f.node),
             ~start.truncated => \A n \in X : \A m : <<n, m>> \in b.steps =>
                 \E f \in F : f.node = m /\ f.cost = c + Toll(b, m),
             Grown(start, v, F),
             u.best = v.best, u.next = v.next, u.frontier = v.frontier,
             u.expanded = v.expanded, u.truncated = v.truncated, w.edges \subseteq u.edges,
             ~v.truncated => \A n \in X : \A m :
                 <<n, m>> \in b.steps /\ c + Toll(b, m) <= b.depth => Drawn(b, <<n, m>>) \in u.edges
      PROVE  RoundOK(b, u)
    BY DEF Expands
<1>1. PICK r \in 0 .. Size(b) : /\ Sound(b, w, r)
                                /\ ~w.truncated /\ Straight(b) => Complete(b, w, r)
    BY DEF RoundOK
<1>2. Size(b) \in Nat /\ b.depth \in Nat
    BY SizeOf DEF IsBranch
<1>3. v.frontier = start.frontier /\ v.expanded = start.expanded
    BY DEF Grown, WalkFields
<1>4. ToSet(u.frontier) = {f \in ToSet(w.frontier) : f.cost # c} /\ u.expanded = w.expanded \cup X
    BY <1>3
<1>5. /\ w.best \in [DOMAIN w.best -> Nat] /\ u.best \in [DOMAIN u.best -> Nat]
      /\ ToSet(u.next) \subseteq DOMAIN u.best /\ ToSet(w.next) \subseteq DOMAIN w.best
      /\ ToSet(w.next) \subseteq ToSet(u.next)
    BY DEF Grown, IsReach
<1>6. \A n \in X : <<n, c>> \in Paths(b)[r] /\ <<n, c>> \in b.on
    BY <1>1 DEF Sound
<1>7. X \subseteq b.nodes /\ (X # {} => c \in Nat)
    BY <1>6, LevelPairs
<1>8. w.expanded \subseteq b.nodes /\ u.expanded \subseteq b.nodes
    BY <1>4, <1>7 DEF RoundOK
<1>9. /\ IsFiniteSet(w.expanded) /\ IsFiniteSet(u.expanded)
      /\ Cardinality(w.expanded) \in Nat /\ Cardinality(u.expanded) \in Nat
      /\ Cardinality(w.expanded) <= Cardinality(u.expanded)
      /\ Cardinality(u.expanded) <= Size(b)
    <2>1. IsFiniteSet(b.nodes) /\ Size(b) = Cardinality(b.nodes)
        BY DEF IsBranch, Size
    <2>2. IsFiniteSet(u.expanded) /\ Cardinality(u.expanded) <= Size(b)
        BY <1>8, <2>1, FS_Subset
    <2>3. w.expanded \subseteq u.expanded
        BY <1>4
    <2>4. IsFiniteSet(w.expanded) /\ Cardinality(w.expanded) <= Cardinality(u.expanded)
        BY <2>2, <2>3, FS_Subset
    <2> QED BY <2>2, <2>4, FS_CardinalityType
<1>10. X # {} => r + 1 <= Cardinality(u.expanded)
    <2> SUFFICES ASSUME NEW x \in X PROVE r + 1 <= Cardinality(u.expanded)
        OBVIOUS
    <2>1. x \notin w.expanded
        OBVIOUS
    <2>2. IsFiniteSet(w.expanded \cup {x}) /\ Cardinality(w.expanded \cup {x}) = Cardinality(w.expanded) + 1
        BY <1>9, <2>1, FS_AddElement
    <2>3. w.expanded \cup {x} \subseteq u.expanded
        BY <1>4
    <2>4. Cardinality(w.expanded \cup {x}) <= Cardinality(u.expanded)
        BY <1>9, <2>3, FS_Subset
    <2>5. r <= Cardinality(w.expanded)
        BY <1>1 DEF Sound
    <2> QED BY <1>9, <2>2, <2>4, <2>5
<1>11. \A n \in DOMAIN u.best :
          \/ n \in DOMAIN w.best /\ u.best[n] = w.best[n]
          \/ /\ n \in ToSet(u.next) /\ X # {}
             /\ <<n, u.best[n]>> \in Paths(b)[r + 1]
    <2> SUFFICES ASSUME NEW n \in DOMAIN u.best, NEW f \in F, n \in ToSet(u.next),
                        f.node = n, f.cost = u.best[n], f.cost <= b.depth
                 PROVE  X # {} /\ <<n, u.best[n]>> \in Paths(b)[r + 1]
        BY DEF Grown
    <2>1. PICK x \in X : <<x, n>> \in b.steps /\ u.best[n] = c + Toll(b, n)
        OBVIOUS
    <2>2. r + 1 <= Size(b)
        BY <1>2, <1>9, <1>10, <2>1
    <2>3. r \in 0 .. Size(b) - 1
        BY <1>2, <2>2
    <2>4. <<x, c>> \in Paths(b)[r] /\ <<x, c>> \in b.on
        BY <1>6
    <2>5. c + Toll(b, n) <= b.depth
        BY <2>1
    <2>6. <<n, c + Toll(b, n)>> \in Paths(b)[r + 1]
        BY <2>1, <2>3, <2>4, <2>5 DEF IsBranch
    <2> QED BY <2>1, <2>6
<1>12. Sound(b, u, r)
    <2>1. r <= Cardinality(u.expanded)
        BY <1>1, <1>9 DEF Sound
    <2>2. \A f \in ToSet(u.frontier) : <<f.node, f.cost>> \in Paths(b)[r]
        BY <1>1, <1>4 DEF Sound
    <2>3. \A n \in u.expanded : \E d : <<n, d>> \in Paths(b)[r]
        BY <1>1, <1>4, <1>6 DEF Sound
    <2>4. ToSet(u.next) # {} => r + 1 <= Cardinality(u.expanded)
        <3> SUFFICES ASSUME NEW n \in ToSet(u.next), X = {} PROVE r + 1 <= Cardinality(u.expanded)
            BY <1>10
        <3>1. n \in DOMAIN u.best
            BY <1>5
        <3>2. n \in DOMAIN w.best /\ u.best[n] = w.best[n]
            BY <1>11, <3>1
        <3>3. n \in ToSet(w.next)
            <4>1. \A m \in ToSet(v.next) \ ToSet(start.next) :
                     m \in DOMAIN start.best => v.best[m] < start.best[m]
                BY DEF Grown
            <4> QED BY <1>5, <3>1, <3>2, <4>1
        <3>4. r + 1 <= Cardinality(w.expanded)
            BY <1>1, <3>3 DEF Sound
        <3> QED BY <1>9, <3>4
    <2>5. \A n \in DOMAIN u.best :
             \/ <<n, u.best[n]>> \in Paths(b)[r]
             \/ n \in ToSet(u.next) /\ <<n, u.best[n]>> \in Paths(b)[r + 1]
        BY <1>1, <1>5, <1>11 DEF Sound
    <2> QED BY <2>1, <2>2, <2>3, <2>4, <2>5 DEF Sound
<1>13. ASSUME ~u.truncated, Straight(b) PROVE Complete(b, u, r)
    <2>1. ~v.truncated /\ ~start.truncated /\ ~w.truncated
        BY <1>13 DEF Grown
    <2>2. Complete(b, w, r)
        BY <1>1, <1>13, <2>1
    <2>3. \A n \in DOMAIN w.best : n \in DOMAIN u.best /\ u.best[n] <= w.best[n]
        BY DEF Grown
    <2>4. ASSUME NEW n, NEW d, <<n, d>> \in Paths(b)[r]
          PROVE  n \in DOMAIN w.best /\ n \in DOMAIN u.best /\ u.best[n] = w.best[n]
        <3>1. n \in DOMAIN w.best
            BY <2>2, <2>4 DEF Complete
        <3>2. n \in DOMAIN u.best /\ u.best[n] <= w.best[n]
            BY <2>3, <3>1
        <3>3. <<n, u.best[n]>> \in Ends(b)
            BY <1>8, <1>12, <3>2, ReachedIsEnd
        <3>4. PICK e \in 0 .. u.best[n] : <<n, e>> \in Paths(b)[r]
            BY <1>13, <2>4, <3>3 DEF Straight
        <3>5. w.best[n] <= e
            BY <2>2, <3>4 DEF Complete
        <3> QED BY <1>5, <3>1, <3>2, <3>4, <3>5
    <2>5. \A n, d : <<n, d>> \in Paths(b)[r] => n \in DOMAIN u.best /\ u.best[n] <= d
        BY <2>2, <2>4 DEF Complete
    <2>6. \A f \in ToSet(u.frontier) : u.best[f.node] = f.cost
        <3>1. \A f \in ToSet(u.frontier) : f \in ToSet(w.frontier)
            BY <1>4
        <3>2. \A f \in ToSet(w.frontier) : <<f.node, f.cost>> \in Paths(b)[r] /\ w.best[f.node] = f.cost
            BY <1>1, <2>2 DEF Sound, Complete
        <3> SUFFICES ASSUME NEW f \in ToSet(u.frontier) PROVE u.best[f.node] = f.cost
            OBVIOUS
        <3>3. <<f.node, f.cost>> \in Paths(b)[r] /\ w.best[f.node] = f.cost
            BY <3>1, <3>2
        <3>4. u.best[f.node] = w.best[f.node]
            BY <2>4, <3>3
        <3> QED BY <3>3, <3>4
    <2>7. \A n \in X : n \in DOMAIN u.best /\ u.best[n] = c
        <3> SUFFICES ASSUME NEW n \in X PROVE n \in DOMAIN u.best /\ u.best[n] = c
            OBVIOUS
        <3>1. PICK f \in ToSet(w.frontier) : f.node = n /\ f.cost = c
            OBVIOUS
        <3>2. w.best[n] = c
            BY <2>2, <3>1 DEF Complete
        <3> QED BY <1>6, <2>4, <3>2
    <2>8. \A n \in u.expanded : Followed(b, u, n)
        <3>1. ASSUME NEW n \in X PROVE Followed(b, u, n)
            <4> SUFFICES ASSUME NEW m, <<n, m>> \in b.steps, u.best[n] + Toll(b, m) <= b.depth
                         PROVE  /\ m \in DOMAIN u.best /\ u.best[m] <= u.best[n] + Toll(b, m)
                                /\ Drawn(b, <<n, m>>) \in u.edges
                BY DEF Followed
            <4>1. u.best[n] = c
                BY <2>7, <3>1
            <4>2. PICK f \in F : f.node = m /\ f.cost = c + Toll(b, m)
                BY <2>1, <3>1
            <4>3. f.cost <= request.depth
                BY <4>1, <4>2
            <4>4. f.node \in DOMAIN v.best /\ v.best[f.node] <= f.cost
                BY <2>1, <4>3 DEF Grown
            <4>5. Drawn(b, <<n, m>>) \in u.edges
                BY <2>1, <3>1, <4>1
            <4> QED BY <4>1, <4>2, <4>4, <4>5
        <3>2. ASSUME NEW n \in w.expanded PROVE Followed(b, u, n)
            <4>1. PICK d : <<n, d>> \in Paths(b)[r]
                BY <1>1 DEF Sound
            <4>2. n \in DOMAIN w.best /\ u.best[n] = w.best[n]
                BY <2>4, <4>1
            <4>3. Followed(b, w, n)
                BY <2>2 DEF Complete
            <4> QED BY <1>5, <2>3, <4>2, <4>3, FollowedStays
        <3> QED BY <1>4, <3>1, <3>2
    <2>9. \A n \in ToSet(u.next) : \A d : <<n, d>> \notin Paths(b)[r]
        <3> SUFFICES ASSUME NEW n \in ToSet(u.next), NEW d, <<n, d>> \in Paths(b)[r] PROVE FALSE
            OBVIOUS
        <3>1. n \in DOMAIN w.best /\ u.best[n] = w.best[n]
            BY <2>4
        <3>2. n \notin ToSet(w.next)
            BY <2>2 DEF Complete
        <3>3. v.best[n] < start.best[n]
            BY <3>1, <3>2 DEF Grown
        <3> QED BY <1>5, <3>1, <3>3
    <2>10. ASSUME NEW n \in DOMAIN u.best, n \notin ToSet(u.next),
                  ~(\E f \in ToSet(u.frontier) : f.node = n)
           PROVE  Followed(b, u, n)
        <3>1. n \in DOMAIN w.best /\ u.best[n] = w.best[n]
            BY <1>11, <2>10
        <3>2. n \notin ToSet(w.next)
            BY <1>5, <2>10
        <3>3. CASE Followed(b, w, n)
            BY <1>5, <2>3, <3>1, <3>3, FollowedStays
        <3>4. CASE \E f \in ToSet(w.frontier) : f.node = n
            <4>1. PICK f \in ToSet(w.frontier) : f.node = n
                BY <3>4
            <4>2. f.cost = c
                BY <1>4, <2>10, <4>1
            <4>3. w.best[n] = c
                BY <2>2, <4>1, <4>2 DEF Complete
            <4>4. CASE n \in u.expanded
                BY <2>8, <4>4
            <4>5. CASE n \notin u.expanded
                <5>1. <<n, c>> \notin b.on
                    BY <1>4, <4>1, <4>2, <4>5
                <5> QED BY <3>1, <4>3, <5>1 DEF Followed
            <4> QED BY <4>4, <4>5
        <3> QED BY <2>2, <3>1, <3>2, <3>3, <3>4 DEF Complete
    <2> QED BY <2>5, <2>6, <2>8, <2>9, <2>10 DEF Complete
<1> QED BY <1>8, <1>12, <1>13 DEF RoundOK

\* The first round of a branch.
LEMMA StartKeeps ==
    ASSUME NEW b, IsBranch(b), NEW u, u.best = [n \in {b.root} |-> 0], u.expanded = {},
           ToSet(u.next) = {}, ToSet(u.frontier) = {[node |-> b.root, cost |-> 0]}
    PROVE  RoundOK(b, u)
<1>1. Size(b) \in Nat /\ 0 \in 0 .. Size(b)
    BY SizeOf
<1>2. Paths(b)[0] = {<<b.root, 0>>}
    BY DEF IsBranch
<1>3. Cardinality(u.expanded) = 0
    BY FS_EmptySet
<1>4. Sound(b, u, 0)
    BY <1>2, <1>3 DEF Sound
<1>5. Complete(b, u, 0)
    BY <1>2 DEF Complete
<1> QED BY <1>1, <1>4, <1>5 DEF RoundOK

\* Who is reached at a level, and followed, brings the next level.
LEMMA LevelOn ==
    ASSUME NEW b, IsBranch(b), NEW w, w.best \in [DOMAIN w.best -> Nat],
           NEW k \in 0 .. Size(b) - 1,
           \A n, c : <<n, c>> \in Paths(b)[k] =>
               n \in DOMAIN w.best /\ w.best[n] <= c /\ Followed(b, w, n),
           NEW m, NEW d, <<m, d>> \in Paths(b)[k + 1]
    PROVE  m \in DOMAIN w.best /\ w.best[m] <= d
<1>1. CASE <<m, d>> \in Paths(b)[k]
    BY <1>1
<1>2. CASE \E n, c : /\ <<n, c>> \in Paths(b)[k] /\ <<n, c>> \in b.on
                     /\ <<n, m>> \in b.steps /\ d = c + Toll(b, m)
    <2>1. PICK n, c : /\ <<n, c>> \in Paths(b)[k] /\ <<n, c>> \in b.on
                      /\ <<n, m>> \in b.steps /\ d = c + Toll(b, m)
        BY <1>2
    <2>2. n \in DOMAIN w.best /\ w.best[n] <= c /\ Followed(b, w, n) /\ w.best[n] \in Nat
        BY <2>1
    <2>3. k \in 0 .. Size(b) /\ k + 1 \in 0 .. Size(b)
        BY SizeOf
    <2>4. c \in Nat /\ d \in 0 .. b.depth /\ b.depth \in Nat
        BY <2>1, <2>3, LevelPairs DEF IsBranch
    <2>5. w.best[n] \in 0 .. c
        BY <2>2, <2>4
    <2>6. <<n, w.best[n]>> \in b.on
        BY <2>1, <2>5 DEF IsBranch
    <2>7. Toll(b, m) \in Nat
        BY DEF Toll
    <2>8. w.best[n] + Toll(b, m) <= b.depth
        BY <2>1, <2>2, <2>4, <2>7
    <2>9. m \in DOMAIN w.best /\ w.best[m] <= w.best[n] + Toll(b, m)
        BY <2>1, <2>2, <2>6, <2>8 DEF Followed
    <2> QED BY <2>1, <2>2, <2>4, <2>7, <2>9
<1> QED BY <1>1, <1>2 DEF IsBranch

LEMMA RoundsAreFew ==
    ASSUME NEW b, IsBranch(b), NEW w, RoundOK(b, w)
    PROVE  Cardinality(w.expanded) \in Nat /\ Cardinality(w.expanded) <= Size(b)
<1>1. IsFiniteSet(b.nodes) /\ w.expanded \subseteq b.nodes
    BY DEF IsBranch, RoundOK
<1>2. IsFiniteSet(w.expanded) /\ Cardinality(w.expanded) <= Cardinality(b.nodes)
    BY <1>1, FS_Subset
<1> QED BY <1>2, FS_CardinalityType DEF Size

\* The next round starts from what has been reached in this one.
LEMMA NextRoundKeeps ==
    ASSUME NEW b, IsBranch(b), NEW w, RoundOK(b, w), IsReach(w),
           ToSet(w.frontier) = {}, ToSet(w.next) # {},
           NEW u, u.best = w.best, u.expanded = w.expanded, u.truncated = w.truncated,
           u.edges = w.edges, ToSet(u.next) = {},
           \A f \in ToSet(u.frontier) : f.node \in ToSet(w.next) /\ f.cost = w.best[f.node],
           \A n \in ToSet(w.next) : \E f \in ToSet(u.frontier) : f.node = n
    PROVE  RoundOK(b, u)
<1>1. PICK r \in 0 .. Size(b) : /\ Sound(b, w, r)
                                /\ ~w.truncated /\ Straight(b) => Complete(b, w, r)
    BY DEF RoundOK
<1>2. r + 1 <= Cardinality(w.expanded)
    BY <1>1 DEF Sound
<1>3. r \in 0 .. Size(b) - 1 /\ r + 1 \in 0 .. Size(b)
    BY <1>2, RoundsAreFew, SizeOf
<1>4. Paths(b)[r] \subseteq Paths(b)[r + 1]
    BY <1>3 DEF IsBranch
<1>5. w.best \in [DOMAIN w.best -> Nat] /\ ToSet(w.next) \subseteq DOMAIN w.best
    BY DEF IsReach
<1>6. \A n \in DOMAIN w.best : <<n, w.best[n]>> \in Paths(b)[r + 1]
    BY <1>1, <1>4 DEF Sound
<1>7. Sound(b, u, r + 1)
    <2>1. \A f \in ToSet(u.frontier) : <<f.node, f.cost>> \in Paths(b)[r + 1]
        BY <1>5, <1>6
    <2>2. \A n \in u.expanded : \E c : <<n, c>> \in Paths(b)[r + 1]
        BY <1>1, <1>4 DEF Sound
    <2> QED BY <1>2, <1>6, <2>1, <2>2 DEF Sound
<1>8. ASSUME ~u.truncated, Straight(b) PROVE Complete(b, u, r + 1)
    <2>1. Complete(b, w, r)
        BY <1>1, <1>8
    <2>2. \A n, c : <<n, c>> \in Paths(b)[r] =>
             n \in DOMAIN w.best /\ w.best[n] <= c /\ Followed(b, w, n)
        BY <2>1 DEF Complete
    <2>3. \A m, d : <<m, d>> \in Paths(b)[r + 1] => m \in DOMAIN w.best /\ w.best[m] <= d
        BY <1>3, <1>5, <2>2, LevelOn
    <2>4. \A n : Followed(b, w, n) => Followed(b, u, n)
        BY DEF Followed
    <2>5. \A n \in DOMAIN w.best : n \in ToSet(w.next) \/ Followed(b, w, n)
        BY <2>1 DEF Complete
    <2>6. \A n \in w.expanded : Followed(b, w, n)
        BY <2>1 DEF Complete
    <2> QED BY <2>3, <2>4, <2>5, <2>6 DEF Complete
<1>9. u.expanded \subseteq b.nodes
    BY DEF RoundOK
<1> QED BY <1>3, <1>7, <1>8, <1>9 DEF RoundOK

\* A branch that comes to its end has gone all its paths.
LEMMA EndKeeps ==
    ASSUME NEW b, IsBranch(b), NEW w, RoundOK(b, w), IsReach(w),
           ToSet(w.frontier) = {}, ToSet(w.next) = {}, ~w.truncated, Straight(b)
    PROVE  BranchKept(b, w)
<1>1. PICK r \in 0 .. Size(b) : Sound(b, w, r) /\ Complete(b, w, r)
    BY DEF RoundOK
<1>2. /\ w.best \in [DOMAIN w.best -> Nat] /\ DOMAIN w.best \subseteq w.selected
      /\ Size(b) \in Nat
    BY SizeOf DEF IsReach
<1>3. \A n \in DOMAIN w.best : Followed(b, w, n)
    BY <1>1 DEF Complete
<1> DEFINE Reached(k) == \A n, c : <<n, c>> \in Paths(b)[k] => n \in DOMAIN w.best /\ w.best[n] <= c
           T == {i \in Nat : r + i <= Size(b) => Reached(r + i)}
<1>4. 0 \in T
    BY <1>1 DEF Complete
<1>5. ASSUME NEW i \in Nat, i \in T PROVE i + 1 \in T
    <2> SUFFICES ASSUME r + (i + 1) <= Size(b) PROVE Reached(r + (i + 1))
        OBVIOUS
    <2> DEFINE k == r + i
    <2>1. k \in 0 .. Size(b) - 1 /\ r + (i + 1) = k + 1
        BY <1>2
    <2>2. Reached(k)
        BY <1>2, <1>5
    <2> HIDE DEF k
    <2>3. \A n, c : <<n, c>> \in Paths(b)[k] =>
             n \in DOMAIN w.best /\ w.best[n] <= c /\ Followed(b, w, n)
        BY <1>3, <2>2
    <2>4. Reached(k + 1)
        BY <1>2, <2>1, <2>3, LevelOn
    <2> QED BY <2>1, <2>4
<1> HIDE DEF T
<1>6. Size(b) - r \in T
    BY <1>2, <1>4, <1>5, SetInduction
<1>7. \A n, c : <<n, c>> \in Ends(b) => n \in DOMAIN w.best /\ w.best[n] <= c
    BY <1>2, <1>6 DEF T, Ends, Size
<1> SUFFICES ASSUME NEW n, NEW c, <<n, c>> \in Ends(b)
             PROVE  /\ n \in w.selected
                    /\ <<n, c>> \in b.on =>
                         \A m : <<n, m>> \in b.steps /\ c + Toll(b, m) <= b.depth =>
                           Drawn(b, <<n, m>>) \in w.edges
    BY DEF BranchKept
<1>8. n \in DOMAIN w.best /\ w.best[n] <= c /\ w.best[n] \in Nat
    BY <1>2, <1>7
<1>9. ASSUME <<n, c>> \in b.on, NEW m, <<n, m>> \in b.steps, c + Toll(b, m) <= b.depth
      PROVE  Drawn(b, <<n, m>>) \in w.edges
    <2>1. c \in Nat /\ b.depth \in Nat
        BY <1>2, LevelPairs DEF Ends, Size, IsBranch
    <2>2. w.best[n] \in 0 .. c
        BY <1>8, <2>1
    <2>3. <<n, w.best[n]>> \in b.on
        BY <1>9, <2>2 DEF IsBranch
    <2>4. Toll(b, m) \in Nat
        BY DEF Toll
    <2>5. w.best[n] + Toll(b, m) <= b.depth
        BY <1>8, <1>9, <2>1, <2>4
    <2> QED BY <1>3, <1>8, <1>9, <2>3, <2>5 DEF Followed
<1> QED BY <1>2, <1>8, <1>9

\* What a branch has left, later ones keep.
LEMMA KeptStays ==
    ASSUME NEW b, NEW w, BranchKept(b, w), NEW u,
           w.selected \subseteq u.selected, w.edges \subseteq u.edges
    PROVE  BranchKept(b, u)
BY DEF BranchKept

\* Only a path from a root that is no table can end at the full depth without a table.
LEMMA CostsOf ==
    ASSUME NEW b, IsBranch(b), NEW n, NEW c, <<n, c>> \in Ends(b)
    PROVE  /\ n \in b.tables => c >= 1 \/ n = b.root
           /\ n \notin b.tables => c < b.depth \/ (c = 0 /\ b.root \notin b.tables)
<1> DEFINE Fair(m, d) == /\ m \in b.tables => d >= 1 \/ m = b.root
                         /\ m \notin b.tables => d < b.depth \/ (d = 0 /\ b.root \notin b.tables)
           T == {k \in Nat : k <= Size(b) => \A m, d : <<m, d>> \in Paths(b)[k] => Fair(m, d)}
<1>1. Size(b) \in Nat
    BY SizeOf
<1>2. 0 \in T
    <2>1. \A m, d : <<m, d>> \in Paths(b)[0] => m = b.root /\ d = 0
        BY DEF IsBranch
    <2>2. \A m, d : <<m, d>> \in Paths(b)[0] => Fair(m, d)
        BY <2>1
    <2> HIDE DEF Fair
    <2> QED BY <2>2
<1>3. ASSUME NEW k \in Nat, k \in T PROVE k + 1 \in T
    <2> SUFFICES ASSUME k + 1 <= Size(b), NEW m, NEW d, <<m, d>> \in Paths(b)[k + 1]
                 PROVE  Fair(m, d)
        <3> HIDE DEF Fair
        <3> QED OBVIOUS
    <2>1. k \in 0 .. Size(b) - 1 /\ k \in 0 .. Size(b)
        BY <1>1
    <2>2. \A p, a : <<p, a>> \in Paths(b)[k] => Fair(p, a)
        <3> HIDE DEF Fair
        <3> QED BY <1>1, <1>3
    <2>3. CASE <<m, d>> \in Paths(b)[k]
        <3> HIDE DEF Fair
        <3> QED BY <2>2, <2>3
    <2>4. CASE \E p, a : /\ <<p, a>> \in Paths(b)[k] /\ <<p, a>> \in b.on
                         /\ <<p, m>> \in b.steps /\ d = a + Toll(b, m)
        <3>1. PICK p, a : /\ <<p, a>> \in Paths(b)[k] /\ <<p, a>> \in b.on
                          /\ <<p, m>> \in b.steps /\ d = a + Toll(b, m)
            BY <2>4
        <3>2. Fair(p, a)
            <4> HIDE DEF Fair
            <4> QED BY <2>2, <3>1
        <3>3. a \in Nat /\ b.depth \in Nat
            BY <2>1, <3>1, LevelPairs DEF IsBranch
        <3>4. p \in b.tables => a < b.depth
            BY <3>1 DEF IsBranch
        <3>5. Toll(b, m) = IF m \in b.tables THEN 1 ELSE 0
            BY DEF Toll
        <3> QED BY <3>1, <3>2, <3>3, <3>4, <3>5
    <2>5. \/ <<m, d>> \in Paths(b)[k]
          \/ \E p, a : /\ <<p, a>> \in Paths(b)[k] /\ <<p, a>> \in b.on
                       /\ <<p, m>> \in b.steps /\ d = a + Toll(b, m)
        <3>1. IsBranch(b) /\ k \in 0 .. Size(b) - 1
            BY <2>1
        <3>2. \A x, y : <<x, y>> \in Paths(b)[k + 1] =>
                  \/ <<x, y>> \in Paths(b)[k]
                  \/ \E p, a : /\ <<p, a>> \in Paths(b)[k] /\ <<p, a>> \in b.on
                               /\ <<p, x>> \in b.steps /\ y = a + Toll(b, x)
            BY ONLY <3>1, LastStep
        <3> QED BY ONLY <3>2, <<m, d>> \in Paths(b)[k + 1]
    <2> QED BY <2>3, <2>4, <2>5
<1> HIDE DEF T
<1>4. Size(b) \in T
    BY <1>1, <1>2, <1>3, SetInduction
<1>5. \A m, d : <<m, d>> \in Paths(b)[Size(b)] => Fair(m, d)
    <2> HIDE DEF Fair
    <2> QED BY <1>1, <1>4 DEF T
<1>6. <<n, c>> \in Paths(b)[Size(b)]
    BY DEF Ends, Size
<1> QED BY <1>5, <1>6

LEMMA EndPairs ==
    ASSUME NEW b, IsBranch(b), NEW n, NEW c, <<n, c>> \in Ends(b)
    PROVE  n \in b.nodes /\ c \in 0 .. b.depth /\ c \in Nat /\ b.depth \in Nat
<1>1. Size(b) \in 0 .. Size(b)
    BY SizeOf
<1>2. <<n, c>> \in Paths(b)[Size(b)]
    BY DEF Ends, Size
<1> QED BY <1>1, <1>2, LevelPairs DEF IsBranch

\* A step from a path to a node on a page is never too deep.
LEMMA DepthIsEnough ==
    ASSUME NEW b, IsBranch(b), NEW a, IsBranch(a),
           a.root = b.root, a.tables = b.tables, a.depth = b.depth,
           NEW n, NEW c, <<n, c>> \in Ends(b), <<n, c>> \in b.on,
           NEW m, NEW d, <<m, d>> \in Ends(a)
    PROVE  c + Toll(b, m) <= b.depth
<1>1. c \in Nat /\ b.depth \in Nat /\ c <= b.depth
    BY EndPairs
<1>2. d \in Nat /\ d <= b.depth
    BY EndPairs
<1>3. Toll(b, m) = IF m \in b.tables THEN 1 ELSE 0
    BY DEF Toll
<1>4. n \in b.tables => c < b.depth
    BY DEF IsBranch
<1>5. n \notin b.tables => c < b.depth \/ (c = 0 /\ b.root \notin b.tables)
    BY CostsOf
<1>6. m \in b.tables => d >= 1 \/ m = b.root
    BY CostsOf
<1> QED BY <1>1, <1>2, <1>3, <1>4, <1>5, <1>6

LEMMA StraightIs ==
    ASSUME NEW b, IsBranch(b), IsStraight(b)
    PROVE  Straight(b)
<1> SUFFICES ASSUME NEW k \in 0 .. Size(b), NEW n, NEW c, NEW d,
                    <<n, c>> \in Paths(b)[k], <<n, d>> \in Ends(b)
             PROVE  \E e \in 0 .. d : <<n, e>> \in Paths(b)[k]
    BY DEF Straight
<1> DEFINE q == <<n, c>>
           r == <<n, d>>
<1>1. q[1] = r[1] /\ r[1] = n /\ r[2] = d
    OBVIOUS
<1> HIDE DEF q, r
<1>2. PICK p \in Paths(b)[k] : p[1] = r[1] /\ p[2] <= r[2]
    BY <1>1 DEF IsStraight, Size, q, r
<1>3. Paths(b)[k] \subseteq b.nodes \X (0 .. b.depth)
    BY DEF IsBranch
<1>4. p = <<p[1], p[2]>> /\ p[2] \in Nat
    BY <1>3
<1>5. d \in Nat
    BY EndPairs
<1> QED BY <1>1, <1>2, <1>4, <1>5

-----------------------------------------------------------------------------
(* The paths of a course *)

IsCourse(b) ==
    /\ IsFiniteSet(b.nodes) /\ b.depth \in Nat
    /\ b.steps \subseteq b.nodes \X b.nodes /\ b.root \in b.nodes
    /\ \A n, c, d : <<n, c>> \in b.on /\ d \in 0 .. c => <<n, d>> \in b.on
    /\ \A n, c : <<n, c>> \in b.on /\ n \in b.tables => c < b.depth

ArePaths(f, b, n) ==
    f = [k \in 0 .. n |-> IF k = 0 THEN {<<b.root, 0>>}
                          ELSE {q \in Further(b, f[k - 1]) : q[2] <= b.depth}]

LEMMA PathsExist ==
    ASSUME NEW b, NEW n \in Nat
    PROVE  \E f : ArePaths(f, b, n)
<1> DEFINE T == {m \in Nat : \E f : ArePaths(f, b, m)}
           More(S) == {q \in Further(b, S) : q[2] <= b.depth}
<1>1. 0 \in T
    <2> DEFINE f == [k \in 0 .. 0 |-> {<<b.root, 0>>}]
    <2>1. f = [k \in 0 .. 0 |-> IF k = 0 THEN {<<b.root, 0>>} ELSE More(f[k - 1])]
        <3> HIDE DEF More
        <3> QED OBVIOUS
    <2> HIDE DEF f
    <2>2. ArePaths(f, b, 0)
        BY <2>1 DEF ArePaths
    <2> QED BY <2>2
<1>2. ASSUME NEW m \in Nat, m \in T PROVE m + 1 \in T
    <2>1. PICK f : ArePaths(f, b, m)
        BY <1>2
    <2> DEFINE g == [k \in 0 .. m + 1 |-> IF k = m + 1 THEN More(f[m]) ELSE f[k]]
               h == [k \in 0 .. m + 1 |-> IF k = 0 THEN {<<b.root, 0>>} ELSE More(g[k - 1])]
    <2>2. f = [k \in 0 .. m |-> IF k = 0 THEN {<<b.root, 0>>} ELSE More(f[k - 1])]
        BY <2>1 DEF ArePaths
    <2>3. ASSUME NEW k \in 0 .. m + 1 PROVE g[k] = h[k]
        <3> HIDE DEF More
        <3>1. CASE k = m + 1
            <4>1. k # 0 /\ k - 1 = m /\ m \in 0 .. m + 1 /\ m # m + 1
                BY <3>1
            <4>2. g[k - 1] = f[m] /\ g[k] = More(f[m])
                BY <3>1, <4>1
            <4>3. h[k] = More(g[k - 1])
                BY <4>1
            <4> QED BY <4>2, <4>3
        <3>2. CASE k # m + 1
            <4>1. k \in 0 .. m /\ g[k] = f[k]
                BY <3>2
            <4>2. f[k] = IF k = 0 THEN {<<b.root, 0>>} ELSE More(f[k - 1])
                BY <2>2, <4>1
            <4>3. k # 0 => k - 1 \in 0 .. m + 1 /\ k - 1 # m + 1
                BY <4>1
            <4>4. k # 0 => g[k - 1] = f[k - 1]
                BY <4>3
            <4>5. h[k] = IF k = 0 THEN {<<b.root, 0>>} ELSE More(g[k - 1])
                OBVIOUS
            <4> QED BY <4>1, <4>2, <4>4, <4>5
        <3> QED BY <3>1, <3>2
    <2>4. g = h
        <3> HIDE DEF More
        <3> QED BY <2>3
    <2>5. ArePaths(g, b, m + 1)
        <3> HIDE DEF g
        <3> QED BY <2>4 DEF ArePaths
    <2> HIDE DEF g
    <2> QED BY <2>5
<1> HIDE DEF T
<1>3. n \in T
    BY <1>1, <1>2, SetInduction
<1> QED BY <1>3 DEF T

LEMMA CourseIsBranch ==
    ASSUME NEW b, IsCourse(b)
    PROVE  IsBranch(b)
<1> DEFINE n == Size(b)
           G == CHOOSE reached : reached = [k \in 0 .. n |-> IF k = 0 THEN {<<b.root, 0>>}
                                    ELSE {q \in Further(b, reached[k - 1]) : q[2] <= b.depth}]
           Fits(f) == f = [k \in 0 .. n |-> IF k = 0 THEN {<<b.root, 0>>}
                              ELSE {q \in Further(b, f[k - 1]) : q[2] <= b.depth}]
<1>1. n \in Nat
    BY FS_CardinalityType DEF IsCourse, Size
<1>2. Paths(b) = G
    BY DEF Paths, Size
<1> HIDE DEF n
<1>3. \A f : ArePaths(f, b, n) <=> Fits(f)
    BY DEF ArePaths
<1>4. \E f : Fits(f)
    BY <1>1, <1>3, PathsExist
<1>5. G = CHOOSE f : Fits(f)
    OBVIOUS
<1> HIDE DEF G, Fits
<1>6. ArePaths(G, b, n)
    BY <1>3, <1>4, <1>5
<1> DEFINE P == Paths(b)
           More(S) == {q \in Further(b, S) : q[2] <= b.depth}
           Pairs == b.nodes \X (0 .. b.depth)
<1>7. P = [k \in 0 .. n |-> IF k = 0 THEN {<<b.root, 0>>} ELSE More(P[k - 1])]
    BY <1>2, <1>6 DEF ArePaths
<1>8. P[0] = {<<b.root, 0>>} /\ \A k \in 0 .. n - 1 : P[k + 1] = More(P[k])
    <2> HIDE DEF More, P
    <2>1. P[0] = {<<b.root, 0>>}
        BY <1>1, <1>7
    <2>2. ASSUME NEW k \in 0 .. n - 1 PROVE P[k + 1] = More(P[k])
        <3>1. k + 1 \in 0 .. n /\ k + 1 # 0 /\ k + 1 - 1 = k
            BY <1>1
        <3>2. P[k + 1] = IF k + 1 = 0 THEN {<<b.root, 0>>} ELSE More(P[k + 1 - 1])
            BY <1>7, <3>1
        <3> QED BY <3>1, <3>2
    <2> QED BY <2>1, <2>2
<1> HIDE DEF P
<1>9. ASSUME NEW S, S \subseteq Pairs
      PROVE  /\ More(S) \subseteq Pairs /\ S \subseteq More(S)
             /\ \A p, c, m : /\ <<p, c>> \in S /\ <<p, c>> \in b.on
                             /\ <<p, m>> \in b.steps /\ c + Toll(b, m) <= b.depth
                             => <<m, c + Toll(b, m)>> \in More(S)
             /\ \A m, d : <<m, d>> \in More(S) =>
                  \/ <<m, d>> \in S
                  \/ \E p, c : /\ <<p, c>> \in S /\ <<p, c>> \in b.on
                               /\ <<p, m>> \in b.steps /\ d = c + Toll(b, m)
    <2>1. b.depth \in Nat /\ b.steps \subseteq b.nodes \X b.nodes
        BY DEF IsCourse
    <2>2. \A m : Toll(b, m) \in Nat
        BY DEF Toll
    <2>3. \A x : x \in Further(b, S) <=>
             \/ x \in S
             \/ \E q \in S : \E s \in b.steps :
                  q \in b.on /\ s[1] = q[1] /\ x = <<s[2], q[2] + Toll(b, s[2])>>
        BY DEF Further
    <2>4. ASSUME NEW x \in More(S), x \notin S
          PROVE  /\ x \in Pairs
                 /\ \E q \in S : \E s \in b.steps :
                      q \in b.on /\ s[1] = q[1] /\ x = <<s[2], q[2] + Toll(b, s[2])>>
        <3>1. x[2] <= b.depth /\ x \in Further(b, S)
            OBVIOUS
        <3>2. PICK q \in S, s \in b.steps :
                 q \in b.on /\ s[1] = q[1] /\ x = <<s[2], q[2] + Toll(b, s[2])>>
            BY <2>3, <2>4, <3>1
        <3>3. s[2] \in b.nodes /\ q[2] \in Nat /\ Toll(b, s[2]) \in Nat
            BY <2>1, <2>2, <1>9
        <3>4. x[2] = q[2] + Toll(b, s[2])
            BY <3>2
        <3>5. q[2] + Toll(b, s[2]) \in 0 .. b.depth
            BY <2>1, <3>1, <3>3, <3>4
        <3> QED BY <3>2, <3>3, <3>5
    <2>5. S \subseteq More(S)
        <3>1. \A x \in S : x[2] <= b.depth
            BY <1>9, <2>1
        <3> QED BY <2>3, <3>1
    <2>6. ASSUME NEW p, NEW c, NEW m, <<p, c>> \in S, <<p, c>> \in b.on,
                 <<p, m>> \in b.steps, c + Toll(b, m) <= b.depth
          PROVE  <<m, c + Toll(b, m)>> \in More(S)
        <3> DEFINE q == <<p, c>>
                   s == <<p, m>>
                   x == <<m, c + Toll(b, m)>>
        <3>1. q[1] = p /\ q[2] = c /\ s[1] = p /\ s[2] = m /\ x[2] = c + Toll(b, m)
            OBVIOUS
        <3>2. q \in S /\ q \in b.on /\ s \in b.steps /\ s[1] = q[1] /\ x = <<s[2], q[2] + Toll(b, s[2])>>
            BY <2>6, <3>1
        <3>3. x[2] <= b.depth
            BY <2>6, <3>1
        <3> HIDE DEF q, s, x
        <3>4. x \in Further(b, S)
            BY <2>3, <3>2
        <3> QED BY <3>3, <3>4 DEF x
    <2>7. ASSUME NEW m, NEW d, <<m, d>> \in More(S), <<m, d>> \notin S
          PROVE  \E p, c : /\ <<p, c>> \in S /\ <<p, c>> \in b.on
                           /\ <<p, m>> \in b.steps /\ d = c + Toll(b, m)
        <3> DEFINE x == <<m, d>>
        <3>1. x \in More(S) /\ x \notin S /\ x[1] = m /\ x[2] = d
            BY <2>7
        <3> HIDE DEF x, More
        <3>2. PICK q \in S, s \in b.steps :
                 q \in b.on /\ s[1] = q[1] /\ x = <<s[2], q[2] + Toll(b, s[2])>>
            BY <2>4, <3>1
        <3>3. q = <<q[1], q[2]>> /\ s = <<s[1], s[2]>>
            BY <1>9, <2>1
        <3>4. m = s[2] /\ d = q[2] + Toll(b, s[2])
            BY <3>1, <3>2
        <3> QED BY <3>2, <3>3, <3>4
    <2>8. More(S) \subseteq Pairs
        <3> HIDE DEF More, Pairs
        <3> QED BY <1>9, <2>4
    <2> HIDE DEF More, Pairs
    <2> QED BY <2>5, <2>6, <2>7, <2>8
<1> DEFINE T == {k \in Nat : k <= n => P[k] \subseteq Pairs}
<1>10. 0 \in T
    <2>1. b.root \in b.nodes /\ 0 \in 0 .. b.depth
        BY DEF IsCourse
    <2> QED BY <1>8, <2>1
<1>11. ASSUME NEW k \in Nat, k \in T PROVE k + 1 \in T
    <2> HIDE DEF More, Pairs
    <2> SUFFICES ASSUME k + 1 <= n PROVE P[k + 1] \subseteq Pairs
        OBVIOUS
    <2>1. P[k] \subseteq Pairs /\ k \in 0 .. n - 1
        BY <1>1, <1>11
    <2> QED BY <1>8, <1>9, <2>1
<1> HIDE DEF T, More, Pairs
<1>12. \A k \in 0 .. n : P[k] \subseteq Pairs
    <2>1. Nat \subseteq T
        BY <1>10, <1>11, SetInduction
    <2> QED BY <1>1, <2>1 DEF T
<1>13. \A k \in 0 .. Size(b) : Paths(b)[k] \subseteq b.nodes \X (0 .. b.depth)
    BY <1>12 DEF P, Pairs, n
<1>14. ASSUME NEW k \in 0 .. Size(b) - 1
       PROVE  /\ Paths(b)[k] \subseteq Paths(b)[k + 1]
              /\ \A p, c, m : /\ <<p, c>> \in Paths(b)[k] /\ <<p, c>> \in b.on
                              /\ <<p, m>> \in b.steps /\ c + Toll(b, m) <= b.depth
                              => <<m, c + Toll(b, m)>> \in Paths(b)[k + 1]
              /\ \A m, d : <<m, d>> \in Paths(b)[k + 1] =>
                   \/ <<m, d>> \in Paths(b)[k]
                   \/ \E p, c : /\ <<p, c>> \in Paths(b)[k] /\ <<p, c>> \in b.on
                                /\ <<p, m>> \in b.steps /\ d = c + Toll(b, m)
    <2> DEFINE S == Paths(b)[k]
               U == Paths(b)[k + 1]
    <2>1. S \subseteq Pairs
        BY <1>1, <1>12 DEF P, n
    <2>2. U = More(S)
        BY <1>8 DEF P, n
    <2> HIDE DEF S, U
    <2>3. /\ S \subseteq More(S)
          /\ \A p, c, m : /\ <<p, c>> \in S /\ <<p, c>> \in b.on
                          /\ <<p, m>> \in b.steps /\ c + Toll(b, m) <= b.depth
                          => <<m, c + Toll(b, m)>> \in More(S)
          /\ \A m, d : <<m, d>> \in More(S) =>
               \/ <<m, d>> \in S
               \/ \E p, c : /\ <<p, c>> \in S /\ <<p, c>> \in b.on
                            /\ <<p, m>> \in b.steps /\ d = c + Toll(b, m)
        BY <1>9, <2>1
    <2>4. /\ S \subseteq U
          /\ \A p, c, m : /\ <<p, c>> \in S /\ <<p, c>> \in b.on
                          /\ <<p, m>> \in b.steps /\ c + Toll(b, m) <= b.depth
                          => <<m, c + Toll(b, m)>> \in U
          /\ \A m, d : <<m, d>> \in U =>
               \/ <<m, d>> \in S
               \/ \E p, c : /\ <<p, c>> \in S /\ <<p, c>> \in b.on
                            /\ <<p, m>> \in b.steps /\ d = c + Toll(b, m)
        BY <2>2, <2>3, Zenon
    <2> QED BY <2>4 DEF S, U
<1>15. Paths(b)[0] = {<<b.root, 0>>}
    BY <1>8 DEF P
<1> QED BY <1>13, <1>14, <1>15 DEF IsBranch, IsCourse

-----------------------------------------------------------------------------
(* Orders: the least of the nodes, and pairs in a row                       *)

LEMMA LeastOf ==
    ASSUME NEW S, S \subseteq Nat, S # {}
    PROVE  \E n \in S : \A m \in S : n <= m
<1> DEFINE R == OpToRel(<, Nat)
<1>1. R = {ss \in Nat \X Nat : ss[1] < ss[2]}
    BY DEF OpToRel
<1>2. IsWellFoundedOn(R, Nat)
    BY NatLessThanWellFounded
<1> HIDE DEF R
<1>3. PICK x \in S : \A y \in S : ~ (<<y, x>> \in R)
    BY <1>2, WFMin
<1>4. \A y \in S : ~(y < x)
    BY <1>1, <1>3
<1> QED BY <1>3, <1>4

LEMMA FirstOf ==
    ASSUME NEW S, S \subseteq Nat \X Nat, S # {}
    PROVE  \E p \in S : \A q \in S : q = p \/ Before(p, q)
<1> DEFINE A == {p[1] : p \in S}
<1>1. A \subseteq Nat /\ A # {}
    OBVIOUS
<1> HIDE DEF A
<1>2. PICK a \in A : \A m \in A : a <= m
    BY <1>1, LeastOf
<1> DEFINE B == {p[2] : p \in {p \in S : p[1] = a}}
<1>3. B \subseteq Nat /\ B # {}
    BY DEF A
<1> HIDE DEF B
<1>4. PICK b \in B : \A m \in B : b <= m
    BY <1>3, LeastOf
<1>5. PICK p \in S : p[1] = a /\ p[2] = b
    BY <1>4 DEF B
<1>6. \A q \in S : q = p \/ Before(p, q)
    <2> SUFFICES ASSUME NEW q \in S, q # p PROVE Before(p, q)
        OBVIOUS
    <2>1. a <= q[1] /\ q[1] \in Nat /\ q[2] \in Nat /\ a \in Nat /\ b \in Nat
        BY <1>1, <1>2, <1>3, <1>4 DEF A
    <2>2. q[1] = a => b <= q[2]
        BY <1>4 DEF B
    <2>3. q = <<q[1], q[2]>> /\ p = <<p[1], p[2]>>
        OBVIOUS
    <2>4. q[1] = a => q[2] # b
        BY <1>5, <2>3
    <2> QED BY <1>5, <2>1, <2>2, <2>4 DEF Before
<1> QED BY <1>5, <1>6

InOrder(list, S) ==
    /\ list \in [1 .. Cardinality(S) -> S]
    /\ \A i, j \in DOMAIN list : i < j => Before(list[i], list[j])

LEMMA SortedExists ==
    ASSUME NEW U, U \subseteq Nat \X Nat, IsFiniteSet(U)
    PROVE  \E list : InOrder(list, U)
<1> DEFINE T == {n \in Nat : \A S \in SUBSET U : Cardinality(S) = n => \E list : InOrder(list, S)}
<1>1. 0 \in T
    <2> SUFFICES ASSUME NEW S \in SUBSET U, Cardinality(S) = 0 PROVE \E list : InOrder(list, S)
        OBVIOUS
    <2> DEFINE list == [i \in 1 .. 0 |-> U]
    <2>1. list \in [1 .. Cardinality(S) -> S] /\ DOMAIN list = {}
        OBVIOUS
    <2> HIDE DEF list
    <2>2. InOrder(list, S)
        BY <2>1 DEF InOrder
    <2> QED BY <2>2
<1>2. ASSUME NEW n \in Nat, n \in T PROVE n + 1 \in T
    <2> SUFFICES ASSUME NEW S \in SUBSET U, Cardinality(S) = n + 1
                 PROVE  \E list : InOrder(list, S)
        OBVIOUS
    <2>1. IsFiniteSet(S)
        BY FS_Subset
    <2>2. S # {} /\ S \subseteq Nat \X Nat
        BY FS_EmptySet
    <2>3. PICK p \in S : \A q \in S : q = p \/ Before(p, q)
        BY <2>2, FirstOf
    <2> DEFINE R == S \ {p}
    <2>4. R \in SUBSET U /\ Cardinality(R) = n
        <3>1. Cardinality(S \ {p}) = Cardinality(S) - 1
            BY <2>1, FS_RemoveElement
        <3>2. R \in SUBSET U
            OBVIOUS
        <3> QED BY <3>1, <3>2
    <2> HIDE DEF R
    <2>5. PICK rest : InOrder(rest, R)
        BY <1>2, <2>4
    <2>6. /\ rest \in [1 .. n -> R]
          /\ \A i, j \in 1 .. n : i < j => Before(rest[i], rest[j])
        BY <2>4, <2>5 DEF InOrder
    <2> DEFINE list == [i \in 1 .. n + 1 |-> IF i = 1 THEN p ELSE rest[i - 1]]
    <2>7. \A i \in 1 .. n + 1 : i # 1 => i - 1 \in 1 .. n /\ list[i] = rest[i - 1] /\ list[i] \in R
        BY <2>6
    <2>8. list[1] = p /\ DOMAIN list = 1 .. n + 1
        OBVIOUS
    <2>9. list \in [1 .. n + 1 -> S]
        <3>1. \A i \in 1 .. n + 1 : list[i] \in S
            BY <2>7, <2>8 DEF R
        <3> HIDE DEF list
        <3>2. list = [i \in 1 .. n + 1 |-> list[i]]
            BY DEF list
        <3> QED BY <3>1, <3>2
    <2> HIDE DEF list
    <2>10. ASSUME NEW i \in 1 .. n + 1, NEW j \in 1 .. n + 1, i < j
           PROVE  Before(list[i], list[j])
        <3>1. j # 1 /\ j - 1 \in 1 .. n /\ list[j] = rest[j - 1] /\ list[j] \in R
            BY <2>7, <2>10
        <3>2. CASE i = 1
            BY <2>3, <2>8, <3>1, <3>2 DEF R
        <3>3. CASE i # 1
            <4>1. i - 1 \in 1 .. n /\ list[i] = rest[i - 1] /\ i - 1 < j - 1
                BY <2>7, <2>10, <3>3
            <4> QED BY <2>6, <3>1, <4>1
        <3> QED BY <3>2, <3>3
    <2>11. InOrder(list, S)
        BY <2>8, <2>9, <2>10 DEF InOrder
    <2> QED BY <2>11
<1> HIDE DEF T
<1>3. Cardinality(U) \in T
    BY <1>1, <1>2, SetInduction, FS_CardinalityType
<1> QED BY <1>3 DEF T

\* A set in order has its elements.
LEMMA SortedIs ==
    ASSUME NEW S, S \subseteq Nat \X Nat, IsFiniteSet(S)
    PROVE  IsList(Sorted(S)) /\ ToSet(Sorted(S)) = S
<1> DEFINE n == Cardinality(S)
           l == Sorted(S)
<1>1. n \in Nat
    BY FS_CardinalityType
<1> HIDE DEF n
<1>2. \E list \in [1 .. n -> S] : \A i, j \in DOMAIN list : i < j => Before(list[i], list[j])
    BY SortedExists DEF InOrder, n
<1>3. /\ l \in [1 .. n -> S]
      /\ \A i, j \in DOMAIN l : i < j => Before(l[i], l[j])
    BY <1>2 DEF Sorted, n
<1> HIDE DEF l
<1>4. DOMAIN l = 1 .. n
    BY <1>3
<1>5. \A i, j \in 1 .. n : l[i] = l[j] => i = j
    <2> SUFFICES ASSUME NEW i \in 1 .. n, NEW j \in 1 .. n, l[i] = l[j], i < j PROVE FALSE
        OBVIOUS
    <2>1. Before(l[i], l[j]) /\ l[i] \in Nat \X Nat
        BY <1>3, <1>4
    <2>2. l[i][1] \in Nat /\ l[i][2] \in Nat
        BY <2>1
    <2> QED BY <2>1, <2>2 DEF Before
<1>6. l \in Injection(1 .. n, S)
    BY <1>3, <1>4, <1>5 DEF Injection, IsInjective
<1>7. Cardinality(1 .. n) = n
    BY <1>1, FS_Interval
<1>8. Cardinality(1 .. n) = Cardinality(S)
    BY <1>7 DEF n
<1>9. l \in Surjection(1 .. n, S)
    BY <1>6, <1>8, FS_Injection
<1>10. \A x \in S : \E i \in 1 .. n : l[i] = x
    BY <1>9 DEF Surjection
<1>11. l = [i \in 1 .. n |-> l[i]]
    BY <1>3
<1>12. IsList(l) /\ \A x : x \in ToSet(l) <=> \E i \in 1 .. n : x = l[i]
    BY <1>1, <1>11, ListOf
<1>13. ToSet(l) = S
    <2>1. \A x \in S : x \in ToSet(l)
        BY <1>10, <1>12
    <2>2. \A x \in ToSet(l) : x \in S
        BY <1>3, <1>12
    <2> QED BY <2>1, <2>2
<1> QED BY <1>12, <1>13 DEF l

\* A set of nodes has one that is ranked before the others.
LEMMA RankedIs ==
    ASSUME graph \in Graphs, NEW S, S \subseteq Nodes, S # {}
    PROVE  Ranked(S) \in S
<1> DEFINE P == {<<graph.layer[n], n>> : n \in S}
<1>1. \A n \in Nodes : n \in Nat /\ graph.layer[n] \in Nat
    BY GraphsAssumption DEF Nodes
<1>2. P \subseteq Nat \X Nat /\ P # {}
    <2>1. \A n \in S : <<graph.layer[n], n>> \in Nat \X Nat
        BY <1>1
    <2> QED BY <2>1
<1> HIDE DEF P
<1>3. PICK p \in P : \A q \in P : q = p \/ Before(p, q)
    BY <1>2, FirstOf
<1>4. PICK n \in S : p = <<graph.layer[n], n>>
    BY <1>3 DEF P
<1>5. \A m \in S : graph.layer[n] < graph.layer[m] \/ (graph.layer[n] = graph.layer[m] /\ n <= m)
    <2> SUFFICES ASSUME NEW m \in S
                 PROVE  graph.layer[n] < graph.layer[m] \/ (graph.layer[n] = graph.layer[m] /\ n <= m)
        OBVIOUS
    <2> DEFINE q == <<graph.layer[m], m>>
    <2>1. q \in P
        BY DEF P
    <2>2. p[1] = graph.layer[n] /\ p[2] = n /\ q[1] = graph.layer[m] /\ q[2] = m
        BY <1>4
    <2>3. /\ n \in Nat /\ m \in Nat /\ graph.layer[n] \in Nat /\ graph.layer[m] \in Nat
        BY <1>1
    <2> HIDE DEF q
    <2>4. q = p \/ Before(p, q)
        BY <1>3, <2>1
    <2> QED BY <2>2, <2>3, <2>4 DEF Before
<1>6. \E k \in S : \A m \in S :
         graph.layer[k] < graph.layer[m] \/ (graph.layer[k] = graph.layer[m] /\ k <= m)
    BY <1>5
<1> QED BY <1>6 DEF Ranked

LEMMA RootIsTable ==
    ASSUME graph \in Graphs, Tables # {}
    PROVE  DefaultRoot \in Tables
<1>1. Tables \subseteq Nodes
    BY DEF Tables
<1>2. CASE Tables \cap Connected # {}
    <2>1. Ranked(Tables \cap Connected) \in Tables \cap Connected
        BY <1>1, <1>2, RankedIs
    <2>2. DefaultRoot = Ranked(Tables \cap Connected)
        BY <1>2 DEF DefaultRoot
    <2> QED BY <2>1, <2>2
<1>3. CASE Tables \cap Connected = {}
    <2>1. Ranked(Tables) \in Tables
        BY <1>1, RankedIs
    <2>2. DefaultRoot = Ranked(Tables)
        BY <1>3 DEF DefaultRoot
    <2> QED BY <2>1, <2>2
<1> QED BY <1>2, <1>3

-----------------------------------------------------------------------------
(* What is read                                                             *)

LEMMA GraphIs ==
    ASSUME graph \in Graphs
    PROVE  /\ IsFiniteSet(Nodes) /\ Nodes \subseteq Nat
           /\ IsList(graph.edges) /\ EdgeSet \subseteq Nodes \X Nodes
<1> DEFINE N == Nodes
           l == graph.edges
<1>1. IsFiniteSet(N) /\ N \subseteq Nat /\ l \in Seq(N \X N)
    BY GraphsAssumption DEF Nodes
<1> HIDE DEF N, l
<1>2. IsList(l) /\ ToSet(l) \subseteq N \X N
    BY <1>1, ListOfAny
<1> QED BY <1>1, <1>2 DEF EdgeSet, N, l

LEMMA RequestIs ==
    ASSUME request \in Requests
    PROVE  /\ request.depth \in Nat /\ request.maxNodes \in Nat /\ request.maxNodes >= 1
           /\ request.direction \in {"both", "upstream", "downstream"}
           /\ request.view \in {"table", "detail"}
           /\ request.initial \in BOOLEAN
BY RequestsAssumption

LEMMA EndsInGraph ==
    ASSUME graph \in Graphs, NEW e \in EdgeSet
    PROVE  /\ e[1] \in Nodes /\ e[2] \in Nodes /\ e = <<e[1], e[2]>>
           /\ Near(e) \in Nodes /\ Far(e) \in Nodes
<1>1. e \in Nodes \X Nodes
    BY GraphIs
<1> QED BY <1>1 DEF Near, Far

\* The budgets of a walk.
InBudget(w) ==
    /\ w.rows \in Nat /\ w.rows <= MaxEdgeRows
    /\ IsFiniteSet(w.tasks) /\ Cardinality(w.tasks) <= MaxTableViewTasks
    /\ w.pairs \in Nat /\ w.pairs <= MaxProjectionPairs

\* A batch holds edges that leave the nodes, all of them unless it was cut.
LEMMA AdjacentIs ==
    ASSUME graph \in Graphs, request \in Requests,
           NEW w, w.rows \in Nat, w.rows <= MaxEdgeRows, IsFiniteSet(w.selected),
           NEW nodes, NEW batch, batch = Adjacent(w, nodes)
    PROVE  /\ IsList(batch.rows) /\ batch.cut \in BOOLEAN
           /\ w.rows + Len(batch.rows) \in Nat /\ w.rows + Len(batch.rows) <= MaxEdgeRows
           /\ \A e \in ToSet(batch.rows) : e \in EdgeSet /\ Near(e) \in nodes
           /\ ~batch.cut => \A e \in EdgeSet : Near(e) \in nodes => e \in ToSet(batch.rows)
<1> DEFINE found == Within(graph.edges, {e \in ToSet(graph.edges) : Near(e) \in nodes})
           left == MaxEdgeRows - w.rows
           free == Most(1, request.maxNodes - Cardinality(w.selected))
           share == EdgeReadsPerNode * free
           desired == Least(left, share)
           k == Least(desired, Len(found))
           cut == nodes # {} /\ (left <= 0 \/ Len(found) > desired)
           rows == SubSeq(found, 1, k)
<1>1. batch = [rows |-> rows, cut |-> cut]
    BY DEF Adjacent
<1>0. cut \in BOOLEAN /\ (~cut /\ nodes # {} => ~(left <= 0 \/ Len(found) > desired))
    OBVIOUS
<1> HIDE DEF cut, rows
<1>2. /\ IsList(found) /\ Len(found) \in Nat
      /\ \A e : e \in ToSet(found) <=> e \in EdgeSet /\ Near(e) \in nodes
    <2> DEFINE S == {e \in ToSet(graph.edges) : Near(e) \in nodes}
    <2>1. \A e : e \in S <=> e \in EdgeSet /\ Near(e) \in nodes
        BY DEF EdgeSet
    <2> HIDE DEF S
    <2>2. IsList(Within(graph.edges, S)) /\ ToSet(Within(graph.edges, S)) = EdgeSet \cap S
        BY GraphIs, WithinIs DEF EdgeSet
    <2>3. IsList(found) /\ \A e : e \in ToSet(found) <=> e \in EdgeSet /\ Near(e) \in nodes
        BY <2>1, <2>2 DEF S
    <2> QED BY <2>3, ListIs
<1>3. left \in Nat
    BY BudgetsAssumption
<1>4. free \in Nat
    <2>1. Cardinality(w.selected) \in Nat
        BY FS_CardinalityType
    <2> QED BY <2>1, RequestIs DEF Most
<1> HIDE DEF free
<1>5. share \in Nat
    BY <1>4, BudgetsAssumption
<1> HIDE DEF found, share, left
<1>6. desired \in Nat /\ desired <= left
    BY <1>3, <1>5 DEF Least
<1> HIDE DEF desired
<1>7. k \in 0 .. Len(found) /\ k <= desired /\ (Len(found) <= desired => k = Len(found))
    BY <1>2, <1>6 DEF Least
<1> HIDE DEF k
<1>8. batch.rows = rows /\ batch.cut = cut
    BY <1>1
<1>9. /\ IsList(SubSeq(found, 1, k)) /\ Len(SubSeq(found, 1, k)) = k
      /\ ToSet(SubSeq(found, 1, k)) \subseteq ToSet(found)
      /\ k = Len(found) => SubSeq(found, 1, k) = found
    BY <1>2, <1>7, FirstsAre
<1>10. IsList(rows) /\ Len(rows) = k /\ ToSet(rows) \subseteq ToSet(found) /\ (k = Len(found) => rows = found)
    BY <1>9 DEF rows
<1>12. w.rows + Len(batch.rows) \in Nat /\ w.rows + Len(batch.rows) <= MaxEdgeRows
    BY <1>3, <1>6, <1>7, <1>8, <1>10, BudgetsAssumption DEF left
<1>13. ASSUME ~batch.cut, NEW e \in EdgeSet, Near(e) \in nodes PROVE e \in ToSet(batch.rows)
    <2>1. nodes # {}
        BY <1>13
    <2>2. ~(left <= 0 \/ Len(found) > desired)
        BY <1>0, <1>8, <1>13, <2>1
    <2>3. Len(found) <= desired
        BY <1>2, <1>6, <2>2
    <2> QED BY <1>2, <1>7, <1>8, <1>10, <1>13, <2>3
<1>14. \A e \in ToSet(batch.rows) : e \in EdgeSet /\ Near(e) \in nodes
    BY <1>2, <1>8, <1>10
<1> QED BY <1>0, <1>8, <1>10, <1>12, <1>13, <1>14

LEMMA JobsAre ==
    ASSUME NEW rows, IsList(rows)
    PROVE  /\ IsList(JobsOf(rows))
           /\ \A j : j \in ToSet(JobsOf(rows)) <=> \E e \in ToSet(rows) : IsTask(Far(e)) /\ Far(e) = j
<1> DEFINE n == Len(rows)
           IsFirst(i) == IsTask(Far(rows[i])) /\ \A j \in 1 .. i - 1 : Far(rows[j]) # Far(rows[i])
           all == [i \in DOMAIN rows |-> i]
           S == {i \in DOMAIN rows : IsFirst(i)}
           firsts == Within(all, S)
           jobs == [k \in DOMAIN firsts |-> Far(rows[firsts[k]])]
<1>1. JobsOf(rows) = jobs
    BY DEF JobsOf
<1>2. n \in Nat /\ DOMAIN rows = 1 .. n /\ \A x : x \in ToSet(rows) <=> \E i \in 1 .. n : x = rows[i]
    BY ListIs
<1> HIDE DEF n
<1>3. IsList(all) /\ \A x : x \in ToSet(all) <=> x \in 1 .. n
    <2>1. all = [i \in 1 .. n |-> all[i]] /\ \A i \in 1 .. n : all[i] = i
        BY <1>2
    <2> HIDE DEF all
    <2>2. IsList(all) /\ \A x : x \in ToSet(all) <=> \E i \in 1 .. n : x = all[i]
        BY <1>2, <2>1, ListOf
    <2> QED BY <2>1, <2>2
<1>4. \A i : i \in S <=> i \in 1 .. n /\ IsFirst(i)
    BY <1>2
<1> HIDE DEF all, S
<1>5. IsList(firsts) /\ ToSet(firsts) = ToSet(all) \cap S
    BY <1>3, WithinIs
<1> HIDE DEF firsts
<1>6. /\ Len(firsts) \in Nat /\ DOMAIN firsts = 1 .. Len(firsts)
      /\ \A x : x \in ToSet(firsts) <=> \E k \in 1 .. Len(firsts) : x = firsts[k]
    BY <1>5, ListIs
<1>7. jobs = [k \in 1 .. Len(firsts) |-> jobs[k]]
    BY <1>6
<1>8. \A k \in 1 .. Len(firsts) : jobs[k] = Far(rows[firsts[k]])
    BY <1>6
<1> HIDE DEF jobs
<1>9. IsList(jobs) /\ \A x : x \in ToSet(jobs) <=> \E k \in 1 .. Len(firsts) : x = jobs[k]
    BY <1>6, <1>7, ListOf
<1>10. \A x : x \in ToSet(jobs) <=> \E i \in 1 .. n : IsFirst(i) /\ x = Far(rows[i])
    <2>1. \A i : i \in ToSet(firsts) <=> i \in 1 .. n /\ IsFirst(i)
        BY <1>3, <1>4, <1>5
    <2> HIDE DEF IsFirst
    <2>2. ASSUME NEW x \in ToSet(jobs) PROVE \E i \in 1 .. n : IsFirst(i) /\ x = Far(rows[i])
        <3>1. PICK k \in 1 .. Len(firsts) : x = Far(rows[firsts[k]])
            BY <1>8, <1>9
        <3>2. firsts[k] \in ToSet(firsts)
            BY <1>6
        <3> QED BY <2>1, <3>1, <3>2
    <2>3. ASSUME NEW i \in 1 .. n, IsFirst(i) PROVE Far(rows[i]) \in ToSet(jobs)
        <3>1. PICK k \in 1 .. Len(firsts) : i = firsts[k]
            BY <1>6, <2>1, <2>3
        <3>2. jobs[k] = Far(rows[i])
            BY <1>8, <3>1
        <3> QED BY <1>9, <3>2
    <2> QED BY <2>2, <2>3
<1>11. ASSUME NEW i \in 1 .. n, IsTask(Far(rows[i]))
       PROVE  \E k \in 1 .. n : IsFirst(k) /\ Far(rows[k]) = Far(rows[i])
    <2> DEFINE A == {k \in 1 .. n : Far(rows[k]) = Far(rows[i])}
    <2>1. A \subseteq Nat /\ A # {}
        OBVIOUS
    <2> HIDE DEF A
    <2>2. PICK k \in A : \A m \in A : k <= m
        BY <2>1, LeastOf
    <2>3. k \in 1 .. n /\ Far(rows[k]) = Far(rows[i])
        BY <2>2 DEF A
    <2>4. \A j \in 1 .. k - 1 : Far(rows[j]) # Far(rows[k])
        <3> SUFFICES ASSUME NEW j \in 1 .. k - 1, Far(rows[j]) = Far(rows[k]) PROVE FALSE
            OBVIOUS
        <3>1. j \in 1 .. n
            BY <1>2, <2>3
        <3>2. j \in A
            BY <2>3, <3>1 DEF A
        <3> QED BY <1>2, <2>2, <2>3, <3>2
    <2>5. IsFirst(k)
        BY <1>11, <2>3, <2>4
    <2> QED BY <2>3, <2>5
<1>12. \A x : x \in ToSet(jobs) <=> \E e \in ToSet(rows) : IsTask(Far(e)) /\ Far(e) = x
    <2> SUFFICES ASSUME NEW x PROVE x \in ToSet(jobs) <=> \E e \in ToSet(rows) : IsTask(Far(e)) /\ Far(e) = x
        OBVIOUS
    <2>1. ASSUME x \in ToSet(jobs) PROVE \E e \in ToSet(rows) : IsTask(Far(e)) /\ Far(e) = x
        BY <1>2, <1>10, <2>1
    <2>2. ASSUME NEW e \in ToSet(rows), IsTask(Far(e)), Far(e) = x PROVE x \in ToSet(jobs)
        <3>1. PICK i \in 1 .. n : e = rows[i]
            BY <1>2
        <3>2. PICK k \in 1 .. n : IsFirst(k) /\ Far(rows[k]) = Far(rows[i])
            BY <1>11, <2>2, <3>1
        <3> HIDE DEF IsFirst
        <3> QED BY <1>10, <2>2, <3>1, <3>2
    <2> QED BY <2>1, <2>2
<1> QED BY <1>1, <1>9, <1>12

\* A list of k elements has at most k.
LEMMA ListIsSmall ==
    ASSUME NEW seq, IsList(seq)
    PROVE  IsFiniteSet(ToSet(seq)) /\ Cardinality(ToSet(seq)) <= Len(seq)
<1> DEFINE n == Len(seq)
           S == ToSet(seq)
<1>1. n \in Nat /\ \A x : x \in S <=> \E i \in 1 .. n : x = seq[i]
    BY ListIs
<1>2. seq \in [1 .. n -> S]
    BY LenProperties DEF IsList
<1> HIDE DEF n, S
<1>3. seq \in Surjection(1 .. n, S)
    BY <1>1, <1>2 DEF Surjection
<1>4. IsFiniteSet(1 .. n) /\ Cardinality(1 .. n) = n
    BY <1>1, FS_Interval
<1>5. IsFiniteSet(S) /\ Cardinality(S) <= Cardinality(1 .. n)
    BY <1>3, <1>4, FS_Surjection
<1> QED BY <1>4, <1>5 DEF n, S

\* Jobs are admitted within their budget, all of them unless the page says it was cut.
LEMMA JobsAdmitted ==
    ASSUME NEW w, IsFiniteSet(w.tasks), Cardinality(w.tasks) <= MaxTableViewTasks,
           DOMAIN w = WalkFields, w.truncated \in BOOLEAN,
           NEW jobs, IsList(jobs), NEW v, v = AdmitJobs(w, jobs)
    PROVE  /\ DOMAIN v = WalkFields /\ v.truncated \in BOOLEAN
           /\ \A x \in WalkFields \ {"tasks", "truncated"} : v[x] = w[x]
           /\ IsFiniteSet(v.tasks) /\ Cardinality(v.tasks) <= MaxTableViewTasks
           /\ w.truncated => v.truncated
           /\ ~v.truncated => ToSet(jobs) \subseteq v.tasks
<1> DEFINE new == Within(jobs, ToSet(jobs) \ w.tasks)
           room == Least(Len(new), Most(0, MaxTableViewTasks - Cardinality(w.tasks)))
           taken == SubSeq(new, 1, room)
<1>1. v = [w EXCEPT !.tasks = @ \cup ToSet(taken), !.truncated = @ \/ room < Len(new)]
    BY DEF AdmitJobs
<1>2. IsList(new) /\ ToSet(new) = ToSet(jobs) \ w.tasks
    <2>1. IsList(new) /\ ToSet(new) = ToSet(jobs) \cap (ToSet(jobs) \ w.tasks)
        BY WithinIs
    <2> HIDE DEF new
    <2> QED BY <2>1
<1> HIDE DEF new
<1>3. Len(new) \in Nat
    BY <1>2, ListIs
<1>4. Cardinality(w.tasks) \in Nat /\ MaxTableViewTasks \in Nat
    BY FS_CardinalityType, BudgetsAssumption
<1>5. room \in 0 .. Len(new) /\ room <= MaxTableViewTasks - Cardinality(w.tasks)
    BY <1>3, <1>4 DEF Least, Most
<1> HIDE DEF room
<1>6. IsList(taken) /\ Len(taken) = room /\ (room = Len(new) => taken = new)
    BY <1>2, <1>5, FirstsAre
<1> HIDE DEF taken
<1>7. IsFiniteSet(ToSet(taken)) /\ Cardinality(ToSet(taken)) <= room
    BY <1>6, ListIsSmall
<1>8. IsFiniteSet(w.tasks \cup ToSet(taken)) /\ Cardinality(w.tasks \cup ToSet(taken)) <= MaxTableViewTasks
    <2> DEFINE A == w.tasks
               B == ToSet(taken)
    <2> HIDE DEF A, B
    <2>1. IsFiniteSet(A) /\ IsFiniteSet(B)
        BY <1>7 DEF A, B
    <2>2. /\ IsFiniteSet(A \cup B)
          /\ Cardinality(A \cup B) = Cardinality(A) + Cardinality(B) - Cardinality(A \cap B)
        BY <2>1, FS_Union
    <2>3. Cardinality(A \cap B) \in Nat /\ Cardinality(B) \in Nat
        BY <2>1, FS_Intersection, FS_CardinalityType
    <2>4. Cardinality(A) = Cardinality(w.tasks) /\ Cardinality(B) <= room
        BY <1>7 DEF A, B
    <2>5. Cardinality(A \cup B) <= MaxTableViewTasks
        BY <1>4, <1>5, <2>2, <2>3, <2>4
    <2> QED BY <2>2, <2>5 DEF A, B
<1>9. /\ DOMAIN v = WalkFields
      /\ v.tasks = w.tasks \cup ToSet(taken)
      /\ v.truncated = (w.truncated \/ room < Len(new))
      /\ \A x \in WalkFields \ {"tasks", "truncated"} : v[x] = w[x]
    BY <1>1 DEF WalkFields
<1>10. ASSUME ~v.truncated PROVE ToSet(jobs) \subseteq v.tasks
    <2>1. ~(room < Len(new))
        BY <1>9, <1>10
    <2>2. room = Len(new)
        BY <1>3, <1>5, <2>1
    <2>3. ToSet(taken) = ToSet(jobs) \ w.tasks
        BY <1>2, <1>6, <2>2
    <2> QED BY <1>9, <2>3
<1> QED BY <1>8, <1>9, <1>10

\* The pairs of a job: an edge into it and an edge out of it to a table.
LEMMA PairsAre ==
    ASSUME NEW job, NEW first, NEW second, IsList(first), IsList(second)
    PROVE  /\ IsList(PairsOf(job, first, second))
           /\ \A e \in {p.ends : p \in ToSet(PairsOf(job, first, second))} :
                \E a \in ToSet(first), b \in ToSet(second) :
                  /\ Far(a) = job /\ Near(b) = job /\ IsTable(Far(b))
                  /\ e = IF Branch = "downstream" THEN <<a[1], b[2]>> ELSE <<b[1], a[2]>>
           /\ \A a \in ToSet(first), b \in ToSet(second) :
                Far(a) = job /\ Near(b) = job /\ IsTable(Far(b)) =>
                  (IF Branch = "downstream" THEN <<a[1], b[2]>> ELSE <<b[1], a[2]>>)
                    \in {p.ends : p \in ToSet(PairsOf(job, first, second))}
<1> DEFINE near == Within(first, {e \in ToSet(first) : Far(e) = job})
           far == Within(second, {e \in ToSet(second) : Near(e) = job /\ IsTable(Far(e))})
           outer == IF Branch = "downstream" THEN near ELSE far
           inner == IF Branch = "downstream" THEN far ELSE near
           ends(i, j) == <<outer[i][1], inner[j][2]>>
           pair(i, j) == [ends |-> ends(i, j), job |-> job]
           row(i) == [j \in DOMAIN inner |-> pair(i, j)]
           rows == [i \in DOMAIN outer |-> row(i)]
<1>1. PairsOf(job, first, second) = FlattenSeq(rows)
    BY DEF PairsOf
<1>2. /\ IsList(near) /\ \A e : e \in ToSet(near) <=> e \in ToSet(first) /\ Far(e) = job
      /\ IsList(far) /\ \A e : e \in ToSet(far) <=> e \in ToSet(second) /\ Near(e) = job /\ IsTable(Far(e))
    <2> DEFINE S == {e \in ToSet(first) : Far(e) = job}
               R == {e \in ToSet(second) : Near(e) = job /\ IsTable(Far(e))}
    <2>1. /\ \A e : e \in S <=> e \in ToSet(first) /\ Far(e) = job
          /\ \A e : e \in R <=> e \in ToSet(second) /\ Near(e) = job /\ IsTable(Far(e))
        OBVIOUS
    <2> HIDE DEF S, R
    <2>2. /\ IsList(Within(first, S)) /\ ToSet(Within(first, S)) = ToSet(first) \cap S
          /\ IsList(Within(second, R)) /\ ToSet(Within(second, R)) = ToSet(second) \cap R
        BY WithinIs
    <2>3. near = Within(first, S) /\ far = Within(second, R)
        BY DEF S, R
    <2> HIDE DEF near, far
    <2> QED BY <2>1, <2>2, <2>3
<1> HIDE DEF near, far
<1>3. IsList(outer) /\ IsList(inner)
    BY <1>2
<1>a. \A i, j : pair(i, j).ends = ends(i, j)
    OBVIOUS
<1> HIDE DEF outer, inner, ends, pair
<1>4. /\ Len(outer) \in Nat /\ DOMAIN outer = 1 .. Len(outer)
      /\ \A x : x \in ToSet(outer) <=> \E i \in 1 .. Len(outer) : x = outer[i]
      /\ Len(inner) \in Nat /\ DOMAIN inner = 1 .. Len(inner)
      /\ \A x : x \in ToSet(inner) <=> \E i \in 1 .. Len(inner) : x = inner[i]
    BY <1>3, ListIs
<1>5. ASSUME NEW i
      PROVE  /\ IsList(row(i))
             /\ \A x : x \in ToSet(row(i)) <=> \E j \in 1 .. Len(inner) : x = pair(i, j)
    <2> DEFINE r == row(i)
    <2>1. r = [j \in 1 .. Len(inner) |-> r[j]]
        BY <1>4
    <2>2. \A j \in 1 .. Len(inner) : r[j] = pair(i, j)
        BY <1>4
    <2> HIDE DEF r
    <2>3. IsList(r) /\ \A x : x \in ToSet(r) <=> \E j \in 1 .. Len(inner) : x = r[j]
        BY <1>4, <2>1, ListOf
    <2>4. \A x : x \in ToSet(r) <=> \E j \in 1 .. Len(inner) : x = pair(i, j)
        BY <2>2, <2>3
    <2> QED BY <2>3, <2>4 DEF r
<1> HIDE DEF row
<1>6. rows = [i \in 1 .. Len(outer) |-> rows[i]] /\ DOMAIN rows = 1 .. Len(outer)
      /\ \A i \in 1 .. Len(outer) : rows[i] = row(i)
    BY <1>4
<1> HIDE DEF rows
<1>7. IsList(rows)
    BY <1>4, <1>6, ListOf
<1>8. \A i \in DOMAIN rows : IsList(rows[i])
    BY <1>5, <1>6
<1> DEFINE all == FlattenSeq(rows)
<1> HIDE DEF all
<1>9. IsList(all) /\ \A x : x \in ToSet(all) <=> \E i \in DOMAIN rows : x \in ToSet(rows[i])
    BY <1>7, <1>8, Flattens DEF all
<1>10. \A x : x \in ToSet(all) <=>
          \E i \in 1 .. Len(outer), j \in 1 .. Len(inner) : x = pair(i, j)
    BY <1>5, <1>6, <1>9
<1>11. \A y : y \in {p.ends : p \in ToSet(all)} <=>
          \E i \in 1 .. Len(outer), j \in 1 .. Len(inner) : y = ends(i, j)
    BY <1>a, <1>10
<1>12. \A y : y \in {p.ends : p \in ToSet(all)} <=>
          \E a \in ToSet(outer), b \in ToSet(inner) : y = <<a[1], b[2]>>
    <2>1. \A y : (\E i \in 1 .. Len(outer), j \in 1 .. Len(inner) : y = ends(i, j))
                 <=> \E a \in ToSet(outer), b \in ToSet(inner) : y = <<a[1], b[2]>>
        BY <1>4 DEF ends
    <2> QED BY <1>11, <2>1
<1> DEFINE E == {p.ends : p \in ToSet(all)}
<1> HIDE DEF E
<1>13. \A y : y \in E <=> \E a \in ToSet(outer), b \in ToSet(inner) : y = <<a[1], b[2]>>
    BY <1>12 DEF E
<1>14. \A e \in E : \E a \in ToSet(first), b \in ToSet(second) :
          /\ Far(a) = job /\ Near(b) = job /\ IsTable(Far(b))
          /\ e = IF Branch = "downstream" THEN <<a[1], b[2]>> ELSE <<b[1], a[2]>>
    <2>1. CASE Branch = "downstream"
        <3>1. outer = near /\ inner = far
            BY <2>1 DEF outer, inner
        <3> QED BY <1>2, <1>13, <2>1, <3>1
    <2>2. CASE Branch # "downstream"
        <3>1. outer = far /\ inner = near
            BY <2>2 DEF outer, inner
        <3> QED BY <1>2, <1>13, <2>2, <3>1
    <2> QED BY <2>1, <2>2
<1>15. \A a \in ToSet(first), b \in ToSet(second) :
          Far(a) = job /\ Near(b) = job /\ IsTable(Far(b)) =>
            (IF Branch = "downstream" THEN <<a[1], b[2]>> ELSE <<b[1], a[2]>>) \in E
    <2>1. CASE Branch = "downstream"
        <3>1. outer = near /\ inner = far
            BY <2>1 DEF outer, inner
        <3> QED BY <1>2, <1>13, <2>1, <3>1
    <2>2. CASE Branch # "downstream"
        <3>1. outer = far /\ inner = near
            BY <2>2 DEF outer, inner
        <3> QED BY <1>2, <1>13, <2>2, <3>1
    <2> QED BY <2>1, <2>2
<1> QED BY <1>1, <1>9, <1>14, <1>15 DEF E, all

-----------------------------------------------------------------------------
(* The courses of a walk                                                    *)

TwoWays == {"upstream", "downstream"}

LEMMA StepsAre ==
    ASSUME graph \in Graphs, NEW d \in TwoWays
    PROVE  /\ Along(d) \subseteq Nodes \X Nodes /\ StepsOf(d) \subseteq Nodes \X Nodes
           /\ Tables \subseteq Nodes /\ \A n \in Nodes : IsTable(n) <=> n \in Tables
           /\ walk.view = "table" => StepsOf(d) \subseteq Tables \X Tables
<1>1. \A e \in EdgeSet : e[1] \in Nodes /\ e[2] \in Nodes /\ e \in Nodes \X Nodes
    BY EndsInGraph, GraphIs
<1>2. Along(d) \subseteq Nodes \X Nodes
    <2>1. \A e \in EdgeSet : <<e[2], e[1]>> \in Nodes \X Nodes
        BY <1>1
    <2> QED BY <1>1, <2>1 DEF Along
<1>3. Tables \subseteq Nodes /\ \A n \in Nodes : IsTable(n) <=> n \in Tables
    BY DEF Tables
<1>4. walk.view = "detail" => StepsOf(d) = Along(d)
    BY DEF StepsOf
<1>5. walk.view # "detail" => StepsOf(d) \subseteq Tables \X Tables
    BY DEF StepsOf
<1> QED BY <1>2, <1>3, <1>4, <1>5

LEMMA CourseIs ==
    ASSUME NEW d
    PROVE  /\ Course(d).nodes = Nodes /\ Course(d).tables = Tables
           /\ Course(d).root = walk.root /\ Course(d).depth = request.depth
           /\ Course(d).steps = StepsOf(d)
           /\ Course(d).flip = (d = "upstream")
           /\ Course(d).on = {q \in Nodes \X (0..request.depth) : GoesOn(d, q[1], q[2])}
BY DEF Course

LEMMA GoesOnFrom ==
    ASSUME NEW d, NEW n, NEW c
    PROVE  <<n, c>> \in Course(d).on <=>
             n \in Nodes /\ c \in 0..request.depth /\ GoesOn(d, n, c)
<1>1. Course(d).on = {q \in Nodes \X (0..request.depth) : GoesOn(d, q[1], q[2])}
    BY CourseIs
<1> DEFINE q == <<n, c>>
<1>2. q[1] = n /\ q[2] = c
    OBVIOUS
<1>3. q \in Nodes \X (0..request.depth) <=> n \in Nodes /\ c \in 0..request.depth
    OBVIOUS
<1> HIDE DEF q
<1>4. GoesOn(d, q[1], q[2]) <=> GoesOn(d, n, c)
    BY <1>2
<1>5. q \in Course(d).on <=> q \in Nodes \X (0..request.depth) /\ GoesOn(d, q[1], q[2])
    BY <1>1
<1>6. q \in Course(d).on <=> n \in Nodes /\ c \in 0..request.depth /\ GoesOn(d, n, c)
    BY <1>3, <1>4, <1>5
<1> QED BY <1>6 DEF q

LEMMA CourseOK ==
    ASSUME graph \in Graphs, request \in Requests, walk.root \in Nodes, NEW d \in TwoWays
    PROVE  IsBranch(Course(d))
<1>1. PICK b : b = Course(d)
    OBVIOUS
<1>2. /\ b.nodes = Nodes /\ b.tables = Tables /\ b.root = walk.root
      /\ b.depth = request.depth /\ b.steps = StepsOf(d)
    BY <1>1, CourseIs
<1>3. request.depth \in Nat
    BY RequestIs
<1>4. \A n, c : <<n, c>> \in b.on <=> n \in Nodes /\ c \in 0..request.depth /\ GoesOn(d, n, c)
    BY <1>1, GoesOnFrom
<1>5. \A n, c, e : <<n, c>> \in b.on /\ e \in 0 .. c => <<n, e>> \in b.on
    <2> SUFFICES ASSUME NEW n, NEW c, NEW e, <<n, c>> \in b.on, e \in 0 .. c
                 PROVE  <<n, e>> \in b.on
        OBVIOUS
    <2>1. n \in Nodes /\ c \in 0..request.depth /\ GoesOn(d, n, c)
        BY <1>4
    <2>2. e \in 0..request.depth
        BY <1>3, <2>1
    <2>3. GoesOn(d, n, e)
        BY <1>3, <2>1, <2>2 DEF GoesOn
    <2> QED BY <1>4, <2>1, <2>2, <2>3
<1>6. \A n, c : <<n, c>> \in b.on /\ n \in b.tables => c < b.depth
    BY <1>2, <1>4 DEF GoesOn, Tables
<1>7. IsFiniteSet(Nodes)
    BY GraphIs
<1>8. StepsOf(d) \subseteq Nodes \X Nodes
    BY StepsAre
<1>9. IsCourse(b)
    BY <1>2, <1>3, <1>5, <1>6, <1>7, <1>8 DEF IsCourse
<1> QED BY <1>1, <1>9, CourseIsBranch

\* An edge that is shown is a step of the branch, from its near end to its far end.
LEMMA StepIs ==
    ASSUME graph \in Graphs, Branch \in TwoWays, NEW e, e = <<e[1], e[2]>>
    PROVE  /\ e \in StepsOf("downstream") <=> <<Near(e), Far(e)>> \in StepsOf(Branch)
           /\ Drawn(Course(Branch), <<Near(e), Far(e)>>) = e
<1>1. Drawn(Course(Branch), <<Near(e), Far(e)>>) = e
    <2>1. Course(Branch).flip = (Branch = "upstream")
        BY CourseIs
    <2>2. CASE Branch = "upstream"
        BY <2>1, <2>2 DEF Drawn, Near, Far
    <2>3. CASE Branch = "downstream"
        <3>1. ~(Branch = "upstream")
            BY <2>3
        <3>2. Near(e) = e[1] /\ Far(e) = e[2]
            BY <2>3 DEF Near, Far
        <3> QED BY <2>1, <3>1, <3>2 DEF Drawn
    <2> QED BY <2>2, <2>3 DEF TwoWays
<1>2. CASE Branch = "downstream"
    <2>1. <<Near(e), Far(e)>> = e
        BY <1>2 DEF Near, Far
    <2> QED BY <1>1, <1>2, <2>1
<1>3. CASE Branch = "upstream"
    <2>1. <<Near(e), Far(e)>> = <<e[2], e[1]>>
        BY <1>3 DEF Near, Far
    <2>2. \A a, b : <<a, b>> \in Along("downstream") <=> <<b, a>> \in Along("upstream")
        <3>1. Along("downstream") = EdgeSet
            BY DEF Along
        <3>2. Along("upstream") = {<<s[2], s[1]>> : s \in EdgeSet}
            BY DEF Along
        <3>3. \A s \in EdgeSet : s = <<s[1], s[2]>>
            BY EndsInGraph
        <3>4. ASSUME NEW a, NEW b, <<a, b>> \in EdgeSet
              PROVE  <<b, a>> \in {<<s[2], s[1]>> : s \in EdgeSet}
            <4> DEFINE s == <<a, b>>
            <4>1. s[1] = a /\ s[2] = b /\ s \in EdgeSet
                BY <3>4
            <4> HIDE DEF s
            <4> QED BY <4>1
        <3>5. ASSUME NEW a, NEW b, NEW s \in EdgeSet, <<b, a>> = <<s[2], s[1]>>
              PROVE  <<a, b>> \in EdgeSet
            <4>1. a = s[1] /\ b = s[2]
                BY <3>5
            <4> QED BY <3>3, <4>1
        <3> QED BY <3>1, <3>2, <3>4, <3>5
    <2>3. CASE walk.view = "detail"
        <3>1. StepsOf("downstream") = Along("downstream") /\ StepsOf("upstream") = Along("upstream")
            BY <2>3 DEF StepsOf
        <3>2. e \in Along("downstream") <=> <<e[2], e[1]>> \in Along("upstream")
            BY <2>2
        <3> QED BY <1>1, <1>3, <2>1, <3>1, <3>2
    <2>4. CASE walk.view # "detail"
        <3> DEFINE Joined(d, a, b) ==
                /\ a \in Tables /\ b \in Tables
                /\ <<a, b>> \in Along(d) \/ (a # b /\ \E j \in Nodes :
                        IsTask(j) /\ <<a, j>> \in Along(d) /\ <<j, b>> \in Along(d))
        <3>1. \A d, a, b : <<a, b>> \in StepsOf(d) <=> Joined(d, a, b)
            BY <2>4 DEF StepsOf
        <3>2. \A a, b : Joined("downstream", a, b) <=> Joined("upstream", b, a)
            BY <2>2
        <3> HIDE DEF Joined
        <3>3. e \in StepsOf("downstream") <=> Joined("downstream", e[1], e[2])
            BY <3>1
        <3>4. <<e[2], e[1]>> \in StepsOf("upstream") <=> Joined("upstream", e[2], e[1])
            BY <3>1
        <3> QED BY <1>1, <1>3, <2>1, <3>2, <3>3, <3>4
    <2> QED BY <2>3, <2>4
<1> QED BY <1>2, <1>3 DEF TwoWays

LEMMA EdgeOf ==
    ASSUME graph \in Graphs, Branch \in TwoWays, NEW n, NEW m, <<n, m>> \in StepsOf(Branch)
    PROVE  \E e \in StepsOf("downstream") :
             /\ e = <<e[1], e[2]>> /\ Near(e) = n /\ Far(e) = m
             /\ Drawn(Course(Branch), <<n, m>>) = e
<1> DEFINE e == IF Branch = "downstream" THEN <<n, m>> ELSE <<m, n>>
<1>1. e = <<e[1], e[2]>> /\ Near(e) = n /\ Far(e) = m
    BY DEF Near, Far
<1> HIDE DEF e
<1>2. e \in StepsOf("downstream") /\ Drawn(Course(Branch), <<n, m>>) = e
    BY <1>1, StepIs
<1> QED BY <1>1, <1>2

-----------------------------------------------------------------------------
(* A walk in place                                                          *)

InPlace(w) ==
    /\ IsReach(w) /\ InBudget(w)
    /\ IsList(w.frontier)
    /\ \A f \in ToSet(w.frontier) : f.node \in DOMAIN w.best /\ f.cost \in Nat
    /\ w.root \in w.selected /\ w.selected \subseteq Reachable
    /\ w.view = "table" => w.selected \subseteq Tables
    /\ w.edges \subseteq StepsOf("downstream")
    /\ ToSet(w.branches) \subseteq Directions
    /\ ~w.truncated /\ (\A b \in Courses : IsStraight(b)) =>
          \A d \in Directions \ ToSet(w.branches) : BranchKept(Course(d), w)

Walking(w) ==
    /\ w.branches \in {<<"upstream", "downstream">>, <<"upstream">>, <<"downstream">>}
    /\ RoundOK(Course(Head(w.branches)), w)

LEMMA DirectionsAre ==
    ASSUME request \in Requests
    PROVE  /\ Directions \subseteq TwoWays
           /\ Branches \in {<<"upstream", "downstream">>, <<"upstream">>, <<"downstream">>}
           /\ \A n : n \in Reachable <=>
                \E d \in Directions : \E q \in Ends(Course(d)) : n = q[1]
<1>1. request.direction \in {"both", "upstream", "downstream"}
    BY RequestIs
<1>2. Branches \in {<<"upstream", "downstream">>, <<"upstream">>, <<"downstream">>}
    BY <1>1 DEF Branches
<1>3. \A x : x \in ToSet(<<"upstream", "downstream">>) => x \in TwoWays
    BY DEF ToSet, TwoWays
<1>4. \A x : x \in ToSet(<<"upstream">>) \/ x \in ToSet(<<"downstream">>) => x \in TwoWays
    BY DEF ToSet, TwoWays
<1>5. Directions \subseteq TwoWays
    BY <1>2, <1>3, <1>4 DEF Directions
<1>6. \A n : n \in Reachable <=> \E d \in Directions : \E q \in Ends(Course(d)) : n = q[1]
    BY DEF Reachable, Courses
<1> QED BY <1>2, <1>5, <1>6

LEMMA FirstBranch ==
    ASSUME NEW l \in {<<"upstream", "downstream">>, <<"upstream">>, <<"downstream">>}
    PROVE  Head(l) \in TwoWays /\ Head(l) \in ToSet(l)
BY DEF ToSet, TwoWays

LEMMA BranchOfWalk ==
    ASSUME request \in Requests, InPlace(walk), Walking(walk)
    PROVE  Branch \in TwoWays /\ Branch \in Directions
BY FirstBranch, DirectionsAre DEF Walking, InPlace, Branch

\* A group of the frontier is expanded: `start' is the walk once the batch is read, F
\* are the neighbours found, v is the walk that has admitted them.
Expansion(start, F, v, u) ==
    /\ DOMAIN start = WalkFields /\ InBudget(start) /\ start.truncated \in BOOLEAN
    /\ walk.truncated => start.truncated
    /\ start.best = walk.best /\ start.next = walk.next /\ start.selected = walk.selected
    /\ start.pc = walk.pc /\ start.root = walk.root /\ start.view = walk.view
    /\ start.branches = walk.branches
    /\ start.frontier = Rest /\ start.expanded = walk.expanded \cup Expandable
    /\ \A f \in F : \E e \in StepsOf("downstream") :
           /\ Near(e) \in Expandable /\ f.node = Far(e)
           /\ f.cost = Cost + Toll(Course(Branch), Far(e))
    /\ ~start.truncated => \A e \in StepsOf("downstream") : Near(e) \in Expandable =>
           \E f \in F : f.node = Far(e) /\ f.cost = Cost + Toll(Course(Branch), Far(e))
    /\ Grown(start, v, F)
    /\ DOMAIN u = WalkFields /\ \A x \in WalkFields \ {"edges"} : u[x] = v[x]
    /\ walk.edges \subseteq u.edges /\ u.edges \subseteq StepsOf("downstream")
    /\ ~v.truncated => \A e \in StepsOf("downstream") :
           Near(e) \in Expandable /\ Cost + Toll(Course(Branch), Far(e)) <= request.depth => e \in u.edges

LEMMA ExpandedKeeps ==
    ASSUME graph \in Graphs, request \in Requests, walk.root \in Nodes,
           InPlace(walk), Walking(walk),
           NEW start, NEW F, NEW v, NEW u, Expansion(start, F, v, u)
    PROVE  /\ InPlace(u) /\ Walking(u)
           /\ u.pc = walk.pc /\ u.root = walk.root /\ u.view = walk.view
<1> SUFFICES
      ASSUME DOMAIN start = WalkFields /\ InBudget(start) /\ start.truncated \in BOOLEAN,
             walk.truncated => start.truncated,
             start.best = walk.best /\ start.next = walk.next /\ start.selected = walk.selected,
             start.pc = walk.pc /\ start.root = walk.root /\ start.view = walk.view,
             start.branches = walk.branches,
             start.frontier = Rest /\ start.expanded = walk.expanded \cup Expandable,
             \A f \in F : \E e \in StepsOf("downstream") :
                 /\ Near(e) \in Expandable /\ f.node = Far(e)
                 /\ f.cost = Cost + Toll(Course(Branch), Far(e)),
             ~start.truncated => \A e \in StepsOf("downstream") : Near(e) \in Expandable =>
                 \E f \in F : f.node = Far(e) /\ f.cost = Cost + Toll(Course(Branch), Far(e)),
             Grown(start, v, F),
             DOMAIN u = WalkFields /\ \A x \in WalkFields \ {"edges"} : u[x] = v[x],
             walk.edges \subseteq u.edges /\ u.edges \subseteq StepsOf("downstream"),
             ~v.truncated => \A e \in StepsOf("downstream") :
                 Near(e) \in Expandable /\ Cost + Toll(Course(Branch), Far(e)) <= request.depth => e \in u.edges
      PROVE  /\ InPlace(u) /\ Walking(u)
             /\ u.pc = walk.pc /\ u.root = walk.root /\ u.view = walk.view
    BY DEF Expansion
<1>1. Branch \in TwoWays /\ Branch \in Directions
    BY BranchOfWalk
<1>2. PICK b : b = Course(Branch)
    OBVIOUS
<1>3. PICK c : c = Cost
    OBVIOUS
<1>4. PICK w : w = walk
    OBVIOUS
<1>5. PICK X : X = Expandable
    OBVIOUS
<1>6. IsBranch(b)
    BY <1>1, <1>2, CourseOK
<1>7. /\ b.nodes = Nodes /\ b.tables = Tables /\ b.root = walk.root
      /\ b.depth = request.depth /\ b.steps = StepsOf(Branch)
    BY <1>2, CourseIs
<1>8. \A n, a : <<n, a>> \in b.on <=> n \in Nodes /\ a \in 0..request.depth /\ GoesOn(Branch, n, a)
    BY <1>2, GoesOnFrom
<1>9. RoundOK(b, w)
    BY <1>2, <1>4 DEF Walking, Branch
<1>10. IsReach(w)
    BY <1>4 DEF InPlace
<1>11. \A f \in ToSet(w.frontier) : f.node \in Nodes /\ f.cost \in 0 .. request.depth
    <2>1. PICK r \in 0 .. Size(b) : Sound(b, w, r)
        BY <1>9 DEF RoundOK
    <2>2. \A f \in ToSet(w.frontier) : <<f.node, f.cost>> \in Paths(b)[r]
        BY <2>1 DEF Sound
    <2> QED BY <1>6, <1>7, <2>2, LevelPairs
<1>12. \A n : n \in X <=>
          /\ \E f \in ToSet(w.frontier) : f.node = n /\ f.cost = c
          /\ n \notin w.expanded /\ GoesOn(Branch, n, c)
    <2>1. \A n : n \in Group <=> \E f \in ToSet(w.frontier) : f.node = n /\ f.cost = c
        BY <1>3, <1>4 DEF Group
    <2>2. \A n : n \in X <=> n \in Group /\ n \notin w.expanded /\ ~StopsAt(n) /\ (IsTable(n) => c < request.depth)
        BY <1>3, <1>4, <1>5 DEF Expandable
    <2> QED BY <2>1, <2>2 DEF GoesOn, StopsAt
<1>13. \A n \in X : n \notin w.expanded /\ <<n, c>> \in b.on
                      /\ \E f \in ToSet(w.frontier) : f.node = n /\ f.cost = c
    BY <1>8, <1>11, <1>12
<1>14. \A f \in ToSet(w.frontier) : f.cost = c =>
          f.node \in X \/ f.node \in w.expanded \/ <<f.node, c>> \notin b.on
    BY <1>8, <1>12
<1>15. /\ IsList(start.frontier)
       /\ \A f : f \in ToSet(start.frontier) <=> f \in ToSet(w.frontier) /\ f.cost # c
    <2> DEFINE S == {f \in ToSet(walk.frontier) : f.cost # Cost}
    <2>1. \A f : f \in S <=> f \in ToSet(w.frontier) /\ f.cost # c
        BY <1>3, <1>4
    <2>2. S \subseteq ToSet(walk.frontier)
        OBVIOUS
    <2>3. start.frontier = Within(walk.frontier, S)
        BY DEF Rest
    <2>4. IsList(walk.frontier)
        BY DEF InPlace
    <2> HIDE DEF S
    <2>5. IsList(start.frontier) /\ ToSet(start.frontier) = ToSet(walk.frontier) \cap S
        BY <2>3, <2>4, WithinIs
    <2>6. ToSet(start.frontier) = S
        BY <2>2, <2>5
    <2> QED BY <2>1, <2>5, <2>6
<1>16. IsReach(start)
    <2>1. IsReach(walk)
        BY DEF InPlace
    <2> QED BY <2>1 DEF IsReach
<1>17. start.best = w.best /\ start.next = w.next /\ start.expanded = w.expanded \cup X
       /\ (w.truncated => start.truncated) /\ request.depth = b.depth
    BY <1>4, <1>5, <1>7
<1>18. \A e \in StepsOf("downstream") :
          /\ e = <<e[1], e[2]>> /\ <<Near(e), Far(e)>> \in b.steps
          /\ Drawn(b, <<Near(e), Far(e)>>) = e
    <2>1. \A e \in StepsOf("downstream") : e = <<e[1], e[2]>>
        <3>1. StepsOf("downstream") \subseteq Nodes \X Nodes
            BY StepsAre DEF TwoWays
        <3> QED BY <3>1
    <2> QED BY <1>1, <1>2, <1>7, <2>1, StepIs
<1>19. \A n, m : <<n, m>> \in b.steps =>
          \E e \in StepsOf("downstream") : Near(e) = n /\ Far(e) = m /\ Drawn(b, <<n, m>>) = e
    <2> SUFFICES ASSUME NEW n, NEW m, <<n, m>> \in b.steps
                 PROVE  \E e \in StepsOf("downstream") :
                          Near(e) = n /\ Far(e) = m /\ Drawn(b, <<n, m>>) = e
        OBVIOUS
    <2>1. PICK e \in StepsOf("downstream") :
             /\ e = <<e[1], e[2]>> /\ Near(e) = n /\ Far(e) = m
             /\ Drawn(Course(Branch), <<n, m>>) = e
        BY <1>1, <1>7, EdgeOf
    <2> QED BY <1>2, <2>1
<1>20. \A f \in F : \E n \in X : <<n, f.node>> \in b.steps /\ f.cost = c + Toll(b, f.node)
    BY <1>2, <1>3, <1>5, <1>18
<1>21. ~start.truncated => \A n \in X : \A m : <<n, m>> \in b.steps =>
          \E f \in F : f.node = m /\ f.cost = c + Toll(b, m)
    <2> SUFFICES ASSUME ~start.truncated, NEW n \in X, NEW m, <<n, m>> \in b.steps
                 PROVE  \E f \in F : f.node = m /\ f.cost = c + Toll(b, m)
        OBVIOUS
    <2>1. PICK e \in StepsOf("downstream") : Near(e) = n /\ Far(e) = m
        BY <1>19
    <2> QED BY <1>2, <1>3, <1>5, <2>1
<1>22. /\ u.best = v.best /\ u.next = v.next /\ u.frontier = v.frontier
       /\ u.expanded = v.expanded /\ u.truncated = v.truncated /\ w.edges \subseteq u.edges
       /\ u.selected = v.selected /\ u.pc = v.pc /\ u.root = v.root /\ u.view = v.view
       /\ u.branches = v.branches /\ u.tasks = v.tasks /\ u.pairs = v.pairs /\ u.rows = v.rows
    BY <1>4 DEF WalkFields
<1>23. ~v.truncated => \A n \in X : \A m :
          <<n, m>> \in b.steps /\ c + Toll(b, m) <= b.depth => Drawn(b, <<n, m>>) \in u.edges
    <2> SUFFICES ASSUME ~v.truncated, NEW n \in X, NEW m, <<n, m>> \in b.steps,
                        c + Toll(b, m) <= b.depth
                 PROVE  Drawn(b, <<n, m>>) \in u.edges
        OBVIOUS
    <2>1. PICK e \in StepsOf("downstream") : Near(e) = n /\ Far(e) = m /\ Drawn(b, <<n, m>>) = e
        BY <1>19
    <2>2. Cost + Toll(Course(Branch), Far(e)) <= request.depth
        BY <1>2, <1>3, <1>7, <2>1
    <2> QED BY <1>5, <2>1, <2>2
<1>24. RoundOK(b, u)
    <2>1. Expands(b, w, c, X, start, F, v, u)
        BY <1>13, <1>14, <1>15, <1>16, <1>17, <1>20, <1>21, <1>22, <1>23 DEF Expands
    <2> QED BY <1>6, <1>9, <1>10, <1>17, <2>1, ExpandingKeeps
<1>25. /\ \A x \in WalkFields \ {"selected", "best", "next", "truncated"} : v[x] = start[x]
       /\ IsReach(v) /\ start.selected \subseteq v.selected
       /\ v.selected \subseteq start.selected \cup DOMAIN v.best
       /\ \A n \in DOMAIN start.best : n \in DOMAIN v.best
       /\ start.truncated => v.truncated
    BY DEF Grown
<1>26. /\ u.pc = walk.pc /\ u.root = walk.root /\ u.view = walk.view
       /\ u.branches = walk.branches /\ u.frontier = start.frontier
       /\ u.tasks = start.tasks /\ u.pairs = start.pairs /\ u.rows = start.rows
    <2>1. /\ v.pc = start.pc /\ v.root = start.root /\ v.view = start.view
          /\ v.branches = start.branches /\ v.frontier = start.frontier
          /\ v.tasks = start.tasks /\ v.pairs = start.pairs /\ v.rows = start.rows
        BY <1>25 DEF WalkFields
    <2> QED BY <1>22, <2>1
<1>27. IsReach(u)
    BY <1>22, <1>25 DEF IsReach
<1>28. InBudget(u)
    BY <1>26 DEF InBudget
<1>29. \A f \in ToSet(u.frontier) : f.node \in DOMAIN u.best /\ f.cost \in Nat
    <2>1. \A f \in ToSet(walk.frontier) : f.node \in DOMAIN walk.best /\ f.cost \in Nat
        BY DEF InPlace
    <2> QED BY <1>4, <1>15, <1>22, <1>25, <1>26, <2>1
<1>30. u.root \in u.selected /\ u.selected \subseteq Reachable
    <2>1. walk.root \in walk.selected /\ walk.selected \subseteq Reachable
        BY DEF InPlace
    <2>2. ASSUME NEW n \in DOMAIN u.best PROVE n \in Reachable
        <3>1. PICK r \in 0 .. Size(b) : Sound(b, u, r)
            BY <1>24 DEF RoundOK
        <3>2. u.expanded \subseteq b.nodes
            BY <1>24 DEF RoundOK
        <3>3. <<n, u.best[n]>> \in Ends(b)
            BY <1>6, <3>1, <3>2, ReachedIsEnd
        <3> DEFINE q == <<n, u.best[n]>>
        <3>4. n = q[1] /\ q \in Ends(Course(Branch))
            BY <1>2, <3>3
        <3> HIDE DEF q
        <3> QED BY <1>1, <3>4, DirectionsAre
    <2> QED BY <1>22, <1>25, <1>26, <2>1, <2>2
<1>31. u.view = "table" => u.selected \subseteq Tables
    <2> SUFFICES ASSUME u.view = "table", NEW n \in u.selected PROVE n \in Tables
        OBVIOUS
    <2>1. walk.view = "table" /\ walk.selected \subseteq Tables
        BY <1>26 DEF InPlace
    <2>2. CASE n \in DOMAIN v.best
        <3>1. \/ n \in DOMAIN start.best
              \/ \E f \in F : f.node = n
            BY <2>2 DEF Grown
        <3>2. CASE n \in DOMAIN start.best
            BY <2>1, <3>2 DEF InPlace, IsReach
        <3>3. CASE \E f \in F : f.node = n
            <4>1. PICK e \in StepsOf("downstream") : Far(e) = n
                BY <3>3
            <4>2. e \in Tables \X Tables
                BY <2>1, StepsAre DEF TwoWays
            <4> QED BY <4>1, <4>2 DEF Far
        <3> QED BY <3>1, <3>2, <3>3
    <2> QED BY <1>22, <1>25, <2>1, <2>2
<1>32. ToSet(u.branches) \subseteq Directions
    BY <1>26 DEF InPlace
<1>33. ~u.truncated /\ (\A a \in Courses : IsStraight(a)) =>
          \A d \in Directions \ ToSet(u.branches) : BranchKept(Course(d), u)
    <2> SUFFICES ASSUME ~u.truncated, \A a \in Courses : IsStraight(a),
                        NEW d \in Directions \ ToSet(u.branches)
                 PROVE  BranchKept(Course(d), u)
        OBVIOUS
    <2>1. ~walk.truncated
        BY <1>22, <1>25
    <2>2. BranchKept(Course(d), walk)
        BY <1>26, <2>1 DEF InPlace
    <2>3. PICK a : a = Course(d)
        OBVIOUS
    <2>4. BranchKept(a, w) /\ w.selected \subseteq u.selected /\ w.edges \subseteq u.edges
        BY <1>4, <1>22, <1>25, <2>2, <2>3
    <2>5. BranchKept(a, u)
        BY <2>4, KeptStays
    <2> QED BY <2>3, <2>5
<1>34. InPlace(u)
    BY <1>15, <1>26, <1>27, <1>28, <1>29, <1>30, <1>31, <1>32, <1>33 DEF InPlace
<1>35. Walking(u)
    BY <1>2, <1>24, <1>26 DEF Walking, Branch
<1> QED BY <1>26, <1>34, <1>35

-----------------------------------------------------------------------------
(* The steps of a walk                                                      *)

LEMMA FrontIs ==
    ASSUME IsList(walk.frontier), \A f \in ToSet(walk.frontier) : f.cost \in Nat,
           walk.frontier # <<>>
    PROVE  Cost \in Nat
<1>1. PICK l : l = walk.frontier
    OBVIOUS
<1>0. IsList(l)
    BY <1>1
<1>2. /\ Len(l) \in Nat /\ l \in Seq(ToSet(l))
      /\ \A x : x \in ToSet(l) <=> \E i \in 1 .. Len(l) : x = l[i]
    BY ONLY <1>0, ListIs
<1>3. Head(l) = l[1] /\ 1 \in 1 .. Len(l)
    BY <1>1, <1>2
<1>4. Head(l) \in ToSet(l)
    BY <1>2, <1>3
<1> QED BY <1>1, <1>4 DEF Cost

\* The neighbours at the far ends of the rows.
IsFound(list, rows, c, b) ==
    /\ list = [i \in DOMAIN rows |-> list[i]]
    /\ \A i \in DOMAIN rows : /\ list[i].node = Far(rows[i])
                              /\ list[i].cost = c + Toll(b, Far(rows[i]))

LEMMA FoundAre ==
    ASSUME NEW rows, IsList(rows), NEW c \in Nat, NEW b, NEW list, IsFound(list, rows, c, b)
    PROVE  /\ IsList(list)
           /\ \A f \in ToSet(list) : /\ f.cost \in Nat
                                     /\ \E e \in ToSet(rows) : /\ f.node = Far(e)
                                                               /\ f.cost = c + Toll(b, Far(e))
           /\ \A e \in ToSet(rows) : \E f \in ToSet(list) : /\ f.node = Far(e)
                                                            /\ f.cost = c + Toll(b, Far(e))
<1>1. PICK n : n = Len(rows)
    OBVIOUS
<1>2. n \in Nat /\ DOMAIN rows = 1 .. n /\ \A x : x \in ToSet(rows) <=> \E i \in 1 .. n : x = rows[i]
    BY <1>1, ListIs
<1>3. list = [i \in 1 .. n |-> list[i]]
    BY <1>2 DEF IsFound
<1>4. IsList(list) /\ \A x : x \in ToSet(list) <=> \E i \in 1 .. n : x = list[i]
    BY <1>2, <1>3, ListOf
<1>5. \A m : c + Toll(b, m) \in Nat
    BY DEF Toll
<1>6. \A i \in 1 .. n : /\ list[i].node = Far(rows[i])
                         /\ list[i].cost = c + Toll(b, Far(rows[i])) /\ list[i].cost \in Nat
    BY <1>2, <1>5 DEF IsFound
<1>7. ASSUME NEW f \in ToSet(list)
      PROVE  f.cost \in Nat /\ \E e \in ToSet(rows) : f.node = Far(e) /\ f.cost = c + Toll(b, Far(e))
    <2>1. PICK i \in 1 .. n : f = list[i]
        BY <1>4
    <2>2. rows[i] \in ToSet(rows)
        BY <1>2
    <2> QED BY <1>6, <2>1, <2>2
<1>8. ASSUME NEW e \in ToSet(rows)
      PROVE  \E f \in ToSet(list) : f.node = Far(e) /\ f.cost = c + Toll(b, Far(e))
    <2>1. PICK i \in 1 .. n : e = rows[i]
        BY <1>2
    <2>2. list[i] \in ToSet(list)
        BY <1>4
    <2> QED BY <1>6, <2>1, <2>2
<1> QED BY <1>4, <1>7, <1>8

\* A node that is expanded has been reached.
LEMMA ExpandableIs ==
    ASSUME InPlace(walk), NEW n \in Expandable
    PROVE  n \in DOMAIN walk.best /\ n \in walk.selected
<1>1. \A f \in ToSet(walk.frontier) : f.node \in DOMAIN walk.best
    BY DEF InPlace
<1>2. PICK f \in ToSet(walk.frontier) : n = f.node
    BY DEF Expandable, Group
<1>3. DOMAIN walk.best \subseteq walk.selected
    BY DEF InPlace, IsReach
<1> QED BY <1>1, <1>2, <1>3

LEMMA SkipKeeps ==
    ASSUME graph \in Graphs, request \in Requests, walk.root \in Nodes,
           InPlace(walk), Walking(walk), SkipGroup
    PROVE  /\ InPlace(walk') /\ Walking(walk')
           /\ walk'.pc = walk.pc /\ walk'.root = walk.root /\ walk'.view = walk.view
<1>0. PICK u : u = walk'
    OBVIOUS
<1>00. Expandable = {} /\ u = [walk EXCEPT !.frontier = Rest]
    BY <1>0 DEF SkipGroup
<1>1. IsReach(walk) /\ InBudget(walk) /\ walk.edges \subseteq StepsOf("downstream")
    BY DEF InPlace
<1>2. DOMAIN walk = WalkFields
    BY <1>1 DEF IsReach
<1>3. /\ DOMAIN u = WalkFields /\ u.frontier = Rest
      /\ \A x \in WalkFields \ {"frontier"} : u[x] = walk[x]
    BY <1>00, <1>2 DEF WalkFields
<1>4. /\ u.best = walk.best /\ u.next = walk.next /\ u.selected = walk.selected
      /\ u.pc = walk.pc /\ u.root = walk.root /\ u.view = walk.view
      /\ u.branches = walk.branches /\ u.expanded = walk.expanded /\ u.edges = walk.edges
      /\ u.truncated = walk.truncated /\ u.rows = walk.rows /\ u.tasks = walk.tasks
      /\ u.pairs = walk.pairs
    BY <1>3 DEF WalkFields
<1>5. IsReach(u) /\ InBudget(u) /\ u.truncated \in BOOLEAN
    BY <1>1, <1>3, <1>4 DEF IsReach, InBudget
<1>6. Grown(u, u, {})
    <2>1. \A n \in DOMAIN u.best : u.best[n] <= u.best[n]
        <3>1. u.best \in [DOMAIN u.best -> Nat]
            BY <1>5 DEF IsReach
        <3> QED BY <3>1
    <2> QED BY <1>5, <2>1 DEF Grown
<1>7. Expansion(u, {}, u, u)
    BY <1>00, <1>1, <1>3, <1>4, <1>5, <1>6 DEF Expansion
<1>8. /\ InPlace(u) /\ Walking(u)
      /\ u.pc = walk.pc /\ u.root = walk.root /\ u.view = walk.view
    BY <1>7, ExpandedKeeps
<1> QED BY <1>0, <1>8

LEMMA DetailKeeps ==
    ASSUME graph \in Graphs, request \in Requests, walk.root \in Nodes,
           InPlace(walk), Walking(walk), ExpandDetail
    PROVE  /\ InPlace(walk') /\ Walking(walk')
           /\ walk'.pc = walk.pc /\ walk'.root = walk.root /\ walk'.view = walk.view
<1> DEFINE
      batch == Adjacent(walk, Expandable)
      start == [ReadBatch(walk, batch) EXCEPT !.frontier = Rest, !.expanded = @ \cup Expandable]
      rows == batch.rows
      list == [i \in DOMAIN batch.rows |->
                 [node |-> Far(batch.rows[i]),
                  cost |-> Cost + IF IsTable(Far(batch.rows[i])) THEN 1 ELSE 0]]
      v == AdmitAll(start, list)
<1>0. /\ walk' = [v EXCEPT !.edges =
                    @ \cup {e \in ToSet(batch.rows) : {e[1], e[2]} \subseteq v.selected}]
      /\ walk.frontier # <<>> /\ walk.view = "detail"
    BY DEF ExpandDetail, Expanding
<1> HIDE DEF batch, start, rows, list, v
<1>00. PICK u : u = walk'
    OBVIOUS
<1>1. IsReach(walk) /\ InBudget(walk) /\ walk.edges \subseteq StepsOf("downstream")
    BY DEF InPlace
<1>2. /\ DOMAIN walk = WalkFields /\ IsFiniteSet(walk.selected) /\ walk.truncated \in BOOLEAN
      /\ walk.rows \in Nat /\ walk.rows <= MaxEdgeRows
    BY <1>1 DEF IsReach, InBudget
<1>3. Branch \in TwoWays
    BY BranchOfWalk
<1>04. batch = Adjacent(walk, Expandable)
    BY DEF batch
<1>4. /\ IsList(batch.rows) /\ batch.cut \in BOOLEAN
      /\ walk.rows + Len(batch.rows) \in Nat /\ walk.rows + Len(batch.rows) <= MaxEdgeRows
      /\ \A e \in ToSet(batch.rows) : e \in EdgeSet /\ Near(e) \in Expandable
      /\ ~batch.cut => \A e \in EdgeSet : Near(e) \in Expandable => e \in ToSet(batch.rows)
    BY <1>2, <1>04, AdjacentIs
<1>5. rows = batch.rows
    BY DEF rows
<1>6. Cost \in Nat
    BY <1>0, FrontIs DEF InPlace
<1>7. /\ DOMAIN start = WalkFields
      /\ \A x \in WalkFields \ {"frontier", "expanded", "rows", "truncated"} : start[x] = walk[x]
      /\ start.frontier = Rest /\ start.expanded = walk.expanded \cup Expandable
      /\ start.rows = walk.rows + Len(rows)
      /\ start.truncated \in BOOLEAN /\ (walk.truncated => start.truncated)
      /\ (~start.truncated => ~batch.cut)
    BY <1>2, <1>4, <1>5 DEF start, WalkFields, ReadBatch
<1>8. /\ start.best = walk.best /\ start.next = walk.next /\ start.selected = walk.selected
      /\ start.pc = walk.pc /\ start.root = walk.root /\ start.view = walk.view
      /\ start.branches = walk.branches /\ start.edges = walk.edges
      /\ start.tasks = walk.tasks /\ start.pairs = walk.pairs
    BY <1>7 DEF WalkFields
<1>9. IsReach(start)
    BY <1>1, <1>7, <1>8 DEF IsReach
<1>10. InBudget(start)
    BY <1>1, <1>4, <1>5, <1>7, <1>8 DEF InBudget
<1>11. PICK b : b = Course(Branch)
    OBVIOUS
<1>12. \A n \in Nodes : Toll(b, n) = IF IsTable(n) THEN 1 ELSE 0
    <2>1. b.tables = Tables
        BY <1>11, CourseIs
    <2> QED BY <2>1, <1>3, StepsAre DEF Toll
<1>13. \A e \in EdgeSet : Far(e) \in Nodes /\ Near(e) \in Nodes /\ e = <<e[1], e[2]>>
    BY EndsInGraph
<1>14. list = [i \in DOMAIN rows |->
                     [node |-> Far(rows[i]),
                      cost |-> Cost + IF IsTable(Far(rows[i])) THEN 1 ELSE 0]]
    BY DEF list, rows
<1>15. v = AdmitAll(start, list)
    BY DEF v
<1>16. IsFound(list, rows, Cost, b)
    <2>1. \A i \in DOMAIN rows : rows[i] \in ToSet(rows)
        BY DEF ToSet
    <2>2. \A i \in DOMAIN rows : Far(rows[i]) \in Nodes
        BY <1>4, <1>5, <1>13, <2>1
    <2>3. \A i \in DOMAIN rows : Toll(b, Far(rows[i])) = IF IsTable(Far(rows[i])) THEN 1 ELSE 0
        BY <1>12, <2>2
    <2>4. \A i \in DOMAIN rows :
            list[i] = [node |-> Far(rows[i]),
                       cost |-> Cost + IF IsTable(Far(rows[i])) THEN 1 ELSE 0]
        BY <1>14
    <2>5. list = [i \in DOMAIN rows |-> list[i]]
        BY <1>14
    <2>6. ASSUME NEW i \in DOMAIN rows
          PROVE  /\ list[i].node = Far(rows[i])
                 /\ list[i].cost = Cost + Toll(b, Far(rows[i]))
        <3>1. PICK t : t = IF IsTable(Far(rows[i])) THEN 1 ELSE 0
            OBVIOUS
        <3>2. list[i] = [node |-> Far(rows[i]), cost |-> Cost + t]
            BY <2>4, <3>1
        <3> QED BY <2>3, <3>1, <3>2
    <2> QED BY <2>5, <2>6 DEF IsFound
<1>17. IsList(rows)
    BY <1>4, <1>5
<1>18. /\ IsList(list)
       /\ \A f \in ToSet(list) : /\ f.cost \in Nat
                                 /\ \E e \in ToSet(rows) : /\ f.node = Far(e)
                                                           /\ f.cost = Cost + Toll(b, Far(e))
       /\ \A e \in ToSet(rows) : \E f \in ToSet(list) : /\ f.node = Far(e)
                                                        /\ f.cost = Cost + Toll(b, Far(e))
    BY <1>6, <1>16, <1>17, FoundAre
<1>19. Grown(start, v, ToSet(list))
    BY <1>9, <1>15, <1>18, RequestIs, AllGrown
<1>20. StepsOf("downstream") = EdgeSet
    BY <1>0 DEF StepsOf, Along
<1>21. /\ \A x \in WalkFields \ {"selected", "best", "next", "truncated"} : v[x] = start[x]
       /\ IsReach(v) /\ start.selected \subseteq v.selected
       /\ ~v.truncated => \A f \in ToSet(list) : f.cost <= request.depth => f.node \in DOMAIN v.best
       /\ start.truncated => v.truncated
    BY <1>19 DEF Grown
<1>22. /\ DOMAIN v = WalkFields /\ v.edges = walk.edges /\ DOMAIN v.best \subseteq v.selected
       /\ start.truncated \in BOOLEAN /\ v.truncated \in BOOLEAN
    <2>1. DOMAIN v = WalkFields /\ DOMAIN v.best \subseteq v.selected /\ v.truncated \in BOOLEAN
        BY <1>21 DEF IsReach
    <2>2. v.edges = start.edges
        BY <1>21 DEF WalkFields
    <2> QED BY <1>7, <1>8, <2>1, <2>2
<1>23. /\ DOMAIN u = WalkFields /\ \A x \in WalkFields \ {"edges"} : u[x] = v[x]
       /\ u.edges = walk.edges \cup {e \in ToSet(rows) : {e[1], e[2]} \subseteq v.selected}
    BY <1>0, <1>00, <1>5, <1>22 DEF WalkFields
<1>24. walk.edges \subseteq u.edges /\ u.edges \subseteq StepsOf("downstream")
    BY <1>1, <1>4, <1>5, <1>20, <1>23
<1>25. ~v.truncated => \A e \in StepsOf("downstream") :
           Near(e) \in Expandable /\ Cost + Toll(b, Far(e)) <= request.depth => e \in u.edges
    <2> SUFFICES ASSUME ~v.truncated, NEW e \in StepsOf("downstream"), Near(e) \in Expandable,
                        Cost + Toll(b, Far(e)) <= request.depth
                 PROVE  e \in u.edges
        OBVIOUS
    <2>1. e \in ToSet(rows)
        BY <1>4, <1>5, <1>7, <1>20, <1>21, <1>22
    <2>2. Far(e) \in v.selected
        BY <1>18, <1>21, <1>22, <2>1
    <2>3. Near(e) \in v.selected
        BY <1>8, <1>21, ExpandableIs
    <2>4. {e[1], e[2]} \subseteq v.selected
        BY <2>2, <2>3 DEF Near, Far
    <2> QED BY <1>23, <2>1, <2>4
<1>26. \A f \in ToSet(list) : \E e \in StepsOf("downstream") :
           /\ Near(e) \in Expandable /\ f.node = Far(e) /\ f.cost = Cost + Toll(b, Far(e))
    BY <1>4, <1>5, <1>18, <1>20
<1>27. ~start.truncated => \A e \in StepsOf("downstream") : Near(e) \in Expandable =>
           \E f \in ToSet(list) : f.node = Far(e) /\ f.cost = Cost + Toll(b, Far(e))
    BY <1>4, <1>5, <1>7, <1>18, <1>20
<1>28. PICK F : F = ToSet(list)
    OBVIOUS
<1>29. Expansion(start, F, v, u)
    <2>1. /\ \A f \in F : \E e \in StepsOf("downstream") :
               /\ Near(e) \in Expandable /\ f.node = Far(e)
               /\ f.cost = Cost + Toll(Course(Branch), Far(e))
          /\ ~start.truncated => \A e \in StepsOf("downstream") : Near(e) \in Expandable =>
               \E f \in F : f.node = Far(e) /\ f.cost = Cost + Toll(Course(Branch), Far(e))
        BY <1>11, <1>26, <1>27, <1>28
    <2>2. ~v.truncated => \A e \in StepsOf("downstream") :
           Near(e) \in Expandable /\ Cost + Toll(Course(Branch), Far(e)) <= request.depth => e \in u.edges
        BY <1>11, <1>25
    <2>3. Grown(start, v, F)
        BY <1>19, <1>28
    <2> QED BY <1>7, <1>8, <1>10, <1>23, <1>24, <2>1, <2>2, <2>3 DEF Expansion
<1>30. /\ InPlace(u) /\ Walking(u)
       /\ u.pc = walk.pc /\ u.root = walk.root /\ u.view = walk.view
    BY ONLY <1>29, ExpandedKeeps, graph \in Graphs, request \in Requests, walk.root \in Nodes,
            InPlace(walk), Walking(walk)
<1> QED BY <1>00, <1>30

\* In the table view, a step is an edge between tables, or leads through one job.
LEMMA TableSteps ==
    ASSUME walk.view = "table", NEW e
    PROVE  e \in StepsOf("downstream") <=>
             /\ e \in Tables \X Tables
             /\ \/ e \in EdgeSet
                \/ e[1] # e[2] /\ \E j \in Nodes : IsTask(j) /\ <<e[1], j>> \in EdgeSet
                                                            /\ <<j, e[2]>> \in EdgeSet
<1>1. Along("downstream") = EdgeSet
    BY DEF Along
<1>2. PICK E : E = EdgeSet
    OBVIOUS
<1>3. StepsOf("downstream") =
        {s \in Tables \X Tables :
            s \in E \/ (s[1] # s[2] /\ \E j \in Nodes :
                              IsTask(j) /\ {<<s[1], j>>, <<j, s[2]>>} \subseteq E)}
    BY <1>1, <1>2 DEF StepsOf
<1>4. \A a, b : {a, b} \subseteq E <=> a \in E /\ b \in E
    OBVIOUS
<1> DEFINE Joined(s) == \E j \in Nodes :
                IsTask(j) /\ {<<s[1], j>>, <<j, s[2]>>} \subseteq E
           Step(s) == s \in E \/ (s[1] # s[2] /\ Joined(s))
<1>5. StepsOf("downstream") = {s \in Tables \X Tables : Step(s)}
    BY <1>3
<1>6. Joined(e) <=> \E j \in Nodes : IsTask(j) /\ <<e[1], j>> \in E /\ <<j, e[2]>> \in E
    BY <1>4
<1> HIDE DEF Joined
<1>7. Step(e) <=> e \in E \/ (e[1] # e[2] /\ Joined(e))
    OBVIOUS
<1> HIDE DEF Step
<1>8. e \in StepsOf("downstream") <=> e \in Tables \X Tables /\ Step(e)
    BY <1>5
<1> QED BY <1>2, <1>6, <1>7, <1>8

\* The pairs that are shown lead through one job, from a table that is expanded.
LEMMA ThroughJob ==
    ASSUME graph \in Graphs, request \in Requests, InPlace(walk), Walking(walk),
           walk.view = "table", NEW job, IsTask(job),
           NEW a \in EdgeSet, NEW b \in EdgeSet, Near(a) \in Expandable,
           Far(a) = job, Near(b) = job, IsTable(Far(b)),
           NEW e, e = IF Branch = "downstream" THEN <<a[1], b[2]>> ELSE <<b[1], a[2]>>
    PROVE  /\ Near(e) \in Expandable /\ e \in Tables \X Tables /\ e \in Nodes \X Nodes
           /\ e[1] # e[2] => e \in StepsOf("downstream")
<1>1. /\ a = <<a[1], a[2]>> /\ b = <<b[1], b[2]>>
      /\ a[1] \in Nodes /\ a[2] \in Nodes /\ b[1] \in Nodes /\ b[2] \in Nodes
    BY EndsInGraph
<1>2. Tables \subseteq Nodes /\ \A n \in Nodes : IsTable(n) <=> n \in Tables
    BY StepsAre DEF TwoWays
<1>3. Expandable \subseteq Tables
    BY ExpandableIs DEF InPlace
<1>4. CASE Branch = "downstream"
    <2>1. a[1] \in Expandable /\ a[2] = job /\ b[1] = job /\ IsTable(b[2])
        BY <1>4 DEF Near, Far
    <2>2. e = <<a[1], b[2]>> /\ e[1] = a[1] /\ e[2] = b[2]
        BY <1>4
    <2>3. Near(e) = e[1]
        BY <1>4 DEF Near
    <2>4. a[1] \in Tables /\ b[2] \in Tables
        BY <1>1, <1>2, <1>3, <2>1
    <2>5. <<a[1], job>> \in EdgeSet /\ <<job, b[2]>> \in EdgeSet /\ job \in Nodes
        BY <1>1, <2>1
    <2>6. e \in Tables \X Tables
        BY <2>2, <2>4
    <2>7. e[1] # e[2] => e \in StepsOf("downstream")
        BY <2>2, <2>5, <2>6, TableSteps
    <2> QED BY <1>2, <2>1, <2>2, <2>3, <2>6, <2>7
<1>5. CASE Branch # "downstream"
    <2>1. a[2] \in Expandable /\ a[1] = job /\ b[2] = job /\ IsTable(b[1])
        BY <1>5 DEF Near, Far
    <2>2. e = <<b[1], a[2]>> /\ e[1] = b[1] /\ e[2] = a[2]
        BY <1>5
    <2>3. Near(e) = e[2]
        BY <1>5 DEF Near
    <2>4. b[1] \in Tables /\ a[2] \in Tables
        BY <1>1, <1>2, <1>3, <2>1
    <2>5. <<b[1], job>> \in EdgeSet /\ <<job, a[2]>> \in EdgeSet /\ job \in Nodes
        BY <1>1, <2>1
    <2>6. e \in Tables \X Tables
        BY <2>2, <2>4
    <2>7. e[1] # e[2] => e \in StepsOf("downstream")
        BY <2>2, <2>5, <2>6, TableSteps
    <2> QED BY <1>2, <2>1, <2>2, <2>3, <2>6, <2>7
<1> QED BY <1>4, <1>5

\* A step of the table view that is no edge is found as an edge into a job and one
\* out of it.
LEMMA JobBetween ==
    ASSUME graph \in Graphs, walk.view = "table",
           NEW e \in StepsOf("downstream"), e \notin EdgeSet
    PROVE  /\ e[1] # e[2]
           /\ \E a \in EdgeSet, b \in EdgeSet :
                /\ IsTask(Far(a)) /\ Near(b) = Far(a) /\ Near(a) = Near(e)
                /\ Far(b) = Far(e) /\ IsTable(Far(b))
                /\ e = IF Branch = "downstream" THEN <<a[1], b[2]>> ELSE <<b[1], a[2]>>
<1>1. /\ e \in Tables \X Tables /\ e[1] # e[2]
      /\ \E j \in Nodes : IsTask(j) /\ <<e[1], j>> \in EdgeSet /\ <<j, e[2]>> \in EdgeSet
    BY TableSteps
<1>2. PICK j \in Nodes : IsTask(j) /\ <<e[1], j>> \in EdgeSet /\ <<j, e[2]>> \in EdgeSet
    BY <1>1
<1>3. PICK p : p = <<e[1], j>>
    OBVIOUS
<1>4. PICK q : q = <<j, e[2]>>
    OBVIOUS
<1>5. p \in EdgeSet /\ q \in EdgeSet /\ p[1] = e[1] /\ p[2] = j /\ q[1] = j /\ q[2] = e[2]
    BY <1>2, <1>3, <1>4
<1>6. e = <<e[1], e[2]>> /\ IsTable(e[1]) /\ IsTable(e[2])
    BY <1>1 DEF Tables
<1>7. CASE Branch = "downstream"
    <2>1. /\ IsTask(Far(p)) /\ Near(q) = Far(p) /\ Near(p) = Near(e)
          /\ Far(q) = Far(e) /\ IsTable(Far(q))
        BY <1>2, <1>5, <1>6, <1>7 DEF Near, Far
    <2> QED BY <1>1, <1>5, <1>6, <1>7, <2>1
<1>8. CASE Branch # "downstream"
    <2>1. /\ IsTask(Far(q)) /\ Near(p) = Far(q) /\ Near(q) = Near(e)
          /\ Far(p) = Far(e) /\ IsTable(Far(p))
        BY <1>2, <1>5, <1>6, <1>8 DEF Near, Far
    <2> QED BY <1>1, <1>5, <1>6, <1>8, <2>1
<1> QED BY <1>7, <1>8

\* The walk once it has read a batch, and the rows of the batch.
IsRead(w, batch, v) ==
    /\ DOMAIN v = WalkFields
    /\ \A x \in WalkFields \ {"frontier", "expanded", "rows", "truncated"} : v[x] = w[x]
    /\ v.rows = w.rows + Len(batch.rows)
    /\ v.truncated \in BOOLEAN /\ (w.truncated => v.truncated)
    /\ ~v.truncated => ~batch.cut

LEMMA ReadIs ==
    ASSUME NEW w, DOMAIN w = WalkFields, w.truncated \in BOOLEAN,
           NEW batch, batch.cut \in BOOLEAN, NEW v, v = ReadBatch(w, batch)
    PROVE  IsRead(w, batch, v) /\ v.frontier = w.frontier /\ v.expanded = w.expanded
<1>1. PICK l : l = Len(batch.rows)
    OBVIOUS
<1>2. PICK t \in BOOLEAN : t = (w.truncated \/ batch.cut)
    OBVIOUS
<1>3. v = [w EXCEPT !.rows = @ + l, !.truncated = t]
    BY <1>1, <1>2 DEF ReadBatch
<1>4. /\ DOMAIN v = WalkFields
      /\ \A x \in WalkFields \ {"rows", "truncated"} : v[x] = w[x]
      /\ v.rows = w.rows + l /\ v.truncated = t
    BY <1>3 DEF WalkFields
<1> QED BY <1>1, <1>2, <1>4 DEF IsRead, WalkFields

ReadThen(w, batch, F, X) == [ReadBatch(w, batch) EXCEPT !.frontier = F, !.expanded = @ \cup X]

LEMMA ReadOn ==
    ASSUME NEW w, DOMAIN w = WalkFields, w.truncated \in BOOLEAN,
           NEW batch, batch.cut \in BOOLEAN, NEW F, NEW X, NEW u, u = ReadThen(w, batch, F, X)
    PROVE  IsRead(w, batch, u) /\ u.frontier = F /\ u.expanded = w.expanded \cup X
<1>1. PICK v : v = ReadBatch(w, batch)
    OBVIOUS
<1>2. IsRead(w, batch, v) /\ v.frontier = w.frontier /\ v.expanded = w.expanded
    BY <1>1, ReadIs
<1>3. /\ DOMAIN u = WalkFields /\ u.frontier = F /\ u.expanded = v.expanded \cup X
      /\ \A x \in WalkFields \ {"frontier", "expanded"} : u[x] = v[x]
    <2>1. u = [v EXCEPT !.frontier = F, !.expanded = @ \cup X]
        BY <1>1 DEF ReadThen
    <2>2. DOMAIN v = WalkFields
        BY <1>2 DEF IsRead
    <2> QED BY <2>1, <2>2 DEF WalkFields
<1>4. u.rows = v.rows /\ u.truncated = v.truncated
    BY <1>3 DEF WalkFields
<1> QED BY <1>2, <1>3, <1>4 DEF IsRead

\* The pairs of all the jobs.
AllPairs(jobs, first, second) == FlattenSeq([i \in DOMAIN jobs |-> PairsOf(jobs[i], first, second)])

ArePairs(all, jobs, first, second) ==
    /\ IsList(all)
    /\ \A p \in ToSet(all) :
         \E a \in ToSet(first), b \in ToSet(second) :
           /\ Far(a) \in ToSet(jobs) /\ Near(b) = Far(a) /\ IsTable(Far(b))
           /\ p.ends = IF Branch = "downstream" THEN <<a[1], b[2]>> ELSE <<b[1], a[2]>>
    /\ \A a \in ToSet(first), b \in ToSet(second) :
         Far(a) \in ToSet(jobs) /\ Near(b) = Far(a) /\ IsTable(Far(b)) =>
           \E p \in ToSet(all) :
             p.ends = IF Branch = "downstream" THEN <<a[1], b[2]>> ELSE <<b[1], a[2]>>

LEMMA AllPairsAre ==
    ASSUME NEW jobs, IsList(jobs), NEW first, NEW second, IsList(first), IsList(second),
           NEW all, all = AllPairs(jobs, first, second)
    PROVE  ArePairs(all, jobs, first, second)
<1>1. PICK n : n = Len(jobs)
    OBVIOUS
<1>2. n \in Nat /\ DOMAIN jobs = 1 .. n /\ \A x : x \in ToSet(jobs) <=> \E i \in 1 .. n : x = jobs[i]
    BY <1>1, ListIs
<1>3. PICK each : each = [i \in 1 .. n |-> PairsOf(jobs[i], first, second)]
    OBVIOUS
<1>4. all = FlattenSeq(each)
    BY <1>2, <1>3 DEF AllPairs
<1>5. each = [i \in 1 .. n |-> each[i]] /\ \A i \in 1 .. n : each[i] = PairsOf(jobs[i], first, second)
    BY <1>3
<1>6. IsList(each) /\ DOMAIN each = 1 .. n
    BY <1>2, <1>5, ListOf
<1>7. \A i \in 1 .. n : IsList(each[i])
    BY <1>5, PairsAre
<1>8. /\ IsList(FlattenSeq(each))
      /\ \A x : x \in ToSet(FlattenSeq(each)) <=> \E i \in DOMAIN each : x \in ToSet(each[i])
    BY <1>6, <1>7, Flattens
<1>9. IsList(all) /\ \A x : x \in ToSet(all) <=> \E i \in 1 .. n : x \in ToSet(each[i])
    BY <1>4, <1>6, <1>8
<1>10. ASSUME NEW p \in ToSet(all)
       PROVE  \E a \in ToSet(first), b \in ToSet(second) :
                  /\ Far(a) \in ToSet(jobs) /\ Near(b) = Far(a) /\ IsTable(Far(b))
                  /\ p.ends = IF Branch = "downstream" THEN <<a[1], b[2]>> ELSE <<b[1], a[2]>>
    <2>1. PICK i \in 1 .. n : p \in ToSet(each[i])
        BY <1>9
    <2>2. PICK job : job = jobs[i]
        OBVIOUS
    <2>3. p \in ToSet(PairsOf(job, first, second)) /\ job \in ToSet(jobs)
        BY <1>2, <1>5, <2>1, <2>2
    <2>4. p.ends \in {q.ends : q \in ToSet(PairsOf(job, first, second))}
        BY <2>3
    <2>5. \A e \in {q.ends : q \in ToSet(PairsOf(job, first, second))} :
                \E a \in ToSet(first), b \in ToSet(second) :
                  /\ Far(a) = job /\ Near(b) = job /\ IsTable(Far(b))
                  /\ e = IF Branch = "downstream" THEN <<a[1], b[2]>> ELSE <<b[1], a[2]>>
        BY PairsAre
    <2>6. PICK a \in ToSet(first), b \in ToSet(second) :
                  /\ Far(a) = job /\ Near(b) = job /\ IsTable(Far(b))
                  /\ p.ends = IF Branch = "downstream" THEN <<a[1], b[2]>> ELSE <<b[1], a[2]>>
        BY <2>4, <2>5
    <2> QED BY <2>3, <2>6
<1>11. ASSUME NEW a \in ToSet(first), NEW b \in ToSet(second),
              Far(a) \in ToSet(jobs), Near(b) = Far(a), IsTable(Far(b))
       PROVE  \E p \in ToSet(all) :
                 p.ends = IF Branch = "downstream" THEN <<a[1], b[2]>> ELSE <<b[1], a[2]>>
    <2>1. PICK job : job = Far(a)
        OBVIOUS
    <2>2. PICK i \in 1 .. n : job = jobs[i]
        BY <1>2, <1>11, <2>1
    <2>3. \A c \in ToSet(first), d \in ToSet(second) :
                Far(c) = job /\ Near(d) = job /\ IsTable(Far(d)) =>
                  (IF Branch = "downstream" THEN <<c[1], d[2]>> ELSE <<d[1], c[2]>>)
                    \in {p.ends : p \in ToSet(PairsOf(job, first, second))}
        BY PairsAre
    <2>4. (IF Branch = "downstream" THEN <<a[1], b[2]>> ELSE <<b[1], a[2]>>)
                    \in {p.ends : p \in ToSet(PairsOf(job, first, second))}
        BY <1>11, <2>1, <2>3
    <2>5. PICK p \in ToSet(PairsOf(job, first, second)) :
              p.ends = IF Branch = "downstream" THEN <<a[1], b[2]>> ELSE <<b[1], a[2]>>
        BY <2>4
    <2>6. p \in ToSet(all)
        BY <1>5, <1>9, <2>2, <2>5
    <2> QED BY <2>5, <2>6
<1> QED BY <1>9, <1>10, <1>11 DEF ArePairs

\* A list cut short keeps its budget, and is whole unless that is told.
FirstOfAll(all, room) == SubSeq(all, 1, Least(Len(all), room))

LEMMA CutIs ==
    ASSUME NEW all, IsList(all), NEW room \in Nat, NEW some,
           some = FirstOfAll(all, room)
    PROVE  /\ IsList(some) /\ Len(some) \in Nat /\ Len(some) <= room
           /\ ToSet(some) \subseteq ToSet(all)
           /\ ~(Len(some) < Len(all)) => some = all
<1>1. Len(all) \in Nat
    BY ListIs
<1>2. PICK k : k = Least(Len(all), room)
    OBVIOUS
<1>3. k \in 0 .. Len(all) /\ k <= room /\ k \in Nat
    BY <1>1, <1>2 DEF Least
<1>4. some = SubSeq(all, 1, k)
    BY <1>2 DEF FirstOfAll
<1>5. /\ IsList(some) /\ Len(some) = k /\ ToSet(some) \subseteq ToSet(all)
      /\ k = Len(all) => some = all
    BY <1>3, <1>4, FirstsAre
<1>6. ASSUME ~(Len(some) < Len(all)) PROVE some = all
    <2>1. \A m, l : m \in Nat /\ k \in 0 .. m /\ l = k /\ ~(l < m) => k = m
        OBVIOUS
    <2>2. Len(some) = k
        BY <1>5
    <2>3. k = Len(all)
        BY <1>1, <1>3, <1>6, <2>1, <2>2, Zenon
    <2> QED BY <1>5, <2>3
<1>7. Len(some) \in Nat /\ Len(some) <= room
    BY <1>3, <1>5
<1> QED BY <1>5, <1>6, <1>7

LEMMA TableKeeps ==
    ASSUME graph \in Graphs, request \in Requests, walk.root \in Nodes,
           InPlace(walk), Walking(walk), walk.view = "table", ExpandTable
    PROVE  /\ InPlace(walk') /\ Walking(walk')
           /\ walk'.pc = walk.pc /\ walk'.root = walk.root /\ walk'.view = walk.view
<1> DEFINE
      first == Adjacent(walk, Expandable)
      found == JobsOf(first.rows)
      base == [ReadBatch(walk, first) EXCEPT !.frontier = Rest,
            !.expanded = @ \cup Expandable]
      asked == AdmitJobs(base, found)
      jobs == Within(found, asked.tasks)
      second == Adjacent(asked, ToSet(jobs))
      read == ReadBatch(asked, second)
      all == FlattenSeq([i \in DOMAIN jobs |-> PairsOf(jobs[i], first.rows, second.rows)])
      pairs == SubSeq(all, 1, Least(Len(all), MaxProjectionPairs - walk.pairs))
      projected == {e \in {p.ends : p \in ToSet(pairs)} : e[1] # e[2]}
      direct == Within(first.rows, {e \in ToSet(first.rows) : IsTable(Far(e))})
      shown == direct \o Sorted(projected)
      start == [read EXCEPT !.pairs = @ + Len(pairs),
            !.truncated = @ \/ Len(pairs) < Len(all),
            !.edges = @ \cup ToSet(shown)]
      list == [i \in DOMAIN shown |-> [node |-> Far(shown[i]), cost |-> Cost + 1]]
<1>16. walk' = AdmitAll(start, list) /\ walk.frontier # <<>>
    BY DEF ExpandTable, Expanding
<1> HIDE DEF first, found, base, asked, jobs, second, read, all, pairs, projected, direct, shown, start, list
<1>1. first = Adjacent(walk, Expandable)
    BY DEF first
<1>2. found = JobsOf(first.rows)
    BY DEF found
<1>3. base = [ReadBatch(walk, first) EXCEPT !.frontier = Rest,
                                !.expanded = @ \cup Expandable]
    BY DEF base
<1>4. asked = AdmitJobs(base, found)
    BY DEF asked
<1>5. jobs = Within(found, asked.tasks)
    BY DEF jobs
<1>6. second = Adjacent(asked, ToSet(jobs))
    BY DEF second
<1>7. read = ReadBatch(asked, second)
    BY DEF read
<1>8. all = FlattenSeq([i \in DOMAIN jobs |-> PairsOf(jobs[i], first.rows, second.rows)])
    BY DEF all
<1>9. pairs = SubSeq(all, 1, Least(Len(all), MaxProjectionPairs - walk.pairs))
    BY DEF pairs
<1>10. projected = {e \in {p.ends : p \in ToSet(pairs)} : e[1] # e[2]}
    BY DEF projected
<1>11. direct = Within(first.rows, {e \in ToSet(first.rows) : IsTable(Far(e))})
    BY DEF direct
<1>12. shown = direct \o Sorted(projected)
    BY DEF shown
<1>13. start = [read EXCEPT !.pairs = @ + Len(pairs),
                                  !.truncated = @ \/ Len(pairs) < Len(all),
                                  !.edges = @ \cup ToSet(shown)]
    BY DEF start
<1>14. list = [i \in DOMAIN shown |-> [node |-> Far(shown[i]), cost |-> Cost + 1]]
    BY DEF list
<1>15. PICK u : u = walk'
    OBVIOUS
<1>17. IsReach(walk) /\ InBudget(walk) /\ walk.edges \subseteq StepsOf("downstream")
       /\ walk.selected \subseteq Tables
    BY DEF InPlace
<1>18. /\ DOMAIN walk = WalkFields /\ IsFiniteSet(walk.selected) /\ walk.truncated \in BOOLEAN
       /\ walk.rows \in Nat /\ walk.rows <= MaxEdgeRows
       /\ IsFiniteSet(walk.tasks) /\ Cardinality(walk.tasks) <= MaxTableViewTasks
       /\ walk.pairs \in Nat /\ walk.pairs <= MaxProjectionPairs /\ MaxProjectionPairs \in Nat
    BY <1>17, BudgetsAssumption DEF IsReach, InBudget
<1>19. Branch \in TwoWays
    BY BranchOfWalk
<1>20. PICK rows : rows = first.rows
    OBVIOUS
<1>21. /\ IsList(rows) /\ first.cut \in BOOLEAN
       /\ walk.rows + Len(rows) \in Nat /\ walk.rows + Len(rows) <= MaxEdgeRows
       /\ \A e \in ToSet(rows) : e \in EdgeSet /\ Near(e) \in Expandable
       /\ ~first.cut => \A e \in EdgeSet : Near(e) \in Expandable => e \in ToSet(rows)
    BY <1>1, <1>18, <1>20, AdjacentIs
<1>22. /\ IsList(found)
       /\ \A j : j \in ToSet(found) <=> \E e \in ToSet(rows) : IsTask(Far(e)) /\ Far(e) = j
    BY <1>2, <1>20, <1>21, JobsAre
<1>23. IsRead(walk, first, base) /\ base.frontier = Rest /\ base.expanded = walk.expanded \cup Expandable
    <2>1. base = ReadThen(walk, first, Rest, Expandable)
        BY <1>3 DEF ReadThen
    <2> QED BY <1>18, <1>21, <2>1, ReadOn
<1>24. /\ DOMAIN base = WalkFields /\ base.truncated \in BOOLEAN
       /\ base.tasks = walk.tasks /\ base.rows = walk.rows + Len(rows)
       /\ (walk.truncated => base.truncated) /\ (~base.truncated => ~first.cut)
       /\ base.best = walk.best /\ base.next = walk.next /\ base.selected = walk.selected
       /\ base.pc = walk.pc /\ base.root = walk.root /\ base.view = walk.view
       /\ base.branches = walk.branches /\ base.edges = walk.edges /\ base.pairs = walk.pairs
    BY <1>20, <1>23 DEF IsRead, WalkFields
<1>25. /\ DOMAIN asked = WalkFields /\ asked.truncated \in BOOLEAN
       /\ \A x \in WalkFields \ {"tasks", "truncated"} : asked[x] = base[x]
       /\ IsFiniteSet(asked.tasks) /\ Cardinality(asked.tasks) <= MaxTableViewTasks
       /\ base.truncated => asked.truncated
       /\ ~asked.truncated => ToSet(found) \subseteq asked.tasks
    BY <1>4, <1>18, <1>22, <1>24, JobsAdmitted
<1>26. /\ asked.rows = base.rows /\ asked.frontier = Rest
       /\ asked.expanded = walk.expanded \cup Expandable
       /\ asked.best = walk.best /\ asked.next = walk.next /\ asked.selected = walk.selected
       /\ asked.pc = walk.pc /\ asked.root = walk.root /\ asked.view = walk.view
       /\ asked.branches = walk.branches /\ asked.edges = walk.edges /\ asked.pairs = walk.pairs
    BY <1>23, <1>24, <1>25 DEF WalkFields
<1>27. IsList(jobs) /\ ToSet(jobs) = ToSet(found) \cap asked.tasks
    BY <1>5, <1>22, WithinIs
<1>28. PICK rows2 : rows2 = second.rows
    OBVIOUS
<1>29. /\ IsList(rows2) /\ second.cut \in BOOLEAN
       /\ asked.rows + Len(rows2) \in Nat /\ asked.rows + Len(rows2) <= MaxEdgeRows
       /\ \A e \in ToSet(rows2) : e \in EdgeSet /\ Near(e) \in ToSet(jobs)
       /\ ~second.cut => \A e \in EdgeSet : Near(e) \in ToSet(jobs) => e \in ToSet(rows2)
    <2>1. asked.rows \in Nat /\ asked.rows <= MaxEdgeRows /\ IsFiniteSet(asked.selected)
        BY <1>18, <1>21, <1>24, <1>26
    <2> QED BY <1>6, <1>28, <2>1, AdjacentIs
<1>30. IsRead(asked, second, read) /\ read.frontier = asked.frontier /\ read.expanded = asked.expanded
    BY <1>7, <1>25, <1>29, ReadIs
<1>31. /\ DOMAIN read = WalkFields /\ read.truncated \in BOOLEAN
       /\ read.tasks = asked.tasks /\ read.rows = asked.rows + Len(rows2)
       /\ (asked.truncated => read.truncated) /\ (~read.truncated => ~second.cut)
       /\ read.best = walk.best /\ read.next = walk.next /\ read.selected = walk.selected
       /\ read.pc = walk.pc /\ read.root = walk.root /\ read.view = walk.view
       /\ read.branches = walk.branches /\ read.edges = walk.edges /\ read.pairs = walk.pairs
       /\ read.frontier = Rest /\ read.expanded = walk.expanded \cup Expandable
    BY <1>26, <1>28, <1>30 DEF IsRead, WalkFields
<1>32. /\ IsList(all)
       /\ \A p \in ToSet(all) :
            \E a \in ToSet(rows), b \in ToSet(rows2) :
              /\ Far(a) \in ToSet(jobs) /\ Near(b) = Far(a) /\ IsTable(Far(b))
              /\ p.ends = IF Branch = "downstream" THEN <<a[1], b[2]>> ELSE <<b[1], a[2]>>
       /\ \A a \in ToSet(rows), b \in ToSet(rows2) :
            Far(a) \in ToSet(jobs) /\ Near(b) = Far(a) /\ IsTable(Far(b)) =>
              \E p \in ToSet(all) :
                p.ends = IF Branch = "downstream" THEN <<a[1], b[2]>> ELSE <<b[1], a[2]>>
    <2>2. all = AllPairs(jobs, first.rows, second.rows)
        BY <1>8 DEF AllPairs
    <2>1. all = AllPairs(jobs, rows, rows2)
        BY <1>20, <1>28, <2>2
    <2>3. ArePairs(all, jobs, rows, rows2)
        BY <1>21, <1>27, <1>29, <2>1, AllPairsAre
    <2> QED BY <2>3 DEF ArePairs
<1>33. /\ IsList(pairs) /\ Len(pairs) \in Nat /\ Len(pairs) <= MaxProjectionPairs - walk.pairs
       /\ ToSet(pairs) \subseteq ToSet(all)
       /\ ~(Len(pairs) < Len(all)) => pairs = all
    <2>1. PICK room \in Nat : room = MaxProjectionPairs - walk.pairs
        BY <1>18
    <2>2. pairs = FirstOfAll(all, room)
        BY <1>9, <2>1 DEF FirstOfAll
    <2> QED BY <1>32, <2>1, <2>2, CutIs
<1>34. \A e \in projected : /\ Near(e) \in Expandable /\ e \in Tables \X Tables
                            /\ e \in Nodes \X Nodes /\ e \in StepsOf("downstream")
    <2> SUFFICES ASSUME NEW e \in projected
                 PROVE  /\ Near(e) \in Expandable /\ e \in Tables \X Tables
                        /\ e \in Nodes \X Nodes /\ e \in StepsOf("downstream")
        OBVIOUS
    <2>1. PICK p \in ToSet(pairs) : e = p.ends
        BY <1>10
    <2>2. e[1] # e[2]
        BY <1>10
    <2>3. PICK a \in ToSet(rows), b \in ToSet(rows2) :
              /\ Far(a) \in ToSet(jobs) /\ Near(b) = Far(a) /\ IsTable(Far(b))
              /\ e = IF Branch = "downstream" THEN <<a[1], b[2]>> ELSE <<b[1], a[2]>>
        BY <1>32, <1>33, <2>1
    <2>4. PICK job : job = Far(a)
        OBVIOUS
    <2>5. IsTask(job)
        BY <1>22, <1>27, <2>3, <2>4
    <2>6. a \in EdgeSet /\ b \in EdgeSet /\ Near(a) \in Expandable
        BY <1>21, <1>29
    <2>7. Far(a) = job /\ Near(b) = job /\ IsTable(Far(b))
        BY <2>3, <2>4
    <2> QED BY <2>2, <2>3, <2>5, <2>6, <2>7, ThroughJob
<1>35. /\ IsList(direct)
       /\ \A e : e \in ToSet(direct) <=> e \in ToSet(rows) /\ IsTable(Far(e))
    <2>1. PICK S : S = {e \in ToSet(rows) : IsTable(Far(e))}
        OBVIOUS
    <2>2. direct = Within(rows, S)
        BY <1>11, <1>20, <2>1
    <2>3. IsList(direct) /\ ToSet(direct) = ToSet(rows) \cap S
        BY <1>21, <2>2, WithinIs
    <2> QED BY <2>1, <2>3
<1>36. /\ IsList(shown)
       /\ \A e : e \in ToSet(shown) <=> e \in ToSet(direct) \/ e \in projected
    <2>1. IsFiniteSet(Nodes) /\ Nodes \subseteq Nat
        BY GraphIs
    <2>2. IsFiniteSet(Nodes \X Nodes)
        BY <2>1, FS_Product
    <2>3. projected \subseteq Nodes \X Nodes
        BY <1>34
    <2>4. IsFiniteSet(projected)
        BY <2>2, <2>3, FS_Subset
    <2>5. \A e \in projected : e \in Nat \X Nat
        BY <1>34, <2>1
    <2>6. projected \subseteq Nat \X Nat
        BY <2>5
    <2>7. IsList(Sorted(projected)) /\ ToSet(Sorted(projected)) = projected
        BY <2>4, <2>6, SortedIs
    <2>8. PICK l : l = Sorted(projected)
        OBVIOUS
    <2>9. IsList(direct \o l) /\ ToSet(direct \o l) = ToSet(direct) \cup ToSet(l)
        BY <1>35, <2>7, <2>8, Joins
    <2> QED BY <1>12, <2>7, <2>8, <2>9
<1>37. Tables \subseteq Nodes /\ \A n \in Nodes : IsTable(n) <=> n \in Tables
    BY StepsAre DEF TwoWays
<1>38. \A e \in ToSet(shown) : /\ e \in StepsOf("downstream") /\ Near(e) \in Expandable
                               /\ Far(e) \in Tables
    <2> SUFFICES ASSUME NEW e \in ToSet(shown)
                 PROVE  /\ e \in StepsOf("downstream") /\ Near(e) \in Expandable
                        /\ Far(e) \in Tables
        OBVIOUS
    <2>1. CASE e \in projected
        <3>1. e \in Tables \X Tables
            BY <1>34, <2>1
        <3> QED BY <1>34, <2>1, <3>1 DEF Far
    <2>2. CASE e \in ToSet(direct)
        <3>1. e \in EdgeSet /\ Near(e) \in Expandable /\ IsTable(Far(e))
            BY <1>21, <1>35, <2>2
        <3>2. e = <<e[1], e[2]>> /\ Far(e) \in Nodes
            BY <3>1, EndsInGraph
        <3>3. Near(e) \in Tables /\ Far(e) \in Tables
            BY <1>17, <1>37, <3>1, <3>2, ExpandableIs
        <3>4. e \in Tables \X Tables
            BY <3>2, <3>3 DEF Near, Far
        <3> QED BY <3>1, <3>3, <3>4, TableSteps
    <2> QED BY <1>36, <2>1, <2>2
<1>39. /\ DOMAIN start = WalkFields
       /\ start.best = walk.best /\ start.next = walk.next /\ start.selected = walk.selected
       /\ start.pc = walk.pc /\ start.root = walk.root /\ start.view = walk.view
       /\ start.branches = walk.branches /\ start.edges = walk.edges \cup ToSet(shown)
       /\ start.pairs = walk.pairs + Len(pairs) /\ start.rows = asked.rows + Len(rows2)
       /\ start.tasks = asked.tasks
       /\ start.frontier = Rest /\ start.expanded = walk.expanded \cup Expandable
       /\ start.truncated = (read.truncated \/ Len(pairs) < Len(all))
    <2>1. PICK t \in BOOLEAN : t = (read.truncated \/ Len(pairs) < Len(all))
        OBVIOUS
    <2>2. PICK k : k = Len(pairs)
        OBVIOUS
    <2>3. PICK E : E = ToSet(shown)
        OBVIOUS
    <2>4. start = [read EXCEPT !.pairs = @ + k, !.truncated = t, !.edges = @ \cup E]
        BY <1>13, <2>1, <2>2, <2>3
    <2>5. /\ DOMAIN start = WalkFields /\ start.pairs = read.pairs + k /\ start.truncated = t
          /\ start.edges = read.edges \cup E
          /\ \A x \in WalkFields \ {"pairs", "truncated", "edges"} : start[x] = read[x]
        BY <1>31, <2>4 DEF WalkFields
    <2>6. /\ start.best = read.best /\ start.next = read.next /\ start.selected = read.selected
          /\ start.pc = read.pc /\ start.root = read.root /\ start.view = read.view
          /\ start.branches = read.branches /\ start.rows = read.rows
          /\ start.tasks = read.tasks /\ start.frontier = read.frontier
          /\ start.expanded = read.expanded
        BY <2>5 DEF WalkFields
    <2> QED BY <1>31, <2>1, <2>2, <2>3, <2>5, <2>6
<1>40. start.truncated \in BOOLEAN /\ (walk.truncated => start.truncated)
    BY <1>24, <1>25, <1>31, <1>39
<1>41. ~start.truncated => /\ ~first.cut /\ ~second.cut /\ pairs = all
                           /\ ToSet(jobs) = ToSet(found)
    BY <1>24, <1>25, <1>27, <1>31, <1>33, <1>39
<1>42. ~start.truncated => \A e \in StepsOf("downstream") : Near(e) \in Expandable => e \in ToSet(shown)
    <2> SUFFICES ASSUME ~start.truncated, NEW e \in StepsOf("downstream"), Near(e) \in Expandable
                 PROVE  e \in ToSet(shown)
        OBVIOUS
    <2>1. CASE e \in EdgeSet
        <3>1. e \in ToSet(rows)
            BY <1>21, <1>41, <2>1
        <3>2. e \in Tables \X Tables
            BY TableSteps
        <3>3. IsTable(Far(e))
            BY <1>37, <3>2 DEF Far
        <3> QED BY <1>35, <1>36, <3>1, <3>3
    <2>2. CASE e \notin EdgeSet
        <3>1. e[1] # e[2] /\ \E a \in EdgeSet, b \in EdgeSet :
                /\ IsTask(Far(a)) /\ Near(b) = Far(a) /\ Near(a) = Near(e)
                /\ Far(b) = Far(e) /\ IsTable(Far(b))
                /\ e = IF Branch = "downstream" THEN <<a[1], b[2]>> ELSE <<b[1], a[2]>>
            BY <2>2, JobBetween
        <3>2. PICK a \in EdgeSet, b \in EdgeSet :
                /\ IsTask(Far(a)) /\ Near(b) = Far(a) /\ Near(a) = Near(e)
                /\ Far(b) = Far(e) /\ IsTable(Far(b))
                /\ e = IF Branch = "downstream" THEN <<a[1], b[2]>> ELSE <<b[1], a[2]>>
            BY <3>1
        <3>3. a \in ToSet(rows)
            BY <1>21, <1>41, <3>2
        <3>4. Far(a) \in ToSet(jobs)
            BY <1>22, <1>41, <3>2, <3>3
        <3>5. b \in ToSet(rows2)
            BY <1>29, <1>41, <3>2, <3>4
        <3>6. PICK p \in ToSet(all) :
                p.ends = IF Branch = "downstream" THEN <<a[1], b[2]>> ELSE <<b[1], a[2]>>
            BY <1>32, <3>2, <3>3, <3>4, <3>5
        <3>7. p \in ToSet(pairs) /\ e = p.ends
            BY <1>41, <3>2, <3>6
        <3>8. e \in {q.ends : q \in ToSet(pairs)}
            BY <3>7
        <3>9. e \in projected
            BY <1>10, <3>1, <3>8
        <3> QED BY <1>36, <3>9
    <2> QED BY <2>1, <2>2
<1>43. Cost \in Nat
    BY <1>16, FrontIs DEF InPlace
<1>44. PICK b : b = Course(Branch)
    OBVIOUS
<1>45. \A n \in Tables : Toll(b, n) = 1
    <2>1. b.tables = Tables
        BY <1>44, CourseIs
    <2> QED BY <2>1 DEF Toll
<1>46. IsFound(list, shown, Cost, b)
    <2>1. \A i \in DOMAIN shown : shown[i] \in ToSet(shown)
        BY DEF ToSet
    <2>2. \A i \in DOMAIN shown : Toll(b, Far(shown[i])) = 1
        BY <1>38, <1>45, <2>1
    <2>3. \A i \in DOMAIN shown : list[i] = [node |-> Far(shown[i]), cost |-> Cost + 1]
        BY <1>14
    <2>4. list = [i \in DOMAIN shown |-> list[i]]
        BY <1>14
    <2>5. ASSUME NEW i \in DOMAIN shown
          PROVE  /\ list[i].node = Far(shown[i])
                 /\ list[i].cost = Cost + Toll(b, Far(shown[i]))
        <3>1. PICK c : c = Cost + 1
            OBVIOUS
        <3>2. list[i] = [node |-> Far(shown[i]), cost |-> c]
            BY <2>3, <3>1
        <3> QED BY <2>2, <3>1, <3>2
    <2> QED BY <2>4, <2>5 DEF IsFound
<1>47. /\ IsList(list)
       /\ \A f \in ToSet(list) : /\ f.cost \in Nat
                                 /\ \E e \in ToSet(shown) : /\ f.node = Far(e)
                                                            /\ f.cost = Cost + Toll(b, Far(e))
       /\ \A e \in ToSet(shown) : \E f \in ToSet(list) : /\ f.node = Far(e)
                                                         /\ f.cost = Cost + Toll(b, Far(e))
    BY <1>36, <1>43, <1>46, FoundAre
<1>48. IsReach(start)
    BY <1>17, <1>39, <1>40 DEF IsReach
<1>49. InBudget(start)
    <2>1. walk.pairs + Len(pairs) \in Nat /\ walk.pairs + Len(pairs) <= MaxProjectionPairs
        BY <1>18, <1>33
    <2> QED BY <1>25, <1>29, <1>39, <2>1 DEF InBudget
<1>50. PICK F : F = ToSet(list)
    OBVIOUS
<1>51. Grown(start, u, F)
    BY <1>15, <1>16, <1>47, <1>48, <1>50, RequestIs, AllGrown
<1>52. DOMAIN u = WalkFields /\ u.edges = walk.edges \cup ToSet(shown)
       /\ (start.truncated => u.truncated) /\ u.truncated \in BOOLEAN
    <2>1. DOMAIN u = WalkFields /\ u.truncated \in BOOLEAN
        BY <1>51 DEF Grown, IsReach
    <2>2. u.edges = start.edges /\ (start.truncated => u.truncated)
        BY <1>51 DEF Grown, WalkFields
    <2> QED BY <1>39, <2>1, <2>2
<1>53. walk.edges \subseteq u.edges /\ u.edges \subseteq StepsOf("downstream")
    BY <1>17, <1>38, <1>52
<1>54. ~u.truncated => \A e \in StepsOf("downstream") :
           Near(e) \in Expandable /\ Cost + Toll(Course(Branch), Far(e)) <= request.depth => e \in u.edges
    BY <1>40, <1>42, <1>52
<1>55. /\ \A f \in F : \E e \in StepsOf("downstream") :
             /\ Near(e) \in Expandable /\ f.node = Far(e)
             /\ f.cost = Cost + Toll(Course(Branch), Far(e))
       /\ ~start.truncated => \A e \in StepsOf("downstream") : Near(e) \in Expandable =>
             \E f \in F : f.node = Far(e) /\ f.cost = Cost + Toll(Course(Branch), Far(e))
    BY <1>38, <1>42, <1>44, <1>47, <1>50
<1>56. Expansion(start, F, u, u)
    BY <1>39, <1>40, <1>49, <1>51, <1>52, <1>53, <1>54, <1>55 DEF Expansion
<1>57. /\ InPlace(u) /\ Walking(u)
       /\ u.pc = walk.pc /\ u.root = walk.root /\ u.view = walk.view
    BY ONLY <1>56, ExpandedKeeps, graph \in Graphs, request \in Requests, walk.root \in Nodes,
            InPlace(walk), Walking(walk)
<1> QED BY <1>15, <1>57

LEMMA NextKeeps ==
    ASSUME graph \in Graphs, request \in Requests, walk.root \in Nodes,
           InPlace(walk), Walking(walk), NextRound
    PROVE  /\ InPlace(walk') /\ Walking(walk')
           /\ walk'.pc = walk.pc /\ walk'.root = walk.root /\ walk'.view = walk.view
<1>1. PICK w : w = walk
    OBVIOUS
<1>2. PICK u : u = walk'
    OBVIOUS
<1>3. PICK front : front = [i \in DOMAIN w.next |->
                              [node |-> w.next[i], cost |-> w.best[w.next[i]]]]
    OBVIOUS
<1>4. u = [w EXCEPT !.frontier = front, !.next = <<>>] /\ w.frontier = <<>> /\ w.next # <<>>
    BY <1>1, <1>2, <1>3 DEF NextRound, RoundDone
<1>5. PICK b : b = Course(Branch)
    OBVIOUS
<1>6. Branch \in TwoWays /\ IsBranch(b) /\ RoundOK(b, w)
    BY <1>1, <1>5, BranchOfWalk, CourseOK DEF Walking, Branch
<1>7. IsReach(w) /\ InBudget(w)
    BY <1>1 DEF InPlace
<1>8. /\ DOMAIN w = WalkFields /\ w.best \in [DOMAIN w.best -> Nat] /\ IsList(w.next)
      /\ ToSet(w.next) \subseteq DOMAIN w.best
    BY <1>7 DEF IsReach
<1>9. PICK n : n = Len(w.next)
    OBVIOUS
<1>10. /\ n \in Nat /\ DOMAIN w.next = 1 .. n
       /\ \A x : x \in ToSet(w.next) <=> \E i \in 1 .. n : x = w.next[i]
    BY <1>8, <1>9, ListIs
<1>11. /\ front = [i \in 1 .. n |-> front[i]]
       /\ \A i \in 1 .. n : front[i] = [node |-> w.next[i], cost |-> w.best[w.next[i]]]
    BY <1>3, <1>10
<1>12. IsList(front) /\ \A x : x \in ToSet(front) <=> \E i \in 1 .. n : x = front[i]
    BY <1>10, <1>11, ListOf
<1>13. ASSUME NEW f \in ToSet(front)
       PROVE  f.node \in ToSet(w.next) /\ f.cost = w.best[f.node]
    <2>1. PICK i \in 1 .. n : f = front[i]
        BY <1>12
    <2>2. f.node = w.next[i] /\ f.cost = w.best[w.next[i]]
        BY <1>11, <2>1
    <2> QED BY <1>10, <2>2
<1>14. ASSUME NEW m \in ToSet(w.next)
       PROVE  \E f \in ToSet(front) : f.node = m
    <2>1. PICK i \in 1 .. n : m = w.next[i]
        BY <1>10
    <2>2. front[i].node = m /\ front[i] \in ToSet(front)
        BY <1>11, <1>12, <2>1
    <2> QED BY <2>2
<1>15. /\ DOMAIN u = WalkFields /\ u.frontier = front /\ u.next = <<>>
       /\ \A x \in WalkFields \ {"frontier", "next"} : u[x] = w[x]
    BY <1>4, <1>8 DEF WalkFields
<1>16. /\ u.best = w.best /\ u.selected = w.selected
       /\ u.pc = w.pc /\ u.root = w.root /\ u.view = w.view
       /\ u.branches = w.branches /\ u.expanded = w.expanded /\ u.edges = w.edges
       /\ u.truncated = w.truncated /\ u.rows = w.rows /\ u.tasks = w.tasks
       /\ u.pairs = w.pairs
    BY <1>15 DEF WalkFields
<1>17. IsReach(u)
    BY <1>7, <1>15, <1>16, NoList DEF IsReach
<1>18. InBudget(u)
    BY <1>7, <1>16 DEF InBudget
<1>19. \A f \in ToSet(u.frontier) : f.node \in DOMAIN u.best /\ f.cost \in Nat
    BY <1>8, <1>13, <1>15, <1>16
<1>20. ToSet(w.next) # {}
    <2>1. n # 0
        BY <1>4, <1>8, <1>9, EmptySeq
    <2>2. 1 \in 1 .. n
        BY <1>10, <2>1
    <2> QED BY <1>10, <2>2
<1>21. RoundOK(b, u)
    <2>1. ToSet(w.frontier) = {} /\ ToSet(u.next) = {}
        BY <1>4, <1>15, NoList
    <2>2. /\ \A f \in ToSet(u.frontier) : f.node \in ToSet(w.next) /\ f.cost = w.best[f.node]
          /\ \A m \in ToSet(w.next) : \E f \in ToSet(u.frontier) : f.node = m
        BY <1>13, <1>14, <1>15
    <2> QED BY <1>6, <1>7, <1>16, <1>20, <2>1, <2>2, NextRoundKeeps
<1>22. \A d : BranchKept(Course(d), w) => BranchKept(Course(d), u)
    <2> SUFFICES ASSUME NEW d, BranchKept(Course(d), w) PROVE BranchKept(Course(d), u)
        OBVIOUS
    <2>1. w.selected \subseteq u.selected /\ w.edges \subseteq u.edges
        BY <1>16
    <2> QED BY <2>1, KeptStays
<1>23. InPlace(u)
    <2>1. InPlace(w)
        BY <1>1
    <2> QED BY <1>12, <1>15, <1>16, <1>17, <1>18, <1>19, <1>22, <2>1 DEF InPlace
<1>24. Walking(u)
    <2>1. Walking(w)
        BY <1>1
    <2> QED BY <1>1, <1>5, <1>16, <1>21, <2>1 DEF Walking, Branch
<1> QED BY <1>1, <1>2, <1>16, <1>23, <1>24

\* A branch starts at the root.
IsStart(w, u) ==
    /\ DOMAIN u = WalkFields
    /\ \A x \in WalkFields \ {"best", "expanded", "next", "frontier"} : u[x] = w[x]
    /\ DOMAIN u.best = {w.root} /\ u.best[w.root] = 0 /\ u.best = [n \in {w.root} |-> 0]
    /\ u.expanded = {} /\ u.next = <<>>
    /\ IsList(u.frontier) /\ ToSet(u.frontier) = {[node |-> w.root, cost |-> 0]}

LEMMA StartIs ==
    ASSUME NEW w, DOMAIN w = WalkFields, NEW u, u = StartBranch(w)
    PROVE  IsStart(w, u)
<1>1. PICK x : x = [node |-> w.root, cost |-> 0]
    OBVIOUS
<1>2. PICK best : best = [n \in {w.root} |-> 0]
    OBVIOUS
<1>3. u = [w EXCEPT !.best = best, !.expanded = {}, !.next = <<>>, !.frontier = <<x>>]
    BY <1>1, <1>2 DEF StartBranch
<1>4. /\ DOMAIN u = WalkFields
      /\ \A y \in WalkFields \ {"best", "expanded", "next", "frontier"} : u[y] = w[y]
      /\ u.best = best /\ u.expanded = {} /\ u.next = <<>> /\ u.frontier = <<x>>
    BY <1>3 DEF WalkFields
<1>5. <<x>> \in Seq({x}) /\ DOMAIN <<x>> = 1 .. 1 /\ \A i \in 1 .. 1 : <<x>>[i] = x
    OBVIOUS
<1>6. IsList(<<x>>) /\ ToSet(<<x>>) = {x}
    <2>1. ToSet(<<x>>) = {x}
        BY <1>5 DEF ToSet
    <2> QED BY <1>5, <2>1 DEF IsList
<1>7. DOMAIN best = {w.root} /\ best[w.root] = 0
    BY <1>2
<1> QED BY <1>1, <1>2, <1>4, <1>6, <1>7 DEF IsStart

\* A walk between two branches.
Placed(w) ==
    /\ DOMAIN w = WalkFields /\ w.root = walk.root /\ w.root \in w.selected
    /\ IsFiniteSet(w.selected) /\ Cardinality(w.selected) <= request.maxNodes
    /\ InBudget(w) /\ w.selected \subseteq Reachable
    /\ w.view = "table" => w.selected \subseteq Tables
    /\ w.edges \subseteq StepsOf("downstream") /\ w.truncated \in BOOLEAN
    /\ ToSet(w.branches) \subseteq Directions
    /\ ~w.truncated /\ (\A b \in Courses : IsStraight(b)) =>
          \A d \in Directions \ ToSet(w.branches) : BranchKept(Course(d), w)

LEMMA StartPlaced ==
    ASSUME graph \in Graphs, request \in Requests, walk.root \in Nodes,
           NEW w, Placed(w),
           w.branches \in {<<"upstream", "downstream">>, <<"upstream">>, <<"downstream">>},
           NEW u, u = StartBranch(w)
    PROVE  /\ InPlace(u) /\ Walking(u)
           /\ u.pc = w.pc /\ u.root = w.root /\ u.view = w.view
<1>1. DOMAIN w = WalkFields
    BY DEF Placed
<1>2. /\ DOMAIN u = WalkFields
      /\ \A x \in WalkFields \ {"best", "expanded", "next", "frontier"} : u[x] = w[x]
      /\ DOMAIN u.best = {w.root} /\ u.best[w.root] = 0 /\ u.best = [n \in {w.root} |-> 0]
      /\ u.expanded = {} /\ u.next = <<>>
      /\ IsList(u.frontier) /\ ToSet(u.frontier) = {[node |-> w.root, cost |-> 0]}
    <2>1. IsStart(w, u)
        BY <1>1, StartIs
    <2> QED BY <2>1 DEF IsStart
<1>3. /\ u.selected = w.selected /\ u.pc = w.pc /\ u.root = w.root /\ u.view = w.view
      /\ u.branches = w.branches /\ u.edges = w.edges /\ u.truncated = w.truncated
      /\ u.rows = w.rows /\ u.tasks = w.tasks /\ u.pairs = w.pairs
    BY <1>2 DEF WalkFields
<1>4. IsReach(u)
    <2>1. u.best \in [DOMAIN u.best -> Nat] /\ DOMAIN u.best \subseteq u.selected
        BY <1>2, <1>3 DEF Placed
    <2>2. IsList(u.next) /\ ToSet(u.next) \subseteq DOMAIN u.best
        BY <1>2, NoList
    <2> QED BY <1>2, <1>3, <2>1, <2>2 DEF Placed, IsReach
<1>5. InBudget(u)
    BY <1>3 DEF Placed, InBudget
<1>6. \A f \in ToSet(u.frontier) : f.node \in DOMAIN u.best /\ f.cost \in Nat
    BY <1>2
<1>7. \A d : BranchKept(Course(d), w) => BranchKept(Course(d), u)
    <2> SUFFICES ASSUME NEW d, BranchKept(Course(d), w) PROVE BranchKept(Course(d), u)
        OBVIOUS
    <2>1. w.selected \subseteq u.selected /\ w.edges \subseteq u.edges
        BY <1>3
    <2> QED BY <2>1, KeptStays
<1>8. InPlace(u)
    BY <1>2, <1>3, <1>4, <1>5, <1>6, <1>7 DEF Placed, InPlace
<1>9. PICK d : d = Head(w.branches)
    OBVIOUS
<1>10. d \in TwoWays
    BY <1>9, FirstBranch
<1>11. PICK b : b = Course(d)
    OBVIOUS
<1>12. IsBranch(b) /\ b.root = w.root
    BY <1>10, <1>11, CourseOK, CourseIs DEF Placed
<1>13. RoundOK(b, u)
    <2>1. ToSet(u.next) = {}
        BY <1>2, NoList
    <2>2. /\ u.best = [n \in {b.root} |-> 0] /\ u.expanded = {}
          /\ ToSet(u.frontier) = {[node |-> b.root, cost |-> 0]}
        BY <1>2, <1>12
    <2> QED BY <1>12, <2>1, <2>2, StartKeeps
<1>14. Walking(u)
    BY <1>3, <1>9, <1>11, <1>13 DEF Walking
<1> QED BY <1>3, <1>8, <1>14

LEMMA RootReachable ==
    ASSUME graph \in Graphs, request \in Requests, walk.root \in Nodes
    PROVE  walk.root \in Reachable
<1>1. Directions \subseteq TwoWays /\ Branches \in {<<"upstream", "downstream">>, <<"upstream">>, <<"downstream">>}
    BY DirectionsAre
<1>2. PICK d \in Directions : d \in TwoWays
    BY <1>1, FirstBranch DEF Directions
<1>3. PICK b : b = Course(d)
    OBVIOUS
<1>4. IsBranch(b) /\ b.root = walk.root
    BY <1>2, <1>3, CourseOK, CourseIs
<1>5. Paths(b)[0] = {<<b.root, 0>>}
    BY <1>4 DEF IsBranch
<1>6. Size(b) \in Nat
    BY <1>4, SizeOf
<1>7. 0 \in 0 .. Size(b) /\ Size(b) \in 0 .. Size(b)
    BY <1>6
<1>8. Paths(b)[0] \subseteq Paths(b)[Size(b)]
    BY <1>4, <1>7, LevelsRise
<1>9. <<b.root, 0>> \in Ends(b)
    BY <1>5, <1>8 DEF Ends, Size
<1> DEFINE q == <<walk.root, 0>>
<1>10. q \in Ends(Course(d)) /\ walk.root = q[1]
    BY <1>3, <1>4, <1>9
<1> HIDE DEF q
<1> QED BY <1>10, DirectionsAre

\* The walk that Begin starts.
Fresh(w) ==
    /\ w.root \in Nodes /\ (w.view = "table" => w.root \in Tables)
    /\ w = StartBranch([NoWalk EXCEPT !.pc = "walking", !.root = w.root, !.view = w.view,
                                      !.branches = Branches, !.selected = {w.root}])

LEMMA FreshInPlace ==
    ASSUME graph \in Graphs, request \in Requests, Fresh(walk)
    PROVE  InPlace(walk) /\ Walking(walk) /\ walk.pc = "walking"
<1>1. PICK r : r = walk.root
    OBVIOUS
<1>2. PICK s : s = walk.view
    OBVIOUS
<1>3. PICK l : l = Branches
    OBVIOUS
<1>4. PICK w : w = [NoWalk EXCEPT !.pc = "walking", !.root = r, !.view = s,
                                  !.branches = l, !.selected = {r}]
    OBVIOUS
<1>5. walk = StartBranch(w) /\ r \in Nodes /\ (s = "table" => r \in Tables)
    BY <1>1, <1>2, <1>3, <1>4 DEF Fresh
<1>6. /\ DOMAIN w = WalkFields /\ w.pc = "walking" /\ w.root = r /\ w.view = s
      /\ w.branches = l /\ w.selected = {r} /\ w.edges = {} /\ w.tasks = {}
      /\ w.pairs = 0 /\ w.rows = 0 /\ w.truncated = FALSE
    BY <1>4 DEF NoWalk, WalkFields
<1>7. /\ l \in {<<"upstream", "downstream">>, <<"upstream">>, <<"downstream">>}
      /\ ToSet(l) = Directions
    BY <1>3, DirectionsAre DEF Directions
<1>8. Placed(w)
    <2>1. IsFiniteSet({r}) /\ Cardinality({r}) = 1
        BY FS_Singleton
    <2>2. 1 <= request.maxNodes
        BY RequestIs
    <2>3. IsFiniteSet({}) /\ Cardinality({}) = 0
        BY FS_EmptySet
    <2>4. InBudget(w)
        BY <1>6, <2>3, BudgetsAssumption DEF InBudget
    <2>5. {r} \subseteq Reachable
        BY <1>1, <1>5, RootReachable
    <2> QED BY <1>1, <1>5, <1>6, <1>7, <2>1, <2>2, <2>4, <2>5 DEF Placed
<1>9. /\ InPlace(walk) /\ Walking(walk) /\ walk.pc = w.pc
    BY <1>1, <1>5, <1>6, <1>7, <1>8, StartPlaced
<1> QED BY <1>6, <1>9

LEMMA EndKept ==
    ASSUME graph \in Graphs, request \in Requests, walk.root \in Nodes,
           InPlace(walk), Walking(walk), EndBranch
    PROVE  /\ InPlace(walk')
           /\ walk'.root = walk.root /\ walk'.view = walk.view
           /\ \/ /\ Walking(walk') /\ walk'.pc = walk.pc /\ page' = page
              \/ /\ walk'.pc = "done" /\ walk'.branches = <<>> /\ Answer("shown")
<1> DEFINE w == [walk EXCEPT !.truncated = @ \/ walk.next # <<>>, !.branches = Tail(@)]
<1>1. /\ walk.frontier = <<>>
      /\ IF w.branches # <<>>
         THEN walk' = StartBranch(w) /\ page' = page
         ELSE walk' = [w EXCEPT !.pc = "done"] /\ Answer("shown")
    BY DEF EndBranch, RoundDone
<1>2. PICK l : l = Tail(walk.branches)
    OBVIOUS
<1>3. PICK t \in BOOLEAN : t = (walk.truncated \/ walk.next # <<>>)
    OBVIOUS
<1>4. w = [walk EXCEPT !.truncated = t, !.branches = l]
    BY <1>2, <1>3
<1> HIDE DEF w
<1>5. IsReach(walk) /\ InBudget(walk)
    BY DEF InPlace
<1>6. DOMAIN walk = WalkFields
    BY <1>5 DEF IsReach
<1>7. /\ DOMAIN w = WalkFields /\ w.truncated = t /\ w.branches = l
      /\ \A x \in WalkFields \ {"truncated", "branches"} : w[x] = walk[x]
    BY <1>4, <1>6 DEF WalkFields
<1>8. /\ w.selected = walk.selected /\ w.pc = walk.pc /\ w.root = walk.root
      /\ w.view = walk.view /\ w.edges = walk.edges /\ w.rows = walk.rows
      /\ w.tasks = walk.tasks /\ w.pairs = walk.pairs /\ w.best = walk.best
      /\ w.next = walk.next /\ w.frontier = walk.frontier
    BY <1>7 DEF WalkFields
<1>9. walk.branches \in {<<"upstream", "downstream">>, <<"upstream">>, <<"downstream">>}
    BY DEF Walking
<1>10. l = <<>> \/ l = <<"downstream">>
    <2>1. CASE walk.branches = <<"upstream", "downstream">>
        BY <1>2, <2>1
    <2>2. CASE walk.branches # <<"upstream", "downstream">>
        <3>1. PICK s : walk.branches = <<s>>
            BY <1>9, <2>2
        <3> QED BY <1>2, <3>1
    <2> QED BY <2>1, <2>2
<1>11. /\ ToSet(l) \subseteq ToSet(walk.branches)
       /\ \A d \in ToSet(walk.branches) \ ToSet(l) : d = Branch
    <2>1. \A d : d \in ToSet(walk.branches) <=>
             \E i \in DOMAIN walk.branches : d = walk.branches[i]
        BY DEF ToSet
    <2>2. \A d : d \in ToSet(l) <=> \E i \in DOMAIN l : d = l[i]
        BY DEF ToSet
    <2>3. CASE walk.branches = <<"upstream", "downstream">>
        <3>1. l = <<"downstream">> /\ Branch = "upstream"
            BY <1>2, <2>3 DEF Branch
        <3>2. \A d : d \in ToSet(walk.branches) <=> d = "upstream" \/ d = "downstream"
            BY <2>1, <2>3
        <3>3. \A d : d \in ToSet(l) <=> d = "downstream"
            BY <2>2, <3>1
        <3> QED BY <3>1, <3>2, <3>3
    <2>4. CASE walk.branches # <<"upstream", "downstream">>
        <3>1. PICK s : walk.branches = <<s>>
            BY <1>9, <2>4
        <3>2. l = <<>> /\ Branch = s
            BY <1>2, <3>1 DEF Branch
        <3>3. \A d : d \in ToSet(walk.branches) <=> d = s
            BY <2>1, <3>1
        <3>4. ToSet(l) = {}
            BY <3>2, NoList
        <3> QED BY <3>2, <3>3, <3>4
    <2> QED BY <2>3, <2>4
<1>12. \A d : BranchKept(Course(d), walk) => BranchKept(Course(d), w)
    <2> SUFFICES ASSUME NEW d, BranchKept(Course(d), walk) PROVE BranchKept(Course(d), w)
        OBVIOUS
    <2>1. walk.selected \subseteq w.selected /\ walk.edges \subseteq w.edges
        BY <1>8
    <2> QED BY <2>1, KeptStays
<1>13. ~w.truncated /\ (\A b \in Courses : IsStraight(b)) =>
          \A d \in Directions \ ToSet(l) : BranchKept(Course(d), w)
    <2> SUFFICES ASSUME ~w.truncated, \A b \in Courses : IsStraight(b),
                        NEW d \in Directions \ ToSet(l)
                 PROVE  BranchKept(Course(d), w)
        OBVIOUS
    <2>1. ~walk.truncated /\ walk.next = <<>>
        BY <1>3, <1>7
    <2>2. CASE d \notin ToSet(walk.branches)
        <3>1. BranchKept(Course(d), walk)
            BY <2>1, <2>2 DEF InPlace
        <3> QED BY <1>12, <3>1
    <2>3. CASE d \in ToSet(walk.branches)
        <3>1. d = Branch
            BY <1>11, <2>3
        <3>2. PICK b : b = Course(Branch)
            OBVIOUS
        <3>3. PICK v : v = walk
            OBVIOUS
        <3>4. IsBranch(b)
            BY <3>2, BranchOfWalk, CourseOK
        <3>5. b \in Courses
            BY <3>1, <3>2 DEF Courses
        <3>6. Straight(b)
            BY <3>4, <3>5, StraightIs
        <3>7. RoundOK(b, v) /\ IsReach(v) /\ ~v.truncated
            BY <1>5, <2>1, <3>2, <3>3 DEF Walking, Branch
        <3>8. ToSet(v.frontier) = {} /\ ToSet(v.next) = {}
            BY <1>1, <2>1, <3>3, NoList
        <3>9. BranchKept(b, v)
            BY <3>4, <3>6, <3>7, <3>8, EndKeeps
        <3> QED BY <1>12, <3>1, <3>2, <3>3, <3>9
    <2> QED BY <2>2, <2>3
<1>14. Placed(w)
    <2>1. /\ walk.root \in walk.selected /\ walk.selected \subseteq Reachable
          /\ walk.view = "table" => walk.selected \subseteq Tables
          /\ walk.edges \subseteq StepsOf("downstream")
          /\ ToSet(walk.branches) \subseteq Directions
        BY DEF InPlace
    <2>2. IsFiniteSet(walk.selected) /\ Cardinality(walk.selected) <= request.maxNodes
        BY <1>5 DEF IsReach
    <2>3. InBudget(w)
        BY <1>5, <1>8 DEF InBudget
    <2>4. ToSet(l) \subseteq Directions
        BY <1>11, <2>1
    <2> QED BY <1>3, <1>7, <1>8, <1>13, <2>1, <2>2, <2>3, <2>4 DEF Placed
<1>15. CASE l # <<>>
    <2>1. PICK u : u = walk'
        OBVIOUS
    <2>2. u = StartBranch(w) /\ page' = page
        BY <1>1, <1>7, <1>15, <2>1
    <2>3. w.branches \in {<<"upstream", "downstream">>, <<"upstream">>, <<"downstream">>}
        BY <1>7, <1>10, <1>15
    <2>4. /\ InPlace(u) /\ Walking(u)
          /\ u.pc = w.pc /\ u.root = w.root /\ u.view = w.view
        BY <1>14, <2>2, <2>3, StartPlaced
    <2> QED BY <1>8, <2>1, <2>2, <2>4
<1>16. CASE l = <<>>
    <2>1. PICK u : u = walk'
        OBVIOUS
    <2>2. u = [w EXCEPT !.pc = "done"] /\ Answer("shown")
        BY <1>1, <1>7, <1>16, <2>1
    <2>3. /\ DOMAIN u = WalkFields /\ u.pc = "done"
          /\ \A x \in WalkFields \ {"pc"} : u[x] = w[x]
        BY <1>7, <2>2 DEF WalkFields
    <2>4. /\ u.selected = w.selected /\ u.root = w.root
          /\ u.view = w.view /\ u.edges = w.edges /\ u.rows = w.rows
          /\ u.tasks = w.tasks /\ u.pairs = w.pairs /\ u.best = w.best
          /\ u.next = w.next /\ u.frontier = w.frontier /\ u.branches = w.branches
          /\ u.truncated = w.truncated
        BY <2>3 DEF WalkFields
    <2>5. IsReach(u)
        BY <1>3, <1>5, <1>7, <1>8, <2>3, <2>4 DEF IsReach
    <2>6. \A d : BranchKept(Course(d), w) => BranchKept(Course(d), u)
        <3> SUFFICES ASSUME NEW d, BranchKept(Course(d), w) PROVE BranchKept(Course(d), u)
            OBVIOUS
        <3>1. w.selected \subseteq u.selected /\ w.edges \subseteq u.edges
            BY <2>4
        <3> QED BY <3>1, KeptStays
    <2>7. InBudget(u)
        BY <1>14, <2>4 DEF InBudget, Placed
    <2>8. /\ IsList(u.frontier)
          /\ \A f \in ToSet(u.frontier) : f.node \in DOMAIN u.best /\ f.cost \in Nat
        BY <1>1, <1>8, <2>4, NoList
    <2>9. InPlace(u)
        BY <1>14, <2>4, <2>5, <2>6, <2>7, <2>8 DEF Placed, InPlace
    <2> QED BY <1>7, <1>8, <1>16, <2>1, <2>2, <2>3, <2>4, <2>9
<1> QED BY <1>15, <1>16

\* What a page shows when the last branch has come to its end.
LEMMA ShownIsComplete ==
    ASSUME graph \in Graphs, request \in Requests, walk.root \in Nodes,
           InPlace(walk), walk.branches = <<>>
    PROVE  PageIsComplete
<1> DEFINE shown == Inside(walk.edges, walk.selected)
<1>1. IsReach(walk) /\ InBudget(walk) /\ walk.selected \subseteq Reachable
      /\ walk.edges \subseteq StepsOf("downstream")
    BY DEF InPlace
<1>2. WithinBounds
    BY <1>1 DEF IsReach, InBudget, WithinBounds
<1>3. \A e : e \in shown <=> e \in walk.edges /\ e[1] \in walk.selected /\ e[2] \in walk.selected
    BY DEF Inside
<1> HIDE DEF shown
<1>4. shown \subseteq StepsOf("downstream")
    BY <1>1, <1>3
<1>5. Directions \subseteq TwoWays
      /\ \A n : n \in Reachable <=> \E d \in Directions : \E q \in Ends(Course(d)) : n = q[1]
    BY DirectionsAre
<1>6. ASSUME NEW d \in Directions
      PROVE  IsBranch(Course(d)) /\ \A q \in Ends(Course(d)) : q = <<q[1], q[2]>>
    <2>1. PICK b : b = Course(d)
        OBVIOUS
    <2>2. IsBranch(b)
        BY <1>5, <2>1, CourseOK
    <2>3. Size(b) \in 0 .. Size(b)
        BY <2>2, SizeOf
    <2>4. Paths(b)[Size(b)] \subseteq b.nodes \X (0 .. b.depth)
        BY <2>2, <2>3 DEF IsBranch
    <2>5. \A q \in Ends(b) : q \in b.nodes \X (0 .. b.depth)
        BY <2>4 DEF Ends, Size
    <2>6. \A q \in Ends(b) : q = <<q[1], q[2]>>
        BY <2>5
    <2> QED BY <2>1, <2>2, <2>6
<1>7. ASSUME ~walk.truncated, \A b \in Courses : IsStraight(b)
      PROVE  /\ walk.selected = Reachable
             /\ \A b \in Courses : Inside(Onward(b), Reachable) \subseteq shown
    <2>1. ASSUME NEW d \in Directions PROVE BranchKept(Course(d), walk)
        <3>1. d \notin ToSet(walk.branches)
            BY NoList
        <3> QED BY <1>7, <3>1 DEF InPlace
    <2>2. ASSUME NEW n \in Reachable PROVE n \in walk.selected
        <3>1. PICK d \in Directions : \E q \in Ends(Course(d)) : n = q[1]
            BY <1>5
        <3>2. PICK q \in Ends(Course(d)) : n = q[1]
            BY <3>1
        <3>3. <<n, q[2]>> \in Ends(Course(d))
            BY <1>6, <3>2
        <3> QED BY <2>1, <3>3 DEF BranchKept
    <2>3. walk.selected = Reachable
        BY <1>1, <2>2
    <2>4. ASSUME NEW b \in Courses, NEW e \in Inside(Onward(b), Reachable)
          PROVE  e \in shown
        <3>1. PICK d \in Directions : b = Course(d)
            BY DEF Courses
        <3>2. e \in Onward(b) /\ {e[1], e[2]} \subseteq Reachable
            BY DEF Inside
        <3>3. PICK s \in b.steps : e = Drawn(b, s) /\ \E q \in Ends(b) \cap b.on : q[1] = s[1]
            BY <3>2 DEF Onward
        <3>4. PICK q \in Ends(b) : q \in b.on /\ q[1] = s[1]
            BY <3>3
        <3>5. IsBranch(b) /\ q = <<q[1], q[2]>>
            BY <1>6, <3>1
        <3>6. PICK n : n = s[1]
            OBVIOUS
        <3>7. PICK m : m = s[2]
            OBVIOUS
        <3>8. PICK c : c = q[2]
            OBVIOUS
        <3>9. s = <<n, m>>
            BY <3>5, <3>6, <3>7 DEF IsBranch
        <3>10. <<n, c>> \in Ends(b) /\ <<n, c>> \in b.on /\ <<n, m>> \in b.steps
            BY <3>4, <3>5, <3>6, <3>8, <3>9
        <3>11. m \in Reachable
            BY <3>2, <3>3, <3>7 DEF Drawn
        <3>12. PICK f \in Directions : \E r \in Ends(Course(f)) : m = r[1]
            BY <1>5, <3>11
        <3>13. PICK a : a = Course(f)
            OBVIOUS
        <3>14. PICK r \in Ends(a) : m = r[1]
            BY <3>12, <3>13
        <3>15. IsBranch(a) /\ <<m, r[2]>> \in Ends(a)
            BY <1>6, <3>13, <3>14
        <3>16. a.root = b.root /\ a.tables = b.tables /\ a.depth = b.depth
            BY <3>1, <3>13, CourseIs
        <3>17. c + Toll(b, m) <= b.depth
            BY <3>5, <3>10, <3>15, <3>16, DepthIsEnough
        <3>18. BranchKept(b, walk)
            BY <2>1, <3>1
        <3>19. Drawn(b, <<n, m>>) \in walk.edges
            BY <3>10, <3>17, <3>18 DEF BranchKept
        <3>20. e \in walk.edges
            BY <3>3, <3>9, <3>19
        <3> QED BY <1>3, <2>3, <3>2, <3>20
    <2> QED BY <2>3, <2>4
<1> QED BY <1>1, <1>2, <1>4, <1>7 DEF PageIsComplete, shown

-----------------------------------------------------------------------------
(* The invariant                                                            *)

NoticeOK == (page.notice = "none") = (walk.root = Wanted)

Page == {"status", "notice"}

WalkOf(started) ==
    /\ graph \in Graphs \cup {NoSnapshot} /\ request \in Requests
    /\ DOMAIN page = Page
    /\ walk.pc \in {"asked", "walking", "done"}
    /\ walk.pc = "asked" => walk = NoWalk /\ page = NoPage
    /\ walk.pc = "walking" => HasNodes /\ started /\ page.status = "none" /\ NoticeOK
    /\ walk.pc = "done" /\ page.status = "shown" =>
          HasNodes /\ walk.root \in Nodes /\ InPlace(walk) /\ walk.branches = <<>> /\ NoticeOK
    /\ walk.pc = "done" /\ page.status # "shown" => ~(request.initial /\ HasNodes /\ Tables # {})

UnderWay == walk.root \in Nodes /\ InPlace(walk) /\ Walking(walk)

WalkInv == WalkOf(UnderWay)
WalkStep == WalkOf(UnderWay \/ Fresh(walk))

LEMMA WalkSettles == ASSUME WalkStep PROVE WalkInv
<1>1. graph \in Graphs \cup {NoSnapshot} /\ request \in Requests
    BY DEF WalkStep, WalkOf
<1>2. HasNodes => graph \in Graphs
    BY <1>1 DEF HasNodes
<1>3. graph \in Graphs /\ Fresh(walk) => UnderWay
    BY <1>1, FreshInPlace DEF UnderWay, Fresh
<1> QED BY <1>2, <1>3 DEF WalkStep, WalkInv, WalkOf

LEMMA WalkShows == ASSUME WalkInv PROVE PagesAreTrue
<1>1. graph \in Graphs \cup {NoSnapshot} /\ request \in Requests
    BY DEF WalkInv, WalkOf
<1>2. PageIsComplete
    <2>1. CASE page.status = "shown"
        <3>1. walk.pc = "done"
            BY <2>1 DEF WalkInv, WalkOf, NoPage
        <3>2. HasNodes /\ walk.root \in Nodes /\ InPlace(walk) /\ walk.branches = <<>>
            BY <2>1, <3>1 DEF WalkInv, WalkOf
        <3>3. graph \in Graphs
            BY <1>1, <3>2 DEF HasNodes
        <3> QED BY <1>1, <3>2, <3>3, ShownIsComplete
    <2>2. CASE page.status # "shown"
        BY <2>2 DEF PageIsComplete
    <2> QED BY <2>1, <2>2
<1>3. InitialViewAnswers
    BY DEF WalkInv, WalkOf, NoticeOK, InitialViewAnswers
<1> QED BY <1>2, <1>3 DEF PagesAreTrue

\* The graph, the request and the root are those of the state before.
LEMMA Unmoved ==
    ASSUME graph' = graph, request' = request
    PROVE  /\ Nodes' = Nodes /\ Tables' = Tables /\ HasNodes' = HasNodes
           /\ Wanted' = Wanted /\ Branches' = Branches
<1>1. Nodes' = Nodes
    BY DEF Nodes
<1>2. \A n : IsTable(n)' = IsTable(n)
    BY DEF IsTable
<1>3. Tables' = Tables
    BY <1>1, <1>2 DEF Tables
<1>4. Connected' = Connected
    BY <1>1 DEF Connected
<1>5. \A S : Ranked(S)' = Ranked(S)
    BY DEF Ranked
<1>6. DefaultRoot' = DefaultRoot
    BY <1>1, <1>3, <1>4, <1>5 DEF DefaultRoot
<1> QED BY <1>1, <1>3, <1>6 DEF HasNodes, Wanted, Branches

LEMMA CoursesUnmoved ==
    ASSUME graph' = graph, request' = request, walk'.root = walk.root, walk'.view = walk.view
    PROVE  /\ \A d : StepsOf(d)' = StepsOf(d) /\ Course(d)' = Course(d)
           /\ Directions' = Directions /\ Courses' = Courses /\ Reachable' = Reachable
<1>1. Nodes' = Nodes /\ Tables' = Tables /\ Branches' = Branches
    BY Unmoved
<1>2. EdgeSet' = EdgeSet
    BY DEF EdgeSet
<1>3. \A d : Along(d)' = Along(d)
    BY <1>2 DEF Along
<1>4. \A n : IsTask(n)' = IsTask(n) /\ IsTable(n)' = IsTable(n) /\ IsDwf(n)' = IsDwf(n)
    BY DEF IsTask, IsTable, IsDwf
<1>5. \A d : StepsOf(d)' = StepsOf(d)
    BY <1>1, <1>3, <1>4 DEF StepsOf
<1>6. \A d, n, c : GoesOn(d, n, c)' = GoesOn(d, n, c)
    BY <1>4 DEF GoesOn
<1>7. \A d : Course(d)' = Course(d)
    BY <1>1, <1>5, <1>6 DEF Course
<1>8. Directions' = Directions
    BY <1>1 DEF Directions
<1>9. Courses' = Courses
    BY <1>7, <1>8 DEF Courses
<1>10. Reachable' = Reachable
    BY <1>9 DEF Reachable
<1> QED BY <1>5, <1>7, <1>8, <1>9, <1>10

LEMMA WayUnmoved ==
    ASSUME graph' = graph, request' = request, walk'.root = walk.root, walk'.view = walk.view
    PROVE  /\ InPlace(walk') => InPlace(walk)'
           /\ Walking(walk') => Walking(walk)'
<1>1. /\ \A d : StepsOf(d)' = StepsOf(d) /\ Course(d)' = Course(d)
      /\ Directions' = Directions /\ Courses' = Courses /\ Reachable' = Reachable
      /\ Tables' = Tables
    BY CoursesUnmoved, Unmoved
<1>2. IsReach(walk)' = IsReach(walk')
    BY DEF IsReach
<1>3. InPlace(walk') => InPlace(walk)'
    BY <1>1, <1>2 DEF InPlace
<1>4. Walking(walk') => Walking(walk)'
    BY <1>1 DEF Walking
<1> QED BY <1>3, <1>4

-----------------------------------------------------------------------------
(* The steps keep it                                                        *)

LEMMA PageIs ==
    /\ DOMAIN NoPage = Page /\ NoPage.status = "none" /\ NoPage.notice = "none"
    /\ \A s, t : s = [page EXCEPT !.status = t] /\ DOMAIN page = Page =>
          DOMAIN s = Page /\ s.status = t /\ s.notice = page.notice
BY DEF NoPage, Page

LEMMA NoWalkIs == NoWalk.pc = "asked" /\ DOMAIN NoWalk = WalkFields
BY DEF NoWalk, WalkFields

\* With a table in the snapshot, the default root is one, and is not refused.
LEMMA DefaultIsGood ==
    ASSUME graph \in Graphs, Tables # {}, NEW view
    PROVE  Refusal(DefaultRoot, view) = "none"
<1>1. DefaultRoot \in Tables
    BY RootIsTable
<1>2. DefaultRoot \in Nodes /\ IsTable(DefaultRoot)
    BY <1>1 DEF Tables
<1> QED BY <1>2 DEF Refusal

LEMMA NotRefused ==
    ASSUME NEW root, NEW view, Refusal(root, view) = "none"
    PROVE  root \in Nodes /\ (view = "table" => root \in Tables)
<1>1. root \in Nodes
    BY DEF Refusal
<1>2. view = "table" => IsTable(root)
    BY <1>1 DEF Refusal
<1> QED BY <1>1, <1>2 DEF Tables

\* Begin starts a walk at its root.
LEMMA BeginIs ==
    ASSUME graph' = graph, request' = request, walk = NoWalk, NEW root, NEW view,
           Refusal(root, view) = "none", Begin(root, view)
    PROVE  Fresh(walk)' /\ walk'.root = root /\ walk'.pc = "walking"
<1>1. PICK l : l = Branches
    OBVIOUS
<1>2. PICK w : w = [NoWalk EXCEPT !.pc = "walking", !.root = root, !.view = view,
                                  !.branches = l, !.selected = {root}]
    OBVIOUS
<1>3. PICK u : u = walk'
    OBVIOUS
<1>4. u = StartBranch(w)
    BY <1>1, <1>2, <1>3 DEF Begin
<1>5. DOMAIN w = WalkFields /\ w.pc = "walking" /\ w.root = root /\ w.view = view
    BY <1>2 DEF NoWalk, WalkFields
<1>6. IsStart(w, u)
    BY <1>4, <1>5, StartIs
<1>7. u.pc = "walking" /\ u.root = root /\ u.view = view
    BY <1>5, <1>6 DEF IsStart, WalkFields
<1>8. root \in Nodes /\ (view = "table" => root \in Tables)
    BY NotRefused
<1>9. Nodes' = Nodes /\ Tables' = Tables /\ Branches' = Branches
    BY Unmoved
<1>10. u.root \in Nodes /\ (u.view = "table" => u.root \in Tables)
    BY <1>7, <1>8
<1>11. u = StartBranch([NoWalk EXCEPT !.pc = "walking", !.root = u.root, !.view = u.view,
                                      !.branches = l, !.selected = {u.root}])
    BY <1>2, <1>4, <1>7
<1>12. Fresh(walk)'
    BY <1>1, <1>3, <1>9, <1>10, <1>11 DEF Fresh
<1> QED BY <1>3, <1>7, <1>12

LEMMA NothingKeeps == ASSUME WalkInv, NothingToShow PROVE WalkStep'
<1>1. graph' = graph /\ request' = request /\ walk.pc = "asked" /\ ~HasNodes
    BY DEF NothingToShow
<1>2. PICK t \in {"no_graph", "not_found"} : page' = [page EXCEPT !.status = t]
    BY DEF NothingToShow, Answer
<1>3. walk = NoWalk /\ page = NoPage
    BY <1>1 DEF WalkInv, WalkOf
<1>4. DOMAIN page' = Page /\ page'.status = t
    BY <1>2, <1>3, PageIs
<1>5. walk'.pc = "done"
    BY <1>3, NoWalkIs DEF NothingToShow, Stop, WalkFields
<1>6. HasNodes' = HasNodes
    BY <1>1, Unmoved
<1> QED BY <1>1, <1>2, <1>4, <1>5, <1>6 DEF WalkInv, WalkStep, WalkOf

LEMMA OpenKeeps == ASSUME WalkInv, OpenRoot PROVE WalkStep'
<1>1. /\ graph' = graph /\ request' = request /\ page' = page
      /\ walk.pc = "asked" /\ HasNodes
      /\ Refusal(Wanted, request.view) = "none" /\ Begin(Wanted, request.view)
    BY DEF OpenRoot
<1>2. walk = NoWalk /\ page = NoPage
    BY <1>1 DEF WalkInv, WalkOf
<1>3. PICK root : root = Wanted
    OBVIOUS
<1>4. PICK view : view = request.view
    OBVIOUS
<1>5. Refusal(root, view) = "none" /\ Begin(root, view)
    BY <1>1, <1>3, <1>4
<1>6. Fresh(walk)' /\ walk'.root = root /\ walk'.pc = "walking"
    BY <1>1, <1>2, <1>5, BeginIs
<1>7. HasNodes' = HasNodes /\ Wanted' = Wanted
    BY <1>1, Unmoved
<1>8. NoticeOK'
    BY <1>1, <1>2, <1>3, <1>6, <1>7, PageIs DEF NoticeOK
<1>9. page'.status = "none" /\ DOMAIN page' = Page
    BY <1>1, <1>2, PageIs
<1> QED BY <1>1, <1>6, <1>7, <1>8, <1>9 DEF WalkInv, WalkStep, WalkOf

LEMMA RefuseKeeps == ASSUME WalkInv, RefuseRoot PROVE WalkStep'
<1>1. /\ graph' = graph /\ request' = request
      /\ walk.pc = "asked" /\ HasNodes
      /\ Refusal(Wanted, request.view) # "none" /\ ~FallsBack
    BY DEF RefuseRoot
<1>2. walk = NoWalk /\ page = NoPage
    BY <1>1 DEF WalkInv, WalkOf
<1>3. PICK t : t = Refusal(Wanted, request.view)
    OBVIOUS
<1>4. t \in {"not_found", "needs_table"} /\ page' = [page EXCEPT !.status = t]
    <2>1. Refusal(Wanted, request.view) \in {"not_found", "needs_table", "none"}
        BY DEF Refusal
    <2> QED BY <1>1, <1>3, <2>1 DEF RefuseRoot, Answer
<1>5. DOMAIN page' = Page /\ page'.status = t
    BY <1>2, <1>4, PageIs
<1>6. walk'.pc = "done"
    BY <1>2, NoWalkIs DEF RefuseRoot, Stop, WalkFields
<1>7. HasNodes' = HasNodes /\ Tables' = Tables
    BY <1>1, Unmoved
<1>8. ~(request.initial /\ Tables # {})
    <2> SUFFICES ASSUME request.initial, Tables # {} PROVE FALSE
        OBVIOUS
    <2>1. graph \in Graphs
        BY <1>1 DEF WalkInv, WalkOf, HasNodes
    <2>2. Wanted = DefaultRoot
        BY <1>1 DEF FallsBack, Wanted
    <2> QED BY <1>1, <2>1, <2>2, DefaultIsGood
<1> QED BY <1>1, <1>4, <1>5, <1>6, <1>7, <1>8 DEF WalkInv, WalkStep, WalkOf

LEMMA FallBackKeeps == ASSUME WalkInv, FallBack PROVE WalkStep'
<1>1. /\ graph' = graph /\ request' = request
      /\ walk.pc = "asked" /\ HasNodes /\ FallsBack
    BY DEF FallBack
<1>2. walk = NoWalk /\ page = NoPage
    BY <1>1 DEF WalkInv, WalkOf
<1>3. HasNodes' = HasNodes /\ Wanted' = Wanted /\ Tables' = Tables
    BY <1>1, Unmoved
<1>4. PICK s : s = Refusal(Wanted, request.view)
    OBVIOUS
<1>5. s # "none" /\ Wanted # DefaultRoot
    BY <1>1, <1>4 DEF FallsBack, Wanted
<1>6. CASE Refusal(DefaultRoot, "table") = "none"
    <2>1. Begin(DefaultRoot, "table") /\ page' = [page EXCEPT !.notice = s]
        BY <1>4, <1>6 DEF FallBack
    <2>2. PICK root : root = DefaultRoot
        OBVIOUS
    <2>3. PICK view : view = "table"
        OBVIOUS
    <2>4. Refusal(root, view) = "none" /\ Begin(root, view)
        BY <1>6, <2>1, <2>2, <2>3
    <2>5. Fresh(walk)' /\ walk'.root = root /\ walk'.pc = "walking"
        BY <1>1, <1>2, <2>4, BeginIs
    <2>6. DOMAIN page' = Page /\ page'.status = "none" /\ page'.notice = s
        BY <1>2, <2>1 DEF NoPage, Page
    <2>7. NoticeOK'
        BY <1>3, <1>5, <2>2, <2>5, <2>6 DEF NoticeOK
    <2> QED BY <1>1, <1>3, <2>5, <2>6, <2>7 DEF WalkInv, WalkStep, WalkOf
<1>7. CASE Refusal(DefaultRoot, "table") # "none"
    <2>1. PICK t : t = Refusal(DefaultRoot, "table")
        OBVIOUS
    <2>2. t \in {"not_found", "needs_table"} /\ page' = [page EXCEPT !.status = t] /\ Stop
        <3>1. Refusal(DefaultRoot, "table") \in {"not_found", "needs_table", "none"}
            BY DEF Refusal
        <3> QED BY <1>7, <2>1, <3>1 DEF FallBack, Answer
    <2>3. DOMAIN page' = Page /\ page'.status = t
        BY <1>2, <2>2, PageIs
    <2>4. walk'.pc = "done"
        BY <1>2, <2>2, NoWalkIs DEF Stop, WalkFields
    <2>5. graph \in Graphs
        BY <1>1 DEF WalkInv, WalkOf, HasNodes
    <2>6. Tables = {}
        BY <1>7, <2>5, DefaultIsGood
    <2> QED BY <1>1, <1>3, <2>2, <2>3, <2>4, <2>6 DEF WalkInv, WalkStep, WalkOf
<1> QED BY <1>6, <1>7

\* A step within a walk.
LEMMA OnTheWay ==
    ASSUME WalkInv, walk.pc = "walking", graph' = graph, request' = request, page' = page,
           InPlace(walk'), Walking(walk'),
           walk'.pc = walk.pc, walk'.root = walk.root, walk'.view = walk.view
    PROVE  WalkStep'
<1>1. HasNodes /\ UnderWay /\ page.status = "none" /\ NoticeOK
    BY DEF WalkInv, WalkOf
<1>2. HasNodes' = HasNodes /\ Wanted' = Wanted /\ Nodes' = Nodes
    BY Unmoved
<1>3. UnderWay'
    BY <1>1, <1>2, WayUnmoved DEF UnderWay
<1>4. NoticeOK'
    BY <1>1, <1>2 DEF NoticeOK
<1> QED BY <1>1, <1>2, <1>3, <1>4 DEF WalkInv, WalkStep, WalkOf

LEMMA WalkingIs ==
    ASSUME WalkInv, walk.pc = "walking"
    PROVE  /\ graph \in Graphs /\ request \in Requests /\ walk.root \in Nodes
           /\ InPlace(walk) /\ Walking(walk)
BY DEF WalkInv, WalkOf, UnderWay, HasNodes

LEMMA GroupKeeps ==
    ASSUME WalkInv, SkipGroup \/ ExpandDetail \/ ExpandTable
    PROVE  WalkStep'
<1>1. walk.pc = "walking" /\ graph' = graph /\ request' = request /\ page' = page
    BY DEF SkipGroup, ExpandDetail, ExpandTable, Expanding
<1>2. /\ graph \in Graphs /\ request \in Requests /\ walk.root \in Nodes
      /\ InPlace(walk) /\ Walking(walk)
    BY <1>1, WalkingIs
<1>3. /\ InPlace(walk') /\ Walking(walk')
      /\ walk'.pc = walk.pc /\ walk'.root = walk.root /\ walk'.view = walk.view
    <2>1. CASE SkipGroup
        BY <1>2, <2>1, SkipKeeps
    <2>2. CASE ExpandDetail
        BY <1>2, <2>2, DetailKeeps
    <2>3. CASE ExpandTable
        <3>1. walk.view = "table"
            BY <2>3 DEF ExpandTable
        <3> QED BY <1>2, <2>3, <3>1, TableKeeps
    <2> QED BY <2>1, <2>2, <2>3
<1> QED BY <1>1, <1>3, OnTheWay

LEMMA RoundKeeps == ASSUME WalkInv, NextRound PROVE WalkStep'
<1>1. walk.pc = "walking" /\ graph' = graph /\ request' = request /\ page' = page
    BY DEF NextRound, RoundDone
<1>2. /\ graph \in Graphs /\ request \in Requests /\ walk.root \in Nodes
      /\ InPlace(walk) /\ Walking(walk)
    BY <1>1, WalkingIs
<1>3. /\ InPlace(walk') /\ Walking(walk')
      /\ walk'.pc = walk.pc /\ walk'.root = walk.root /\ walk'.view = walk.view
    BY <1>2, NextKeeps
<1> QED BY <1>1, <1>3, OnTheWay

LEMMA BranchEndKeeps == ASSUME WalkInv, EndBranch PROVE WalkStep'
<1>1. walk.pc = "walking" /\ graph' = graph /\ request' = request
    BY DEF EndBranch, RoundDone
<1>2. /\ graph \in Graphs /\ request \in Requests /\ walk.root \in Nodes
      /\ InPlace(walk) /\ Walking(walk)
    BY <1>1, WalkingIs
<1>3. /\ InPlace(walk')
      /\ walk'.root = walk.root /\ walk'.view = walk.view
      /\ \/ /\ Walking(walk') /\ walk'.pc = walk.pc /\ page' = page
         \/ /\ walk'.pc = "done" /\ walk'.branches = <<>> /\ Answer("shown")
    BY <1>2, EndKept
<1>4. CASE Walking(walk') /\ walk'.pc = walk.pc /\ page' = page
    BY <1>1, <1>3, <1>4, OnTheWay
<1>5. CASE walk'.pc = "done" /\ walk'.branches = <<>> /\ Answer("shown")
    <2>1. DOMAIN page = Page /\ HasNodes /\ NoticeOK
        BY <1>1 DEF WalkInv, WalkOf
    <2>2. page' = [page EXCEPT !.status = "shown"]
        BY <1>5 DEF Answer
    <2>3. DOMAIN page' = Page /\ page'.status = "shown" /\ page'.notice = page.notice
        BY <2>1, <2>2, PageIs
    <2>4. HasNodes' = HasNodes /\ Wanted' = Wanted /\ Nodes' = Nodes
        BY <1>1, Unmoved
    <2>5. InPlace(walk)'
        BY <1>1, <1>3, WayUnmoved
    <2>6. NoticeOK'
        BY <1>3, <2>1, <2>3, <2>4 DEF NoticeOK
    <2> QED BY <1>1, <1>2, <1>3, <1>5, <2>1, <2>3, <2>4, <2>5, <2>6 DEF WalkStep, WalkOf
<1> QED BY <1>3, <1>4, <1>5

LEMMA WalkStays == ASSUME WalkInv, UNCHANGED walkVars PROVE WalkStep'
<1>1. graph' = graph /\ request' = request /\ walk' = walk /\ page' = page
    BY DEF walkVars
<1>2. HasNodes' = HasNodes /\ Wanted' = Wanted /\ Nodes' = Nodes /\ Tables' = Tables
    BY <1>1, Unmoved
<1>3. InPlace(walk) => InPlace(walk)'
    BY <1>1, WayUnmoved
<1>4. Walking(walk) => Walking(walk)'
    BY <1>1, WayUnmoved
<1>5. UnderWay => UnderWay'
    BY <1>1, <1>2, <1>3, <1>4 DEF UnderWay
<1>6. NoticeOK => NoticeOK'
    BY <1>1, <1>2 DEF NoticeOK
<1> QED BY <1>1, <1>2, <1>3, <1>5, <1>6 DEF WalkInv, WalkStep, WalkOf

-----------------------------------------------------------------------------
(* The walk, in the specification                                           *)

WalkSide == IF side = "walk" THEN WalkInv ELSE NotAsked
WalkSideStep == IF side = "walk" THEN WalkStep ELSE NotAsked

LEMMA WalkStarts == ASSUME LineageInit PROVE WalkSideStep
<1>1. CASE side = "walk"
    <2>1. WalkInit
        BY <1>1 DEF LineageInit
    <2>2. graph \in Graphs \cup {NoSnapshot} /\ request \in Requests /\ walk = NoWalk /\ page = NoPage
        BY <2>1 DEF WalkInit
    <2>3. walk.pc = "asked" /\ DOMAIN page = Page
        BY <2>2, NoWalkIs, PageIs
    <2>4. WalkStep
        BY <2>2, <2>3 DEF WalkStep, WalkOf
    <2> QED BY <1>1, <2>4 DEF WalkSideStep
<1>2. CASE side # "walk"
    BY <1>2 DEF LineageInit, WalkSideStep
<1> QED BY <1>1, <1>2

LEMMA WalkGoesOn == ASSUME WalkSide, [LineageNext]_allVars PROVE WalkSideStep'
<1>1. side' = side
    BY DEF LineageNext, allVars
<1>2. ASSUME side = "walk", WalkNext PROVE WalkStep'
    <2>1. WalkInv
        BY <1>2 DEF WalkSide
    <2>2. CASE NothingToShow
        BY <2>1, <2>2, NothingKeeps
    <2>3. CASE OpenRoot
        BY <2>1, <2>3, OpenKeeps
    <2>4. CASE RefuseRoot
        BY <2>1, <2>4, RefuseKeeps
    <2>5. CASE FallBack
        BY <2>1, <2>5, FallBackKeeps
    <2>6. CASE SkipGroup \/ ExpandDetail \/ ExpandTable
        BY <2>1, <2>6, GroupKeeps
    <2>7. CASE NextRound
        BY <2>1, <2>7, RoundKeeps
    <2>8. CASE EndBranch
        BY <2>1, <2>8, BranchEndKeeps
    <2> QED BY <1>2, <2>2, <2>3, <2>4, <2>5, <2>6, <2>7, <2>8 DEF WalkNext
<1>3. CASE UNCHANGED walkVars
    <2>1. WalkInv => WalkStep'
        BY <1>3, WalkStays
    <2>2. NotAsked => NotAsked'
        BY <1>3 DEF NotAsked, walkVars
    <2> QED BY <1>1, <2>1, <2>2 DEF WalkSide, WalkSideStep
<1>4. \/ side = "walk" /\ WalkNext
      \/ UNCHANGED walkVars
    BY DEF LineageNext, allVars
<1> QED BY <1>1, <1>2, <1>3, <1>4 DEF WalkSideStep

\* A walk keeps in place, from the root it was given to the last round of its last
\* branch: what it has reached, shown and read stays in step with the paths of the graph
\* (_walk_persistent_detail, _walk_persistent_table).
THEOREM WalkStaysInPlace == LineageSpec => []WalkSide
<1>1. LineageInit => WalkSideStep
    BY WalkStarts
<1>2. WalkSide /\ [LineageNext]_allVars => WalkSideStep'
    BY WalkGoesOn
<1>3. WalkSideStep => WalkSide
    BY WalkSettles DEF WalkSide, WalkSideStep
<1> QED BY <1>1, <1>2, <1>3, PTL DEF LineageSpec

\* A page that is shown holds nothing beyond the depth that was asked for and no edge
\* that the snapshot does not have, keeps the four budgets, and leaves nothing out
\* without saying so; the initial view shows a graph as long as the snapshot has a
\* table, and tells when it is not that of the root asked for: get_subgraph and
\* get_initial_view, for every graph, request and budget.
THEOREM WalkShowsTheTruth == LineageSpec => []PagesAreTrue
<1>1. WalkSide => PagesAreTrue
    <2>1. WalkInv => PagesAreTrue
        BY WalkShows
    <2>2. NotAsked => PagesAreTrue
        BY NoWalkIs, PageIs DEF NotAsked, PagesAreTrue, PageIsComplete, InitialViewAnswers
    <2> QED BY <2>1, <2>2 DEF WalkSide
<1> QED BY <1>1, WalkStaysInPlace, PTL

-----------------------------------------------------------------------------
(* The table view                                                           *)

\* Where every step costs one, a path costs as much as it has steps.
LEMMA EvenIsStraight ==
    ASSUME NEW b, IsBranch(b), \A n, m : <<n, m>> \in b.steps => m \in b.tables
    PROVE  IsStraight(b)
<1>1. PICK size \in Nat : size = Size(b)
    BY SizeOf
<1> DEFINE Even(j) == \A n, c : <<n, c>> \in Paths(b)[j] =>
                         c \in 0 .. j /\ <<n, c>> \in Paths(b)[c]
           S == {j \in Nat : j <= size => Even(j)}
<1>2. 0 \in S
    <2>1. Paths(b)[0] = {<<b.root, 0>>}
        BY DEF IsBranch
    <2>2. \A n, c : <<n, c>> \in Paths(b)[0] => c = 0
        BY <2>1
    <2> QED BY <2>2
<1>3. ASSUME NEW j \in Nat, j \in S PROVE j + 1 \in S
    <2> SUFFICES ASSUME j + 1 <= size, NEW m, NEW d, <<m, d>> \in Paths(b)[j + 1]
                 PROVE  d \in 0 .. j + 1 /\ <<m, d>> \in Paths(b)[d]
        OBVIOUS
    <2>1. Even(j) /\ j \in 0 .. Size(b) - 1 /\ j + 1 \in 0 .. Size(b)
        BY <1>1, <1>3
    <2>2. \/ <<m, d>> \in Paths(b)[j]
          \/ \E n, c : /\ <<n, c>> \in Paths(b)[j] /\ <<n, c>> \in b.on
                       /\ <<n, m>> \in b.steps /\ d = c + Toll(b, m)
        <3>1. IsBranch(b) /\ j \in 0 .. Size(b) - 1
            BY <2>1
        <3>2. \A x, y : <<x, y>> \in Paths(b)[j + 1] =>
                  \/ <<x, y>> \in Paths(b)[j]
                  \/ \E n, c : /\ <<n, c>> \in Paths(b)[j] /\ <<n, c>> \in b.on
                               /\ <<n, x>> \in b.steps /\ y = c + Toll(b, x)
            BY ONLY <3>1, LastStep
        <3> QED BY ONLY <3>2, <<m, d>> \in Paths(b)[j + 1]
    <2>3. CASE <<m, d>> \in Paths(b)[j]
        BY <2>1, <2>3
    <2>4. CASE \E n, c : /\ <<n, c>> \in Paths(b)[j] /\ <<n, c>> \in b.on
                         /\ <<n, m>> \in b.steps /\ d = c + Toll(b, m)
        <3>1. PICK n, c : /\ <<n, c>> \in Paths(b)[j] /\ <<n, c>> \in b.on
                          /\ <<n, m>> \in b.steps /\ d = c + Toll(b, m)
            BY <2>4
        <3>2. c \in 0 .. j /\ <<n, c>> \in Paths(b)[c]
            BY <2>1, <3>1
        <3>3. Toll(b, m) = 1
            BY <3>1 DEF Toll
        <3>4. d = c + 1 /\ d <= b.depth /\ c \in 0 .. Size(b) - 1
            BY <1>1, <2>1, <3>1, <3>2, <3>3, LevelPairs
        <3>5. <<m, c + Toll(b, m)>> \in Paths(b)[c + 1]
            BY <3>1, <3>2, <3>4 DEF IsBranch
        <3> QED BY <3>1, <3>2, <3>4, <3>5
    <2> QED BY <2>2, <2>3, <2>4
<1> HIDE DEF S
<1>4. Nat \subseteq S
    BY <1>2, <1>3, SetInduction
<1>5. \A j \in 0 .. size : Even(j)
    BY <1>4 DEF S
<1> HIDE DEF Even
<1>6. ASSUME NEW k \in 0 .. size, NEW q \in Paths(b)[k], NEW r \in Ends(b), q[1] = r[1]
      PROVE  \E p \in Paths(b)[k] : p[1] = r[1] /\ p[2] <= r[2]
    <2>1. Paths(b)[k] \subseteq b.nodes \X (0 .. b.depth) /\ Ends(b) \subseteq b.nodes \X (0 .. b.depth)
          /\ b.depth \in Nat
        BY <1>1 DEF IsBranch, Ends, Size
    <2>2. q = <<q[1], q[2]>> /\ r = <<r[1], r[2]>> /\ q[2] \in Nat /\ r[2] \in Nat
        BY <2>1
    <2>3. <<r[1], r[2]>> \in Paths(b)[size] /\ <<q[1], q[2]>> \in Paths(b)[k]
        BY <1>1, <2>2 DEF Ends, Size
    <2>4. q[2] \in 0 .. k
        BY <1>5, <2>3 DEF Even
    <2>5. r[2] \in 0 .. size /\ <<r[1], r[2]>> \in Paths(b)[r[2]]
        BY <1>5, <2>3 DEF Even
    <2>6. CASE r[2] <= k
        <3>1. Paths(b)[r[2]] \subseteq Paths(b)[k]
            BY <1>1, <2>5, <2>6, LevelsRise
        <3> QED BY <2>2, <2>5, <3>1
    <2>7. CASE ~(r[2] <= k)
        <3>1. q[2] <= r[2]
            BY <2>2, <2>4, <2>7
        <3> QED BY <1>6, <3>1
    <2> QED BY <2>6, <2>7
<1> QED BY <1>1, <1>6 DEF IsStraight, Size

\* In the table view nothing is left out for the order in which it was found: what a page
\* does not say it has cut, it shows, for every graph (_walk_persistent_table).
TablePagesAreWhole ==
    page.status = "shown" /\ walk.view = "table" /\ ~walk.truncated =>
        /\ walk.selected = Reachable
        /\ \A b \in Courses : Inside(Onward(b), Reachable) \subseteq Inside(walk.edges, walk.selected)

\* The table view is complete without a condition on the graph: every step of it crosses
\* one table, so the first path to a node is a cheapest one.
THEOREM TablePagesLeaveNothingOut == LineageSpec => []TablePagesAreWhole
<1>1. WalkSide => TablePagesAreWhole
    <2> SUFFICES ASSUME WalkSide, page.status = "shown", walk.view = "table", ~walk.truncated
                 PROVE  /\ walk.selected = Reachable
                        /\ \A b \in Courses : Inside(Onward(b), Reachable)
                                                \subseteq Inside(walk.edges, walk.selected)
        BY DEF TablePagesAreWhole
    <2>1. WalkInv
        BY PageIs DEF WalkSide, NotAsked
    <2>2. walk.pc = "done"
        BY <2>1 DEF WalkInv, WalkOf, NoPage
    <2>3. /\ HasNodes /\ walk.root \in Nodes
          /\ graph \in Graphs \cup {NoSnapshot} /\ request \in Requests
        BY <2>1, <2>2 DEF WalkInv, WalkOf
    <2>4. graph \in Graphs
        BY <2>3 DEF HasNodes
    <2>5. ASSUME NEW b \in Courses PROVE IsStraight(b)
        <3>1. PICK d \in Directions : b = Course(d)
            BY DEF Courses
        <3>2. d \in TwoWays
            BY <2>3, DirectionsAre
        <3>3. IsBranch(b) /\ b.steps = StepsOf(d) /\ b.tables = Tables
            BY <2>3, <2>4, <3>1, <3>2, CourseOK, CourseIs
        <3>4. StepsOf(d) \subseteq Tables \X Tables
            BY <2>4, <3>2, StepsAre
        <3>5. \A n, m : <<n, m>> \in b.steps => m \in b.tables
            BY <3>3, <3>4
        <3> QED BY <3>3, <3>5, EvenIsStraight
    <2>6. PageIsComplete
        BY <2>1, WalkShows DEF PagesAreTrue
    <2> QED BY <2>5, <2>6 DEF PageIsComplete
<1> QED BY <1>1, WalkStaysInPlace, PTL
=============================================================================
