------------------------ MODULE CatalogSnapshotProofs ------------------------
(***************************************************************************)
(* Theorems about CatalogSnapshot, for every number of issuing and reading *)
(* threads, facts and snapshots, and every limit and lifetime: nothing is  *)
(* stored that nobody leases, what was refused is never served again, and  *)
(* a page that leaves was authorized after it was built.                   *)
(***************************************************************************)
EXTENDS CatalogSnapshot, FiniteSetTheorems, SequenceTheorems, TLAPS

-----------------------------------------------------------------------------
(* The inductive invariant *)

Frozen == [fence : Seq(Values), deadline : Nat, expires : Int, size : Nat]

\* Records that several steps update are typed field by field.
IsDraft(d) ==
    /\ DOMAIN d = {"ttl", "captureBy", "deadline", "expires", "size", "fence"}
    /\ d.ttl \in Nat /\ d.captureBy \in Nat /\ d.deadline \in Nat /\ d.size \in Nat
    /\ d.expires \in Int
    /\ d.fence \in Seq(Values)

PCs == {"idle", "auth", "fail", "refuse", "capture", "insert", "time",
        "stored", "build", "served"}
Rounds == {"first", "second", "issued", "lookup", "final"}

IsCall(c) ==
    /\ DOMAIN c = {"pc", "round", "id", "seen", "built", "fresh"}
    /\ c.pc \in PCs /\ c.round \in Rounds
    /\ c.id \in Nat /\ c.built \in Nat
    /\ c.seen \in Seq(Values) /\ Len(c.seen) <= NumFacts
    /\ c.fresh \subseteq FactIds

CallTypes == DOMAIN call = Callers /\ \A p \in Callers : IsCall(call[p])

DraftTypes == DOMAIN draft = Issuers /\ \A i \in Issuers : IsDraft(draft[i])

StoreTypes ==
    /\ facts \in [FactIds -> Values \cup {Denied}]
    /\ mono \in Nat /\ skew \in Int
    /\ snap \in Seq(Frozen)
    /\ store \subseteq 1..Len(snap)
    /\ leased \subseteq 1..Len(snap)
    /\ refused \subseteq 1..Len(snap)

TypeOK == StoreTypes /\ CallTypes /\ DraftTypes

\* An issuer that gathers its snapshot, and one whose snapshot is frozen.
Gathering(i) == \/ At(i, "capture")
                \/ At(i, "auth") /\ call[i].round \in {"first", "second"}

Checking(p) == \/ \E pc \in {"time", "refuse", "stored", "build", "served"} : At(p, pc)
               \/ At(p, "auth") /\ call[p].round \in CheckRounds

\* One issuer at a time, and what it works on.
IssuerInPlace(i) ==
    /\ ~At(i, "idle") => capturing = i
    /\ At(i, "idle") \/ Gathering(i) => call[i].id = 0
    /\ At(i, "insert") \/ Checking(i) => call[i].id \in 1..Len(snap)
    /\ At(i, "fail") => call[i].id \in 0..Len(snap)
    /\ Checking(i) => call[i].round = "issued"
    /\ ~At(i, "build") /\ ~At(i, "served")

OneIssuer == \A i \in Issuers : IssuerInPlace(i)

\* A reader works on a snapshot it was leased.
ReaderInPlace(r) ==
    /\ At(r, "idle") \/ Checking(r)
    /\ Checking(r) => call[r].id \in leased /\ call[r].round \in {"lookup", "final"}
    /\ At(r, "idle") => call[r].round = "first"
    /\ At(r, "build") => call[r].round = "lookup"
    /\ At(r, "served") => call[r].round = "final"

ReadersHoldLeases == \A r \in Readers : ReaderInPlace(r)

\* An id that is about to be stored is nobody's yet.
NewIdIsUnused ==
    \A i \in Issuers : At(i, "insert") => call[i].id \notin leased \cup refused

RefusedIsGone == store \cap refused = {}

\* What a reader in its last check has seen since it built its page.
SeenSinceBuilt(r) ==
    /\ call[r].built <= mono
    /\ Current(call[r].id, facts) \subseteq call[r].fresh
    /\ At(r, "auth") =>
         \A f \in 1..Len(call[r].seen) :
            call[r].seen[f] = snap[call[r].id].fence[f] => f \in call[r].fresh
    /\ At(r, "auth") \/ At(r, "stored") \/ At(r, "served") =>
         call[r].built < snap[call[r].id].deadline
    /\ At(r, "stored") \/ At(r, "served") => call[r].fresh = FactIds

LastCheckIsLate ==
    \A r \in Readers : Checking(r) /\ call[r].round = "final" => SeenSinceBuilt(r)

IInv ==
    /\ TypeOK /\ OneIssuer /\ ReadersHoldLeases /\ NewIdIsUnused
    /\ RefusedIsGone /\ NoOrphan /\ LastCheckIsLate

-----------------------------------------------------------------------------
(* Types *)

LEMMA NextId == ASSUME TypeOK PROVE Cardinality(DOMAIN snap) + 1 = Len(snap) + 1
<1>1. DOMAIN snap = 1..Len(snap) /\ Len(snap) \in Nat
  BY DEF TypeOK, StoreTypes
<1> QED
  BY <1>1, FS_Interval

LEMMA NoFacts == <<>> \in Seq(Values) /\ Len(<<>>) = 0
BY EmptySeq

LEMMA IdleTypes == IsCall(Idle) /\ IsDraft(NoDraft)
BY NoFacts, SnapshotAssumption DEF IsCall, Idle, IsDraft, NoDraft, PCs, Rounds

LEMMA GotoTypes ==
  ASSUME CallTypes, NEW p \in Callers, NEW pc \in PCs,
         call' = [call EXCEPT ![p].pc = pc]
  PROVE  CallTypes'
BY DEF CallTypes, IsCall

LEMMA IssueTypes ==
  ASSUME TypeOK, OneIssuer, NEW i \in Issuers, Issue(i)
  PROVE  TypeOK'
<1> USE DEF TypeOK, At, Goto, Authorize, Authorized, vars, world
<1>0. i \in Callers
  BY DEF Callers
<1>1. ASSUME NEW ttl \in TTLs, Acquire(i, ttl) PROVE TypeOK'
  <2>1. CallTypes'
    BY <1>0, <1>1, NoFacts, SnapshotAssumption DEF Acquire, CallTypes, IsCall, PCs, Rounds
  <2> DEFINE by == mono + CaptureTimeout
  <2>2. ttl \in Nat /\ by \in Nat
    BY SnapshotAssumption DEF StoreTypes
  <2>3. draft' = [draft EXCEPT ![i].ttl = ttl, ![i].captureBy = by]
    BY <1>1 DEF Acquire
  <2> HIDE DEF by
  <2>4. DraftTypes'
    BY <2>2, <2>3 DEF DraftTypes, IsDraft
  <2> QED
    BY <1>1, <2>1, <2>4 DEF Acquire, StoreTypes
<1>2. ASSUME NEW size \in Sizes, Capture(i, size) PROVE TypeOK'
  <2>1. CallTypes'
    BY <1>0, <1>2, NoFacts, SnapshotAssumption DEF Capture, CallTypes, IsCall, PCs, Rounds
  <2>2. DraftTypes'
    BY <1>2, SnapshotAssumption DEF Capture, DraftTypes, IsDraft
  <2> QED
    BY <1>2, <2>1, <2>2 DEF Capture, StoreTypes
<1>3. CASE Reserve(i)
  <2>1. \/ Goto(i, "fail") /\ UNCHANGED draft
        \/ /\ Goto(i, "capture")
           /\ draft' = [draft EXCEPT ![i].fence = call[i].seen,
                                     ![i].expires = Wall + draft[i].ttl,
                                     ![i].deadline = mono + draft[i].ttl]
    BY <1>3 DEF Reserve
  <2>2. CallTypes'
    BY <1>0, <2>1, GotoTypes DEF PCs
  <2> DEFINE fence == call[i].seen
             expires == Wall + draft[i].ttl
             deadline == mono + draft[i].ttl
  <2>4. fence \in Seq(Values) /\ expires \in Int /\ deadline \in Nat
    BY <1>0 DEF DraftTypes, IsDraft, CallTypes, IsCall, StoreTypes, Wall
  <2>5. \/ draft' = draft
        \/ draft' = [draft EXCEPT ![i].fence = fence, ![i].expires = expires,
                                  ![i].deadline = deadline]
    BY <2>1
  <2> HIDE DEF fence, expires, deadline
  <2>3. DraftTypes'
    <3>1. CASE draft' = draft
      BY <3>1 DEF DraftTypes
    <3>2. CASE draft' = [draft EXCEPT ![i].fence = fence, ![i].expires = expires,
                                     ![i].deadline = deadline]
      BY <2>4, <3>2 DEF DraftTypes, IsDraft
    <3> QED
      BY <2>5, <3>1, <3>2
  <2> QED
    BY <1>3, <2>2, <2>3 DEF Reserve, StoreTypes, Pruned
<1>4. CASE CaptureFails(i)
  <2>1. CallTypes'
    BY <1>0, <1>4 DEF CaptureFails, CallTypes, IsCall, PCs
  <2> QED
    BY <1>4, <2>1 DEF CaptureFails, StoreTypes, DraftTypes
<1>5. CASE Freeze(i)
  <2> DEFINE new == [fence |-> draft[i].fence, deadline |-> draft[i].deadline,
                     expires |-> draft[i].expires, size |-> draft[i].size]
             n == Cardinality(DOMAIN snap) + 1
  <2>1. \/ Goto(i, "fail") /\ UNCHANGED snap
        \/ /\ snap' = Append(snap, new)
           /\ call' = [call EXCEPT ![i].pc = "insert", ![i].id = n]
    BY <1>5 DEF Freeze
  <2>2. n \in Nat
    BY NextId DEF StoreTypes
  <2>3. new \in Frozen
    BY DEF DraftTypes, IsDraft, Frozen
  <2> HIDE DEF new, n
  <2>4. CallTypes'
    <3>1. CASE Goto(i, "fail")
      BY <1>0, <3>1, GotoTypes DEF PCs
    <3>2. CASE call' = [call EXCEPT ![i].pc = "insert", ![i].id = n]
      BY <1>0, <2>2, <3>2 DEF CallTypes, IsCall, PCs
    <3> QED
      BY <2>1, <3>1, <3>2
  <2>5. snap' \in Seq(Frozen) /\ Len(snap') >= Len(snap)
    BY <2>1, <2>3, AppendProperties, SMTT(20) DEF StoreTypes
  <2>6. StoreTypes'
    BY <1>5, <2>5 DEF Freeze, StoreTypes
  <2> QED
    BY <1>5, <2>4, <2>6 DEF Freeze, DraftTypes
<1>6. CASE Insert(i)
  <2>1. \/ store' = Pruned /\ Goto(i, "fail")
        \/ /\ store' = Pruned \cup {call[i].id}
           /\ call' = [call EXCEPT ![i].pc = "time", ![i].round = "issued"]
    BY <1>6 DEF Insert
  <2>2. CallTypes'
    <3>1. CASE Goto(i, "fail")
      BY <1>0, <3>1, GotoTypes DEF PCs
    <3>2. CASE call' = [call EXCEPT ![i].pc = "time", ![i].round = "issued"]
      BY <1>0, <3>2 DEF CallTypes, IsCall, PCs, Rounds
    <3> QED
      BY <2>1, <3>1, <3>2
  <2>3. store' \subseteq 1..Len(snap)
    BY <1>6, <2>1 DEF Insert, StoreTypes, Pruned, OneIssuer, IssuerInPlace
  <2> QED
    BY <1>6, <2>2, <2>3 DEF Insert, StoreTypes, DraftTypes
<1>7. CASE GiveUp(i)
  BY <1>0, <1>7, IdleTypes DEF GiveUp, CallTypes, DraftTypes, StoreTypes
<1>8. CASE ReturnLease(i)
  BY <1>0, <1>8, IdleTypes DEF ReturnLease, CallTypes, DraftTypes, StoreTypes
<1> QED
  BY <1>1, <1>2, <1>3, <1>4, <1>5, <1>6, <1>7, <1>8 DEF Issue

LEMMA CheckTypes ==
  ASSUME TypeOK, OneIssuer, ReadersHoldLeases, NEW p \in Callers,
         Authorization(p) \/ Check(p)
  PROVE  TypeOK'
<1> USE DEF TypeOK, At, Goto, world
<1>1. CASE ReadFact(p)
  <2> DEFINE value == facts[Len(call[p].seen) + 1]
             seen == Append(call[p].seen, value)
  <2>1. call[p].seen \in Seq(Values) /\ value \in Values /\ Len(call[p].seen) + 1 \in FactIds
    BY <1>1 DEF ReadFact, CallTypes, IsCall
  <2>2. seen \in Seq(Values) /\ Len(seen) <= NumFacts
    <3> HIDE DEF value
    <3> QED
      BY <2>1, AppendProperties, SnapshotAssumption DEF FactIds
  <2>3. call' = [call EXCEPT ![p].seen = seen]
    BY <1>1 DEF ReadFact
  <2> HIDE DEF seen
  <2>4. CallTypes'
    BY <2>2, <2>3 DEF CallTypes, IsCall
  <2> QED
    BY <1>1, <2>4 DEF ReadFact, StoreTypes, DraftTypes
<1>2. ASSUME NEW pc \in PCs, Goto(p, pc),
             UNCHANGED <<world, snap, store, capturing, draft, leased, refused>>
      PROVE  TypeOK'
  BY <1>2, GotoTypes DEF StoreTypes, DraftTypes
<1>3. CASE AuthorizationFails(p)
  BY <1>2, <1>3 DEF AuthorizationFails, PCs
<1>4. ASSUME Raise(p) PROVE CallTypes'
  <2>1. CASE p \in Issuers
    BY <1>4, <2>1, GotoTypes DEF Raise, PCs
  <2>2. CASE p \notin Issuers
    BY <1>4, <2>2, IdleTypes DEF Raise, CallTypes
  <2> QED
    BY <2>1, <2>2
<1>5. CASE CheckTime(p)
  <2>1. Raise(p) \/ Authorize(p, call[p].round)
    BY <1>5 DEF CheckTime
  <2>2. ASSUME Authorize(p, call[p].round) PROVE CallTypes'
    BY <2>2, NoFacts, SnapshotAssumption DEF Authorize, CallTypes, IsCall, PCs
  <2> QED
    BY <1>4, <1>5, <2>1, <2>2 DEF CheckTime, StoreTypes, DraftTypes
<1>6. CASE CheckFence(p)
  BY <1>2, <1>6 DEF CheckFence, PCs
<1>7. CASE Refuse(p)
  <2>1. call[p].id \in 1..Len(snap)
    BY <1>7 DEF Refuse, OneIssuer, IssuerInPlace, ReadersHoldLeases, ReaderInPlace, Checking, Callers, StoreTypes
  <2> QED
    BY <1>4, <1>7, <2>1 DEF Refuse, StoreTypes, DraftTypes
<1>8. CASE CheckStored(p)
  <2>1. Raise(p) \/ Goto(p, "build") \/ Goto(p, "served")
    BY <1>8 DEF CheckStored
  <2>2. CallTypes'
    BY <1>4, <2>1, GotoTypes DEF PCs
  <2> QED
    BY <1>8, <2>2 DEF CheckStored, StoreTypes, DraftTypes
<1> QED
  BY <1>1, <1>3, <1>5, <1>6, <1>7, <1>8 DEF Authorization, Check

LEMMA ReadTypes ==
  ASSUME TypeOK, NEW r \in Readers, Read(r)
  PROVE  TypeOK'
<1> USE DEF TypeOK, At, world
<1>0. r \in Callers /\ r \notin Issuers
  BY SnapshotAssumption DEF Callers
<1>1. CallTypes'
  <2>1. ASSUME NEW id \in DOMAIN snap, Lookup(r, id) PROVE CallTypes'
    <3>1. id \in Nat
      BY DEF StoreTypes
    <3>2. call' = [call EXCEPT ![r] = [Idle EXCEPT !.pc = "time", !.round = "lookup", !.id = id]]
      BY <2>1 DEF Lookup
    <3> QED
      BY <1>0, <3>1, <3>2, IdleTypes DEF CallTypes, IsCall, PCs, Rounds
  <2>2. CASE Build(r)
    <3>1. Current(call[r].id, facts) \subseteq FactIds
      BY DEF Current
    <3>2. call' = [call EXCEPT ![r].pc = "time", ![r].round = "final", ![r].built = mono,
                               ![r].fresh = Current(call[r].id, facts)]
      BY <2>2 DEF Build
    <3> QED
      BY <1>0, <3>1, <3>2 DEF CallTypes, IsCall, PCs, Rounds, StoreTypes
  <2>3. CASE BadCursor(r) \/ Reply(r)
    BY <1>0, <2>3, IdleTypes DEF BadCursor, Reply, Raise, CallTypes
  <2> QED
    BY <2>1, <2>2, <2>3 DEF Read
<1> QED
  BY <1>1 DEF Read, Lookup, Build, BadCursor, Reply, StoreTypes, DraftTypes

LEMMA EnvironmentTypes ==
  ASSUME TypeOK, Environment
  PROVE  TypeOK'
<1> USE DEF TypeOK, world
<1>1. CASE Tick
  BY <1>1 DEF Tick, StoreTypes, CallTypes, DraftTypes
<1>2. CASE SetWallClock
  BY <1>2, SnapshotAssumption DEF SetWallClock, StoreTypes, CallTypes, DraftTypes
<1>3. ASSUME NEW f \in FactIds, NEW v \in Values \cup {Denied}, SetFact(f, v)
      PROVE  TypeOK'
  <2>1. facts' \in [FactIds -> Values \cup {Denied}]
    BY <1>3 DEF SetFact, StoreTypes
  <2>2. CallTypes'
    <3>1. DOMAIN call' = Callers
      BY <1>3 DEF SetFact
    <3>2. ASSUME NEW p \in Callers PROVE IsCall(call'[p])
      <4>1. CASE call[p].round = "final"
        <5> DEFINE fresh == call[p].fresh \cup Current(call[p].id, facts')
        <5>1. fresh \subseteq FactIds
          BY DEF Current, CallTypes, IsCall
        <5>2. call'[p] = [call[p] EXCEPT !.fresh = fresh]
          BY <1>3, <4>1 DEF SetFact
        <5> HIDE DEF fresh
        <5> QED
          BY <5>1, <5>2 DEF CallTypes, IsCall
      <4>2. CASE call[p].round # "final"
        BY <1>3, <4>2 DEF SetFact, CallTypes
      <4> QED
        BY <4>1, <4>2
    <3> QED
      BY <3>1, <3>2 DEF CallTypes
  <2> QED
    BY <1>3, <2>1, <2>2 DEF SetFact, StoreTypes, DraftTypes
<1>4. ASSUME NEW id \in DOMAIN snap, Revoke(id) PROVE TypeOK'
  BY <1>4 DEF Revoke, StoreTypes, CallTypes, DraftTypes
<1> QED
  BY <1>1, <1>2, <1>3, <1>4 DEF Environment

-----------------------------------------------------------------------------
(* Who works on which snapshot *)

Steps(p) ==
    \/ Authorization(p) \/ Check(p)
    \/ p \in Issuers /\ Issue(p)
    \/ p \in Readers /\ Read(p)

LEMMA OthersKeepCalls ==
  ASSUME TypeOK, NEW p \in Callers, Steps(p)
  PROVE  \A q \in Callers \ {p} : call'[q] = call[q]
<1> USE DEF TypeOK, CallTypes, Goto, Authorize, Raise
<1>1. CASE Authorization(p) \/ Check(p)
  BY <1>1 DEF Authorization, Check, ReadFact, AuthorizationFails, CheckTime, CheckFence,
              Refuse, CheckStored
<1>2. CASE p \in Issuers /\ Issue(p)
  <2>1. CASE Reserve(p) \/ Insert(p) \/ Freeze(p)
    BY <2>1 DEF Reserve, Insert, Freeze
  <2> QED
    BY <1>2, <2>1 DEF Issue, Acquire, Capture, CaptureFails, GiveUp, ReturnLease
<1>3. CASE p \in Readers /\ Read(p)
  BY <1>3 DEF Read, Lookup, Build, BadCursor, Reply
<1> QED
  BY <1>1, <1>2, <1>3 DEF Steps

\* An issuer at work is the only one.
LEMMA OthersAreIdle ==
  ASSUME OneIssuer, NEW i \in Issuers, Issue(i)
  PROVE  \A j \in Issuers \ {i} : At(j, "idle")
<1>1. CASE At(i, "idle")
  <2>1. \E ttl \in TTLs : Acquire(i, ttl)
    BY <1>1 DEF Issue, At, Capture, Reserve, CaptureFails, Freeze, Insert, GiveUp,
                ReturnLease, Authorized
  <2> QED
    BY <2>1, SnapshotAssumption DEF Acquire, CaptureLockIsFree, OneIssuer, IssuerInPlace
<1>2. CASE ~At(i, "idle")
  BY <1>2 DEF OneIssuer, IssuerInPlace
<1> QED
  BY <1>1, <1>2

LEMMA IssueKeepsOneIssuer ==
  ASSUME TypeOK, OneIssuer, NEW i \in Issuers, Issue(i)
  PROVE  OneIssuer'
<1>0. i \in Callers /\ Steps(i)
  BY DEF Callers, Steps
<1>1. \A j \in Issuers \ {i} : call'[j] = call[j] /\ call[j].pc = "idle" /\ call[j].id = 0
  BY <1>0, OthersKeepCalls, OthersAreIdle DEF OneIssuer, IssuerInPlace, At, Callers
<1>2. SUFFICES IssuerInPlace(i)'
  BY <1>1 DEF OneIssuer, IssuerInPlace, At, Gathering, Checking
<1>3. IssuerInPlace(i)
  BY DEF OneIssuer
<1> USE <1>0, <1>3 DEF TypeOK, StoreTypes, CallTypes, IsCall, IssuerInPlace, At, Gathering,
        Checking, Goto, Authorize, Authorized, CheckRounds, world
<1>4. ASSUME NEW ttl \in TTLs, Acquire(i, ttl) PROVE IssuerInPlace(i)'
  BY <1>4 DEF Acquire
<1>5. ASSUME NEW size \in Sizes, Capture(i, size) PROVE IssuerInPlace(i)'
  BY <1>5 DEF Capture
<1>6. CASE Reserve(i)
  <2>1. Goto(i, "fail") \/ Goto(i, "capture")
    BY <1>6 DEF Reserve
  <2> QED
    BY <1>6, <2>1 DEF Reserve
<1>7. CASE CaptureFails(i)
  BY <1>7 DEF CaptureFails
<1>8. CASE Freeze(i)
  <2> DEFINE n == Cardinality(DOMAIN snap) + 1
  <2>1. \/ Goto(i, "fail") /\ UNCHANGED snap
        \/ call' = [call EXCEPT ![i].pc = "insert", ![i].id = n] /\ Len(snap') = n
    BY <1>8, NextId, AppendProperties DEF Freeze
  <2>2. n = Len(snap) + 1
    BY NextId
  <2> HIDE DEF n
  <2> QED
    BY <1>8, <2>1, <2>2 DEF Freeze
<1>9. CASE Insert(i)
  <2>1. \/ Goto(i, "fail")
        \/ call' = [call EXCEPT ![i].pc = "time", ![i].round = "issued"]
    BY <1>9 DEF Insert
  <2> QED
    BY <1>9, <2>1 DEF Insert
<1>10. CASE GiveUp(i) \/ ReturnLease(i)
  BY <1>10 DEF GiveUp, ReturnLease, Idle
<1> QED
  BY <1>4, <1>5, <1>6, <1>7, <1>8, <1>9, <1>10 DEF Issue

LEMMA CheckKeepsPlaces ==
  ASSUME TypeOK, OneIssuer, ReadersHoldLeases, NEW p \in Callers,
         Authorization(p) \/ Check(p)
  PROVE  OneIssuer' /\ ReadersHoldLeases'
<1>1. \A q \in Callers \ {p} : call'[q] = call[q]
  BY OthersKeepCalls DEF Steps
<1>2. UNCHANGED <<snap, leased, capturing>>
  BY DEF Authorization, Check, ReadFact, AuthorizationFails, CheckTime, CheckFence,
         Refuse, CheckStored
<1>3. ASSUME NEW q \in Callers \ {p}
      PROVE  /\ IssuerInPlace(q) => IssuerInPlace(q)'
             /\ ReaderInPlace(q) => ReaderInPlace(q)'
  BY <1>1, <1>2 DEF IssuerInPlace, ReaderInPlace, At, Gathering, Checking
<1> SUFFICES /\ p \in Issuers => IssuerInPlace(p)'
             /\ p \in Readers => ReaderInPlace(p)'
  BY <1>3 DEF OneIssuer, ReadersHoldLeases, Callers
<1>4. /\ p \in Issuers => IssuerInPlace(p) /\ p \notin Readers
      /\ p \in Readers => ReaderInPlace(p) /\ p \notin Issuers
  BY SnapshotAssumption DEF OneIssuer, ReadersHoldLeases
<1> USE <1>2, <1>4 DEF TypeOK, StoreTypes, CallTypes, IsCall, IssuerInPlace, ReaderInPlace,
        At, Gathering, Checking, Goto, CheckRounds, Callers
<1>5. CASE ReadFact(p)
  <2> DEFINE seen == Append(call[p].seen, facts[Len(call[p].seen) + 1])
  <2>1. call' = [call EXCEPT ![p].seen = seen] /\ call[p].pc = "auth"
    BY <1>5 DEF ReadFact
  <2> HIDE DEF seen
  <2>2. call'[p].pc = "auth" /\ call'[p].id = call[p].id /\ call'[p].round = call[p].round
    BY <2>1
  <2> QED
    BY <2>1, <2>2
<1>6. CASE AuthorizationFails(p)
  <2>1. \/ Goto(p, "refuse") /\ call[p].round \in CheckRounds
        \/ Goto(p, "fail") /\ call[p].round \notin CheckRounds
    BY <1>6 DEF AuthorizationFails
  <2>2. CASE Goto(p, "refuse") /\ call[p].round \in CheckRounds
    BY <1>6, <2>2 DEF AuthorizationFails
  <2>3. CASE Goto(p, "fail") /\ call[p].round \notin CheckRounds
    BY <1>6, <2>3 DEF AuthorizationFails, Rounds
  <2> QED
    BY <2>1, <2>2, <2>3
<1>7. ASSUME Raise(p), Checking(p)
      PROVE  /\ p \in Issuers => IssuerInPlace(p)'
             /\ p \in Readers => ReaderInPlace(p)'
  <2>1. CASE p \in Issuers
    BY <1>7, <2>1 DEF Raise
  <2>2. CASE p \in Readers
    BY <1>7, <2>2 DEF Raise, Idle
  <2> QED
    BY <2>1, <2>2
<1>8. CASE CheckTime(p)
  <2>1. Raise(p) \/ Authorize(p, call[p].round)
    BY <1>8 DEF CheckTime
  <2>2. CASE Authorize(p, call[p].round)
    BY <1>8, <2>2 DEF CheckTime, Authorize
  <2> QED
    BY <1>7, <1>8, <2>1, <2>2 DEF CheckTime
<1>9. CASE CheckFence(p)
  <2>1. Goto(p, "stored") \/ Goto(p, "refuse")
    BY <1>9 DEF CheckFence
  <2> QED
    BY <1>9, <2>1 DEF CheckFence, Authorized
<1>10. CASE Refuse(p)
  BY <1>7, <1>10 DEF Refuse
<1>11. CASE CheckStored(p)
  <2>1. At(p, "stored")
    BY <1>11 DEF CheckStored
  <2>2. \/ Raise(p)
        \/ call[p].round = "lookup" /\ Goto(p, "build")
        \/ call[p].round = "final" /\ Goto(p, "served")
    BY <1>11 DEF CheckStored
  <2> QED
    BY <1>7, <2>1, <2>2
<1> QED
  BY <1>5, <1>6, <1>8, <1>9, <1>10, <1>11 DEF Authorization, Check

LEMMA ReadKeepsPlaces ==
  ASSUME TypeOK, OneIssuer, ReadersHoldLeases, NEW r \in Readers, Read(r)
  PROVE  OneIssuer' /\ ReadersHoldLeases'
<1>0. r \in Callers /\ r \notin Issuers
  BY SnapshotAssumption DEF Callers
<1>1. \A q \in Callers \ {r} : call'[q] = call[q]
  BY <1>0, OthersKeepCalls DEF Steps
<1>2. UNCHANGED <<snap, leased, capturing>>
  BY DEF Read, Lookup, Build, BadCursor, Reply
<1>3. ASSUME NEW q \in Callers \ {r}
      PROVE  /\ IssuerInPlace(q) => IssuerInPlace(q)'
             /\ ReaderInPlace(q) => ReaderInPlace(q)'
  BY <1>1, <1>2 DEF IssuerInPlace, ReaderInPlace, At, Gathering, Checking
<1> SUFFICES ReaderInPlace(r)'
  BY <1>0, <1>3 DEF OneIssuer, ReadersHoldLeases, Callers
<1>4. ReaderInPlace(r)
  BY DEF ReadersHoldLeases
<1> USE <1>0, <1>2, <1>4 DEF TypeOK, CallTypes, IsCall, ReaderInPlace, At, Checking, CheckRounds
<1>5. ASSUME NEW id \in DOMAIN snap, Lookup(r, id) PROVE ReaderInPlace(r)'
  BY <1>5 DEF Lookup, Idle
<1>6. CASE Build(r)
  BY <1>6 DEF Build
<1>7. CASE BadCursor(r) \/ Reply(r)
  BY <1>7 DEF BadCursor, Reply, Raise, Idle
<1> QED
  BY <1>5, <1>6, <1>7 DEF Read

LEMMA IssueKeepsReaders ==
  ASSUME TypeOK, OneIssuer, ReadersHoldLeases, NEW i \in Issuers, Issue(i)
  PROVE  ReadersHoldLeases'
<1>1. \A q \in Readers : call'[q] = call[q]
  BY OthersKeepCalls, SnapshotAssumption DEF Steps, Callers
<1>2. leased \subseteq leased'
  BY DEF Issue, Acquire, Capture, Reserve, CaptureFails, Freeze, Insert, GiveUp, ReturnLease
<1> QED
  BY <1>1, <1>2 DEF ReadersHoldLeases, ReaderInPlace, At, Checking

\* The world changes no call but for what a reader has seen.
LEMMA EnvironmentKeepsCalls ==
  ASSUME TypeOK, Environment
  PROVE  \A p \in Callers : /\ call'[p].pc = call[p].pc /\ call'[p].id = call[p].id
                            /\ call'[p].round = call[p].round
                            /\ call'[p].seen = call[p].seen
                            /\ call'[p].built = call[p].built
                            /\ call[p].fresh \subseteq call'[p].fresh
<1> DEFINE Same(p) == /\ call'[p].pc = call[p].pc /\ call'[p].id = call[p].id
                      /\ call'[p].round = call[p].round /\ call'[p].seen = call[p].seen
                      /\ call'[p].built = call[p].built
                      /\ call[p].fresh \subseteq call'[p].fresh
<1>1. ASSUME NEW f \in FactIds, NEW v \in Values \cup {Denied}, SetFact(f, v), NEW p \in Callers
      PROVE  Same(p)
  <2> DEFINE fresh == call[p].fresh \cup Current(call[p].id, facts')
  <2>1. call'[p] = [call[p] EXCEPT !.fresh = fresh] \/ call'[p] = call[p]
    BY <1>1 DEF SetFact
  <2>2. call[p].fresh \subseteq fresh
    OBVIOUS
  <2> HIDE DEF fresh
  <2> QED
    BY <2>1, <2>2 DEF TypeOK, CallTypes, IsCall
<1> QED
  BY <1>1 DEF Environment, Tick, SetWallClock, Revoke

LEMMA EnvironmentKeepsPlaces ==
  ASSUME TypeOK, OneIssuer, ReadersHoldLeases, Environment
  PROVE  OneIssuer' /\ ReadersHoldLeases'
<1>1. UNCHANGED <<snap, leased, capturing>>
  BY DEF Environment, Tick, SetWallClock, SetFact, Revoke
<1>2. \A p \in Callers : /\ call'[p].pc = call[p].pc /\ call'[p].id = call[p].id
                         /\ call'[p].round = call[p].round
  BY EnvironmentKeepsCalls
<1> QED
  BY <1>1, <1>2 DEF OneIssuer, ReadersHoldLeases, IssuerInPlace, ReaderInPlace, At, Gathering,
                    Checking, Callers
-----------------------------------------------------------------------------
(* What is stored, and what was refused *)

CheckEffect(p) ==
    /\ UNCHANGED <<world, snap, draft, leased, capturing>>
    /\ \A q \in Callers \ {p} : call'[q] = call[q]
    /\ p \in Issuers => call'[p].id = call[p].id
    /\ call'[p].pc # "insert"
    /\ \/ UNCHANGED <<store, refused>>
       \/ /\ At(p, "refuse")
          /\ store' = store \ {call[p].id}
          /\ refused' = refused \cup {call[p].id}

LEMMA CheckHasEffect ==
  ASSUME TypeOK, NEW p \in Callers, Authorization(p) \/ Check(p)
  PROVE  CheckEffect(p)
<1>1. \A q \in Callers \ {p} : call'[q] = call[q]
  BY OthersKeepCalls DEF Steps
<1>2. /\ UNCHANGED <<world, snap, draft, leased, capturing>>
      /\ \/ UNCHANGED <<store, refused>>
         \/ /\ At(p, "refuse")
            /\ store' = store \ {call[p].id}
            /\ refused' = refused \cup {call[p].id}
  BY DEF Authorization, Check, ReadFact, AuthorizationFails, CheckTime, CheckFence,
         Refuse, CheckStored
<1>3. (p \in Issuers => call'[p].id = call[p].id) /\ call'[p].pc # "insert"
  <2> USE DEF TypeOK, CallTypes, IsCall, Goto, At
  <2>1. CASE ReadFact(p)
    <3> DEFINE seen == Append(call[p].seen, facts[Len(call[p].seen) + 1])
    <3>1. call' = [call EXCEPT ![p].seen = seen] /\ call[p].pc = "auth"
      BY <2>1 DEF ReadFact
    <3> HIDE DEF seen
    <3> QED
      BY <3>1
  <2>2. ASSUME Raise(p) PROVE (p \in Issuers => call'[p].id = call[p].id) /\ call'[p].pc # "insert"
    BY <2>2 DEF Raise, Idle
  <2>3. CASE AuthorizationFails(p)
    <3>1. Goto(p, "refuse") \/ Goto(p, "fail")
      BY <2>3 DEF AuthorizationFails
    <3> QED
      BY <3>1
  <2>4. CASE CheckTime(p)
    <3>1. Raise(p) \/ Authorize(p, call[p].round)
      BY <2>4 DEF CheckTime
    <3> QED
      BY <2>2, <3>1 DEF Authorize
  <2>5. CASE CheckFence(p)
    <3>1. Goto(p, "stored") \/ Goto(p, "refuse")
      BY <2>5 DEF CheckFence
    <3> QED
      BY <3>1
  <2>6. CASE Refuse(p)
    BY <2>2, <2>6 DEF Refuse
  <2>7. CASE CheckStored(p)
    <3>1. Raise(p) \/ Goto(p, "build") \/ Goto(p, "served")
      BY <2>7 DEF CheckStored
    <3> QED
      BY <2>2, <3>1
  <2> QED
    BY <2>1, <2>3, <2>4, <2>5, <2>6, <2>7 DEF Authorization, Check
<1> QED
  BY <1>1, <1>2, <1>3 DEF CheckEffect

Storage == NewIdIsUnused /\ RefusedIsGone /\ NoOrphan

LEMMA CheckKeepsStorage ==
  ASSUME TypeOK, OneIssuer, ReadersHoldLeases, Storage,
         NEW p \in Callers, Authorization(p) \/ Check(p)
  PROVE  Storage'
<1>1. CheckEffect(p)
  BY CheckHasEffect
<1>2. NewIdIsUnused'
  <2> SUFFICES ASSUME NEW i \in Issuers, At(i, "insert")'
               PROVE  (call[i].id \notin leased \cup refused)'
    BY DEF NewIdIsUnused
  <2>1. i # p /\ call'[i] = call[i] /\ leased' = leased
    BY <1>1 DEF CheckEffect, At, Callers
  <2>2. call[i].id \notin leased \cup refused /\ call[i].pc = "insert"
    BY <2>1 DEF Storage, NewIdIsUnused, At
  <2>3. At(p, "refuse") => call[p].id # call[i].id
    <3>1. CASE p \in Issuers
      BY <2>1, <2>2, <3>1 DEF OneIssuer, IssuerInPlace, At
    <3>2. CASE p \in Readers
      BY <2>2, <3>2 DEF ReadersHoldLeases, ReaderInPlace, Checking
    <3> QED
      BY <3>1, <3>2 DEF Callers
  <2> QED
    BY <1>1, <2>1, <2>2, <2>3 DEF CheckEffect
<1>3. RefusedIsGone'
  BY <1>1 DEF CheckEffect, Storage, RefusedIsGone
<1>4. NoOrphan'
  <2>1. \A i \in Issuers : call'[i].id = call[i].id
    BY <1>1 DEF CheckEffect, Callers
  <2>2. store' \subseteq store /\ leased' = leased
    BY <1>1 DEF CheckEffect
  <2> QED
    BY <2>1, <2>2 DEF Storage, NoOrphan
<1> QED
  BY <1>2, <1>3, <1>4 DEF Storage

LEMMA IssueKeepsStorage ==
  ASSUME TypeOK, OneIssuer, ReadersHoldLeases, Storage, NEW i \in Issuers, Issue(i)
  PROVE  Storage'
<1>0. i \in Callers
  BY DEF Callers
<1>1. \A j \in Issuers \ {i} : call'[j] = call[j] /\ call[j].pc = "idle" /\ call[j].id = 0
  BY <1>0, OthersKeepCalls, OthersAreIdle DEF OneIssuer, IssuerInPlace, At, Callers, Steps
<1>2. IssuerInPlace(i) /\ refused' = refused /\ 0 \notin store
  <2>1. refused' = refused
    BY DEF Issue, Acquire, Capture, Reserve, CaptureFails, Freeze, Insert, GiveUp, ReturnLease
  <2> QED
    BY <2>1 DEF OneIssuer, TypeOK, StoreTypes
<1>3. store \subseteq leased \cup {call[i].id}
  BY <1>1, <1>2 DEF Storage, NoOrphan
<1>4. SUFFICES /\ At(i, "insert")' => call'[i].id \notin leased' \cup refused
               /\ store' \cap refused = {}
               /\ store' \subseteq leased' \cup {call'[i].id}
  BY <1>1, <1>2 DEF Storage, NewIdIsUnused, RefusedIsGone, NoOrphan, At
<1> USE <1>0, <1>2, <1>3 DEF TypeOK, StoreTypes, CallTypes, IsCall, IssuerInPlace, At, Gathering,
        Goto, Authorize, Authorized, world, Storage, RefusedIsGone, NewIdIsUnused, Pruned
<1> DEFINE Goal == /\ At(i, "insert")' => call'[i].id \notin leased' \cup refused
                   /\ store' \cap refused = {}
                   /\ store' \subseteq leased' \cup {call'[i].id}
<1>5. ASSUME NEW ttl \in TTLs, Acquire(i, ttl) PROVE Goal
  BY <1>5 DEF Acquire
<1>6. ASSUME NEW size \in Sizes, Capture(i, size) PROVE Goal
  BY <1>6 DEF Capture
<1>7. CASE Reserve(i)
  <2>1. (Goto(i, "fail") \/ Goto(i, "capture")) /\ store' = Pruned /\ leased' = leased
    BY <1>7 DEF Reserve
  <2> QED
    BY <2>1
<1>8. CASE CaptureFails(i)
  BY <1>8 DEF CaptureFails
<1>9. CASE Freeze(i)
  <2> DEFINE n == Cardinality(DOMAIN snap) + 1
  <2>1. /\ \/ Goto(i, "fail")
           \/ call' = [call EXCEPT ![i].pc = "insert", ![i].id = n]
        /\ store' = store /\ leased' = leased
        /\ At(i, "auth") /\ call[i].round = "second"
    BY <1>9 DEF Freeze
  <2>2. n = Len(snap) + 1
    BY NextId
  <2>3. n \notin leased \cup refused /\ call[i].id = 0
    BY <2>1, <2>2
  <2> HIDE DEF n
  <2> QED
    BY <2>1, <2>3
<1>10. CASE Insert(i)
  <2>1. /\ \/ store' = Pruned /\ Goto(i, "fail")
           \/ /\ store' = Pruned \cup {call[i].id}
              /\ call' = [call EXCEPT ![i].pc = "time", ![i].round = "issued"]
        /\ leased' = leased /\ At(i, "insert")
    BY <1>10 DEF Insert
  <2>2. CASE store' = Pruned /\ Goto(i, "fail")
    BY <2>1, <2>2
  <2>3. CASE /\ store' = Pruned \cup {call[i].id}
             /\ call' = [call EXCEPT ![i].pc = "time", ![i].round = "issued"]
    BY <2>1, <2>3
  <2> QED
    BY <2>1, <2>2, <2>3
<1>11. CASE GiveUp(i)
  BY <1>11 DEF GiveUp, Idle
<1>12. CASE ReturnLease(i)
  BY <1>12 DEF ReturnLease, Idle
<1> QED
  BY <1>5, <1>6, <1>7, <1>8, <1>9, <1>10, <1>11, <1>12 DEF Issue

LEMMA ReadKeepsStorage ==
  ASSUME TypeOK, Storage, NEW r \in Readers, Read(r)
  PROVE  Storage'
<1>1. \A i \in Issuers : call'[i] = call[i]
  BY OthersKeepCalls, SnapshotAssumption DEF Steps, Callers
<1>2. UNCHANGED <<store, leased, refused>>
  BY DEF Read, Lookup, Build, BadCursor, Reply
<1> QED
  BY <1>1, <1>2 DEF Storage, NewIdIsUnused, RefusedIsGone, NoOrphan, At

LEMMA EnvironmentKeepsStorage ==
  ASSUME TypeOK, Storage, Environment
  PROVE  Storage'
<1>1. \A i \in Issuers : call'[i].pc = call[i].pc /\ call'[i].id = call[i].id
  BY EnvironmentKeepsCalls DEF Callers
<1>2. store' \subseteq store /\ UNCHANGED <<leased, refused>>
  BY DEF Environment, Tick, SetWallClock, SetFact, Revoke
<1> QED
  BY <1>1, <1>2 DEF Storage, NewIdIsUnused, RefusedIsGone, NoOrphan, At
-----------------------------------------------------------------------------
(* What a reader has seen since it built its page *)

LastCheck(r) == Checking(r) /\ call[r].round = "final"

\* A step that leaves the call, its snapshot and the facts alone.
LEMMA LateIsStable ==
  ASSUME TypeOK, ReadersHoldLeases, LastCheckIsLate, NEW r \in Readers, call'[r] = call[r],
         facts' = facts, mono' \in Nat, mono' >= mono,
         \A id \in leased : snap'[id] = snap[id]
  PROVE  LastCheck(r)' => SeenSinceBuilt(r)'
<1> SUFFICES ASSUME LastCheck(r)' PROVE SeenSinceBuilt(r)'
  OBVIOUS
<1>1. LastCheck(r) /\ SeenSinceBuilt(r) /\ call[r].id \in leased
  BY DEF LastCheckIsLate, LastCheck, Checking, At, ReadersHoldLeases, ReaderInPlace
<1>2. snap'[call[r].id] = snap[call[r].id]
  BY <1>1
<1>3. call[r].built \in Nat /\ mono \in Nat
  BY DEF TypeOK, StoreTypes, CallTypes, IsCall, Callers
<1> QED
  BY <1>1, <1>2, <1>3 DEF SeenSinceBuilt, Current, At

LEMMA IssueKeepsLate ==
  ASSUME TypeOK, ReadersHoldLeases, LastCheckIsLate, NEW i \in Issuers, Issue(i)
  PROVE  LastCheckIsLate'
<1>1. \A r \in Readers : call'[r] = call[r]
  BY OthersKeepCalls, SnapshotAssumption DEF Steps, Callers
<1>2. facts' = facts /\ mono' = mono
  BY DEF Issue, Acquire, Capture, Reserve, CaptureFails, Freeze, Insert, GiveUp, ReturnLease, world
<1>3. \A id \in leased : snap'[id] = snap[id]
  <2>1. CASE Freeze(i)
    <3> DEFINE new == [fence |-> draft[i].fence, deadline |-> draft[i].deadline,
                       expires |-> draft[i].expires, size |-> draft[i].size]
    <3>1. new \in Frozen /\ snap \in Seq(Frozen) /\ leased \subseteq 1..Len(snap)
      BY DEF TypeOK, StoreTypes, DraftTypes, IsDraft, Frozen
    <3>2. snap' = snap \/ snap' = Append(snap, new)
      BY <2>1 DEF Freeze
    <3> HIDE DEF new
    <3> QED
      BY <3>1, <3>2, AppendProperties
  <2>2. CASE ~Freeze(i)
    BY <2>2 DEF Issue, Acquire, Capture, Reserve, CaptureFails, Insert, GiveUp, ReturnLease
  <2> QED
    BY <2>1, <2>2
<1>4. mono \in Nat
  BY DEF TypeOK, StoreTypes
<1> QED
  BY <1>1, <1>2, <1>3, <1>4, LateIsStable DEF LastCheckIsLate, LastCheck

LEMMA ReadKeepsLate ==
  ASSUME TypeOK, ReadersHoldLeases, LastCheckIsLate, NEW r \in Readers, Read(r)
  PROVE  LastCheckIsLate'
<1>0. r \in Callers /\ mono \in Nat
  BY DEF Callers, TypeOK, StoreTypes
<1>1. \A q \in Readers \ {r} : call'[q] = call[q]
  BY <1>0, OthersKeepCalls DEF Steps, Callers
<1>2. UNCHANGED <<facts, mono, snap>>
  BY DEF Read, Lookup, Build, BadCursor, Reply, world
<1>3. \A q \in Readers \ {r} : LastCheck(q)' => SeenSinceBuilt(q)'
  BY <1>0, <1>1, <1>2, LateIsStable
<1>4. LastCheck(r)' => SeenSinceBuilt(r)'
  <2> USE <1>0 DEF TypeOK, CallTypes, IsCall, LastCheck, Checking, At
  <2>1. ASSUME NEW id \in DOMAIN snap, Lookup(r, id) PROVE ~LastCheck(r)'
    BY <2>1 DEF Lookup, Idle
  <2>2. CASE BadCursor(r) \/ Reply(r)
    BY <2>2, SnapshotAssumption DEF BadCursor, Reply, Raise, Idle
  <2>3. CASE Build(r)
    <3> DEFINE fresh == Current(call[r].id, facts)
    <3>1. call' = [call EXCEPT ![r].pc = "time", ![r].round = "final", ![r].built = mono,
                               ![r].fresh = fresh]
      BY <2>3 DEF Build
    <3> HIDE DEF fresh
    <3>2. call'[r].pc = "time" /\ call'[r].built = mono /\ call'[r].fresh = fresh
          /\ call'[r].id = call[r].id
      BY <3>1
    <3>3. Current(call[r].id, facts)' = fresh
      BY <1>2, <3>2 DEF Current, fresh
    <3> QED
      BY <1>2, <3>2, <3>3 DEF SeenSinceBuilt
  <2> QED
    BY <2>1, <2>2, <2>3 DEF Read
<1> QED
  BY <1>3, <1>4 DEF LastCheckIsLate, LastCheck

LEMMA CheckKeepsLate ==
  ASSUME TypeOK, ReadersHoldLeases, LastCheckIsLate, NEW p \in Callers,
         Authorization(p) \/ Check(p)
  PROVE  LastCheckIsLate'
<1>0. mono \in Nat
  BY DEF TypeOK, StoreTypes
<1>1. UNCHANGED <<facts, mono, snap, leased>> /\ \A q \in Callers \ {p} : call'[q] = call[q]
  BY CheckHasEffect DEF CheckEffect, world
<1>2. \A q \in Readers \ {p} : LastCheck(q)' => SeenSinceBuilt(q)'
  BY <1>0, <1>1, LateIsStable DEF Callers
<1>3. SUFFICES ASSUME p \in Readers, LastCheck(p)' PROVE SeenSinceBuilt(p)'
  BY <1>2 DEF LastCheckIsLate, LastCheck
<1> DEFINE c == call[p]
           d == call'[p]
           s == snap[call[p].id]
<1>4. IsCall(c) /\ p \in DOMAIN call /\ ReaderInPlace(p) /\ p \notin Issuers
  BY <1>3, SnapshotAssumption DEF TypeOK, CallTypes, ReadersHoldLeases
<1>5. s \in Frozen
  <2>1. c.pc # "idle"
    BY <1>4 DEF Authorization, Check, ReadFact, AuthorizationFails, CheckTime, CheckFence,
                Refuse, CheckStored, Authorized, At
  <2>2. c.id \in leased
    BY <1>4, <2>1 DEF ReaderInPlace, At
  <2>3. snap \in Seq(Frozen) /\ c.id \in 1..Len(snap)
    BY <2>2 DEF TypeOK, StoreTypes
  <2> QED
    BY <2>3, ElementOfSeq
<1>6. ASSUME d.id = c.id, d.built = c.built, d.fresh = c.fresh, c.round = "final", LastCheck(p),
             d.pc = "auth" => /\ c.built < s.deadline
                              /\ \A f \in 1..Len(d.seen) :
                                   d.seen[f] = s.fence[f] => f \in c.fresh,
             d.pc \in {"stored", "served"} => c.built < s.deadline /\ c.fresh = FactIds
      PROVE  SeenSinceBuilt(p)'
  <2>1. SeenSinceBuilt(p)
    BY <1>3, <1>6 DEF LastCheckIsLate, LastCheck
  <2>2. Current(call[p].id, facts)' = Current(c.id, facts)
    BY <1>1, <1>6 DEF Current
  <2>3. snap'[d.id] = s
    BY <1>1, <1>6
  <2> QED
    BY <1>1, <1>6, <2>1, <2>2, <2>3 DEF SeenSinceBuilt, At
<1>7. LastCheck(p) => SeenSinceBuilt(p)
  BY <1>3 DEF LastCheckIsLate, LastCheck
<1>8. ~Raise(p)
  BY <1>3, <1>4 DEF Raise, LastCheck, Checking, At, Idle
<1> USE DEF At, Goto, LastCheck, Checking
<1>9. CASE ReadFact(p)
  <2> DEFINE seen == Append(c.seen, facts[Len(c.seen) + 1])
  <2>1. /\ call' = [call EXCEPT ![p].seen = seen] /\ c.pc = "auth"
        /\ facts[Len(c.seen) + 1] \in Values /\ Len(c.seen) + 1 \in FactIds
    BY <1>9 DEF ReadFact
  <2>2. /\ Len(seen) = Len(c.seen) + 1
        /\ \A f \in 1..Len(c.seen) : seen[f] = c.seen[f]
        /\ seen[Len(c.seen) + 1] = facts[Len(c.seen) + 1]
    BY <1>4, <2>1, AppendProperties DEF IsCall
  <2> HIDE DEF seen
  <2>3. d.pc = "auth" /\ d.id = c.id /\ d.built = c.built /\ d.fresh = c.fresh /\ d.round = c.round
        /\ d.seen = seen
    BY <1>4, <2>1 DEF IsCall
  <2>4. LastCheck(p) /\ c.round = "final" /\ SeenSinceBuilt(p)
    BY <1>3, <1>7, <2>1, <2>3 DEF CheckRounds
  <2>5. \A f \in 1..Len(seen) : seen[f] = s.fence[f] => f \in c.fresh
    <3> SUFFICES ASSUME NEW f \in 1..Len(seen), seen[f] = s.fence[f] PROVE f \in c.fresh
      OBVIOUS
    <3>0. Len(c.seen) \in Nat
      BY <1>4 DEF IsCall
    <3>1. CASE f \in 1..Len(c.seen)
      BY <2>1, <2>2, <2>4, <3>1 DEF SeenSinceBuilt
    <3>2. CASE f = Len(c.seen) + 1
      BY <2>1, <2>2, <2>4, <3>2 DEF SeenSinceBuilt, Current
    <3> QED
      BY <2>2, <3>0, <3>1, <3>2
  <2> QED
    BY <1>6, <2>1, <2>3, <2>4, <2>5 DEF SeenSinceBuilt
<1>10. CASE AuthorizationFails(p)
  <2>1. /\ c.pc = "auth"
        /\ \/ Goto(p, "refuse") /\ c.round \in CheckRounds
           \/ Goto(p, "fail")
    BY <1>10 DEF AuthorizationFails
  <2>2. CASE Goto(p, "fail")
    BY <1>3, <1>4, <2>2 DEF IsCall
  <2>3. CASE Goto(p, "refuse") /\ c.round \in CheckRounds
    BY <1>3, <1>4, <1>6, <2>1, <2>3 DEF IsCall
  <2> QED
    BY <2>1, <2>2, <2>3
<1>11. CASE CheckTime(p)
  <2>1. c.pc = "time" /\ ~Expired(s) /\ Authorize(p, c.round)
    BY <1>8, <1>11 DEF CheckTime
  <2>2. d.pc = "auth" /\ d.id = c.id /\ d.built = c.built /\ d.fresh = c.fresh /\ d.round = c.round
        /\ d.seen = <<>>
    BY <1>4, <2>1 DEF Authorize, IsCall
  <2>3. LastCheck(p) /\ c.round = "final" /\ SeenSinceBuilt(p)
    BY <1>3, <1>7, <2>1, <2>2
  <2>4. c.built < s.deadline
    BY <1>0, <1>4, <1>5, <2>1, <2>3 DEF Expired, SeenSinceBuilt, Frozen, IsCall
  <2> QED
    BY <1>6, <2>2, <2>3, <2>4
<1>12. CASE CheckFence(p)
  <2>1. /\ c.pc = "auth" /\ c.round \in CheckRounds /\ Len(c.seen) = NumFacts
        /\ \/ Goto(p, "stored") /\ c.seen = s.fence
           \/ Goto(p, "refuse")
    BY <1>12 DEF CheckFence, Authorized
  <2>2. /\ d.pc \in {"stored", "refuse"} /\ (d.pc = "stored" => c.seen = s.fence)
        /\ d.id = c.id /\ d.built = c.built /\ d.fresh = c.fresh /\ d.round = c.round
    BY <1>4, <2>1 DEF IsCall
  <2>3. LastCheck(p) /\ c.round = "final" /\ SeenSinceBuilt(p)
    BY <1>3, <1>7, <2>1, <2>2
  <2>4. c.seen = s.fence => c.fresh = FactIds
    BY <1>4, <2>1, <2>3 DEF SeenSinceBuilt, FactIds, IsCall
  <2> QED
    BY <1>6, <2>1, <2>2, <2>3, <2>4 DEF SeenSinceBuilt
<1>13. CASE Refuse(p)
  BY <1>8, <1>13 DEF Refuse
<1>14. CASE CheckStored(p)
  <2>1. /\ c.pc = "stored"
        /\ \/ c.round = "lookup" /\ Goto(p, "build")
           \/ c.round = "final" /\ Goto(p, "served")
    BY <1>8, <1>14 DEF CheckStored
  <2>2. /\ d.pc \in {"build", "served"} /\ d.id = c.id /\ d.built = c.built
        /\ d.fresh = c.fresh /\ d.round = c.round
    BY <1>4, <2>1 DEF IsCall
  <2>3. LastCheck(p) /\ c.round = "final" /\ SeenSinceBuilt(p)
    BY <1>3, <1>7, <2>1, <2>2
  <2> QED
    BY <1>6, <2>1, <2>2, <2>3 DEF SeenSinceBuilt
<1> QED
  BY <1>9, <1>10, <1>11, <1>12, <1>13, <1>14 DEF Authorization, Check

LEMMA EnvironmentKeepsLate ==
  ASSUME TypeOK, ReadersHoldLeases, LastCheckIsLate, Environment
  PROVE  LastCheckIsLate'
<1>0. mono \in Nat /\ snap' = snap
  BY DEF TypeOK, StoreTypes, Environment, Tick, SetWallClock, SetFact, Revoke
<1>1. ASSUME NEW f \in FactIds, NEW v \in Values \cup {Denied}, SetFact(f, v),
             NEW r \in Readers, LastCheck(r)'
      PROVE  SeenSinceBuilt(r)'
  <2> DEFINE now == Current(call[r].id, facts')
             fresh == call[r].fresh \cup now
  <2>0. r \in Callers /\ mono' = mono
    BY <1>1 DEF Callers, SetFact
  <2>1. /\ call'[r].pc = call[r].pc /\ call'[r].id = call[r].id
        /\ call'[r].round = call[r].round /\ call'[r].seen = call[r].seen
        /\ call'[r].built = call[r].built /\ call[r].fresh \subseteq call'[r].fresh
        /\ IsCall(call[r])
    BY <2>0, EnvironmentKeepsCalls, <1>1 DEF Environment, TypeOK, CallTypes
  <2>2. LastCheck(r) /\ SeenSinceBuilt(r)
    BY <1>1, <2>1 DEF LastCheckIsLate, LastCheck, Checking, At
  <2>3. call'[r] = [call[r] EXCEPT !.fresh = fresh]
    BY <1>1, <2>0, <2>2 DEF SetFact, LastCheck
  <2>4. call'[r].fresh = fresh
    <3> HIDE DEF fresh
    <3> QED
      BY <2>1, <2>3 DEF IsCall
  <2>5. Current(call[r].id, facts)' = now
    BY <1>0, <2>1 DEF Current
  <2>6. call'[r].fresh \subseteq FactIds
    BY <2>1, <2>4 DEF IsCall, Current
  <2> HIDE DEF now
  <2>7. now \subseteq call'[r].fresh
    BY <2>4
  <2> HIDE DEF fresh
  <2> QED
    BY <1>0, <2>0, <2>1, <2>2, <2>5, <2>6, <2>7 DEF SeenSinceBuilt, At
<1>2. CASE Tick
  <2>1. call' = call /\ facts' = facts /\ mono' = mono + 1
    BY <1>2 DEF Tick
  <2> QED
    BY <1>0, <2>1, LateIsStable DEF LastCheckIsLate, LastCheck
<1>3. ASSUME call' = call, facts' = facts, mono' = mono PROVE LastCheckIsLate'
  BY <1>0, <1>3, LateIsStable DEF LastCheckIsLate, LastCheck
<1>4. ASSUME NEW f \in FactIds, NEW v \in Values \cup {Denied}, SetFact(f, v)
      PROVE  LastCheckIsLate'
  BY <1>1, <1>4 DEF LastCheckIsLate, LastCheck
<1> QED
  BY <1>2, <1>3, <1>4 DEF Environment, SetWallClock, Revoke, world

-----------------------------------------------------------------------------
(* The invariant, and what it implies *)

LEMMA InitIInv == Init => IInv
<1> SUFFICES ASSUME Init PROVE IInv
  OBVIOUS
<1>1. snap \in Seq(Frozen) /\ Len(snap) = 0
  BY EmptySeq DEF Init
<1>2. TypeOK
  BY <1>1, IdleTypes DEF Init, TypeOK, StoreTypes, CallTypes, DraftTypes
<1>3. \A p \in Callers : call[p].pc = "idle" /\ call[p].round = "first" /\ call[p].id = 0
  BY DEF Init, Idle
<1> QED
  BY <1>2, <1>3 DEF Init, IInv, OneIssuer, IssuerInPlace, ReadersHoldLeases, ReaderInPlace, At,
     Gathering, Checking, NewIdIsUnused, RefusedIsGone, NoOrphan, LastCheckIsLate, Callers

LEMMA NextIInv == IInv /\ [Next]_vars => IInv'
<1> SUFFICES ASSUME IInv, [Next]_vars PROVE IInv'
  OBVIOUS
<1> USE DEF IInv
<1>1. CASE Environment
  BY <1>1, EnvironmentTypes, EnvironmentKeepsPlaces, EnvironmentKeepsStorage,
     EnvironmentKeepsLate DEF Storage
<1>2. ASSUME NEW p \in Callers, Authorization(p) \/ Check(p) PROVE IInv'
  BY <1>2, CheckTypes, CheckKeepsPlaces, CheckKeepsStorage, CheckKeepsLate DEF Storage
<1>3. ASSUME NEW i \in Issuers, Issue(i) PROVE IInv'
  BY <1>3, IssueTypes, IssueKeepsOneIssuer, IssueKeepsReaders, IssueKeepsStorage,
     IssueKeepsLate DEF Storage
<1>4. ASSUME NEW r \in Readers, Read(r) PROVE IInv'
  BY <1>4, ReadTypes, ReadKeepsPlaces, ReadKeepsStorage, ReadKeepsLate DEF Storage
<1>5. CASE UNCHANGED vars
  <2> USE <1>5 DEF vars
  <2>1. TypeOK'
    BY DEF TypeOK, StoreTypes, CallTypes, DraftTypes
  <2>2. OneIssuer' /\ ReadersHoldLeases'
    BY DEF OneIssuer, IssuerInPlace, ReadersHoldLeases, ReaderInPlace, At, Gathering, Checking
  <2>3. NewIdIsUnused' /\ RefusedIsGone' /\ NoOrphan'
    BY DEF NewIdIsUnused, RefusedIsGone, NoOrphan, At
  <2>4. LastCheckIsLate'
    BY DEF LastCheckIsLate, SeenSinceBuilt, Current, At, Checking
  <2> QED
    BY <2>1, <2>2, <2>3, <2>4
<1> QED
  BY <1>1, <1>2, <1>3, <1>4, <1>5 DEF Next

LEMMA Invariance == Spec => []IInv
BY InitIInv, NextIInv, PTL DEF Spec

\* The state is what the service declares it to be: no thread is in two calls,
\* and every id of the store is one that was frozen.
THEOREM SnapshotTypes == Spec => []TypeOK
<1>1. IInv => TypeOK
  BY DEF IInv
<1> QED
  BY <1>1, Invariance, PTL

\* Whatever number of issues fail, and wherever they fail, the store keeps only
\* snapshots that somebody was leased or that the issue going on will take back.
THEOREM NothingIsOrphaned == Spec => []NoOrphan
<1>1. IInv => NoOrphan
  BY DEF IInv
<1> QED
  BY <1>1, Invariance, PTL

\* A page leaves only under facts that each held after the page was built, and
\* before the deadline of its lease, however the facts and the clock change
\* between the steps of the check.
THEOREM WhatIsServedIsCurrent == Spec => []ServedIsCurrent
<1>1. IInv => ServedIsCurrent
  BY DEF IInv, ServedIsCurrent, LastCheckIsLate, SeenSinceBuilt, ReadersHoldLeases, ReaderInPlace,
         Checking, At
<1> QED
  BY <1>1, Invariance, PTL

\* A snapshot refused once is never served again, by any request and whatever
\* becomes of the role or the setting it was refused for.
THEOREM RefusedIsNeverServed == Spec => NeverRevived
<1> DEFINE Served == \A r \in Readers : At(r, "stored") /\ At(r, "served")' => call[r].id \notin refused
<1>1. IInv /\ [Next]_vars => [Served]_vars
  <2> SUFFICES ASSUME IInv, Next, NEW r \in Readers, At(r, "stored"), At(r, "served")'
               PROVE  call[r].id \notin refused
    BY DEF Served
  <2>0. r \in Callers /\ r \notin Issuers /\ IsCall(call[r]) /\ TypeOK
    BY SnapshotAssumption DEF Callers, IInv, TypeOK, CallTypes
  <2>1. call[r].id \in store
    <3>1. ~Environment
      BY <2>0, EnvironmentKeepsCalls DEF At
    <3>2. ASSUME NEW p \in Callers, Steps(p), p # r PROVE FALSE
      BY <2>0, <3>2, OthersKeepCalls DEF At
    <3>3. ~Read(r)
      BY <2>0 DEF Read, Lookup, Build, BadCursor, Reply, At
    <3>4. Authorization(r) \/ Check(r)
      <4>1. PICK p \in Callers : Steps(p)
        BY <3>1 DEF Next, Steps, Callers
      <4>2. Steps(r)
        BY <3>2, <4>1
      <4> QED
        BY <2>0, <3>3, <4>2 DEF Steps
    <3>5. ~Raise(r)
      BY <2>0 DEF Raise, Idle, At, TypeOK, CallTypes
    <3> QED
      BY <3>4, <3>5 DEF Authorization, Check, ReadFact, AuthorizationFails, CheckTime, CheckFence,
                        Refuse, CheckStored, Authorized, At
  <2> QED
    BY <2>1 DEF IInv, RefusedIsGone
<1> QED
  BY <1>1, Invariance, PTL DEF Spec, NeverRevived
=============================================================================
