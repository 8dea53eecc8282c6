--------------------------- MODULE AskRequestProofs ---------------------------
(***************************************************************************)
(* Theorems about the admission controller (AskAdmission) and about the    *)
(* requests that use it (AskRequest), for every set of requests, every mix *)
(* of endpoints, both ways to isolate, and every size of the controller    *)
(* and of the cleanup pool: work runs inside its slot, a request that is   *)
(* over has left nothing behind, the controller keeps its accounts, and    *)
(* requests that come and go for ever are served by the slots of           *)
(* FairSlots.  A lease is named by its request.                            *)
(***************************************************************************)
EXTENDS AskRequest, FiniteSetTheorems, SequenceTheorems, TLAPS

USE DEF Adm!LeaseState

-----------------------------------------------------------------------------
(* The admission controller by itself                                      *)

\* The sequence q without its element at place p: deque.remove.
LEMMA RemoveAtFacts ==
    ASSUME NEW S, NEW q \in Seq(S), NEW p \in DOMAIN q
    PROVE  LET w == SubSeq(q, 1, p - 1) \o SubSeq(q, p + 1, Len(q))
           IN  /\ w \in Seq(S)
               /\ Len(w) = Len(q) - 1
               /\ \A i \in 1..(Len(q) - 1) :
                     w[i] = IF i < p THEN q[i] ELSE q[i + 1]
<1> DEFINE a == SubSeq(q, 1, p - 1)
           b == SubSeq(q, p + 1, Len(q))
<1>1. p \in 1..Len(q) /\ Len(q) \in Nat
  OBVIOUS
<1>2. a \in Seq(S) /\ Len(a) = p - 1 /\ \A i \in 1..(p - 1) : a[i] = q[i]
  BY <1>1, SubSeqProperties
<1>3. /\ b \in Seq(S)
      /\ Len(b) = Len(q) - p
      /\ \A i \in 1..(Len(q) - p) : b[i] = q[p + i]
  <2>1. CASE p = Len(q)
    <3>1. b = <<>>
      BY <1>1, <2>1
    <3>2. QED
      BY <1>1, <2>1, <3>1
  <2>2. CASE p < Len(q)
    <3>1. p + 1 \in 1..(Len(q) + 1) /\ Len(q) \in p..Len(q)
      BY <1>1, <2>2
    <3>2. QED
      BY <1>1, <2>2, <3>1, SubSeqProperties
  <2>3. QED
    BY <1>1, <2>1, <2>2
<1> DEFINE w == a \o b
<1>4. /\ w \in Seq(S)
      /\ Len(w) = Len(a) + Len(b)
      /\ \A i \in 1..(Len(a) + Len(b)) :
            w[i] = IF i <= Len(a) THEN a[i] ELSE b[i - Len(a)]
  <2> HIDE DEF a, b
  <2> QED
    BY <1>2, <1>3, ConcatProperties
<1>5. \A i \in 1..(Len(q) - 1) : w[i] = IF i < p THEN q[i] ELSE q[i + 1]
  <2> HIDE DEF a, b, w
  <2> SUFFICES ASSUME NEW i \in 1..(Len(q) - 1)
               PROVE  w[i] = IF i < p THEN q[i] ELSE q[i + 1]
    OBVIOUS
  <2>1. CASE i < p
    BY <1>1, <1>2, <1>3, <1>4, <2>1, SMTT(20)
  <2>2. CASE ~(i < p)
    <3>1. i - (p - 1) \in 1..(Len(q) - p) /\ p + (i - (p - 1)) = i + 1
      BY <1>1, <2>2
    <3>2. w[i] = b[i - (p - 1)]
      BY <1>1, <1>2, <1>3, <1>4, <2>2, SMTT(20)
    <3>3. b[i - (p - 1)] = q[i + 1]
      BY <1>3, <3>1
    <3>4. QED
      BY <2>2, <3>2, <3>3
  <2>3. QED
    BY <2>1, <2>2
<1>6. Len(w) = Len(q) - 1
  <2> HIDE DEF a, b, w
  <2> QED
    BY <1>1, <1>2, <1>3, <1>4
<1>7. QED
  BY <1>4, <1>5, <1>6

-----------------------------------------------------------------------------
(* The inductive invariant                                                 *)

\* What the operations preserve together.  None of the parts is inductive
\* alone: the hand-off keeps the counter right only because the deque holds
\* queued leases, each once, and reserve() keeps the queue full of queued
\* leases only because no slot is idle while it is not empty.
ControllerInv == Adm!TypeOK /\ Adm!SlotsAccountedFor /\ Adm!QueueIsExact /\ Adm!NoIdleSlot

\* With an exact queue, the hand-off loop stops at the oldest waiter at once.
LEMMA HandOffToOldest ==
    ASSUME Adm!TypeOK, Adm!QueueIsExact, waiting # <<>>
    PROVE  /\ Adm!LivePlaces = DOMAIN waiting
           /\ Adm!NextPlace = 1
           /\ waiting[1] \in Request
           /\ state[waiting[1]] = "queued"
<1>1. /\ Len(waiting) \in Nat \ {0}
      /\ DOMAIN waiting = 1..Len(waiting)
      /\ waiting[1] \in Request
  BY EmptySeq, ElementOfSeq DEF Adm!TypeOK
<1>2. Adm!LivePlaces = DOMAIN waiting
  BY DEF Adm!QueueIsExact, Adm!LivePlaces
<1>3. \A i \in Adm!LivePlaces : 1 <= i
  BY <1>1, <1>2
<1>4. 1 \in Adm!LivePlaces
  BY <1>1, <1>2
<1>5. Adm!NextPlace = 1
  <2>1. \E i \in Adm!LivePlaces : \A j \in Adm!LivePlaces : i <= j
    BY <1>3, <1>4
  <2>2. /\ Adm!NextPlace \in Adm!LivePlaces
        /\ \A j \in Adm!LivePlaces : Adm!NextPlace <= j
    BY <2>1 DEF Adm!NextPlace
  <2>3. QED
    BY <1>1, <1>2, <1>3, <1>4, <2>2
<1>6. QED
  BY <1>1, <1>2, <1>5 DEF Adm!QueueIsExact

\* With an exact queue, a queued lease has one place, which cancel() removes.
LEMMA RemovedFromQueue ==
    ASSUME Adm!TypeOK, Adm!QueueIsExact, NEW l \in Request, state[l] = "queued"
    PROVE  \E p \in DOMAIN waiting :
              /\ waiting[p] = l
              /\ Adm!WaitingWithout(l) = SubSeq(waiting, 1, p - 1)
                                        \o SubSeq(waiting, p + 1, Len(waiting))
              /\ Adm!WaitingWithout(l) \in Seq(Request)
              /\ Len(Adm!WaitingWithout(l)) = Len(waiting) - 1
              /\ \A i \in 1..(Len(waiting) - 1) :
                    Adm!WaitingWithout(l)[i] = IF i < p THEN waiting[i]
                                                    ELSE waiting[i + 1]
<1>1. PICK p \in DOMAIN waiting : waiting[p] = l
  BY DEF Adm!QueueIsExact
<1>2. \A j \in DOMAIN waiting : waiting[j] = l => j = p
  BY <1>1 DEF Adm!QueueIsExact
<1>3. DOMAIN waiting = 1..Len(waiting) /\ Len(waiting) \in Nat
  BY DEF Adm!TypeOK
<1>4. Adm!PlaceOf(l) = p
  <2>1. \A j \in DOMAIN waiting : waiting[j] = l => p <= j
    BY <1>1, <1>2, <1>3
  <2>2. /\ Adm!PlaceOf(l) \in DOMAIN waiting
        /\ waiting[Adm!PlaceOf(l)] = l
    BY <1>1, <2>1 DEF Adm!PlaceOf
  <2>3. QED
    BY <1>2, <2>2
<1>5. Adm!WaitingWithout(l) = SubSeq(waiting, 1, p - 1)
                             \o SubSeq(waiting, p + 1, Len(waiting))
  BY <1>1, <1>4 DEF Adm!WaitingWithout
<1>6. /\ Adm!WaitingWithout(l) \in Seq(Request)
      /\ Len(Adm!WaitingWithout(l)) = Len(waiting) - 1
      /\ \A i \in 1..(Len(waiting) - 1) :
            Adm!WaitingWithout(l)[i] = IF i < p THEN waiting[i] ELSE waiting[i + 1]
  <2>1. waiting \in Seq(Request)
    BY DEF Adm!TypeOK
  <2>2. LET w == SubSeq(waiting, 1, p - 1) \o SubSeq(waiting, p + 1, Len(waiting))
        IN  /\ w \in Seq(Request)
            /\ Len(w) = Len(waiting) - 1
            /\ \A i \in 1..(Len(waiting) - 1) :
                  w[i] = IF i < p THEN waiting[i] ELSE waiting[i + 1]
    BY <2>1, RemoveAtFacts
  <2> QED
    BY <1>5, <2>2
<1> QED
  BY <1>1, <1>5, <1>6

-----------------------------------------------------------------------------
(* One lemma per operation                                                 *)

\* AskAdmission counts with its own instance of FiniteSets.
LEMMA Accounts ==
    Adm!SlotsAccountedFor <=> /\ IsFiniteSet(Adm!ActiveLeases)
                              /\ active = Cardinality(Adm!ActiveLeases)
                              /\ active <= MaxConcurrent
BY DEF Adm!SlotsAccountedFor, Adm!Cardinality, Adm!IsFiniteSet, Cardinality, IsFiniteSet

\* A new controller: no slot taken, nobody queued.
LEMMA ControllerInit == Adm!Init => ControllerInv
<1> SUFFICES ASSUME Adm!Init PROVE ControllerInv
  OBVIOUS
<1> USE DEF Adm!Init
<1>1. Adm!TypeOK
  BY EmptySeq DEF Adm!TypeOK
<1>2. Adm!SlotsAccountedFor
  <2>1. Adm!ActiveLeases = {}
    BY DEF Adm!ActiveLeases
  <2>2. QED
    BY <2>1, FS_EmptySet, ControllerAssumption DEF Adm!SlotsAccountedFor, Adm!Cardinality,
          Adm!IsFiniteSet, Cardinality, IsFiniteSet
<1>3. Adm!QueueIsExact
  BY EmptySeq, ControllerAssumption DEF Adm!QueueIsExact
<1>4. QED
  BY <1>1, <1>2, <1>3 DEF ControllerInv, Adm!NoIdleSlot

\* reserve() with a free slot and an empty deque takes the slot.
LEMMA ReserveActivePreserves ==
    ASSUME ControllerInv, NEW l \in Request, Adm!ReserveActive(l)
    PROVE  ControllerInv'
<1> USE DEF Adm!ReserveActive, Adm!HasFreeSlot, ControllerInv
<1>1. Adm!TypeOK'
  BY DEF Adm!TypeOK
<1>2. Adm!SlotsAccountedFor'
  <2>1. Adm!ActiveLeases' = Adm!ActiveLeases \cup {l} /\ l \notin Adm!ActiveLeases
    BY DEF Adm!ActiveLeases, Adm!TypeOK
  <2>2. /\ IsFiniteSet(Adm!ActiveLeases \cup {l})
        /\ Cardinality(Adm!ActiveLeases \cup {l}) = Cardinality(Adm!ActiveLeases) + 1
    BY <2>1, Accounts, FS_AddElement
  <2>3. active' <= MaxConcurrent
    BY ControllerAssumption DEF Adm!TypeOK
  <2>4. QED
    BY <2>1, <2>2, <2>3 DEF Adm!SlotsAccountedFor, Adm!Cardinality,
          Adm!IsFiniteSet, Cardinality, IsFiniteSet
<1>3. Adm!QueueIsExact'
  BY EmptySeq DEF Adm!QueueIsExact, Adm!TypeOK
<1>4. Adm!NoIdleSlot'
  BY DEF Adm!NoIdleSlot
<1>5. QED
  BY <1>1, <1>2, <1>3, <1>4

\* reserve() with every slot taken appends the lease to the deque.
LEMMA ReserveQueuedPreserves ==
    ASSUME ControllerInv, NEW l \in Request, Adm!ReserveQueued(l)
    PROVE  ControllerInv'
<1> USE DEF Adm!ReserveQueued, Adm!HasFreeSlot, Adm!QueueIsFull, ControllerInv
<1>1. /\ waiting' \in Seq(Request)
      /\ Len(waiting') = Len(waiting) + 1
      /\ \A i \in 1..Len(waiting) : waiting'[i] = waiting[i]
      /\ waiting'[Len(waiting) + 1] = l
  BY AppendProperties DEF Adm!TypeOK
<1>2. Len(waiting) \in Nat /\ DOMAIN waiting = 1..Len(waiting)
  BY DEF Adm!TypeOK
<1>3. DOMAIN waiting' = 1..(Len(waiting) + 1)
  BY <1>1, <1>2
<1>4. Adm!TypeOK'
  BY <1>1 DEF Adm!TypeOK
<1>5. Adm!SlotsAccountedFor'
  <2>1. Adm!ActiveLeases' = Adm!ActiveLeases
    BY DEF Adm!ActiveLeases, Adm!TypeOK
  <2>2. QED
    BY <2>1 DEF Adm!SlotsAccountedFor
<1>6. \A i \in DOMAIN waiting : waiting[i] # l
  BY DEF Adm!QueueIsExact
<1>7. Adm!QueueIsExact'
  <2>1. \A i \in DOMAIN waiting' : state'[waiting'[i]] = "queued"
    BY <1>1, <1>2, <1>3 DEF Adm!QueueIsExact, Adm!TypeOK
  <2>2. \A m \in Request :
           state'[m] = "queued" => \E i \in DOMAIN waiting' : waiting'[i] = m
    <3> SUFFICES ASSUME NEW m \in Request, state'[m] = "queued"
                 PROVE  \E i \in DOMAIN waiting' : waiting'[i] = m
      OBVIOUS
    <3>1. CASE m = l
      BY <1>1, <1>2, <1>3, <3>1
    <3>2. CASE m # l
      <4>1. PICK i \in DOMAIN waiting : waiting[i] = m
        BY <3>2 DEF Adm!QueueIsExact, Adm!TypeOK
      <4>2. i \in DOMAIN waiting' /\ waiting'[i] = m
        BY <1>1, <1>2, <1>3, <4>1
      <4>3. QED
        BY <4>2
    <3>3. QED
      BY <3>1, <3>2
  <2>3. \A i, j \in DOMAIN waiting' : i # j => waiting'[i] # waiting'[j]
    BY <1>1, <1>2, <1>3, <1>6 DEF Adm!QueueIsExact
  <2>4. Len(waiting') <= MaxQueued
    BY <1>1, <1>2, ControllerAssumption DEF Adm!QueueIsExact
  <2>5. QED
    BY <2>1, <2>2, <2>3, <2>4 DEF Adm!QueueIsExact
<1>8. Adm!NoIdleSlot'
  <2>1. waiting = <<>> => active = MaxConcurrent
    BY ControllerAssumption DEF Adm!SlotsAccountedFor, Adm!TypeOK
  <2>2. QED
    BY <2>1 DEF Adm!NoIdleSlot
<1>9. QED
  BY <1>4, <1>5, <1>7, <1>8

\* cancel() or release() of a queued lease removes it from the deque.
LEMMA ReleaseQueuedPreserves ==
    ASSUME ControllerInv, NEW l \in Request, Adm!ReleaseQueued(l)
    PROVE  ControllerInv'
<1> USE DEF Adm!ReleaseQueued, ControllerInv
<1>1. PICK p \in DOMAIN waiting :
          /\ waiting[p] = l
          /\ waiting' \in Seq(Request)
          /\ Len(waiting') = Len(waiting) - 1
          /\ \A i \in 1..(Len(waiting) - 1) :
                waiting'[i] = IF i < p THEN waiting[i] ELSE waiting[i + 1]
  BY RemovedFromQueue
<1>2. /\ Len(waiting) \in Nat
      /\ DOMAIN waiting = 1..Len(waiting)
      /\ DOMAIN waiting' = 1..(Len(waiting) - 1)
  BY <1>1 DEF Adm!TypeOK
<1>3. Adm!TypeOK'
  BY <1>1 DEF Adm!TypeOK
<1>4. Adm!SlotsAccountedFor'
  <2>1. Adm!ActiveLeases' = Adm!ActiveLeases
    BY DEF Adm!ActiveLeases, Adm!TypeOK
  <2>2. QED
    BY <2>1 DEF Adm!SlotsAccountedFor
<1>5. \A i \in DOMAIN waiting' :
         \E k \in DOMAIN waiting : k # p /\ waiting'[i] = waiting[k]
  <2> SUFFICES ASSUME NEW i \in DOMAIN waiting'
               PROVE  \E k \in DOMAIN waiting :
                         k # p /\ waiting'[i] = waiting[k]
    OBVIOUS
  <2>1. CASE i < p
    BY <1>1, <1>2, <2>1
  <2>2. CASE ~(i < p)
    <3>1. i + 1 \in DOMAIN waiting /\ i + 1 # p
      BY <1>2, <2>2
    <3>2. waiting'[i] = waiting[i + 1]
      BY <1>1, <1>2, <2>2
    <3>3. QED
      BY <3>1, <3>2
  <2>3. QED
    BY <2>1, <2>2
<1>6. Adm!QueueIsExact'
  <2>1. \A i \in DOMAIN waiting' : state'[waiting'[i]] = "queued"
    <3> SUFFICES ASSUME NEW i \in DOMAIN waiting'
                 PROVE  state'[waiting'[i]] = "queued"
      OBVIOUS
    <3>1. PICK k \in DOMAIN waiting : k # p /\ waiting'[i] = waiting[k]
      BY <1>5
    <3>2. waiting[k] # l /\ state[waiting[k]] = "queued"
      BY <1>1, <3>1 DEF Adm!QueueIsExact
    <3>3. QED
      BY <3>1, <3>2 DEF Adm!TypeOK
  <2>2. \A m \in Request :
           state'[m] = "queued" => \E i \in DOMAIN waiting' : waiting'[i] = m
    <3> SUFFICES ASSUME NEW m \in Request, state'[m] = "queued"
                 PROVE  \E i \in DOMAIN waiting' : waiting'[i] = m
      OBVIOUS
    <3>1. m # l /\ state[m] = "queued"
      BY DEF Adm!TypeOK
    <3>2. PICK k \in DOMAIN waiting : waiting[k] = m
      BY <3>1 DEF Adm!QueueIsExact
    <3>3. CASE k < p
      BY <1>1, <1>2, <3>2, <3>3
    <3>4. CASE k > p
      <4>1. k - 1 \in DOMAIN waiting' /\ ~(k - 1 < p) /\ (k - 1) + 1 = k
        BY <1>2, <3>4
      <4>2. waiting'[k - 1] = waiting[k]
        BY <1>1, <1>2, <4>1
      <4>3. QED
        BY <3>2, <4>1, <4>2
    <3>5. k # p
      BY <1>1, <3>1, <3>2
    <3>6. QED
      BY <1>2, <3>3, <3>4, <3>5
  <2>3. \A i, j \in DOMAIN waiting' : i # j => waiting'[i] # waiting'[j]
    <3> SUFFICES ASSUME NEW i \in DOMAIN waiting', NEW j \in DOMAIN waiting',
                        i # j
                 PROVE  waiting'[i] # waiting'[j]
      OBVIOUS
    <3> DEFINE at(k) == IF k < p THEN k ELSE k + 1
    <3>1. /\ at(i) \in DOMAIN waiting /\ waiting'[i] = waiting[at(i)]
          /\ at(j) \in DOMAIN waiting /\ waiting'[j] = waiting[at(j)]
      BY <1>1, <1>2
    <3>2. at(i) # at(j)
      BY <1>2
    <3> HIDE DEF at
    <3>3. QED
      BY <3>1, <3>2 DEF Adm!QueueIsExact
  <2>4. Len(waiting') <= MaxQueued
    BY <1>1, <1>2, ControllerAssumption DEF Adm!QueueIsExact
  <2>5. QED
    BY <2>1, <2>2, <2>3, <2>4 DEF Adm!QueueIsExact
<1>7. Adm!NoIdleSlot'
  BY <1>1, <1>2, EmptySeq DEF Adm!NoIdleSlot
<1>8. QED
  BY <1>3, <1>4, <1>6, <1>7

\* release() with nobody queued frees the slot.
LEMMA ReleaseLastPreserves ==
    ASSUME ControllerInv, NEW l \in Request, Adm!ReleaseLast(l)
    PROVE  ControllerInv'
<1> USE DEF Adm!ReleaseLast, ControllerInv
<1>1. waiting = <<>>
  <2>1. waiting # <<>> => Adm!LivePlaces = DOMAIN waiting /\ 1 \in DOMAIN waiting
    BY HandOffToOldest, EmptySeq DEF Adm!TypeOK
  <2>2. QED
    BY <2>1
<1>2. Adm!TypeOK'
  BY EmptySeq DEF Adm!TypeOK
<1>3. Adm!SlotsAccountedFor'
  <2>1. Adm!ActiveLeases' = Adm!ActiveLeases \ {l} /\ l \in Adm!ActiveLeases
    BY DEF Adm!ActiveLeases, Adm!TypeOK
  <2>2. /\ IsFiniteSet(Adm!ActiveLeases \ {l})
        /\ Cardinality(Adm!ActiveLeases \ {l}) = Cardinality(Adm!ActiveLeases) - 1
    BY <2>1, Accounts, FS_RemoveElement
  <2>3. active' <= MaxConcurrent
    BY ControllerAssumption DEF Adm!TypeOK, Adm!SlotsAccountedFor
  <2>4. QED
    BY <2>1, <2>2, <2>3 DEF Adm!SlotsAccountedFor, Adm!Cardinality,
          Adm!IsFiniteSet, Cardinality, IsFiniteSet
<1>4. Adm!QueueIsExact'
  BY <1>1, EmptySeq DEF Adm!QueueIsExact, Adm!TypeOK
<1>5. QED
  BY <1>2, <1>3, <1>4 DEF Adm!NoIdleSlot

\* release() hands the slot to the oldest queued lease; the count stays.
LEMMA ReleaseHandOffPreserves ==
    ASSUME ControllerInv, NEW l \in Request, Adm!ReleaseHandOff(l)
    PROVE  ControllerInv'
<1> USE DEF Adm!ReleaseHandOff, ControllerInv
<1> DEFINE next == waiting[1]
<1>1. waiting # <<>>
  BY DEF Adm!LivePlaces
<1>2. /\ Adm!NextPlace = 1
      /\ next \in Request
      /\ state[next] = "queued"
  BY <1>1, HandOffToOldest
<1>3. next # l
  BY <1>2
<1>4. /\ state' = [state EXCEPT ![l] = "released", ![next] = "active"]
      /\ waiting' = SubSeq(waiting, 2, Len(waiting))
      /\ active' = active
  BY <1>2 DEF Adm!TypeOK
<1>5. waiting' = Tail(waiting)
  BY <1>1, <1>4, TailIsSubSeq DEF Adm!TypeOK
<1>6. /\ waiting' \in Seq(Request)
      /\ Len(waiting) \in Nat \ {0}
      /\ DOMAIN waiting = 1..Len(waiting)
      /\ DOMAIN waiting' = 1..(Len(waiting) - 1)
      /\ Len(waiting') = Len(waiting) - 1
      /\ \A i \in 1..(Len(waiting) - 1) : waiting'[i] = waiting[i + 1]
  <2>1. Len(waiting) \in Nat \ {0} /\ DOMAIN waiting = 1..Len(waiting)
    BY <1>1, EmptySeq DEF Adm!TypeOK
  <2>2. /\ Tail(waiting) \in Seq(Request)
        /\ Len(Tail(waiting)) = Len(waiting) - 1
        /\ \A i \in 1..Len(Tail(waiting)) : Tail(waiting)[i] = waiting[i + 1]
    BY <1>1, HeadTailProperties DEF Adm!TypeOK
  <2>3. DOMAIN Tail(waiting) = 1..(Len(waiting) - 1)
    BY <2>1, <2>2
  <2>4. QED
    BY <1>5, <2>1, <2>2, <2>3
<1>7. Adm!TypeOK'
  BY <1>4, <1>6 DEF Adm!TypeOK
<1>8. Adm!SlotsAccountedFor'
  <2>1. /\ Adm!ActiveLeases' = (Adm!ActiveLeases \ {l}) \cup {next}
        /\ l \in Adm!ActiveLeases
        /\ next \notin Adm!ActiveLeases \ {l}
    BY <1>2, <1>3, <1>4 DEF Adm!ActiveLeases, Adm!TypeOK
  <2>2. /\ IsFiniteSet(Adm!ActiveLeases \ {l})
        /\ Cardinality(Adm!ActiveLeases \ {l}) = Cardinality(Adm!ActiveLeases) - 1
    BY <2>1, Accounts, FS_RemoveElement
  <2>3. /\ IsFiniteSet(Adm!ActiveLeases')
        /\ Cardinality(Adm!ActiveLeases') = (Cardinality(Adm!ActiveLeases) - 1) + 1
    BY <2>1, <2>2, FS_AddElement
  <2>4. QED
    BY <1>4, <2>3, FS_CardinalityType DEF Adm!SlotsAccountedFor, Adm!Cardinality,
          Adm!IsFiniteSet, Cardinality, IsFiniteSet, Adm!TypeOK
<1>9. Adm!QueueIsExact'
  <2>1. \A i \in DOMAIN waiting' :
           /\ i + 1 \in DOMAIN waiting
           /\ waiting'[i] = waiting[i + 1]
           /\ waiting'[i] # next
    <3> SUFFICES ASSUME NEW i \in DOMAIN waiting'
                 PROVE  /\ i + 1 \in DOMAIN waiting
                        /\ waiting'[i] = waiting[i + 1]
                        /\ waiting'[i] # next
      OBVIOUS
    <3>1. /\ i + 1 \in DOMAIN waiting
          /\ 1 \in DOMAIN waiting
          /\ i + 1 # 1
          /\ waiting'[i] = waiting[i + 1]
      BY <1>6
    <3>2. waiting[i + 1] # waiting[1]
      BY <3>1 DEF Adm!QueueIsExact
    <3>3. QED
      BY <3>1, <3>2
  <2>2. \A i \in DOMAIN waiting' : state'[waiting'[i]] = "queued"
    BY <1>4, <1>6, <2>1 DEF Adm!QueueIsExact, Adm!TypeOK
  <2>3. \A m \in Request :
           state'[m] = "queued" => \E i \in DOMAIN waiting' : waiting'[i] = m
    <3> SUFFICES ASSUME NEW m \in Request, state'[m] = "queued"
                 PROVE  \E i \in DOMAIN waiting' : waiting'[i] = m
      OBVIOUS
    <3>1. m # next /\ state[m] = "queued"
      BY <1>2, <1>4 DEF Adm!TypeOK
    <3>2. PICK k \in DOMAIN waiting : waiting[k] = m
      BY <3>1 DEF Adm!QueueIsExact
    <3>3. k # 1
      BY <3>1, <3>2
    <3>4. k - 1 \in DOMAIN waiting' /\ waiting'[k - 1] = waiting[k]
      BY <1>6, <3>2, <3>3
    <3>5. QED
      BY <3>2, <3>4
  <2>4. \A i, j \in DOMAIN waiting' : i # j => waiting'[i] # waiting'[j]
    BY <1>6, <2>1 DEF Adm!QueueIsExact
  <2>5. Len(waiting') <= MaxQueued
    BY <1>6, ControllerAssumption DEF Adm!QueueIsExact
  <2>6. QED
    BY <2>2, <2>3, <2>4, <2>5 DEF Adm!QueueIsExact
<1>10. Adm!NoIdleSlot'
  BY <1>1, <1>4 DEF Adm!NoIdleSlot
<1>11. QED
  BY <1>7, <1>8, <1>9, <1>10

\* Every operation of the controller preserves the inductive invariant.
LEMMA ControllerStep == ControllerInv /\ [Adm!Next]_(Adm!vars) => ControllerInv'
<1> SUFFICES ASSUME ControllerInv, [Adm!Next]_(Adm!vars) PROVE ControllerInv'
  OBVIOUS
<1>1. ASSUME NEW l \in Request, Adm!ReserveActive(l) PROVE ControllerInv'
  BY <1>1, ReserveActivePreserves
<1>2. ASSUME NEW l \in Request, Adm!ReserveQueued(l) PROVE ControllerInv'
  BY <1>2, ReserveQueuedPreserves
<1>3. ASSUME NEW l \in Request, Adm!ReleaseQueued(l) PROVE ControllerInv'
  BY <1>3, ReleaseQueuedPreserves
<1>4. ASSUME NEW l \in Request, Adm!ReleaseActive(l) PROVE ControllerInv'
  BY <1>4, ReleaseLastPreserves, ReleaseHandOffPreserves DEF Adm!ReleaseActive
<1>5. CASE UNCHANGED Adm!vars
  BY <1>5 DEF Adm!vars, ControllerInv, Adm!TypeOK, Adm!SlotsAccountedFor, Adm!ActiveLeases,
              Adm!QueueIsExact, Adm!NoIdleSlot
<1>6. QED
  BY <1>1, <1>2, <1>3, <1>4, <1>5 DEF Adm!Next, Adm!Release, Adm!ReleaseAgain

-----------------------------------------------------------------------------
(* First come, first served                                                *)

\* l is not admitted past m, which queued before it and still waits.
Fair(l, m) ==
    /\ state[m] = "queued" /\ state'[m] = "queued"
    /\ state[l] # "active" /\ state'[l] = "active"
    => \E i, j \in DOMAIN waiting :
          i < j /\ waiting[i] = l /\ waiting[j] = m

\* reserve() admits only when nobody waits, release() the oldest waiter.
LEMMA NoneIsOvertaken ==
    ASSUME ControllerInv, [Adm!Next]_(Adm!vars), NEW l \in Request, NEW m \in Request
    PROVE  Fair(l, m)
<1> SUFFICES ASSUME state[m] = "queued", state'[m] = "queued",
                    state[l] # "active", state'[l] = "active"
             PROVE  \E i, j \in DOMAIN waiting :
                       i < j /\ waiting[i] = l /\ waiting[j] = m
  BY DEF Fair
<1> USE DEF ControllerInv
<1>1. PICK j \in DOMAIN waiting : waiting[j] = m
  BY DEF Adm!QueueIsExact
<1>2. DOMAIN waiting = 1..Len(waiting) /\ waiting # <<>>
  BY <1>1 DEF Adm!TypeOK
<1>3. ASSUME NEW r \in Request, Adm!ReserveActive(r) PROVE FALSE
  BY <1>2, <1>3 DEF Adm!ReserveActive, Adm!HasFreeSlot
<1>4. ASSUME NEW r \in Request, Adm!ReserveQueued(r) PROVE FALSE
  BY <1>4 DEF Adm!ReserveQueued, Adm!TypeOK
<1>5. ASSUME NEW r \in Request, Adm!ReleaseQueued(r) PROVE FALSE
  BY <1>5 DEF Adm!ReleaseQueued, Adm!TypeOK
<1>6. ASSUME NEW r \in Request, Adm!ReleaseLast(r) PROVE FALSE
  BY <1>6 DEF Adm!ReleaseLast, Adm!TypeOK
<1>7. ASSUME NEW r \in Request, Adm!ReleaseHandOff(r)
      PROVE  waiting[1] = l
  BY <1>2, <1>7, HandOffToOldest DEF Adm!ReleaseHandOff, Adm!TypeOK
<1>8. waiting[1] = l
  BY <1>3, <1>4, <1>5, <1>6, <1>7
     DEF Adm!Next, Adm!Release, Adm!ReleaseActive, Adm!ReleaseAgain, Adm!vars
<1>9. j # 1
  BY <1>1, <1>8
<1>10. 1 \in DOMAIN waiting /\ 1 < j
  BY <1>1, <1>2, <1>9
<1>11. QED
  BY <1>1, <1>8, <1>10

-----------------------------------------------------------------------------
(* Refinement of FairSlots                                                 *)

\* A new controller is an empty set of slots with no one in line.
LEMMA InitRefines == Adm!Init => Adm!Slots!Init
BY DEF Adm!Init, Adm!Slots!Init, Adm!ActiveLeases, Adm!ReleasedLeases

\* FairSlots counts with its own instance of FiniteSets.
LEMMA SameCount == Adm!Slots!FreeSlot <=> Cardinality(Adm!ActiveLeases) < MaxConcurrent
BY DEF Adm!Slots!FreeSlot, Adm!Slots!Cardinality, Adm!Slots!IsFiniteSet,
       Cardinality, IsFiniteSet

\* A lease not made yet is a new client.
LEMMA NewClient ==
    ASSUME ControllerInv, NEW l \in Request, state[l] = "none"
    PROVE  Adm!Slots!New(l)
BY DEF Adm!Slots!New, Adm!Slots!InLine, ControllerInv, Adm!QueueIsExact, Adm!ActiveLeases,
       Adm!ReleasedLeases

\* Each operation is the operation of FairSlots of the same name, or changes
\* nothing FairSlots sees.
LEMMA StepRefines ==
    ControllerInv /\ ControllerInv' /\ [Adm!Next]_(Adm!vars) => [Adm!Slots!Next]_(Adm!Slots!vars)
<1> SUFFICES ASSUME ControllerInv, ControllerInv', [Adm!Next]_(Adm!vars)
             PROVE  [Adm!Slots!Next]_(Adm!Slots!vars)
  OBVIOUS
<1> USE DEF ControllerInv
<1>1. ASSUME NEW l \in Request, Adm!ReserveActive(l) PROVE Adm!Slots!Enter(l)
  <2>1. Adm!ActiveLeases' = Adm!ActiveLeases \cup {l}
    BY <1>1 DEF Adm!ReserveActive, Adm!ActiveLeases, Adm!TypeOK
  <2>2. UNCHANGED <<waiting, Adm!ReleasedLeases>>
    BY <1>1 DEF Adm!ReserveActive, Adm!ReleasedLeases, Adm!TypeOK
  <2>3. waiting = <<>> /\ Adm!Slots!FreeSlot
    BY <1>1, Accounts, SameCount DEF Adm!ReserveActive, Adm!HasFreeSlot
  <2>4. Adm!Slots!New(l)
    BY <1>1, NewClient DEF Adm!ReserveActive
  <2>5. QED
    BY <2>1, <2>2, <2>3, <2>4 DEF Adm!Slots!Enter
<1>2. ASSUME NEW l \in Request, Adm!ReserveQueued(l) PROVE Adm!Slots!Join(l)
  <2>1. UNCHANGED <<Adm!ActiveLeases, Adm!ReleasedLeases>>
    BY <1>2 DEF Adm!ReserveQueued, Adm!ActiveLeases, Adm!ReleasedLeases, Adm!TypeOK
  <2>2. Adm!Slots!New(l)
    BY <1>2, NewClient DEF Adm!ReserveQueued
  <2>3. active = MaxConcurrent
    BY <1>2, ControllerAssumption
       DEF Adm!ReserveQueued, Adm!HasFreeSlot, Adm!NoIdleSlot, Adm!SlotsAccountedFor, Adm!TypeOK
  <2>4. ~Adm!Slots!FreeSlot
    BY <2>3, Accounts, SameCount, ControllerAssumption
  <2>5. waiting' = Append(waiting, l) /\ Len(waiting) < MaxQueued
    BY <1>2, ControllerAssumption DEF Adm!ReserveQueued, Adm!QueueIsFull, Adm!TypeOK
  <2>6. QED
    BY <2>1, <2>2, <2>4, <2>5 DEF Adm!Slots!Join
<1>3. ASSUME NEW l \in Request, Adm!ReleaseQueued(l)
      PROVE  \E i \in DOMAIN waiting : Adm!Slots!GiveUp(i)
  <2>1. PICK p \in DOMAIN waiting :
            /\ waiting[p] = l
            /\ waiting' = SubSeq(waiting, 1, p - 1)
                             \o SubSeq(waiting, p + 1, Len(waiting))
    BY <1>3, RemovedFromQueue DEF Adm!ReleaseQueued
  <2>2. UNCHANGED Adm!ActiveLeases
    BY <1>3 DEF Adm!ReleaseQueued, Adm!ActiveLeases, Adm!TypeOK
  <2>3. Adm!ReleasedLeases' = Adm!ReleasedLeases \cup {waiting[p]}
    BY <1>3, <2>1 DEF Adm!ReleaseQueued, Adm!ReleasedLeases, Adm!TypeOK
  <2>4. QED
    BY <2>1, <2>2, <2>3 DEF Adm!Slots!GiveUp
<1>4. ASSUME NEW l \in Request, Adm!ReleaseLast(l) PROVE Adm!Slots!LeaveLast(l)
  <2>1. waiting = <<>>
    <3>1. waiting # <<>> => Adm!LivePlaces = DOMAIN waiting /\ 1 \in DOMAIN waiting
      BY HandOffToOldest, EmptySeq DEF Adm!TypeOK
    <3>2. QED
      BY <1>4, <3>1 DEF Adm!ReleaseLast
  <2>2. l \in Adm!ActiveLeases /\ Adm!ActiveLeases' = Adm!ActiveLeases \ {l}
    BY <1>4 DEF Adm!ReleaseLast, Adm!ActiveLeases, Adm!TypeOK
  <2>3. Adm!ReleasedLeases' = Adm!ReleasedLeases \cup {l}
    BY <1>4 DEF Adm!ReleaseLast, Adm!ReleasedLeases, Adm!TypeOK
  <2>4. QED
    BY <1>4, <2>1, <2>2, <2>3 DEF Adm!ReleaseLast, Adm!Slots!LeaveLast
<1>5. ASSUME NEW l \in Request, Adm!ReleaseHandOff(l) PROVE Adm!Slots!LeaveTo(l)
  <2>1. waiting # <<>>
    BY <1>5 DEF Adm!ReleaseHandOff, Adm!LivePlaces
  <2>2. /\ Adm!NextPlace = 1
        /\ waiting[1] \in Request
        /\ state[waiting[1]] = "queued"
    BY <2>1, HandOffToOldest
  <2>3. /\ state[l] = "active"
        /\ state' = [state EXCEPT ![l] = "released",
                                  ![waiting[1]] = "active"]
        /\ waiting' = SubSeq(waiting, 2, Len(waiting))
    BY <1>5, <2>2 DEF Adm!ReleaseHandOff
  <2>4. waiting' = Tail(waiting)
    BY <2>1, <2>3, TailIsSubSeq DEF Adm!TypeOK
  <2>5. /\ l \in Adm!ActiveLeases
        /\ Adm!ActiveLeases' = (Adm!ActiveLeases \ {l}) \cup {waiting[1]}
    BY <2>2, <2>3 DEF Adm!ActiveLeases, Adm!TypeOK
  <2>6. Adm!ReleasedLeases' = Adm!ReleasedLeases \cup {l}
    BY <2>2, <2>3 DEF Adm!ReleasedLeases, Adm!TypeOK
  <2>7. QED
    BY <2>1, <2>4, <2>5, <2>6 DEF Adm!Slots!LeaveTo
<1>6. CASE UNCHANGED Adm!vars
  BY <1>6 DEF Adm!vars, Adm!Slots!vars, Adm!ActiveLeases, Adm!ReleasedLeases
<1>7. QED
  BY <1>1, <1>2, <1>3, <1>4, <1>5, <1>6
     DEF Adm!Next, Adm!Release, Adm!ReleaseActive, Adm!ReleaseAgain, Adm!Slots!Next

\* The controller by itself, called in any order: every reserve, cancel and
\* release keeps the inductive invariant.
THEOREM ControllerInvariant == Adm!Spec => []ControllerInv
BY ControllerInit, ControllerStep, PTL DEF Adm!Spec

\* By itself the controller implements FairSlots for all bounds.
THEOREM ControllerIsFair == Adm!Spec => Adm!ImplementsFairSlots
BY InitRefines, StepRefines, ControllerInvariant, PTL
   DEF Adm!Spec, Adm!ImplementsFairSlots, Adm!Slots!Spec

-----------------------------------------------------------------------------
(* The admission controller under requests *)

\* reserve() that makes a lease.
LEMMA Reserves ==
  ASSUME ControllerInv, NEW r \in Request, Adm!ReserveActive(r) \/ Adm!ReserveQueued(r)
  PROVE  /\ ControllerInv'
         /\ state[r] = "none" /\ state'[r] \in {"active", "queued"}
         /\ \A q \in Request \ {r} : state'[q] = state[q]
<1>2. ControllerInv'
  BY ReserveActivePreserves, ReserveQueuedPreserves
<1>3. DOMAIN state = Request
  BY DEF ControllerInv, Adm!TypeOK
<1> QED
  BY <1>2, <1>3 DEF Adm!ReserveActive, Adm!ReserveQueued

\* release() ends its lease, and admits nobody but a lease that waits.
LEMMA Releases ==
  ASSUME ControllerInv, NEW r \in Request, Adm!Release(r)
  PROVE  /\ ControllerInv'
         /\ state[r] # "none" /\ state'[r] = "released"
         /\ \A q \in Request \ {r} :
               \/ state'[q] = state[q]
               \/ state[q] = "queued" /\ state'[q] = "active"
<1>1. Adm!TypeOK /\ Adm!QueueIsExact /\ DOMAIN state = Request
  BY DEF ControllerInv, Adm!TypeOK
<1>2. CASE Adm!ReleaseQueued(r)
  <2>2. ControllerInv'
    BY <1>2, ReleaseQueuedPreserves
  <2> QED
    BY <1>1, <1>2, <2>2 DEF Adm!ReleaseQueued
<1>3. CASE Adm!ReleaseLast(r)
  <2>2. ControllerInv'
    BY <1>3, ReleaseLastPreserves
  <2> QED
    BY <1>1, <1>3, <2>2 DEF Adm!ReleaseLast
<1>4. CASE Adm!ReleaseHandOff(r)
  <2>1. ControllerInv'
    BY <1>4, ReleaseHandOffPreserves
  <2>3. waiting # <<>>
    BY <1>4 DEF Adm!ReleaseHandOff, Adm!LivePlaces
  <2> DEFINE next == waiting[1]
  <2>4. Adm!NextPlace = 1 /\ next \in Request /\ state[next] = "queued"
    BY <1>1, <2>3, HandOffToOldest
  <2>5. state[r] = "active" /\ state' = [state EXCEPT ![r] = "released", ![next] = "active"]
    BY <1>4, <2>4 DEF Adm!ReleaseHandOff
  <2> HIDE DEF next
  <2> QED
    BY <1>1, <2>1, <2>4, <2>5
<1>5. CASE Adm!ReleaseAgain(r)
  <2>1. UNCHANGED controller
    BY <1>5 DEF Adm!ReleaseAgain, Adm!vars, controller
  <2>2. ControllerInv'
    BY <2>1 DEF controller, ControllerInv, Adm!TypeOK, Adm!SlotsAccountedFor,
       Adm!ActiveLeases, Adm!QueueIsExact, Adm!NoIdleSlot
  <2> QED
    BY <1>5, <2>1, <2>2 DEF Adm!ReleaseAgain, controller
<1> QED
  BY <1>2, <1>3, <1>4, <1>5 DEF Adm!Release, Adm!ReleaseActive

\* A lease nobody has any more is forgotten.
LEMMA Forgets ==
  ASSUME ControllerInv, NEW r \in Request, state[r] \in {"none", "released"},
         state' = [state EXCEPT ![r] = "none"], UNCHANGED <<active, waiting>>
  PROVE  ControllerInv'
<1> USE DEF ControllerInv
<1>1. Adm!TypeOK'
  BY DEF Adm!TypeOK, Adm!LeaseState
<1>2. Adm!ActiveLeases' = Adm!ActiveLeases
  BY DEF Adm!ActiveLeases, Adm!TypeOK
<1>3. Adm!SlotsAccountedFor'
  BY <1>2 DEF Adm!SlotsAccountedFor
<1>4. Adm!QueueIsExact'
  BY DEF Adm!QueueIsExact, Adm!TypeOK
<1> QED
  BY <1>1, <1>3, <1>4 DEF Adm!NoIdleSlot
-----------------------------------------------------------------------------
(* The inductive invariant *)

GuardOK(g) ==
    /\ DOMAIN g = {"worker", "closed", "released"}
    /\ g.worker \in BOOLEAN /\ g.closed \in BOOLEAN /\ g.released \in BOOLEAN

TypeOK ==
    /\ isolate \in BOOLEAN
    /\ kind \in [Request -> {"stream", "json"}]
    /\ pc \in [Request -> {"new", "queued", "asking", "busy", "starting", "serving",
                           "reaping", "finally", "closing", "done"}]
    /\ DOMAIN guard = Request /\ \A r \in Request : GuardOK(guard[r])
    /\ starter \in [Request -> {"none", "pending", "spawning", "spawned", "started",
                                "failed", "dropped"}]
    /\ reaper \in [Request -> {"none", "running", "done", "failed"}]
    /\ cleaner \in [Request -> {"none", "pool", "stopping", "releasing", "done"}]
    /\ deferred \in [Request -> BOOLEAN]
    /\ task \in [Request -> {"none", "running", "done"}]
    /\ proc \in [Request -> {"none", "running", "stuck", "exited"}]

\* Until it begins, a request has no thread, no child and an unused guard.
NothingBegun(r) ==
    pc[r] \in {"new", "queued", "asking", "busy"} =>
        /\ ~guard[r].worker /\ ~guard[r].closed /\ ~guard[r].released
        /\ starter[r] = "none" /\ reaper[r] = "none" /\ cleaner[r] = "none"
        /\ task[r] = "none" /\ proc[r] = "none"
        /\ r \notin left /\ ~deferred[r]

\* What the handler knows of its lease.
LeaseInPlace(r) ==
    /\ pc[r] = "new" => state[r] = "none"
    /\ pc[r] \in {"queued", "asking"} => state[r] \in {"queued", "active"}
    /\ pc[r] = "busy" => state[r] \in {"none", "released"}
    /\ pc[r] \in {"starting", "serving", "reaping"} => state[r] = "active"
    /\ pc[r] \in {"finally", "closing", "done"} => state[r] # "none"

\* start() runs while the handler waits for it, or for a handler that is gone;
\* its child is there once it has spawned it.
StarterInPlace(r) ==
    /\ pc[r] = "starting" =>
          /\ isolate /\ guard[r].worker /\ reaper[r] = "none"
          /\ starter[r] \in {"pending", "spawning", "spawned", "started", "failed"}
    /\ pc[r] \in {"serving", "reaping"} =>
          /\ guard[r].worker <=> isolate
          /\ starter[r] = IF isolate THEN "started" ELSE "none"
    /\ starter[r] \in {"pending", "spawning", "spawned"} =>
          pc[r] = "starting" \/ r \in left
    /\ proc[r] # "none" => starter[r] \in {"spawned", "started"}
    /\ isolate => task[r] = "none"
    /\ ~isolate => starter[r] = "none" /\ ~guard[r].worker
    /\ r \in left => pc[r] \in {"finally", "done"} /\ kind[r] = "stream"

\* Whoever took the worker from the guard has stopped the child or is about to.
ChildIsOwned(r) ==
    /\ pc[r] = "reaping" => isolate /\ reaper[r] # "none"
    /\ reaper[r] # "none" => starter[r] = "started"
    /\ reaper[r] = "done" => proc[r] # "running"
    /\ ~guard[r].worker /\ proc[r] = "running" => cleaner[r] = "stopping" \/ r \in left
    /\ proc[r] = "running" => state[r] = "active" \/ r \in left

\* The guard releases at its close, once, and close() runs once.
GuardInPlace(r) ==
    /\ pc[r] \in {"starting", "serving", "reaping", "finally"} =>
          /\ ~guard[r].closed /\ ~guard[r].released
          /\ cleaner[r] = "none" /\ ~deferred[r]
    /\ guard[r].worker => ~guard[r].closed
    /\ cleaner[r] = "pool" => guard[r].worker /\ kind[r] = "stream"
    /\ cleaner[r] \in {"stopping", "releasing", "done"} => guard[r].closed
    /\ guard[r].released \/ cleaner[r] = "done" => state[r] = "released"
    /\ pc[r] = "done" => deferred[r] \/ cleaner[r] # "none" \/ state[r] = "released"
    /\ pc[r] = "closing" =>
          kind[r] = "json" /\ cleaner[r] \in {"stopping", "releasing", "done"}
    /\ pc[r] = "done" /\ kind[r] = "json" => cleaner[r] = "done"

\* An in-process worker has its slot to its end.
TaskInPlace(r) ==
    /\ deferred[r] =>
          /\ pc[r] = "done" /\ kind[r] = "stream"
          /\ task[r] = "running" \/ state[r] = "released"
    /\ task[r] = "running" =>
          /\ state[r] = "active" /\ cleaner[r] = "none"
          /\ \/ pc[r] = "serving"
             \/ pc[r] = "finally" /\ kind[r] = "stream"
             \/ pc[r] = "done" /\ deferred[r]

InPlace(r) ==
    /\ NothingBegun(r) /\ LeaseInPlace(r) /\ StarterInPlace(r)
    /\ ChildIsOwned(r) /\ GuardInPlace(r) /\ TaskInPlace(r)

IInv ==
    /\ ControllerInv
    /\ TypeOK
    /\ \A r \in Request : InPlace(r)

-----------------------------------------------------------------------------
(* Who a step leaves alone *)

\* Nothing of request q changes, except that its lease may be handed a slot.
Kept(q) ==
    /\ pc'[q] = pc[q] /\ guard'[q] = guard[q]
    /\ starter'[q] = starter[q] /\ reaper'[q] = reaper[q] /\ cleaner'[q] = cleaner[q]
    /\ q \in left' <=> q \in left
    /\ deferred'[q] = deferred[q] /\ task'[q] = task[q] /\ proc'[q] = proc[q]

LeaseKept(q) ==
    \/ state'[q] = state[q]
    \/ state[q] = "queued" /\ state'[q] = "active"

LEMMA KeptInPlace ==
  ASSUME NEW q \in Request, InPlace(q), Kept(q), LeaseKept(q), UNCHANGED fixed
  PROVE  InPlace(q)'
<1> USE DEF Kept, LeaseKept, fixed
<1>1. NothingBegun(q)'
  BY DEF InPlace, NothingBegun
<1>2. LeaseInPlace(q)'
  BY DEF InPlace, LeaseInPlace
<1>3. StarterInPlace(q)'
  BY DEF InPlace, StarterInPlace
<1>4. ChildIsOwned(q)'
  BY DEF InPlace, ChildIsOwned
<1>5. GuardInPlace(q)'
  BY DEF InPlace, GuardInPlace
<1>6. TaskInPlace(q)'
  BY DEF InPlace, TaskInPlace
<1> QED
  BY <1>1, <1>2, <1>3, <1>4, <1>5, <1>6 DEF InPlace

\* A step of request r that keeps the types, every other request, and r in place.
LEMMA StepInPlace ==
  ASSUME IInv, NEW r \in Request, ControllerInv', TypeOK', InPlace(r)', UNCHANGED fixed,
         \A q \in Request \ {r} : Kept(q) /\ LeaseKept(q)
  PROVE  IInv'
<1> SUFFICES ASSUME NEW q \in Request \ {r} PROVE InPlace(q)'
  BY DEF IInv
<1> QED
  BY KeptInPlace DEF IInv

LEMMA SameController ==
  ASSUME ControllerInv, UNCHANGED controller
  PROVE  ControllerInv' /\ \A q \in Request : LeaseKept(q)
BY DEF controller, ControllerInv, Adm!TypeOK, Adm!SlotsAccountedFor,
   Adm!ActiveLeases, Adm!QueueIsExact, Adm!NoIdleSlot, LeaseKept

-----------------------------------------------------------------------------
(* The steps that leave the controller alone *)

BeginStep(r) ==
    \/ ArriveRefused(r) \/ BeginIsolated(r) \/ BeginInProcess(r) \/ SeeQueued(r) \/ KeepWaiting(r)

StartStep(r) ==
    \/ StartPicked(r) \/ SpawnFails(r) \/ Spawn(r) \/ FlagStarted(r) \/ ResumeStarted(r)
    \/ ResumeFailed(r)

ServeStep(r) ==
    \/ StopChild(r) \/ Reap(r) \/ ResumeReaped(r) \/ SeeDead(r) \/ SeeTaskDone(r)
    \/ SeeDisconnect(r) \/ Cancel(r) \/ ChildExits(r) \/ ChildHangs(r)

CloseStep(r) ==
    \/ Defer(r) \/ CleanupInPool(r) \/ CloseJson(r) \/ ClosePicked(r) \/ CloseStops(r)
    \/ AnswerJson(r)

LEMMA BeginPreserves ==
  ASSUME IInv, NEW r \in Request, BeginStep(r)
  PROVE  TypeOK' /\ InPlace(r)' /\ \A q \in Request \ {r} : Kept(q)
<1> USE DEF IInv, TypeOK, GuardOK, Kept, Goto, fixed, controller, threads
<1>1. CASE ArriveRefused(r)
  <2>1. TypeOK'
    BY <1>1 DEF ArriveRefused
  <2>2. \A q \in Request \ {r} : Kept(q)
    BY <1>1 DEF ArriveRefused
  <2>3. InPlace(r)'
    BY <1>1 DEF ArriveRefused, InPlace, NothingBegun, LeaseInPlace, StarterInPlace, ChildIsOwned,
         GuardInPlace, TaskInPlace
  <2> QED
    BY <2>1, <2>2, <2>3
<1>2. CASE BeginIsolated(r)
  <2>1. TypeOK'
    <3>1. guard' = [guard EXCEPT ![r] = [guard[r] EXCEPT !.worker = TRUE]]
      BY <1>2 DEF BeginIsolated
    <3>2. GuardOK([guard[r] EXCEPT !.worker = TRUE])
      OBVIOUS
    <3>3. DOMAIN guard' = Request /\ \A q \in Request : GuardOK(guard'[q])
      BY <3>1, <3>2
    <3> QED
      BY <1>2, <3>3 DEF BeginIsolated
  <2>2. \A q \in Request \ {r} : Kept(q)
    BY <1>2 DEF BeginIsolated
  <2>3. InPlace(r)'
    BY <1>2 DEF BeginIsolated, InPlace, NothingBegun, LeaseInPlace, StarterInPlace, ChildIsOwned,
         GuardInPlace, TaskInPlace
  <2> QED
    BY <2>1, <2>2, <2>3
<1>3. CASE BeginInProcess(r)
  <2>1. TypeOK'
    BY <1>3 DEF BeginInProcess
  <2>2. \A q \in Request \ {r} : Kept(q)
    BY <1>3 DEF BeginInProcess
  <2>3. InPlace(r)'
    BY <1>3 DEF BeginInProcess, InPlace, NothingBegun, LeaseInPlace, StarterInPlace, ChildIsOwned,
         GuardInPlace, TaskInPlace
  <2> QED
    BY <2>1, <2>2, <2>3
<1>4. CASE SeeQueued(r)
  <2>1. TypeOK'
    BY <1>4 DEF SeeQueued
  <2>2. \A q \in Request \ {r} : Kept(q)
    BY <1>4 DEF SeeQueued
  <2>3. InPlace(r)'
    BY <1>4 DEF SeeQueued, InPlace, NothingBegun, LeaseInPlace, StarterInPlace, ChildIsOwned,
         GuardInPlace, TaskInPlace
  <2> QED
    BY <2>1, <2>2, <2>3
<1>5. CASE KeepWaiting(r)
  <2>1. TypeOK'
    BY <1>5 DEF KeepWaiting
  <2>2. \A q \in Request \ {r} : Kept(q)
    BY <1>5 DEF KeepWaiting
  <2>3. InPlace(r)'
    BY <1>5 DEF KeepWaiting, InPlace, NothingBegun, LeaseInPlace, StarterInPlace, ChildIsOwned,
         GuardInPlace, TaskInPlace
  <2> QED
    BY <2>1, <2>2, <2>3
<1> QED
  BY <1>1, <1>2, <1>3, <1>4, <1>5 DEF BeginStep

LEMMA StartPreserves ==
  ASSUME IInv, NEW r \in Request, StartStep(r)
  PROVE  TypeOK' /\ InPlace(r)' /\ \A q \in Request \ {r} : Kept(q)
<1> USE DEF IInv, TypeOK, GuardOK, Kept, Goto, fixed, controller, threads
<1>1. CASE StartPicked(r)
  <2>1. TypeOK'
    BY <1>1 DEF StartPicked
  <2>2. \A q \in Request \ {r} : Kept(q)
    BY <1>1 DEF StartPicked
  <2>3. InPlace(r)'
    BY <1>1 DEF StartPicked, InPlace, NothingBegun, LeaseInPlace, StarterInPlace, ChildIsOwned,
         GuardInPlace, TaskInPlace
  <2> QED
    BY <2>1, <2>2, <2>3
<1>2. CASE SpawnFails(r)
  <2>1. TypeOK'
    BY <1>2 DEF SpawnFails
  <2>2. \A q \in Request \ {r} : Kept(q)
    BY <1>2 DEF SpawnFails
  <2>3. InPlace(r)'
    BY <1>2 DEF SpawnFails, InPlace, NothingBegun, LeaseInPlace, StarterInPlace, ChildIsOwned,
         GuardInPlace, TaskInPlace
  <2> QED
    BY <2>1, <2>2, <2>3
<1>3. CASE Spawn(r)
  <2>1. TypeOK'
    BY <1>3 DEF Spawn
  <2>2. \A q \in Request \ {r} : Kept(q)
    BY <1>3 DEF Spawn
  <2>3. InPlace(r)'
    BY <1>3 DEF Spawn, InPlace, NothingBegun, LeaseInPlace, StarterInPlace, ChildIsOwned,
         GuardInPlace, TaskInPlace
  <2> QED
    BY <2>1, <2>2, <2>3
<1>4. CASE FlagStarted(r)
  <2>1. TypeOK'
    BY <1>4 DEF FlagStarted
  <2>2. \A q \in Request \ {r} : Kept(q)
    BY <1>4 DEF FlagStarted
  <2>3. InPlace(r)'
    BY <1>4 DEF FlagStarted, InPlace, NothingBegun, LeaseInPlace, StarterInPlace, ChildIsOwned,
         GuardInPlace, TaskInPlace
  <2> QED
    BY <2>1, <2>2, <2>3
<1>5. CASE ResumeStarted(r)
  <2>1. TypeOK'
    BY <1>5 DEF ResumeStarted
  <2>2. \A q \in Request \ {r} : Kept(q)
    BY <1>5 DEF ResumeStarted
  <2>3. InPlace(r)'
    BY <1>5 DEF ResumeStarted, InPlace, NothingBegun, LeaseInPlace, StarterInPlace, ChildIsOwned,
         GuardInPlace, TaskInPlace
  <2> QED
    BY <2>1, <2>2, <2>3
<1>6. CASE ResumeFailed(r)
  <2>1. TypeOK'
    BY <1>6 DEF ResumeFailed
  <2>2. \A q \in Request \ {r} : Kept(q)
    BY <1>6 DEF ResumeFailed
  <2>3. InPlace(r)'
    BY <1>6 DEF ResumeFailed, InPlace, NothingBegun, LeaseInPlace, StarterInPlace, ChildIsOwned,
         GuardInPlace, TaskInPlace
  <2> QED
    BY <2>1, <2>2, <2>3
<1> QED
  BY <1>1, <1>2, <1>3, <1>4, <1>5, <1>6 DEF StartStep

LEMMA ServePreserves ==
  ASSUME IInv, NEW r \in Request, ServeStep(r)
  PROVE  TypeOK' /\ InPlace(r)' /\ \A q \in Request \ {r} : Kept(q)
<1> USE DEF IInv, TypeOK, GuardOK, Kept, Goto, fixed, controller, threads
<1>1. CASE StopChild(r)
  <2>1. TypeOK'
    BY <1>1 DEF StopChild
  <2>2. \A q \in Request \ {r} : Kept(q)
    BY <1>1 DEF StopChild
  <2>3. InPlace(r)'
    BY <1>1 DEF StopChild, InPlace, NothingBegun, LeaseInPlace, StarterInPlace, ChildIsOwned,
         GuardInPlace, TaskInPlace
  <2> QED
    BY <2>1, <2>2, <2>3
<1>2. CASE Reap(r)
  <2>1. TypeOK'
    BY <1>2 DEF Reap, AfterKill
  <2>2. \A q \in Request \ {r} : Kept(q)
    BY <1>2 DEF Reap, AfterKill
  <2>3. InPlace(r)'
    BY <1>2 DEF Reap, AfterKill, InPlace, NothingBegun, LeaseInPlace, StarterInPlace, ChildIsOwned,
         GuardInPlace, TaskInPlace
  <2> QED
    BY <2>1, <2>2, <2>3
<1>3. CASE ResumeReaped(r)
  <2>1. TypeOK'
    <3>1. guard' = [guard EXCEPT ![r] = [guard[r] EXCEPT !.worker = reaper[r] = "failed"]]
      BY <1>3 DEF ResumeReaped
    <3>2. GuardOK([guard[r] EXCEPT !.worker = reaper[r] = "failed"])
      OBVIOUS
    <3>3. DOMAIN guard' = Request /\ \A q \in Request : GuardOK(guard'[q])
      BY <3>1, <3>2
    <3> QED
      BY <1>3, <3>3 DEF ResumeReaped
  <2>2. \A q \in Request \ {r} : Kept(q)
    BY <1>3 DEF ResumeReaped
  <2>3. InPlace(r)'
    BY <1>3 DEF ResumeReaped, InPlace, NothingBegun, LeaseInPlace, StarterInPlace, ChildIsOwned,
         GuardInPlace, TaskInPlace
  <2> QED
    BY <2>1, <2>2, <2>3
<1>4. CASE SeeDead(r)
  <2>1. TypeOK'
    BY <1>4 DEF SeeDead
  <2>2. \A q \in Request \ {r} : Kept(q)
    BY <1>4 DEF SeeDead
  <2>3. InPlace(r)'
    BY <1>4 DEF SeeDead, InPlace, NothingBegun, LeaseInPlace, StarterInPlace, ChildIsOwned,
         GuardInPlace, TaskInPlace
  <2> QED
    BY <2>1, <2>2, <2>3
<1>5. CASE SeeTaskDone(r)
  <2>1. TypeOK'
    BY <1>5 DEF SeeTaskDone
  <2>2. \A q \in Request \ {r} : Kept(q)
    BY <1>5 DEF SeeTaskDone
  <2>3. InPlace(r)'
    BY <1>5 DEF SeeTaskDone, InPlace, NothingBegun, LeaseInPlace, StarterInPlace, ChildIsOwned,
         GuardInPlace, TaskInPlace
  <2> QED
    BY <2>1, <2>2, <2>3
<1>6. CASE SeeDisconnect(r)
  <2>1. TypeOK'
    BY <1>6 DEF SeeDisconnect
  <2>2. \A q \in Request \ {r} : Kept(q)
    BY <1>6 DEF SeeDisconnect
  <2>3. InPlace(r)'
    BY <1>6 DEF SeeDisconnect, InPlace, NothingBegun, LeaseInPlace, StarterInPlace, ChildIsOwned,
         GuardInPlace, TaskInPlace
  <2> QED
    BY <2>1, <2>2, <2>3
<1>7. CASE Cancel(r)
  <2>1. TypeOK'
    BY <1>7 DEF Cancel, Awaits
  <2>2. \A q \in Request \ {r} : Kept(q)
    BY <1>7 DEF Cancel, Awaits
  <2>3. InPlace(r)'
    BY <1>7 DEF Cancel, Awaits, InPlace, NothingBegun, LeaseInPlace, StarterInPlace, ChildIsOwned,
         GuardInPlace, TaskInPlace
  <2> QED
    BY <2>1, <2>2, <2>3
<1>8. CASE ChildExits(r)
  <2>1. TypeOK'
    BY <1>8 DEF ChildExits
  <2>2. \A q \in Request \ {r} : Kept(q)
    BY <1>8 DEF ChildExits
  <2>3. InPlace(r)'
    BY <1>8 DEF ChildExits, InPlace, NothingBegun, LeaseInPlace, StarterInPlace, ChildIsOwned,
         GuardInPlace, TaskInPlace
  <2> QED
    BY <2>1, <2>2, <2>3
<1>9. CASE ChildHangs(r)
  <2>1. TypeOK'
    BY <1>9 DEF ChildHangs
  <2>2. \A q \in Request \ {r} : Kept(q)
    BY <1>9 DEF ChildHangs
  <2>3. InPlace(r)'
    BY <1>9 DEF ChildHangs, InPlace, NothingBegun, LeaseInPlace, StarterInPlace, ChildIsOwned,
         GuardInPlace, TaskInPlace
  <2> QED
    BY <2>1, <2>2, <2>3
<1> QED
  BY <1>1, <1>2, <1>3, <1>4, <1>5, <1>6, <1>7, <1>8, <1>9 DEF ServeStep

LEMMA ClosePreserves ==
  ASSUME IInv, NEW r \in Request, CloseStep(r)
  PROVE  TypeOK' /\ InPlace(r)' /\ \A q \in Request \ {r} : Kept(q)
<1> USE DEF IInv, TypeOK, GuardOK, Kept, Goto, fixed, controller, threads
<1>1. CASE Defer(r)
  <2>1. TypeOK'
    BY <1>1 DEF Defer
  <2>2. \A q \in Request \ {r} : Kept(q)
    BY <1>1 DEF Defer
  <2>3. InPlace(r)'
    BY <1>1 DEF Defer, InPlace, NothingBegun, LeaseInPlace, StarterInPlace, ChildIsOwned,
         GuardInPlace, TaskInPlace
  <2> QED
    BY <2>1, <2>2, <2>3
<1>2. CASE CleanupInPool(r)
  <2>1. TypeOK'
    BY <1>2 DEF CleanupInPool
  <2>2. \A q \in Request \ {r} : Kept(q)
    BY <1>2 DEF CleanupInPool
  <2>3. InPlace(r)'
    BY <1>2 DEF CleanupInPool, InPlace, NothingBegun, LeaseInPlace, StarterInPlace, ChildIsOwned,
         GuardInPlace, TaskInPlace
  <2> QED
    BY <2>1, <2>2, <2>3
<1>3. CASE CloseJson(r)
  <2>1. TypeOK'
    <3>1. guard' = [guard EXCEPT ![r] = [guard[r] EXCEPT !.closed = TRUE, !.worker = FALSE]]
      BY <1>3 DEF CloseJson, EnterClose
    <3>2. GuardOK([guard[r] EXCEPT !.closed = TRUE, !.worker = FALSE])
      OBVIOUS
    <3>3. DOMAIN guard' = Request /\ \A q \in Request : GuardOK(guard'[q])
      BY <3>1, <3>2
    <3> QED
      BY <1>3, <3>3 DEF CloseJson, EnterClose
  <2>2. \A q \in Request \ {r} : Kept(q)
    BY <1>3 DEF CloseJson, EnterClose
  <2>3. InPlace(r)'
    BY <1>3 DEF CloseJson, EnterClose, InPlace, NothingBegun, LeaseInPlace, StarterInPlace, ChildIsOwned,
         GuardInPlace, TaskInPlace
  <2> QED
    BY <2>1, <2>2, <2>3
<1>4. CASE ClosePicked(r)
  <2>1. TypeOK'
    <3>1. cleaner' \in [Request -> {"none", "pool", "stopping", "releasing", "done"}]
      BY <1>4 DEF ClosePicked, EnterClose
    <3>2. guard' = [guard EXCEPT ![r].closed = TRUE, ![r].worker = FALSE]
      BY <1>4 DEF ClosePicked, EnterClose
    <3>3. DOMAIN guard' = Request /\ \A q \in Request : GuardOK(guard'[q])
      <4>1. GuardOK(guard'[r])
        BY <3>2
      <4>2. DOMAIN guard' = Request /\ \A q \in Request \ {r} : guard'[q] = guard[q]
        BY <3>2
      <4> QED
        BY <4>1, <4>2
    <3> QED
      BY <1>4, <3>1, <3>3 DEF ClosePicked
  <2>2. \A q \in Request \ {r} : Kept(q)
    BY <1>4 DEF ClosePicked, EnterClose
  <2>3. InPlace(r)'
    BY <1>4 DEF ClosePicked, EnterClose, InPlace, NothingBegun, LeaseInPlace, StarterInPlace, ChildIsOwned,
         GuardInPlace, TaskInPlace
  <2> QED
    BY <2>1, <2>2, <2>3
<1>5. CASE CloseStops(r)
  <2>1. TypeOK'
    BY <1>5 DEF CloseStops, AfterKill
  <2>2. \A q \in Request \ {r} : Kept(q)
    BY <1>5 DEF CloseStops, AfterKill
  <2>3. InPlace(r)'
    BY <1>5 DEF CloseStops, AfterKill, InPlace, NothingBegun, LeaseInPlace, StarterInPlace, ChildIsOwned,
         GuardInPlace, TaskInPlace
  <2> QED
    BY <2>1, <2>2, <2>3
<1>6. CASE AnswerJson(r)
  <2>1. TypeOK'
    BY <1>6 DEF AnswerJson
  <2>2. \A q \in Request \ {r} : Kept(q)
    BY <1>6 DEF AnswerJson
  <2>3. InPlace(r)'
    BY <1>6 DEF AnswerJson, InPlace, NothingBegun, LeaseInPlace, StarterInPlace, ChildIsOwned,
         GuardInPlace, TaskInPlace
  <2> QED
    BY <2>1, <2>2, <2>3
<1> QED
  BY <1>1, <1>2, <1>3, <1>4, <1>5, <1>6 DEF CloseStep

-----------------------------------------------------------------------------
(* The steps that make or release a lease, or forget a released one *)

LEMMA ReleasesOnce ==
  ASSUME IInv, NEW r \in Request, ReleaseOnce(r), state[r] # "none"
  PROVE  /\ ControllerInv'
         /\ state'[r] = "released"
         /\ \A q \in Request \ {r} : LeaseKept(q)
<1>1. CASE guard[r].released
  <2>1. UNCHANGED controller
    BY <1>1 DEF ReleaseOnce
  <2>2. state[r] = "released"
    BY <1>1 DEF IInv, InPlace, GuardInPlace
  <2> QED
    BY <2>1, <2>2, SameController DEF IInv, controller
<1>2. CASE ~guard[r].released
  <2>1. Adm!Release(r)
    BY <1>2 DEF ReleaseOnce
  <2> QED
    BY <2>1, Releases DEF IInv, LeaseKept
<1> QED
  BY <1>1, <1>2

LEMMA ArrivePreserves ==
  ASSUME IInv, NEW r \in Request, Arrive(r)
  PROVE  IInv'
<1> USE DEF IInv, TypeOK, GuardOK, Goto, fixed, threads
<1>1. /\ ControllerInv' /\ state'[r] \in {"active", "queued"}
      /\ \A q \in Request \ {r} : LeaseKept(q)
  BY Reserves DEF Arrive, LeaseKept
<1>2. TypeOK'
  BY DEF Arrive
<1>3. \A q \in Request \ {r} : Kept(q)
  BY DEF Arrive, Kept
<1>4. InPlace(r)'
  BY <1>1 DEF Arrive, InPlace, NothingBegun, LeaseInPlace, StarterInPlace, ChildIsOwned,
       GuardInPlace, TaskInPlace
<1>5. UNCHANGED fixed
  BY DEF Arrive
<1> QED
  BY <1>1, <1>2, <1>3, <1>4, <1>5, StepInPlace

LEMMA GiveUpPreserves ==
  ASSUME IInv, NEW r \in Request, GiveUp(r)
  PROVE  IInv'
<1> USE DEF IInv, TypeOK, GuardOK, Goto, fixed, threads
<1>1. /\ ControllerInv' /\ state'[r] = "released"
      /\ \A q \in Request \ {r} : LeaseKept(q)
  BY Releases DEF GiveUp, LeaseKept
<1>2. TypeOK'
  BY DEF GiveUp
<1>3. \A q \in Request \ {r} : Kept(q)
  BY DEF GiveUp, Kept
<1>4. InPlace(r)'
  BY <1>1 DEF GiveUp, InPlace, NothingBegun, LeaseInPlace, StarterInPlace, ChildIsOwned,
       GuardInPlace, TaskInPlace
<1>5. UNCHANGED fixed
  BY DEF GiveUp
<1> QED
  BY <1>1, <1>2, <1>3, <1>4, <1>5, StepInPlace

LEMMA WaitExpiresPreserves ==
  ASSUME IInv, NEW r \in Request, WaitExpires(r)
  PROVE  IInv'
<1> USE DEF IInv, TypeOK, GuardOK, Goto, fixed, threads
<1>1. /\ ControllerInv' /\ state'[r] = "released"
      /\ \A q \in Request \ {r} : LeaseKept(q)
  BY Releases DEF WaitExpires, LeaseKept
<1>2. TypeOK'
  BY DEF WaitExpires
<1>3. \A q \in Request \ {r} : Kept(q)
  BY DEF WaitExpires, Kept
<1>4. InPlace(r)'
  BY <1>1 DEF WaitExpires, InPlace, NothingBegun, LeaseInPlace, StarterInPlace, ChildIsOwned,
       GuardInPlace, TaskInPlace
<1>5. UNCHANGED fixed
  BY DEF WaitExpires
<1> QED
  BY <1>1, <1>2, <1>3, <1>4, <1>5, StepInPlace

LEMMA CleanupInlinePreserves ==
  ASSUME IInv, NEW r \in Request, CleanupInline(r)
  PROVE  IInv'
<1> USE DEF IInv, TypeOK, GuardOK, Goto, fixed, threads
<1>1. state[r] # "none"
  BY DEF CleanupInline, InPlace, LeaseInPlace
<1>2. /\ ControllerInv' /\ state'[r] = "released"
      /\ \A q \in Request \ {r} : LeaseKept(q)
  BY <1>1, ReleasesOnce DEF CleanupInline
<1>3. TypeOK'
  <2>1. guard' = [guard EXCEPT ![r] = [guard[r] EXCEPT !.closed = TRUE, !.released = TRUE]]
    BY DEF CleanupInline
  <2>2. GuardOK([guard[r] EXCEPT !.closed = TRUE, !.released = TRUE])
    OBVIOUS
  <2>3. DOMAIN guard' = Request /\ \A q \in Request : GuardOK(guard'[q])
    BY <2>1, <2>2
  <2> QED
    BY <2>3 DEF CleanupInline
<1>4. \A q \in Request \ {r} : Kept(q)
  BY DEF CleanupInline, Kept
<1>5. InPlace(r)'
  BY <1>2 DEF CleanupInline, InPlace, NothingBegun, LeaseInPlace, StarterInPlace, ChildIsOwned,
       GuardInPlace, TaskInPlace
<1>6. UNCHANGED fixed
  BY DEF CleanupInline
<1> QED
  BY <1>2, <1>3, <1>4, <1>5, <1>6, StepInPlace

LEMMA CloseReleasesPreserves ==
  ASSUME IInv, NEW r \in Request, CloseReleases(r)
  PROVE  IInv'
<1> USE DEF IInv, TypeOK, GuardOK, Goto, fixed, threads
<1>1. state[r] # "none"
  BY DEF CloseReleases, InPlace, NothingBegun, LeaseInPlace
<1>2. /\ ControllerInv' /\ state'[r] = "released"
      /\ \A q \in Request \ {r} : LeaseKept(q)
  BY <1>1, ReleasesOnce DEF CloseReleases
<1>3. TypeOK'
  <2>1. guard' = [guard EXCEPT ![r].released = TRUE]
    BY DEF CloseReleases
  <2>2. GuardOK(guard'[r])
    BY <2>1
  <2>3. DOMAIN guard' = Request /\ \A q \in Request \ {r} : guard'[q] = guard[q]
    BY <2>1
  <2>4. \A q \in Request : GuardOK(guard'[q])
    BY <2>2, <2>3
  <2> QED
    BY <2>3, <2>4 DEF CloseReleases
<1>4. \A q \in Request \ {r} : Kept(q)
  BY DEF CloseReleases, Kept
<1>5. InPlace(r)'
  BY <1>2 DEF CloseReleases, InPlace, NothingBegun, LeaseInPlace, StarterInPlace, ChildIsOwned,
       GuardInPlace, TaskInPlace
<1>6. UNCHANGED fixed
  BY DEF CloseReleases
<1> QED
  BY <1>2, <1>3, <1>4, <1>5, <1>6, StepInPlace

LEMMA TaskEndsPreserves ==
  ASSUME IInv, NEW r \in Request, TaskEnds(r)
  PROVE  IInv'
<1> USE DEF IInv, TypeOK, GuardOK, Goto, fixed, threads
<1>1. state[r] = "active"
  BY DEF TaskEnds, InPlace, TaskInPlace
<1>2. /\ ControllerInv'
      /\ deferred[r] => state'[r] = "released"
      /\ ~deferred[r] => state'[r] = "active"
      /\ \A q \in Request \ {r} : LeaseKept(q)
  <2>1. CASE deferred[r]
    BY <1>1, <2>1, ReleasesOnce DEF TaskEnds
  <2>2. CASE ~deferred[r]
    BY <1>1, <2>2, SameController DEF TaskEnds, controller
  <2> QED
    BY <2>1, <2>2
<1>3. /\ deferred[r] => guard' = [guard EXCEPT ![r].released = TRUE]
      /\ ~deferred[r] => guard' = guard
  BY DEF TaskEnds
<1>4. /\ DOMAIN guard' = Request /\ \A q \in Request \ {r} : guard'[q] = guard[q]
      /\ GuardOK(guard'[r])
      /\ guard'[r].worker <=> guard[r].worker
      /\ guard'[r].closed <=> guard[r].closed
      /\ guard'[r].released <=> guard[r].released \/ deferred[r]
  <2>1. CASE deferred[r]
    <3>1. guard' = [guard EXCEPT ![r].released = TRUE]
      BY <1>3, <2>1
    <3>2. guard'[r] = [guard[r] EXCEPT !.released = TRUE]
      BY <3>1
    <3>3. DOMAIN guard' = Request /\ \A q \in Request \ {r} : guard'[q] = guard[q]
      BY <3>1
    <3> QED
      BY <2>1, <3>2, <3>3
  <2>2. CASE ~deferred[r]
    BY <1>3, <2>2
  <2> QED
    BY <2>1, <2>2
<1>5. TypeOK'
  <2>1. \A q \in Request : GuardOK(guard'[q])
    BY <1>4
  <2> QED
    BY <1>4, <2>1 DEF TaskEnds
<1>6. \A q \in Request \ {r} : Kept(q)
  BY DEF TaskEnds, Kept
<1>7. InPlace(r)'
  BY <1>2, <1>4 DEF TaskEnds, InPlace, NothingBegun, LeaseInPlace, StarterInPlace, ChildIsOwned,
       GuardInPlace, TaskInPlace
<1>8. UNCHANGED fixed
  BY DEF TaskEnds
<1> QED
  BY <1>2, <1>5, <1>6, <1>7, <1>8, StepInPlace

LEMMA RenewPreserves ==
  ASSUME IInv, NEW r \in Request, Renew(r)
  PROVE  IInv'
<1> USE DEF IInv, TypeOK, GuardOK, Goto, fixed, threads
<1>1. /\ ControllerInv' /\ state'[r] = "none"
      /\ \A q \in Request \ {r} : LeaseKept(q)
  <2>1. DOMAIN state = Request
    BY DEF ControllerInv, Adm!TypeOK
  <2>2. ControllerInv'
    BY Forgets DEF Renew
  <2> QED
    BY <2>1, <2>2 DEF Renew, LeaseKept
<1>2. TypeOK'
  BY DEF Renew, NewGuard
<1>3. \A q \in Request \ {r} : Kept(q)
  BY DEF Renew, NewGuard, Kept
<1>4. InPlace(r)'
  BY <1>1 DEF Renew, NewGuard, InPlace, NothingBegun, LeaseInPlace, StarterInPlace, ChildIsOwned,
       GuardInPlace, TaskInPlace
<1>5. UNCHANGED fixed
  BY DEF Renew
<1> QED
  BY <1>1, <1>2, <1>3, <1>4, <1>5, StepInPlace

-----------------------------------------------------------------------------
(* The theorems *)

\* The controller with every lease free, and no request begun.
LEMMA InitInPlace == Init => IInv
<1> SUFFICES ASSUME Init PROVE IInv
  OBVIOUS
<1>1. Adm!Init
  BY DEF Init, Adm!Init, Adm!Init
<1>2. ControllerInv
  BY <1>1, ControllerInit
<1>3. TypeOK
  BY IsolationAssumption, KindsAssumption DEF Init, TypeOK, GuardOK, NewGuard
<1>4. ASSUME NEW r \in Request PROVE InPlace(r)
  BY DEF Init, Adm!Init, NewGuard, InPlace, NothingBegun, LeaseInPlace, StarterInPlace,
     ChildIsOwned, GuardInPlace, TaskInPlace
<1> QED
  BY <1>2, <1>3, <1>4 DEF IInv

LEMMA NextInPlace == IInv /\ [Next]_vars => IInv'
<1> SUFFICES ASSUME IInv, [Next]_vars PROVE IInv'
  OBVIOUS
<1>1. CASE UNCHANGED vars
  <2>1. ControllerInv'
    BY <1>1, SameController DEF vars, IInv
  <2>2. TypeOK' /\ \A q \in Request : Kept(q) /\ LeaseKept(q)
    BY <1>1 DEF vars, controller, fixed, threads, IInv, TypeOK, Kept, LeaseKept
  <2> QED
    BY <1>1, <2>1, <2>2, KeptInPlace DEF IInv, vars
<1>2. ASSUME NEW r \in Request,
             BeginStep(r) \/ StartStep(r) \/ ServeStep(r) \/ CloseStep(r)
      PROVE  IInv'
  <2>1. UNCHANGED controller /\ UNCHANGED fixed
    BY <1>2 DEF BeginStep, StartStep, ServeStep, CloseStep,
       ArriveRefused, BeginIsolated, BeginInProcess, SeeQueued, KeepWaiting, StartPicked,
       SpawnFails, Spawn, FlagStarted, ResumeStarted, ResumeFailed, StopChild,
       Reap, ResumeReaped, SeeDead, SeeTaskDone, SeeDisconnect, Cancel,
       ChildExits, ChildHangs, Defer, CleanupInPool, CloseJson, ClosePicked,
       CloseStops, AnswerJson
  <2>2. ControllerInv' /\ \A q \in Request : LeaseKept(q)
    BY <2>1, SameController DEF IInv
  <2>3. TypeOK' /\ InPlace(r)' /\ \A q \in Request \ {r} : Kept(q)
    BY <1>2, BeginPreserves, StartPreserves, ServePreserves, ClosePreserves
  <2> QED
    BY <2>1, <2>2, <2>3, StepInPlace
<1> QED
  BY <1>1, <1>2, ArrivePreserves, GiveUpPreserves, WaitExpiresPreserves, CleanupInlinePreserves,
     CloseReleasesPreserves, TaskEndsPreserves, RenewPreserves
     DEF Next, Handler, Starter, Cleaner, Environment, BeginStep, StartStep, ServeStep, CloseStep

THEOREM RequestsInPlace == Spec => []IInv
<1> QED
  BY InitInPlace, NextInPlace, PTL DEF Spec

\* Property WorkHoldsSlot: whatever runs for a request runs inside its slot, but for a
\* child that a cancelled request left to a start() still under way.
THEOREM WorkRunsInSlots == Spec => []WorkHoldsSlot
<1>1. IInv => WorkHoldsSlot
  BY DEF IInv, InPlace, ChildIsOwned, TaskInPlace, WorkHoldsSlot
<1> QED
  BY <1>1, RequestsInPlace, PTL

\* Property NothingLeftBehind: a request that is over has no slot and no place in the
\* queue, and /ask answers only when its child is reaped and its slot is free.
THEOREM RequestsLeaveNothing == Spec => []NothingLeftBehind
<1>1. IInv => NothingLeftBehind
  BY DEF IInv, TypeOK, InPlace, LeaseInPlace, StarterInPlace, ChildIsOwned, GuardInPlace,
     TaskInPlace, NothingLeftBehind, Over
<1> QED
  BY <1>1, RequestsInPlace, PTL

\* The types of the controller's fields.
THEOREM ControllerTypes == Spec => []Adm!TypeOK
<1>1. IInv => Adm!TypeOK
  BY DEF IInv, ControllerInv
<1> QED
  BY <1>1, RequestsInPlace, PTL

\* Property SlotsAccountedFor: _active counts the requests that hold a slot and never
\* passes max_concurrent.
THEOREM SlotsAreAccountedFor == Spec => []SlotsAccountedFor
<1>1. IInv => SlotsAccountedFor
  BY DEF IInv, ControllerInv, SlotsAccountedFor
<1> QED
  BY <1>1, RequestsInPlace, PTL

\* The deque holds the leases that wait, each once, at most max_queued.
THEOREM QueueStaysExact == Spec => []Adm!QueueIsExact
<1>1. IInv => Adm!QueueIsExact
  BY DEF IInv, ControllerInv
<1> QED
  BY <1>1, RequestsInPlace, PTL

\* No slot is idle while a request waits.
THEOREM SlotsAreNeverIdle == Spec => []Adm!NoIdleSlot
<1>1. IInv => Adm!NoIdleSlot
  BY DEF IInv, ControllerInv
<1> QED
  BY <1>1, RequestsInPlace, PTL

\* The lease of a request that is over is forgotten.
Forgotten(r) ==
    /\ state[r] \in {"none", "released"}
    /\ state' = [state EXCEPT ![r] = "none"]
    /\ UNCHANGED <<active, waiting>>

\* What a step of a request does to the controller: one call of it, nothing, or
\* a lease is forgotten.
LEMMA CallsOfController ==
    ASSUME [Next]_vars
    PROVE  [Adm!Next]_(Adm!vars) \/ \E r \in Request : Forgotten(r)
<1>1. CASE UNCHANGED vars
  BY <1>1 DEF vars, controller, Adm!vars
<1>2. ASSUME NEW r \in Request, Adm!ReserveActive(r) \/ Adm!ReserveQueued(r) \/ Adm!Release(r)
      PROVE  Adm!Next
  BY <1>2 DEF Adm!Next
<1>3. ASSUME NEW r \in Request, UNCHANGED controller \/ ReleaseOnce(r)
      PROVE  [Adm!Next]_(Adm!vars)
  BY <1>2, <1>3 DEF ReleaseOnce, controller, Adm!vars
<1>4. ASSUME NEW r \in Request, Handler(r) PROVE [Adm!Next]_(Adm!vars)
  BY <1>2, <1>3, <1>4
     DEF Handler, BeginIsolated, BeginInProcess, SeeQueued, KeepWaiting, WaitExpires,
         ResumeStarted, ResumeFailed, StopChild, ResumeReaped, SeeDead, SeeTaskDone, Defer,
         CleanupInPool, CleanupInline, CloseJson, AnswerJson
<1>5. ASSUME NEW r \in Request, Starter(r) \/ Reap(r) \/ Cleaner(r) \/ TaskEnds(r)
      PROVE  [Adm!Next]_(Adm!vars)
  BY <1>3, <1>5
     DEF Starter, StartPicked, SpawnFails, Spawn, FlagStarted, Reap, Cleaner, ClosePicked,
         CloseStops, CloseReleases, TaskEnds
<1>6. ASSUME NEW r \in Request, Environment(r)
      PROVE  [Adm!Next]_(Adm!vars) \/ Forgotten(r)
  BY <1>2, <1>3, <1>6
     DEF Environment, Arrive, ArriveRefused, GiveUp, SeeDisconnect, Cancel, ChildExits,
         ChildHangs, Renew, Forgotten
<1> QED
  BY <1>1, <1>4, <1>5, <1>6 DEF Next

\* First come, first served: no request is admitted past one that queued before it.
THEOREM FirstComeFirstServed == Spec => Adm!NoOvertaking
<1>1. ASSUME IInv, [Next]_vars, NEW l \in Request, NEW m \in Request
      PROVE  Fair(l, m)
  <2>1. CASE [Adm!Next]_(Adm!vars)
    BY <1>1, <2>1, NoneIsOvertaken DEF IInv
  <2>2. ASSUME NEW r \in Request, Forgotten(r) PROVE Fair(l, m)
    <3>1. DOMAIN state = Request
      BY <1>1 DEF IInv, ControllerInv, Adm!TypeOK
    <3> QED
      BY <2>2, <3>1 DEF Forgotten, Fair
  <2> QED
    BY <1>1, <2>1, <2>2, CallsOfController
<1>2. IInv /\ [Next]_vars =>
        [\A l, m \in Request :
            /\ state[m] = "queued" /\ state'[m] = "queued"
            /\ state[l] # "active" /\ state'[l] = "active"
            => \E i, j \in DOMAIN waiting :
                  i < j /\ waiting[i] = l /\ waiting[j] = m]_(Adm!vars)
  BY <1>1 DEF Fair
<1> QED
  BY <1>2, RequestsInPlace, PTL DEF Spec, Adm!NoOvertaking

\* A lease that is forgotten is a client that may come again, or none.
LEMMA ForgettingRefines ==
    ASSUME ControllerInv, NEW r \in Request, Forgotten(r)
    PROVE  [Adm!Slots!Next]_(Adm!Slots!vars)
<1>1. DOMAIN state = Request
  BY DEF ControllerInv, Adm!TypeOK
<1>2. UNCHANGED <<Adm!ActiveLeases, waiting>>
  BY <1>1 DEF Forgotten, Adm!ActiveLeases
<1>3. CASE state[r] = "released"
  <2>1. r \in Adm!ReleasedLeases /\ Adm!ReleasedLeases' = Adm!ReleasedLeases \ {r}
    BY <1>1, <1>3 DEF Forgotten, Adm!ReleasedLeases
  <2>2. Adm!Slots!Return(r)
    BY <1>2, <2>1 DEF Adm!Slots!Return
  <2> QED
    BY <2>2 DEF Adm!Slots!Next
<1>4. CASE state[r] = "none"
  <2>1. UNCHANGED Adm!ReleasedLeases
    BY <1>1, <1>4 DEF Forgotten, Adm!ReleasedLeases
  <2> QED
    BY <1>2, <2>1 DEF Adm!Slots!vars
<1> QED
  BY <1>3, <1>4 DEF Forgotten

\* Property ImplementsFairSlots: whatever becomes of a request and its handler, the
\* requests are served by bounded slots, first come, first served.
THEOREM RequestsAreServedFairly == Spec => ImplementsFairSlots
<1>1. Init => Adm!Slots!Init
  BY InitRefines DEF Init
<1>2. IInv /\ IInv' /\ [Next]_vars => [Adm!Slots!Next]_(Adm!Slots!vars)
  <2> SUFFICES ASSUME IInv, IInv', [Next]_vars PROVE [Adm!Slots!Next]_(Adm!Slots!vars)
    OBVIOUS
  <2>1. ControllerInv /\ ControllerInv'
    BY DEF IInv
  <2> QED
    BY <2>1, CallsOfController, StepRefines, ForgettingRefines
<1> QED
  BY <1>1, <1>2, RequestsInPlace, PTL DEF Spec, ImplementsFairSlots, Adm!ImplementsFairSlots,
     Adm!Slots!Spec

=============================================================================
