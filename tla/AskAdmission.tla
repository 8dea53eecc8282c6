---------------------------- MODULE AskAdmission ----------------------------
(***************************************************************************)
(* The process-local admission controller of the AI ask endpoints          *)
(* (services/ai_ask_admission.py).  Every method body runs under the       *)
(* controller's lock, so one action is one method call.  A lease is an     *)
(* object made by reserve(); "none" stands for a lease not made yet.       *)
(* cancel() and release() are the same call, _release().                   *)
(***************************************************************************)
EXTENDS Integers, Sequences, FiniteSets

CONSTANTS
    Lease,          \* identities of the leases that reserve() can hand out
    MaxConcurrent,  \* max_concurrent: __init__ raises if it is less than 1
    MaxQueued       \* max_queued: __init__ clamps it with max(0, _)

VARIABLES
    active,         \* _active
    waiting,        \* _waiting, oldest first
    state           \* _state of each lease

vars == <<active, waiting, state>>

LeaseState == {"none", "queued", "active", "released"}

TypeOK ==
    /\ active \in Int
    /\ waiting \in Seq(Lease)
    /\ state \in [Lease -> LeaseState]

Init ==
    /\ active = 0
    /\ waiting = <<>>
    /\ state = [l \in Lease |-> "none"]

-----------------------------------------------------------------------------
(* reserve()                                                               *)

HasFreeSlot == active < MaxConcurrent /\ waiting = <<>>

\* Fault: one place too many.
QueueIsOverfull == Len(waiting) > MaxQueued

QueueIsFull == Len(waiting) >= MaxQueued

ReserveActive(l) ==
    /\ state[l] = "none"
    /\ HasFreeSlot
    /\ state' = [state EXCEPT ![l] = "active"]
    /\ active' = active + 1
    /\ UNCHANGED waiting

ReserveQueued(l) ==
    /\ state[l] = "none"
    /\ ~HasFreeSlot
    /\ ~QueueIsFull
    /\ waiting' = Append(waiting, l)
    /\ state' = [state EXCEPT ![l] = "queued"]
    /\ UNCHANGED active

\* reserve() answers None: no lease is made and nothing changes.
Refused == ~HasFreeSlot /\ QueueIsFull

-----------------------------------------------------------------------------
(* _release(): the branches for a queued and for an active lease           *)

\* Where deque.remove finds the lease.
PlaceOf(l) ==
    CHOOSE i \in DOMAIN waiting :
        waiting[i] = l /\ \A j \in DOMAIN waiting : waiting[j] = l => i <= j

\* deque.remove, whose ValueError for an absent lease is swallowed.
WaitingWithout(l) ==
    IF \E i \in DOMAIN waiting : waiting[i] = l
    THEN SubSeq(waiting, 1, PlaceOf(l) - 1)
            \o SubSeq(waiting, PlaceOf(l) + 1, Len(waiting))
    ELSE waiting

ReleaseQueued(l) ==
    /\ state[l] = "queued"
    /\ waiting' = WaitingWithout(l)
    /\ state' = [state EXCEPT ![l] = "released"]
    /\ UNCHANGED active

\* The places of the waiting leases the hand-off loop can stop at.
LivePlaces == {i \in DOMAIN waiting : state[waiting[i]] = "queued"}

NextPlace == CHOOSE i \in LivePlaces : \A j \in LivePlaces : i <= j

ReleaseLast(l) ==
    /\ state[l] = "active"
    /\ LivePlaces = {}
    /\ state' = [state EXCEPT ![l] = "released"]
    /\ active' = active - 1
    /\ waiting' = <<>>

\* Fault: the slot handed over is not counted again.
HandOffUncounted(l) ==
    /\ state[l] = "active"
    /\ LivePlaces # {}
    /\ state' = [state EXCEPT ![l] = "released",
                              ![waiting[NextPlace]] = "active"]
    /\ active' = active - 1
    /\ waiting' = SubSeq(waiting, NextPlace + 1, Len(waiting))

ReleaseHandOff(l) ==
    /\ state[l] = "active"
    /\ LivePlaces # {}
    /\ state' = [state EXCEPT ![l] = "released",
                              ![waiting[NextPlace]] = "active"]
    /\ active' = (active - 1) + 1
    /\ waiting' = SubSeq(waiting, NextPlace + 1, Len(waiting))

\* Fault: the slot is freed and nobody who waits is told.
ReleaseUntold(l) ==
    /\ state[l] = "active"
    /\ state' = [state EXCEPT ![l] = "released"]
    /\ active' = active - 1
    /\ UNCHANGED waiting

ReleaseActive(l) == ReleaseLast(l) \/ ReleaseHandOff(l)

\* A lease that was released already is left alone.
ReleaseAgain(l) ==
    /\ state[l] = "released"
    /\ UNCHANGED vars

Release(l) == ReleaseQueued(l) \/ ReleaseActive(l) \/ ReleaseAgain(l)

-----------------------------------------------------------------------------

Next ==
    \E l \in Lease :
        \/ ReserveActive(l)
        \/ ReserveQueued(l)
        \/ Release(l)

Spec == Init /\ [][Next]_vars

-----------------------------------------------------------------------------
(* Properties                                                              *)

ActiveLeases == {l \in Lease : state[l] = "active"}

\* The counter is the number of leases in state "active", and never passes
\* max_concurrent: no path of reserve, cancel, release or hand-off counts a
\* lease twice or forgets one.
SlotsAccountedFor ==
    /\ IsFiniteSet(ActiveLeases)
    /\ active = Cardinality(ActiveLeases)
    /\ active <= MaxConcurrent

\* The deque holds exactly the queued leases, each once, and no more than
\* max_queued of them: a cancelled waiter leaves no dead entry that would use
\* up the queue's capacity.
QueueIsExact ==
    /\ \A i \in DOMAIN waiting : state[waiting[i]] = "queued"
    /\ \A l \in Lease :
          state[l] = "queued" => \E i \in DOMAIN waiting : waiting[i] = l
    /\ \A i, j \in DOMAIN waiting : i # j => waiting[i] # waiting[j]
    /\ Len(waiting) <= MaxQueued

\* No slot is idle while a request waits: a released slot always goes to a
\* waiter, whoever left the queue or the slots in between.
NoIdleSlot == waiting # <<>> => active = MaxConcurrent

\* "Fair active limit with a bounded FIFO": no step lets a lease become active
\* while one that queued before it (or, for a new lease, any) stays queued.
NoOvertaking ==
    [][\A l, m \in Lease :
          /\ state[m] = "queued" /\ state'[m] = "queued"
          /\ state[l] # "active" /\ state'[l] = "active"
          => \E i, j \in DOMAIN waiting :
                i < j /\ waiting[i] = l /\ waiting[j] = m]_vars

-----------------------------------------------------------------------------
(* What the controller promises                                            *)

ReleasedLeases == {l \in Lease : state[l] = "released"}

Slots == INSTANCE FairSlots WITH
    Client <- Lease,
    Slots <- MaxConcurrent,
    Places <- MaxQueued,
    running <- ActiveLeases,
    line <- waiting,
    gone <- ReleasedLeases

\* The controller, with its counter, its deque and the states of its leases,
\* implements the bounded first-come first-served slots of FairSlots.
ImplementsFairSlots == Slots!Spec

=============================================================================
