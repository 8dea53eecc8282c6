-------------------------- MODULE BoundedCallProofs --------------------------
(***************************************************************************)
(* Proofs about the HTTP clients of a question, for every set of calling   *)
(* threads and every number of permits: one permit is lost with each       *)
(* helper that could not be started and none in another way, no helper     *)
(* outlives its call, and a body that a helper cut short is no answer.     *)
(***************************************************************************)
EXTENDS BoundedCall, FiniteSetTheorems, TLAPS

USE DEF Holding, None, Shared, At, Go,
        RaiseError, Cancelled, Late

-----------------------------------------------------------------------------
(* The inductive invariant                                                 *)

BeforeJoin == {"arm", "send", "opened", "read", "drained", "stop", "join"}

Results == {"none", "busy", "cancelled", "timeout", "unavailable", "failed",
            "invalid", "content"}

CallRecord ==
    [pc : {"idle", "returned"} \cup Holding,
     event : BOOLEAN, cancel : BOOLEAN, late : BOOLEAN,
     active : BOOLEAN, closed : BOOLEAN, stop : BOOLEAN,
     body : {"none", "odd", "even", "whole", "cut"},
     watcher : {"none", "run", "closing", "ended", "unstarted"},
     timer : {"none", "armed", "closing", "ended", "unstarted"},
     result : Results]

ClientTypeOK ==
    /\ client \in {"model", "retrieval"}
    /\ free \in Nat /\ unstarted \in Nat
    /\ call \in [Calls -> CallRecord]

\* Where the helpers of a call can be, given where the call is.  A thread that
\* could not be started was the last thing its call did before taking down.
HelpersInPlace(c) ==
    LET r == call[c] IN
    /\ r.watcher \in {"run", "closing"} => r.pc \in BeforeJoin
    /\ r.timer = "armed" => r.pc \in BeforeJoin
    /\ r.timer = "closing" => r.pc \in BeforeJoin \cup {"disarm"}
    /\ r.watcher = "unstarted" =>
          r.pc \in {"stop", "join", "returned"} /\ ~r.active /\ r.timer = "none"
    /\ r.timer = "unstarted" =>
          r.pc \in {"stop", "join", "disarm", "returned"} /\ ~r.active
    /\ r.active => r.pc \in Holding
    /\ r.pc \in {"idle", "watch"} => r.watcher = "none"
    /\ r.pc \in {"idle", "watch", "arm"} => r.timer = "none"

\* Why a response was closed, and what a cut body can become.  Both reasons
\* stay true for the rest of the call, so the last check sees them.
CutIsExplained(c) ==
    LET r == call[c] IN
    /\ r.closed => r.cancel \/ (client = "model" /\ r.late)
    /\ r.watcher = "closing" => r.cancel
    /\ r.timer = "closing" => r.late
    /\ r.timer # "none" => client = "model"
    /\ r.body = "cut" /\ r.pc \in Holding => r.closed
    /\ r.pc = "drained" => r.body \in {"whole", "cut"}
    /\ r.result # "none" => r.pc \in {"stop", "join", "disarm", "release", "returned"}
    /\ r.result = "content" => r.body = "whole"

\* None of the parts is inductive alone: a helper is gone when the call
\* returns only because the finally block joins what was started, and a permit is
\* counted only because a call with a helper that could not be started has come
\* to its finally block, which will not release.
ClientInv ==
    /\ ClientTypeOK
    /\ \A c \in Calls : HelpersInPlace(c) /\ CutIsExplained(c)
    /\ IsFiniteSet(Keeping)
    /\ PermitsAccounted

-----------------------------------------------------------------------------
(* Steps of one call                                                       *)

Opening(c) ==
    Enter(c) \/ StartWatcher(c) \/ ArmTimer(c) \/ Send(c)

Reading(c) ==
    CheckOpened(c) \/ ReadChunk(c) \/ ReadEnd(c) \/ FinishCall(c)

TakingDown(c) ==
    StopWatcher(c) \/ JoinWatcher(c) \/ JoinTimer(c) \/ GiveUpPermit(c) \/ Release(c)

Helping(c) ==
    WatcherPolls(c) \/ WatcherCloses(c) \/ TimerFires(c) \/ TimerCloses(c)

Around(c) ==
    Refuse(c) \/ Busy(c) \/ Cancel(c) \/ DeadlinePasses(c) \/ CallAgain(c)

\* A step of call c writes the record of no other call.
OthersKept(c) == \A d \in Calls \ {c} : call'[d] = call[d]

\* The assignments of the steps, on the record of one call.
LEMMA RecordStays ==
    ASSUME NEW r \in CallRecord
    PROVE  /\ [r EXCEPT !.cancel = TRUE] \in CallRecord
           /\ [r EXCEPT !.late = TRUE] \in CallRecord
           /\ \A e \in Results : [r EXCEPT !.pc = "returned", !.result = e] \in CallRecord
           /\ [r EXCEPT !.watcher = "ended", !.closed = TRUE] \in CallRecord
           /\ [r EXCEPT !.timer = "ended", !.closed = TRUE] \in CallRecord
           /\ [r EXCEPT !.pc = "disarm"] \in CallRecord
           /\ [r EXCEPT !.pc = "disarm", !.timer = "ended"] \in CallRecord
<1>1. [r EXCEPT !.cancel = TRUE] \in CallRecord
  BY DEF CallRecord, Results
<1>2. [r EXCEPT !.late = TRUE] \in CallRecord
  BY DEF CallRecord, Results
<1>3. \A e \in Results : [r EXCEPT !.pc = "returned", !.result = e] \in CallRecord
  BY DEF CallRecord, Results
<1>4. [r EXCEPT !.watcher = "ended", !.closed = TRUE] \in CallRecord
  BY DEF CallRecord, Results
<1>5. [r EXCEPT !.timer = "ended", !.closed = TRUE] \in CallRecord
  BY DEF CallRecord, Results
<1>6. [r EXCEPT !.pc = "disarm"] \in CallRecord
  BY DEF CallRecord, Results
<1>7. [r EXCEPT !.pc = "disarm", !.timer = "ended"] \in CallRecord
  BY DEF CallRecord, Results
<1>8. QED
  BY <1>1, <1>2, <1>3, <1>4, <1>5, <1>6, <1>7

\* The record of call c is replaced, and those of the others are not.
LEMMA RecordReplaced ==
    ASSUME NEW c \in Calls, call \in [Calls -> CallRecord], NEW r \in CallRecord,
           call' = [call EXCEPT ![c] = r]
    PROVE  call' \in [Calls -> CallRecord] /\ OthersKept(c)
BY Zenon DEF OthersKept

\* What is left of a call that returns.
LEMMA ReturnedIs ==
    ASSUME NEW c \in Calls, call \in [Calls -> CallRecord], NEW answer \in Results
    PROVE  /\ Returned(c, answer) \in CallRecord
           /\ Returned(c, answer).pc = "returned"
           /\ Returned(c, answer).result = answer
           /\ Returned(c, answer).body = IF answer = "content" THEN call[c].body ELSE "none"
           /\ Returned(c, answer).active = call[c].active
           /\ Returned(c, answer).watcher = call[c].watcher
           /\ Returned(c, answer).timer = call[c].timer
           /\ ~Returned(c, answer).closed
BY DEF Returned, Idle, CallRecord, Results

\* From the semaphore to the request on its way.
LEMMA OpeningTypes ==
    ASSUME NEW c \in Calls, ClientTypeOK, Opening(c)
    PROVE  ClientTypeOK' /\ OthersKept(c)
<1> USE DEF ClientTypeOK
<1>1. CASE Enter(c)
  BY <1>1 DEF Enter, CallRecord, Results, OthersKept
<1>2. CASE StartWatcher(c)
  BY <1>2 DEF StartWatcher, CallRecord, Results, OthersKept
<1>3. CASE ArmTimer(c)
  BY <1>3 DEF ArmTimer, StartTimer, CallRecord, Results, OthersKept
<1>4. CASE Send(c)
  BY <1>4 DEF Send, ErrorOf, CallRecord, Results, OthersKept
<1>5. QED
  BY <1>1, <1>2, <1>3, <1>4 DEF Opening

LEMMA OpeningKeeps ==
    ASSUME NEW c \in Calls, ClientTypeOK, Opening(c),
           HelpersInPlace(c), CutIsExplained(c)
    PROVE  HelpersInPlace(c)' /\ CutIsExplained(c)'
<1> USE DEF ClientTypeOK, CallRecord, HelpersInPlace, CutIsExplained, BeforeJoin
<1>1. CASE Enter(c)
  BY <1>1 DEF Enter
<1>2. CASE StartWatcher(c)
  BY <1>2 DEF StartWatcher
<1>3. CASE ArmTimer(c)
  BY <1>3 DEF ArmTimer, StartTimer
<1>4. CASE Send(c)
  BY <1>4 DEF Send, ErrorOf
<1>5. QED
  BY <1>1, <1>2, <1>3, <1>4 DEF Opening

\* From the response to the checks after its last chunk.
LEMMA ReadingTypes ==
    ASSUME NEW c \in Calls, ClientTypeOK, Reading(c)
    PROVE  ClientTypeOK' /\ OthersKept(c)
<1> USE DEF ClientTypeOK
<1>1. CASE CheckOpened(c)
  BY <1>1 DEF CheckOpened, Checked, CallRecord, Results,
    OthersKept
<1>2. CASE ReadChunk(c)
  BY <1>2 DEF ReadChunk, Checked, CallRecord, Results,
    OthersKept
<1>3. CASE ReadEnd(c)
  BY <1>3 DEF ReadEnd, ErrorOf, CallRecord, Results,
    OthersKept
<1>4. CASE FinishCall(c)
  BY <1>4 DEF FinishCall, Checked, CallRecord, Results, OthersKept
<1>5. QED
  BY <1>1, <1>2, <1>3, <1>4 DEF Reading

LEMMA ReadingKeeps ==
    ASSUME NEW c \in Calls, ClientTypeOK, Reading(c),
           HelpersInPlace(c), CutIsExplained(c)
    PROVE  HelpersInPlace(c)' /\ CutIsExplained(c)'
<1> USE DEF ClientTypeOK, CallRecord, HelpersInPlace, CutIsExplained, BeforeJoin
<1>1. CASE CheckOpened(c)
  BY <1>1 DEF CheckOpened, Checked
<1>2. CASE ReadChunk(c)
  BY <1>2 DEF ReadChunk, Checked
<1>3. CASE ReadEnd(c)
  BY <1>3 DEF ReadEnd, ErrorOf
<1>4. CASE FinishCall(c)
  BY <1>4 DEF FinishCall, Checked
<1>5. QED
  BY <1>1, <1>2, <1>3, <1>4 DEF Reading

\* The finally block.
LEMMA TakingDownTypes ==
    ASSUME NEW c \in Calls, ClientTypeOK, TakingDown(c)
    PROVE  ClientTypeOK' /\ OthersKept(c)
<1> USE DEF ClientTypeOK
<1>1. CASE StopWatcher(c)
  BY <1>1 DEF StopWatcher, CallRecord, Results, OthersKept
<1>2. CASE JoinWatcher(c)
  <2> DEFINE r == IF call[c].timer = "armed"
                  THEN [call[c] EXCEPT !.pc = "disarm", !.timer = "ended"]
                  ELSE [call[c] EXCEPT !.pc = "disarm"]
  <2>1. call' = [call EXCEPT ![c] = r]
    BY <1>2 DEF JoinWatcher, CallRecord
  <2>2. r \in CallRecord
    BY RecordStays
  <2>3. client' \in {"model", "retrieval"} /\ free' \in Nat /\ unstarted' \in Nat
    BY <1>2 DEF JoinWatcher
  <2> HIDE DEF r
  <2>4. QED
    BY <2>1, <2>2, <2>3, RecordReplaced
<1>3. CASE JoinTimer(c)
  BY <1>3 DEF JoinTimer, CallRecord, Results, OthersKept
<1>4. CASE GiveUpPermit(c)
  <2>1. call' = [call EXCEPT ![c] = Returned(c, "failed")]
    BY <1>4 DEF GiveUpPermit
  <2>2. Returned(c, "failed") \in CallRecord
    BY ReturnedIs DEF Results
  <2>3. client' \in {"model", "retrieval"} /\ free' \in Nat /\ unstarted' \in Nat
    BY <1>4 DEF GiveUpPermit
  <2>4. QED
    BY <2>1, <2>2, <2>3, RecordReplaced
<1>5. CASE Release(c)
  <2> DEFINE r == [Returned(c, call[c].result) EXCEPT !.active = FALSE]
  <2>1. call' = [call EXCEPT ![c] = r]
    BY <1>5 DEF Release
  <2>2. r \in CallRecord
    <3>1. PICK left \in CallRecord : left = Returned(c, call[c].result)
      BY ReturnedIs DEF CallRecord
    <3>2. [left EXCEPT !.active = FALSE] \in CallRecord
      BY DEF CallRecord
    <3>3. QED
      BY <3>1, <3>2
  <2>3. client' \in {"model", "retrieval"} /\ free' \in Nat /\ unstarted' \in Nat
    BY <1>5 DEF Release
  <2> HIDE DEF r
  <2>4. QED
    BY <2>1, <2>2, <2>3, RecordReplaced
<1>6. QED
  BY <1>1, <1>2, <1>3, <1>4, <1>5 DEF TakingDown

LEMMA TakingDownKeeps ==
    ASSUME NEW c \in Calls, ClientTypeOK, TakingDown(c),
           HelpersInPlace(c), CutIsExplained(c)
    PROVE  HelpersInPlace(c)' /\ CutIsExplained(c)'
<1> USE DEF ClientTypeOK, CallRecord, HelpersInPlace, CutIsExplained, BeforeJoin
<1>1. CASE StopWatcher(c)
  BY <1>1 DEF StopWatcher
<1>2. CASE JoinWatcher(c)
  BY <1>2 DEF JoinWatcher
<1>3. CASE JoinTimer(c)
  BY <1>3 DEF JoinTimer
<1>4. CASE GiveUpPermit(c)
  <2>1. call'[c] = Returned(c, "failed")
    BY <1>4 DEF GiveUpPermit
  <2>2. client' = client /\ "failed" \in Results
    BY <1>4 DEF GiveUpPermit, Results
  <2>3. ~call[c].active
    BY <1>4 DEF GiveUpPermit
  <2>4. QED
    BY <1>4, <2>1, <2>2, <2>3, ReturnedIs DEF GiveUpPermit
<1>5. CASE Release(c)
  <2>1. call'[c] = [Returned(c, call[c].result) EXCEPT !.active = FALSE]
    BY <1>5 DEF Release
  <2>2. client' = client /\ call[c].result \in Results
    BY <1>5 DEF Release
  <2>3. Returned(c, call[c].result) \in CallRecord
    BY <2>2, ReturnedIs
  <2>4. QED
    BY <1>5, <2>1, <2>2, <2>3, ReturnedIs DEF Release
<1>6. QED
  BY <1>1, <1>2, <1>3, <1>4, <1>5 DEF TakingDown

\* The watcher and the timer.
LEMMA HelpingTypes ==
    ASSUME NEW c \in Calls, ClientTypeOK, Helping(c)
    PROVE  ClientTypeOK' /\ OthersKept(c)
<1> USE DEF ClientTypeOK
<1>1. CASE WatcherPolls(c)
  BY <1>1 DEF WatcherPolls, CallRecord, Results, OthersKept
<1>2. CASE WatcherCloses(c)
  <2>1. call' = [call EXCEPT ![c] =
                      [call[c] EXCEPT !.watcher = "ended", !.closed = TRUE]]
    BY <1>2 DEF WatcherCloses
  <2>2. [call[c] EXCEPT !.watcher = "ended", !.closed = TRUE] \in CallRecord
    BY RecordStays DEF Results
  <2>3. client' \in {"model", "retrieval"} /\ free' \in Nat /\ unstarted' \in Nat
    BY <1>2 DEF WatcherCloses
  <2>4. QED
    BY <2>1, <2>2, <2>3, RecordReplaced
<1>3. CASE TimerFires(c)
  BY <1>3 DEF TimerFires, CallRecord, Results, OthersKept
<1>4. CASE TimerCloses(c)
  <2>1. call' = [call EXCEPT ![c] =
                      [call[c] EXCEPT !.timer = "ended", !.closed = TRUE]]
    BY <1>4 DEF TimerCloses
  <2>2. [call[c] EXCEPT !.timer = "ended", !.closed = TRUE] \in CallRecord
    BY RecordStays DEF Results
  <2>3. client' \in {"model", "retrieval"} /\ free' \in Nat /\ unstarted' \in Nat
    BY <1>4 DEF TimerCloses
  <2>4. QED
    BY <2>1, <2>2, <2>3, RecordReplaced
<1>5. QED
  BY <1>1, <1>2, <1>3, <1>4 DEF Helping

LEMMA HelpingKeeps ==
    ASSUME NEW c \in Calls, ClientTypeOK, Helping(c),
           HelpersInPlace(c), CutIsExplained(c)
    PROVE  HelpersInPlace(c)' /\ CutIsExplained(c)'
<1> USE DEF ClientTypeOK, CallRecord, HelpersInPlace, CutIsExplained, BeforeJoin
<1>1. CASE WatcherPolls(c)
  BY <1>1 DEF WatcherPolls
<1>2. CASE WatcherCloses(c)
  BY <1>2 DEF WatcherCloses
<1>3. CASE TimerFires(c)
  BY <1>3 DEF TimerFires
<1>4. CASE TimerCloses(c)
  BY <1>4 DEF TimerCloses
<1>5. QED
  BY <1>1, <1>2, <1>3, <1>4 DEF Helping

\* The surroundings of a call, and calls that end before they begin.
LEMMA AroundTypes ==
    ASSUME NEW c \in Calls, ClientTypeOK, Around(c)
    PROVE  ClientTypeOK' /\ OthersKept(c)
<1> USE DEF ClientTypeOK
<1>1. CASE Refuse(c)
  <2>1. PICK e \in Results :
           call' = [call EXCEPT ![c] = [call[c] EXCEPT !.pc = "returned", !.result = e]]
    BY <1>1 DEF Refuse, Results
  <2>2. [call[c] EXCEPT !.pc = "returned", !.result = e] \in CallRecord
    BY RecordStays
  <2>3. client' \in {"model", "retrieval"} /\ free' \in Nat /\ unstarted' \in Nat
    BY <1>1 DEF Refuse
  <2>4. QED
    BY <2>1, <2>2, <2>3, RecordReplaced
<1>2. CASE Busy(c)
  <2>1. call' = [call EXCEPT ![c] =
                      [call[c] EXCEPT !.pc = "returned", !.result = "busy"]]
    BY <1>2 DEF Busy
  <2>2. [call[c] EXCEPT !.pc = "returned", !.result = "busy"] \in CallRecord
    BY RecordStays DEF Results
  <2>3. client' \in {"model", "retrieval"} /\ free' \in Nat /\ unstarted' \in Nat
    BY <1>2 DEF Busy
  <2>4. QED
    BY <2>1, <2>2, <2>3, RecordReplaced
<1>3. CASE Cancel(c)
  <2>1. call' = [call EXCEPT ![c] =
                      [call[c] EXCEPT !.cancel = TRUE]]
    BY <1>3 DEF Cancel
  <2>2. [call[c] EXCEPT !.cancel = TRUE] \in CallRecord
    BY RecordStays DEF Results
  <2>3. client' \in {"model", "retrieval"} /\ free' \in Nat /\ unstarted' \in Nat
    BY <1>3 DEF Cancel
  <2>4. QED
    BY <2>1, <2>2, <2>3, RecordReplaced
<1>4. CASE DeadlinePasses(c)
  <2>1. call' = [call EXCEPT ![c] =
                      [call[c] EXCEPT !.late = TRUE]]
    BY <1>4 DEF DeadlinePasses
  <2>2. [call[c] EXCEPT !.late = TRUE] \in CallRecord
    BY RecordStays DEF Results
  <2>3. client' \in {"model", "retrieval"} /\ free' \in Nat /\ unstarted' \in Nat
    BY <1>4 DEF DeadlinePasses
  <2>4. QED
    BY <2>1, <2>2, <2>3, RecordReplaced
<1>5. CASE CallAgain(c)
  BY <1>5 DEF CallAgain, Idle, CallRecord, Results, OthersKept
<1>6. QED
  BY <1>1, <1>2, <1>3, <1>4, <1>5 DEF Around

LEMMA AroundKeeps ==
    ASSUME NEW c \in Calls, ClientTypeOK, Around(c),
           HelpersInPlace(c), CutIsExplained(c)
    PROVE  HelpersInPlace(c)' /\ CutIsExplained(c)'
<1> USE DEF ClientTypeOK, CallRecord, HelpersInPlace, CutIsExplained, BeforeJoin
<1>1. CASE Refuse(c)
  BY <1>1 DEF Refuse
<1>2. CASE Busy(c)
  BY <1>2 DEF Busy
<1>3. CASE Cancel(c)
  BY <1>3 DEF Cancel
<1>4. CASE DeadlinePasses(c)
  BY <1>4 DEF DeadlinePasses
<1>5. CASE CallAgain(c)
  BY <1>5 DEF CallAgain, Idle
<1>6. QED
  BY <1>1, <1>2, <1>3, <1>4, <1>5 DEF Around

-----------------------------------------------------------------------------
(* The permits                                                             *)

Step(c) == Opening(c) \/ Reading(c) \/ TakingDown(c) \/ Helping(c) \/ Around(c)

\* A call takes its permit at one place, and gives it back at one or loses it with
\* a helper that cannot be started.
LEMMA PermitMoves ==
    ASSUME NEW c \in Calls, ClientTypeOK, OthersKept(c), HelpersInPlace(c), Step(c)
    PROVE  \/ /\ c \notin Keeping /\ Keeping' = Keeping \cup {c}
              /\ free' = free - 1 /\ unstarted' = unstarted
           \/ /\ c \in Keeping /\ Keeping' = Keeping \ {c}
              /\ \/ free' = free + 1 /\ unstarted' = unstarted
                 \/ free' = free /\ unstarted' = unstarted + 1
           \/ Keeping' = Keeping /\ free' = free /\ unstarted' = unstarted
<1> USE DEF ClientTypeOK, CallRecord
<1> DEFINE Moves ==
       \/ /\ c \notin Keeping /\ c \in Keeping'
          /\ free' = free - 1 /\ unstarted' = unstarted
       \/ /\ c \in Keeping /\ c \notin Keeping'
          /\ \/ free' = free + 1 /\ unstarted' = unstarted
             \/ free' = free /\ unstarted' = unstarted + 1
       \/ /\ c \in Keeping <=> c \in Keeping'
          /\ free' = free /\ unstarted' = unstarted
<1>0. /\ \A d \in Calls \ {c} : d \in Keeping <=> d \in Keeping'
      /\ Keeping \subseteq Calls /\ Keeping' \subseteq Calls
  BY DEF OthersKept, Keeping
<1>1. /\ c \in Keeping <=> /\ call[c].pc \in Holding
                           /\ call[c].watcher # "unstarted"
                           /\ call[c].timer # "unstarted"
      /\ c \in Keeping' <=> /\ call'[c].pc \in Holding
                            /\ call'[c].watcher # "unstarted"
                            /\ call'[c].timer # "unstarted"
  BY DEF Keeping
<1>2. Moves
  <2>1. CASE Enter(c)
    BY <1>1, <2>1 DEF Enter, HelpersInPlace
  <2>2. CASE StartWatcher(c)
    BY <1>1, <2>2 DEF StartWatcher, HelpersInPlace
  <2>3. CASE ArmTimer(c)
    BY <1>1, <2>3 DEF ArmTimer, StartTimer, HelpersInPlace
  <2>4. CASE Send(c) \/ Reading(c)
    BY <1>1, <2>4 DEF Send, Reading, CheckOpened, Checked, ReadChunk, ReadEnd, ErrorOf,
                      FinishCall
  <2>5. CASE StopWatcher(c) \/ JoinWatcher(c) \/ JoinTimer(c)
    BY <1>1, <2>5 DEF StopWatcher, JoinWatcher, JoinTimer
  <2>6. CASE GiveUpPermit(c)
    <3>1. call'[c].pc = "returned"
      BY <2>6, ReturnedIs DEF GiveUpPermit, Results
    <3>2. QED
      BY <1>1, <2>6, <3>1 DEF GiveUpPermit
  <2>7. CASE Release(c)
    <3>1. call[c].result \in Results /\ Returned(c, call[c].result) \in CallRecord
      BY ReturnedIs
    <3>2. call'[c].pc = "returned"
      BY <2>7, <3>1, ReturnedIs DEF Release
    <3>3. QED
      BY <1>1, <2>7, <3>2 DEF Release, HelpersInPlace
  <2>8. CASE Helping(c)
    BY <1>1, <2>8 DEF Helping, WatcherPolls, WatcherCloses, TimerFires, TimerCloses
  <2>9. CASE Around(c)
    BY <1>1, <2>9 DEF Around, Refuse, Busy, Cancel, DeadlinePasses, CallAgain, Idle
  <2>10. QED
    BY <2>1, <2>2, <2>3, <2>4, <2>5, <2>6, <2>7, <2>8, <2>9 DEF Step, Opening, TakingDown
<1>3. c \notin Keeping /\ c \in Keeping' => Keeping' = Keeping \cup {c}
  BY <1>0
<1>4. c \in Keeping /\ c \notin Keeping' => Keeping' = Keeping \ {c}
  BY <1>0
<1>5. (c \in Keeping <=> c \in Keeping') => Keeping' = Keeping
  <2> SUFFICES ASSUME c \in Keeping <=> c \in Keeping' PROVE Keeping' = Keeping
    OBVIOUS
  <2>1. \A d \in Calls : d \in Keeping <=> d \in Keeping'
    BY <1>0
  <2>2. QED
    BY <1>0, <2>1
<1>6. QED
  BY <1>2, <1>3, <1>4, <1>5

-----------------------------------------------------------------------------
(* The invariant                                                           *)

\* No call has begun, and every permit is free.
LEMMA ClientInitEstablishes == CallInit => ClientInv
<1> SUFFICES ASSUME CallInit PROVE ClientInv
  OBVIOUS
<1>1. CallInit
  OBVIOUS
<1>2. ClientTypeOK
  BY <1>1, CapacityAssumption
     DEF CallInit, Idle, ClientTypeOK, CallRecord, Results
<1>3. \A c \in Calls : HelpersInPlace(c) /\ CutIsExplained(c)
  BY <1>1 DEF CallInit, Idle, HelpersInPlace, CutIsExplained, BeforeJoin
<1>4. Keeping = {}
  BY <1>1 DEF CallInit, Idle, Keeping
<1>5. IsFiniteSet(Keeping) /\ PermitsAccounted
  BY <1>1, <1>4, FS_EmptySet, CapacityAssumption DEF CallInit, PermitsAccounted
<1>6. QED
  BY <1>2, <1>3, <1>5 DEF ClientInv

\* A step of one call keeps the invariant.
LEMMA CallStepPreserves ==
    ASSUME ClientInv, NEW c \in Calls, Step(c)
    PROVE  ClientInv'
<1>1. ClientTypeOK /\ HelpersInPlace(c) /\ CutIsExplained(c)
  BY DEF ClientInv
<1>2. ClientTypeOK' /\ OthersKept(c)
  BY <1>1, OpeningTypes, ReadingTypes, TakingDownTypes, HelpingTypes, AroundTypes DEF Step
<1>3. HelpersInPlace(c)' /\ CutIsExplained(c)'
  BY <1>1, OpeningKeeps, ReadingKeeps, TakingDownKeeps, HelpingKeeps, AroundKeeps DEF Step
<1>4. client' = client
  BY DEF Step, Opening, Reading, TakingDown, Helping, Around, Enter,
         StartWatcher, ArmTimer, StartTimer, Send, ErrorOf,
         CheckOpened, Checked, ReadChunk,
         ReadEnd, FinishCall, StopWatcher,
         JoinWatcher, JoinTimer, GiveUpPermit,
         Release, WatcherPolls, WatcherCloses,
         TimerFires, TimerCloses, Refuse, Busy,
         Cancel, DeadlinePasses, CallAgain, Idle, Returned
<1>5. \A d \in Calls \ {c} : HelpersInPlace(d)' /\ CutIsExplained(d)'
  BY <1>2, <1>4 DEF ClientInv, OthersKept, HelpersInPlace, CutIsExplained
<1>6. IsFiniteSet(Keeping)' /\ PermitsAccounted'
  <2>1. /\ IsFiniteSet(Keeping) /\ Cardinality(Keeping) \in Nat
        /\ free + unstarted + Cardinality(Keeping) = Capacity
    BY FS_CardinalityType DEF ClientInv, PermitsAccounted
  <2>2. IsFiniteSet(Keeping') /\ free' + unstarted' + Cardinality(Keeping') = Capacity
    <3>1. CASE /\ c \notin Keeping /\ Keeping' = Keeping \cup {c}
               /\ free' = free - 1 /\ unstarted' = unstarted
      BY <1>1, <2>1, <3>1, FS_AddElement, CapacityAssumption DEF ClientTypeOK
    <3>2. CASE /\ c \in Keeping /\ Keeping' = Keeping \ {c}
               /\ \/ free' = free + 1 /\ unstarted' = unstarted
                  \/ free' = free /\ unstarted' = unstarted + 1
      <4> DEFINE before == Cardinality(Keeping)
                 after == Cardinality(Keeping')
      <4>1. IsFiniteSet(Keeping') /\ after = before - 1
        BY <2>1, <3>2, FS_RemoveElement
      <4>2. free \in Nat /\ unstarted \in Nat /\ free' \in Nat /\ unstarted' \in Nat
        BY <1>1, <1>2 DEF ClientTypeOK
      <4>3. before \in Nat /\ free + unstarted + before = Capacity
        BY <2>1
      <4> HIDE DEF before, after
      <4>4. after = before - 1
        BY <4>1
      <4>5. free' = free + 1 /\ unstarted' = unstarted => free' + unstarted' + after = Capacity
        BY <4>2, <4>3, <4>4
      <4>6. free' = free /\ unstarted' = unstarted + 1 => free' + unstarted' + after = Capacity
        BY <4>2, <4>3, <4>4
      <4>7. free' + unstarted' + after = Capacity
        BY <3>2, <4>5, <4>6
      <4>8. QED
        BY <4>1, <4>7 DEF after
    <3>3. CASE Keeping' = Keeping /\ free' = free /\ unstarted' = unstarted
      BY <2>1, <3>3
    <3>4. QED
      BY <1>1, <1>2, <3>1, <3>2, <3>3, PermitMoves
  <2>3. QED
    BY <2>2 DEF PermitsAccounted
<1>7. QED
  BY <1>2, <1>3, <1>5, <1>6 DEF ClientInv

\* So does every step of the client.
LEMMA StepPreserves == ClientInv /\ [CallNext]_callVars => ClientInv'
<1> SUFFICES ASSUME ClientInv, [CallNext]_callVars PROVE ClientInv'
  OBVIOUS
<1>1. CASE UNCHANGED callVars
  BY <1>1 DEF callVars, ClientInv, ClientTypeOK, HelpersInPlace, CutIsExplained, Keeping,
              PermitsAccounted
<1>2. CASE CallNext
  <2>1. PICK c \in Calls : Step(c)
    BY <1>2 DEF CallNext, Caller, Helpers, Step, Opening, Reading, TakingDown, Helping, Around
  <2>2. QED
    BY <2>1, CallStepPreserves
<1>3. QED
  BY <1>1, <1>2

THEOREM ClientInvariant == CallSpec => []ClientInv
BY ClientInitEstablishes, StepPreserves, PTL DEF CallSpec

-----------------------------------------------------------------------------
(* The theorems                                                            *)

\* A permit is free or will be given back, but for one per helper that could not
\* be started.
THEOREM PermitsAreAccountedFor == CallSpec => []PermitsAccounted
<1>1. ClientInv => PermitsAccounted
  BY DEF ClientInv
<1>2. QED
  BY <1>1, ClientInvariant, PTL

\* No helper of a call that has returned runs or reaches a response.
THEOREM NothingIsLeftBehind == CallSpec => []NothingLeftBehind
<1>1. ClientInv => NothingLeftBehind
  BY DEF ClientInv, ClientTypeOK, CallRecord, HelpersInPlace, BeforeJoin,
         NothingLeftBehind
<1>2. QED
  BY <1>1, ClientInvariant, PTL

\* A body that a helper cut short never becomes an answer.
THEOREM CutBodyIsNoAnswer == CallSpec => []NoCutBody
<1>1. ClientInv => NoCutBody
  BY DEF ClientInv, CutIsExplained, NoCutBody
<1>2. QED
  BY <1>1, ClientInvariant, PTL
=============================================================================
