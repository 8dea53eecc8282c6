----------------------------- MODULE AskRequest -----------------------------
(***************************************************************************)
(* The resources of AI ask requests: each request's handler                *)
(* (fastapi/routers/ai_ask.py), its guard                                  *)
(* (services/ai_ask_request_guard.py), its worker and child process        *)
(* (services/ai_ask_worker.py), all sharing one admission controller.      *)
(* Which events the child sends and what the client is answered is left    *)
(* to AskStream.                                                           *)
(*                                                                         *)
(* The handlers of /ask/progress and /ask/stream ("stream") are coroutines *)
(* of one event loop: they interleave at their awaits, where the client's  *)
(* disconnect can also cancel them.  The handler of /ask ("json") runs in  *)
(* a thread of its own and cannot be cancelled.  Every start(), every      *)
(* cancel_and_stop() and every close() is a thread of its own too.         *)
(***************************************************************************)
EXTENDS Integers, Sequences, FiniteSets

CONSTANTS
    Request,        \* identities; one serves again once nothing is left of it
    MaxConcurrent, MaxQueued,   \* of the admission controller
    PoolSize,       \* _CLEANUP_MAX_WORKERS
    Isolation,      \* the values isolate_execution may have: a child, or a thread
    Kinds           \* bound: the mixes of endpoints that are called

\* The awaits of a handler, at any of which its scope may be cancelled.
Awaits == {"queued", "asking", "starting", "serving", "reaping"}

\* What the controller's __init__ makes sure of.
ASSUME ControllerAssumption == MaxConcurrent \in Nat \ {0} /\ MaxQueued \in Nat
ASSUME PoolSizeAssumption == PoolSize \in Nat \ {0}
ASSUME IsolationAssumption == Isolation \subseteq BOOLEAN
ASSUME KindsAssumption == Kinds \subseteq [Request -> {"stream", "json"}]

VARIABLES
    active, waiting, state,     \* the controller; one lease per request
    isolate,    \* settings.isolate_execution
    kind,       \* which endpoint was called
    pc,         \* where the handler is
    guard,      \* AIAskRequestGuard: _worker (is there one), _closed, _released
    starter,    \* the call of worker.start(); "started" is _started
    reaper,     \* the handler's own call of cancel_and_stop() or of
                \* join_after_completion(), which ends in it
    cleaner,    \* the call of guard.close()
    left,       \* history: requests cancelled with a thread inside start()
    deferred,   \* defer_release_until() has armed the done callback
    task,       \* the in-process worker thread
    proc        \* the child process

controller == <<active, waiting, state>>
fixed == <<isolate, kind>>
threads == <<starter, reaper, cleaner, left>>
vars == <<controller, fixed, pc, guard, threads, deferred, task, proc>>

Adm == INSTANCE AskAdmission WITH Lease <- Request

NewGuard == [worker |-> FALSE, closed |-> FALSE, released |-> FALSE]

Init ==
    /\ Adm!Init
    /\ isolate \in Isolation
    /\ kind \in Kinds
    /\ pc = [r \in Request |-> "new"]
    /\ guard = [r \in Request |-> NewGuard]
    /\ starter = [r \in Request |-> "none"]
    /\ reaper = [r \in Request |-> "none"]
    /\ cleaner = [r \in Request |-> "none"]
    /\ left = {}
    /\ deferred = [r \in Request |-> FALSE]
    /\ task = [r \in Request |-> "none"]
    /\ proc = [r \in Request |-> "none"]

Goto(r, from, to) == pc[r] = from /\ pc' = [pc EXCEPT ![r] = to]

-----------------------------------------------------------------------------
(* Admission: reserve() and _wait_for_admission(), or acquire()            *)

Arrive(r) ==
    /\ Goto(r, "new", "queued")
    /\ Adm!ReserveActive(r) \/ Adm!ReserveQueued(r)
    /\ UNCHANGED <<fixed, guard, threads, deferred, task, proc>>

\* reserve() answered None: a busy response, and no guard to close.
ArriveRefused(r) ==
    /\ Goto(r, "new", "busy")
    /\ Adm!Refused
    /\ UNCHANGED <<controller, fixed, guard, threads, deferred, task, proc>>

\* The lease was seen active.  A coroutine hands start() to an executor, whose
\* thread may be a while in coming; the json handler calls it itself.
BeginIsolated(r) ==
    /\ isolate
    /\ Goto(r, "queued", "starting")
    /\ state[r] = "active"
    /\ guard' = [guard EXCEPT ![r].worker = TRUE]
    /\ starter' = [starter EXCEPT ![r] =
                     IF kind[r] = "stream" THEN "pending" ELSE "spawning"]
    /\ UNCHANGED <<controller, fixed, reaper, cleaner, left, deferred, task, proc>>

BeginInProcess(r) ==
    /\ ~isolate
    /\ Goto(r, "queued", "serving")
    /\ state[r] = "active"
    /\ task' = [task EXCEPT ![r] = "running"]
    /\ UNCHANGED <<controller, fixed, guard, threads, deferred, proc>>

\* The lease was seen queued; by the time the handler acts on that, it may
\* have been handed a slot.
SeeQueued(r) ==
    /\ Goto(r, "queued", "asking")
    /\ state[r] # "active"
    /\ UNCHANGED <<controller, fixed, guard, threads, deferred, task, proc>>

KeepWaiting(r) ==
    /\ Goto(r, "asking", "queued")
    /\ kind[r] = "stream"
    /\ UNCHANGED <<controller, fixed, guard, threads, deferred, task, proc>>

\* Disconnected, or past the deadline of the wait.
GiveUp(r) ==
    /\ Goto(r, "asking", "finally")
    /\ kind[r] = "stream"
    /\ Adm!Release(r)
    /\ UNCHANGED <<fixed, guard, threads, deferred, task, proc>>

\* Fault: acquire() answers None and leaves its lease in the queue.
WaitExpiresQueued(r) ==
    /\ Goto(r, "asking", "busy")
    /\ kind[r] = "json"
    /\ UNCHANGED <<controller, fixed, guard, threads, deferred, task, proc>>

\* acquire() has waited its time and found the lease queued; no guard is made.
WaitExpires(r) ==
    /\ Goto(r, "asking", "busy")
    /\ kind[r] = "json"
    /\ Adm!Release(r)
    /\ UNCHANGED <<fixed, guard, threads, deferred, task, proc>>

-----------------------------------------------------------------------------
(* AIAskProcessWorker.start(), in a thread                                 *)

StartPicked(r) ==
    /\ starter[r] = "pending"
    /\ starter' = [starter EXCEPT ![r] = "spawning"]
    /\ UNCHANGED <<controller, fixed, pc, guard, reaper, cleaner, left, deferred,
                   task, proc>>

SpawnFails(r) ==
    /\ starter[r] = "spawning"
    /\ starter' = [starter EXCEPT ![r] = "failed"]
    /\ UNCHANGED <<controller, fixed, pc, guard, reaper, cleaner, left, deferred,
                   task, proc>>

\* process.start() ...
Spawn(r) ==
    /\ starter[r] = "spawning"
    /\ starter' = [starter EXCEPT ![r] = "spawned"]
    /\ proc' = [proc EXCEPT ![r] = "running"]
    /\ UNCHANGED <<controller, fixed, pc, guard, reaper, cleaner, left, deferred,
                   task>>

\* ... and only then _started = True.
FlagStarted(r) ==
    /\ starter[r] = "spawned"
    /\ starter' = [starter EXCEPT ![r] = "started"]
    /\ UNCHANGED <<controller, fixed, pc, guard, reaper, cleaner, left, deferred,
                   task, proc>>

ResumeStarted(r) ==
    /\ Goto(r, "starting", "serving")
    /\ starter[r] = "started"
    /\ UNCHANGED <<controller, fixed, guard, threads, deferred, task, proc>>

ResumeFailed(r) ==
    /\ Goto(r, "starting", "finally")
    /\ starter[r] = "failed"
    /\ UNCHANGED <<controller, fixed, guard, threads, deferred, task, proc>>

-----------------------------------------------------------------------------
(* Serving: the message loop, until the request is over                    *)

\* __end__ was received, or the child has timed out: have it stopped.
StopChild(r) ==
    /\ isolate
    /\ Goto(r, "serving", "reaping")
    /\ reaper' = [reaper EXCEPT ![r] = "running"]
    /\ UNCHANGED <<controller, fixed, guard, starter, cleaner, left, deferred, task,
                   proc>>

\* terminate() and kill() end a running child, within their time limits; a
\* child the system cannot kill yet is left behind.
AfterKill(p) == IF p = "running" THEN "exited" ELSE p

Reap(r) ==
    /\ reaper[r] = "running"
    /\ proc' = [proc EXCEPT ![r] = AfterKill(@)]
    /\ reaper' = [reaper EXCEPT ![r] =
                    IF proc[r] = "stuck" THEN "failed" ELSE "done"]
    /\ UNCHANGED <<controller, fixed, pc, guard, starter, cleaner, left, deferred,
                   task>>

\* detach_worker() after a stop that succeeded.
ResumeReaped(r) ==
    /\ Goto(r, "reaping", "finally")
    /\ reaper[r] \in {"done", "failed"}
    /\ guard' = [guard EXCEPT ![r].worker = reaper[r] = "failed"]
    /\ UNCHANGED <<controller, fixed, threads, deferred, task, proc>>

\* The child exited and left no message.
SeeDead(r) ==
    /\ Goto(r, "serving", "finally")
    /\ proc[r] = "exited"
    /\ UNCHANGED <<controller, fixed, guard, threads, deferred, task, proc>>

\* The in-process worker is done.
SeeTaskDone(r) ==
    /\ Goto(r, "serving", "finally")
    /\ task[r] = "done"
    /\ UNCHANGED <<controller, fixed, guard, threads, deferred, task, proc>>

\* request.is_disconnected() at the top of the loop.
SeeDisconnect(r) ==
    /\ Goto(r, "serving", "finally")
    /\ kind[r] = "stream"
    /\ UNCHANGED <<controller, fixed, guard, threads, deferred, task, proc>>

\* The disconnect cancels the response's scope: the await raises, while a
\* thread it waits for goes on; only a start() no thread has taken is dropped.
Cancel(r) ==
    /\ kind[r] = "stream"
    /\ pc[r] \in Awaits
    /\ pc' = [pc EXCEPT ![r] = "finally"]
    /\ starter' = [starter EXCEPT ![r] = IF @ = "pending" THEN "dropped" ELSE @]
    /\ left' = IF starter[r] \in {"spawning", "spawned"} THEN left \cup {r} ELSE left
    /\ UNCHANGED <<controller, fixed, guard, reaper, cleaner, deferred, task, proc>>

-----------------------------------------------------------------------------
(* The finally blocks and the guard                                        *)

\* lease.release(), unless release_once() was called before.
ReleaseOnce(r) ==
    IF guard[r].released THEN UNCHANGED controller ELSE Adm!Release(r)

\* Fault: the slot is given back although the worker thread goes on.
DeferReleases(r) ==
    /\ kind[r] = "stream"
    /\ Goto(r, "finally", "done")
    /\ task[r] = "running"
    /\ ReleaseOnce(r)
    /\ guard' = [guard EXCEPT ![r].closed = TRUE, ![r].released = TRUE]
    /\ UNCHANGED <<fixed, threads, deferred, task, proc>>

\* An in-process worker cannot be stopped: its slot is its own until it ends.
Defer(r) ==
    /\ kind[r] = "stream"
    /\ Goto(r, "finally", "done")
    /\ task[r] = "running"
    /\ deferred' = [deferred EXCEPT ![r] = TRUE]
    /\ UNCHANGED <<controller, fixed, guard, threads, task, proc>>

\* begin_cleanup() with a worker: close() goes to the cleanup pool.
CleanupInPool(r) ==
    /\ kind[r] = "stream"
    /\ Goto(r, "finally", "done")
    /\ task[r] # "running"
    /\ guard[r].worker /\ ~guard[r].closed
    /\ cleaner' = [cleaner EXCEPT ![r] = "pool"]
    /\ UNCHANGED <<controller, fixed, guard, starter, reaper, left, deferred, task,
                   proc>>

\* begin_cleanup() without: close() has nothing to stop and runs here.
CleanupInline(r) ==
    /\ kind[r] = "stream"
    /\ Goto(r, "finally", "done")
    /\ task[r] # "running"
    /\ ~guard[r].worker /\ ~guard[r].closed
    /\ ReleaseOnce(r)
    /\ guard' = [guard EXCEPT ![r].closed = TRUE, ![r].released = TRUE]
    /\ UNCHANGED <<fixed, threads, deferred, task, proc>>

\* close() sets _closed and takes the worker from the guard.
EnterClose(r) ==
    /\ ~guard[r].closed
    /\ guard' = [guard EXCEPT ![r].closed = TRUE, ![r].worker = FALSE]
    /\ cleaner' = [cleaner EXCEPT ![r] =
                     IF guard[r].worker THEN "stopping" ELSE "releasing"]

\* The json handler closes before it answers.
CloseJson(r) ==
    /\ kind[r] = "json"
    /\ Goto(r, "finally", "closing")
    /\ EnterClose(r)
    /\ UNCHANGED <<controller, fixed, starter, reaper, left, deferred, task, proc>>

PoolThreads == {r \in Request : /\ kind[r] = "stream"
                                /\ cleaner[r] \in {"stopping", "releasing"}}

ClosePicked(r) ==
    /\ cleaner[r] = "pool"
    /\ Cardinality(PoolThreads) < PoolSize
    /\ EnterClose(r)
    /\ UNCHANGED <<controller, fixed, pc, starter, reaper, left, deferred, task, proc>>

\* cancel_and_stop(): a worker whose _started is not set has nothing to stop.
CloseStops(r) ==
    /\ cleaner[r] = "stopping"
    /\ proc' = [proc EXCEPT ![r] =
                  IF starter[r] = "started" THEN AfterKill(@) ELSE @]
    /\ cleaner' = [cleaner EXCEPT ![r] = "releasing"]
    /\ UNCHANGED <<controller, fixed, pc, guard, starter, reaper, left, deferred,
                   task>>

\* Fault: a stop that failed ends close() before its release.
CloseReleasesStopped(r) ==
    /\ cleaner[r] = "releasing"
    /\ IF proc[r] = "stuck"
       THEN UNCHANGED <<controller, guard>>
       ELSE /\ ReleaseOnce(r)
            /\ guard' = [guard EXCEPT ![r].released = TRUE]
    /\ cleaner' = [cleaner EXCEPT ![r] = "done"]
    /\ UNCHANGED <<fixed, pc, starter, reaper, left, deferred, task, proc>>

\* The lease is released whether or not the child could be stopped.
CloseReleases(r) ==
    /\ cleaner[r] = "releasing"
    /\ ReleaseOnce(r)
    /\ guard' = [guard EXCEPT ![r].released = TRUE]
    /\ cleaner' = [cleaner EXCEPT ![r] = "done"]
    /\ UNCHANGED <<fixed, pc, starter, reaper, left, deferred, task, proc>>

AnswerJson(r) ==
    /\ Goto(r, "closing", "done")
    /\ cleaner[r] = "done"
    /\ UNCHANGED <<controller, fixed, guard, threads, deferred, task, proc>>

-----------------------------------------------------------------------------
(* The child process, the in-process worker, and later requests            *)

\* The child ends by itself: done, crashed, or having seen its cancel event.
\* A child that could not be killed dies of the kill when it can.
ChildExits(r) ==
    /\ proc[r] \in {"running", "stuck"}
    /\ proc' = [proc EXCEPT ![r] = "exited"]
    /\ UNCHANGED <<controller, fixed, pc, guard, threads, deferred, task>>

\* The child is in a system call that no signal interrupts.
ChildHangs(r) ==
    /\ proc[r] = "running"
    /\ proc' = [proc EXCEPT ![r] = "stuck"]
    /\ UNCHANGED <<controller, fixed, pc, guard, threads, deferred, task>>

\* run_ask() returns; the done callback, if armed, releases the lease.
TaskEnds(r) ==
    /\ task[r] = "running"
    /\ task' = [task EXCEPT ![r] = "done"]
    /\ IF deferred[r]
       THEN /\ ReleaseOnce(r)
            /\ guard' = [guard EXCEPT ![r].released = TRUE]
       ELSE UNCHANGED <<controller, guard>>
    /\ UNCHANGED <<fixed, pc, threads, deferred, proc>>

\* Nothing will act on the request any more.
Over(r) ==
    /\ pc[r] \in {"busy", "done"}
    /\ starter[r] \notin {"pending", "spawning", "spawned"}
    /\ reaper[r] # "running"
    /\ cleaner[r] \in {"none", "done"}
    /\ task[r] # "running"

\* Another request comes and goes by the identity of one that is over, with a
\* new lease, guard and worker: arrivals do not end.
Renew(r) ==
    /\ Over(r)
    /\ proc[r] \notin {"running", "stuck"}
    /\ state[r] \in {"none", "released"}
    /\ pc' = [pc EXCEPT ![r] = "new"]
    /\ state' = [state EXCEPT ![r] = "none"]
    /\ guard' = [guard EXCEPT ![r] = NewGuard]
    /\ starter' = [starter EXCEPT ![r] = "none"]
    /\ reaper' = [reaper EXCEPT ![r] = "none"]
    /\ cleaner' = [cleaner EXCEPT ![r] = "none"]
    /\ left' = left \ {r}
    /\ deferred' = [deferred EXCEPT ![r] = FALSE]
    /\ task' = [task EXCEPT ![r] = "none"]
    /\ proc' = [proc EXCEPT ![r] = "none"]
    /\ UNCHANGED <<active, waiting, fixed>>

-----------------------------------------------------------------------------

\* What the handler does once it is admitted or has to leave.  Giving up and
\* seeing a disconnect are the client's doing and not owed.
Handler(r) ==
    \/ BeginIsolated(r) \/ BeginInProcess(r) \/ SeeQueued(r) \/ KeepWaiting(r)
    \/ WaitExpires(r)
    \/ ResumeStarted(r) \/ ResumeFailed(r)
    \/ StopChild(r) \/ ResumeReaped(r) \/ SeeDead(r) \/ SeeTaskDone(r)
    \/ Defer(r) \/ CleanupInPool(r) \/ CleanupInline(r)
    \/ CloseJson(r) \/ AnswerJson(r)

Starter(r) == StartPicked(r) \/ SpawnFails(r) \/ Spawn(r) \/ FlagStarted(r)

Cleaner(r) == ClosePicked(r) \/ CloseStops(r) \/ CloseReleases(r)

Environment(r) ==
    \/ Arrive(r) \/ ArriveRefused(r) \/ GiveUp(r) \/ SeeDisconnect(r)
    \/ Cancel(r) \/ ChildExits(r) \/ ChildHangs(r) \/ Renew(r)

Next ==
    \E r \in Request :
        \/ Handler(r) \/ Starter(r) \/ Reap(r) \/ Cleaner(r) \/ TaskEnds(r)
        \/ Environment(r)

Spec == Init /\ [][Next]_vars

\* Threads run, a coroutine that can go on does, the message loop is bounded by
\* the worker's deadline (has_timed_out) and the in-process worker by its own.
FairSpec ==
    /\ Spec
    /\ \A r \in Request :
          /\ WF_vars(Handler(r))
          /\ WF_vars(Starter(r))
          /\ WF_vars(Reap(r))
          /\ WF_vars(Cleaner(r))
          /\ WF_vars(TaskEnds(r))

-----------------------------------------------------------------------------
(* Properties                                                              *)

\* The controller's counter is the number of requests that hold a slot and never
\* passes max_concurrent, however they end: of all the calls a guard, a callback
\* and a handler make for one request, one releases its slot.
SlotsAccountedFor == Adm!SlotsAccountedFor

\* Requests are served by the bounded first-come first-served slots of FairSlots,
\* those whose handlers are cancelled and those that come again included.
ImplementsFairSlots == Adm!ImplementsFairSlots

\* "Only admitted requests start worker threads or isolated AI child
\* processes": whatever runs on a request's behalf runs inside its slot, so
\* that overload cannot pile up running work.  The one exception is a child
\* whose start() was still running in its thread when the request was
\* cancelled: close() finds it not started, and gives the slot back.
WorkHoldsSlot ==
    \A r \in Request \ left :
        task[r] = "running" \/ proc[r] = "running" => state[r] = "active"

\* A request that is over holds no slot and no place in the queue: every
\* return, exception and cancellation of a handler ends in a release.  And
\* /ask "guarantees the child is reaped and the admission slot is free before
\* the response is returned".
NothingLeftBehind ==
    \A r \in Request :
        /\ Over(r) => state[r] \in {"none", "released"}
        /\ kind[r] = "json" /\ pc[r] = "done" =>
              state[r] = "released" /\ proc[r] # "running"

\* "capacity cannot leak on disconnect": every slot comes back, with the client
\* gone at any moment, the child crashed, hung or impossible to kill.
SlotIsReturned ==
    \A r \in Request : state[r] = "active" ~> state[r] = "released"

\* A request in the queue is admitted in the end even if it never gives up and
\* new requests never stop coming.
WaiterIsServed ==
    \A r \in Request : state[r] = "queued" ~> state[r] # "queued"

=============================================================================
