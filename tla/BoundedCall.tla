---------------------------- MODULE BoundedCall ----------------------------
(* One HTTP client and the threads that call through it: the model provider *)
(* OpenAICompatibleLLMProvider ("model") or the retrieval client            *)
(* RagSearchHttpClient ("retrieval").  A call takes a permit without        *)
(* waiting, starts a thread that closes the response when the caller        *)
(* cancels and, in the model provider, a timer that closes it at the        *)
(* deadline; then it reads the body in chunks and takes everything down.    *)
EXTENDS Naturals, FiniteSets

CONSTANTS Calls,        \* the threads that call through the client
          Capacity      \* permits of the semaphore: max_concurrency, max_concurrent_requests

\* BoundedSemaphore raises on a negative number of permits.
ASSUME CapacityAssumption == Capacity \in Nat

VARIABLES client,   \* which of the two clients this is
          free,     \* permits left in the semaphore
          unstarted,   \* helper threads that could not be started, so far
          call      \* the local state of every call and of its two helpers

callVars == <<client, free, unstarted, call>>

None == "none"

\* Steps of a call between taking the permit and giving it back.
Holding == {"watch", "arm", "send", "opened", "read", "drained",
            "stop", "join", "disarm", "release"}

\* A call that has not begun.
Idle == [pc |-> "idle",
         event |-> FALSE,     \* a cancel event was passed
         cancel |-> FALSE,    \* that event is set
         late |-> FALSE,      \* the deadline has passed
         active |-> FALSE,    \* the response is where the helpers find it
         closed |-> FALSE,    \* a helper closed the response
         body |-> None,       \* what the chunks add up to
         stop |-> FALSE,      \* cancel_watch_stop
         watcher |-> None, timer |-> None,
         result |-> None]

CallInit == /\ client \in {"model", "retrieval"}
            /\ free = Capacity /\ unstarted = 0
            /\ call = [c \in Calls |-> Idle]

At(c, step) == call[c].pc = step
Go(c, step) == call' = [call EXCEPT ![c].pc = step]
Cancelled(c) == call[c].cancel
Late(c) == client = "model" /\ call[c].late

\* A call that has returned.  Its locals are gone but for what it answers, the
\* threads it started and the response they may still find.
Returned(c, answer) ==
    [Idle EXCEPT !.pc = "returned", !.result = answer,
                 !.body = IF answer = "content" THEN call[c].body ELSE None,
                 !.active = call[c].active,
                 !.watcher = call[c].watcher, !.timer = call[c].timer]

\* An exception inside the try block: the finally block runs next.
RaiseError(c, error) == call' = [call EXCEPT ![c].pc = "stop", ![c].result = error]

Shared == <<client, free, unstarted>>

\* Fault: the timer is cancelled and not joined.
JoinTimerNot(c) == /\ At(c, "disarm") /\ call[c].timer # "unstarted"
                   /\ Go(c, "release")
                   /\ UNCHANGED Shared

\* Fault: the checks after the last chunk are left out.
FinishCallUnchecked(c) ==
    /\ At(c, "drained")
    /\ \E result \in {"content", "unavailable", "invalid"} : RaiseError(c, result)
    /\ UNCHANGED Shared

\* Fault: the watcher is joined before it is told to stop.
StopWatcherLate(c) == /\ At(c, "stop") /\ call[c].watcher # "run"
                      /\ call' = [call EXCEPT ![c].stop = TRUE, ![c].pc = "join"]
                      /\ UNCHANGED Shared
----------------------------------------------------------------------------
(* The calling thread.                                                      *)

\* Answers given before a permit is taken: not configured, no token, or, in
\* the model provider, a cancel event that is already set.
Refuse(c) ==
    /\ At(c, "idle")
    /\ \E error \in {"unavailable", "cancelled"} :
          /\ error = "cancelled" => client = "model"
          /\ call' = [call EXCEPT ![c].pc = "returned", ![c].result = error]
    /\ UNCHANGED Shared

Busy(c) == /\ At(c, "idle") /\ free = 0
           /\ call' = [call EXCEPT ![c].pc = "returned", ![c].result = "busy"]
           /\ UNCHANGED Shared

Enter(c) == /\ At(c, "idle") /\ free > 0
            /\ free' = free - 1
            /\ \E given \in BOOLEAN :
                  call' = [call EXCEPT ![c].event = given,
                              ![c].pc = IF given THEN "watch" ELSE "arm"]
            /\ UNCHANGED <<client, unstarted>>

\* Thread.start may fail: the thread object exists but was never started.
StartWatcher(c) ==
    /\ At(c, "watch")
    /\ \/ /\ call' = [call EXCEPT ![c].watcher = "run", ![c].pc = "arm"]
          /\ UNCHANGED unstarted
       \/ /\ call' = [call EXCEPT ![c].watcher = "unstarted",
                                  ![c].pc = "stop", ![c].result = "failed"]
          /\ unstarted' = unstarted + 1
    /\ UNCHANGED <<client, free>>

\* Only the model provider starts a timer.
StartTimer(c) ==
    \/ /\ client = "model"
       /\ call' = [call EXCEPT ![c].timer = "armed", ![c].pc = "send"]
       /\ UNCHANGED unstarted
    \/ /\ client = "model"
       /\ call' = [call EXCEPT ![c].timer = "unstarted",
                               ![c].pc = "stop", ![c].result = "failed"]
       /\ unstarted' = unstarted + 1
    \/ client = "retrieval" /\ Go(c, "send") /\ UNCHANGED unstarted

\* Fault: the event is looked at before the try block.
ArmTimerOutsideTry(c) ==
    /\ At(c, "arm")
    /\ \/ /\ Cancelled(c)
          /\ call' = [call EXCEPT ![c].pc = "returned", ![c].result = "cancelled"]
          /\ UNCHANGED unstarted
       \/ ~Cancelled(c) /\ StartTimer(c)
    /\ UNCHANGED <<client, free>>

\* Both clients look at the event before they send.
ArmTimer(c) ==
    /\ At(c, "arm")
    /\ \/ Cancelled(c) /\ RaiseError(c, "cancelled") /\ UNCHANGED unstarted
       \/ ~Cancelled(c) /\ StartTimer(c)
    /\ UNCHANGED <<client, free>>

\* What the caller is told about an exception of the HTTP library: a timeout,
\* another error of its own kind, or an error it does not declare (a stream
\* closed under the reader), which only the model provider catches.
ErrorOf(c, exception) ==
    CASE exception = "timeout" -> IF Cancelled(c) THEN "cancelled" ELSE "timeout"
      [] exception = "http" -> IF Cancelled(c) THEN "cancelled"
                               ELSE IF Late(c) THEN "timeout" ELSE "unavailable"
      [] exception = "other" -> IF client = "retrieval" THEN "failed"
                                ELSE IF Late(c) THEN "timeout" ELSE "unavailable"

Send(c) ==
    /\ At(c, "send")
    /\ \/ call' = [call EXCEPT ![c].active = TRUE, ![c].pc = "opened"]
       \/ \E exception \in {"timeout", "http"} : RaiseError(c, ErrorOf(c, exception))
    /\ UNCHANGED Shared

\* The checks between chunks: cancellation first, then the deadline.
Checked(c, step) ==
    \/ Cancelled(c) /\ RaiseError(c, "cancelled")
    \/ ~Cancelled(c) /\ Late(c) /\ RaiseError(c, "timeout")
    \/ ~Cancelled(c) /\ ~Late(c) /\ step

CheckOpened(c) == /\ At(c, "opened")
                  /\ Checked(c, Go(c, "read"))
                  /\ UNCHANGED Shared

\* A chunk arrives: read on, or find that the body is too large.  "odd" and
\* "even" count the chunks, so that a server that never ends is a behaviour.
ReadChunk(c) ==
    /\ At(c, "read") /\ ~call[c].closed
    /\ Checked(c, \/ call' = [call EXCEPT ![c].body = IF @ = "odd" THEN "even" ELSE "odd"]
                  \/ RaiseError(c, "invalid"))
    /\ UNCHANGED Shared

\* The iteration ends.  When a helper closed the response the reader sees an
\* exception or, where the library takes the closed socket for the end of the
\* body, a body that stops short.
ReadEnd(c) ==
    /\ At(c, "read")
    /\ \/ /\ call' = [call EXCEPT ![c].pc = "drained",
                                  ![c].body = IF call[c].closed THEN "cut" ELSE "whole"]
       \/ \E exception \in {"timeout", "http"} : RaiseError(c, ErrorOf(c, exception))
       \/ call[c].closed /\ RaiseError(c, ErrorOf(c, "other"))
    /\ UNCHANGED Shared

\* After the last chunk: the checks once more, then status and payload.
FinishCall(c) ==
    /\ At(c, "drained")
    /\ Checked(c, \E result \in {"content", "unavailable", "invalid"} : RaiseError(c, result))
    /\ UNCHANGED Shared

\* The finally block.  join() of a thread that was never started raises, and
\* what follows it, the release of the permit included, is skipped.
StopWatcher(c) == /\ At(c, "stop")
                  /\ call' = [call EXCEPT ![c].stop = TRUE, ![c].pc = "join"]
                  /\ UNCHANGED Shared

GiveUpPermit(c) ==
    /\ \/ At(c, "join") /\ call[c].watcher = "unstarted"
       \/ At(c, "disarm") /\ call[c].timer = "unstarted"
    /\ call' = [call EXCEPT ![c] = Returned(c, "failed")]
    /\ UNCHANGED Shared

JoinWatcher(c) == /\ At(c, "join") /\ call[c].watcher \in {None, "ended"}
                  /\ call' = [call EXCEPT ![c].pc = "disarm",
                         ![c].timer = IF call[c].timer = "armed" THEN "ended" ELSE @]
                  /\ UNCHANGED Shared

JoinTimer(c) == /\ At(c, "disarm") /\ call[c].timer \in {None, "ended"}
                /\ Go(c, "release")
                /\ UNCHANGED Shared

Release(c) == /\ At(c, "release")
              /\ free' = free + 1
              /\ call' = [call EXCEPT ![c] = [Returned(c, call[c].result) EXCEPT !.active = FALSE]]
              /\ UNCHANGED <<client, unstarted>>

Caller(c) == \/ Enter(c) \/ StartWatcher(c) \/ ArmTimer(c) \/ Send(c)
             \/ CheckOpened(c) \/ ReadChunk(c) \/ ReadEnd(c) \/ FinishCall(c)
             \/ StopWatcher(c) \/ JoinWatcher(c) \/ JoinTimer(c)
             \/ GiveUpPermit(c) \/ Release(c)

----------------------------------------------------------------------------
(* The helpers.  Each looks at the response under the lock and closes it    *)
(* after it let the lock go.                                                *)

WatcherPolls(c) ==
    /\ call[c].watcher = "run"
    /\ \/ call[c].stop /\ call' = [call EXCEPT ![c].watcher = "ended"]
       \/ /\ Cancelled(c)
          /\ call' = [call EXCEPT ![c].watcher = IF call[c].active THEN "closing" ELSE "ended"]
    /\ UNCHANGED Shared

WatcherCloses(c) ==
    /\ call[c].watcher = "closing"
    /\ call' = [call EXCEPT ![c].watcher = "ended", ![c].closed = TRUE]
    /\ UNCHANGED Shared

TimerFires(c) ==
    /\ call[c].timer = "armed" /\ call[c].late
    /\ call' = [call EXCEPT ![c].timer = IF call[c].active THEN "closing" ELSE "ended"]
    /\ UNCHANGED Shared

TimerCloses(c) ==
    /\ call[c].timer = "closing"
    /\ call' = [call EXCEPT ![c].timer = "ended", ![c].closed = TRUE]
    /\ UNCHANGED Shared

Helpers(c) == WatcherPolls(c) \/ WatcherCloses(c) \/ TimerFires(c) \/ TimerCloses(c)

\* The surroundings: the caller's event is set, the deadline passes, and a
\* thread that got its answer calls again.
Cancel(c) == /\ call[c].event /\ ~call[c].cancel /\ call[c].pc \in Holding
             /\ call' = [call EXCEPT ![c].cancel = TRUE]
             /\ UNCHANGED Shared

DeadlinePasses(c) == /\ ~call[c].late /\ call[c].timer # None
                     /\ call[c].pc \in Holding
                     /\ call' = [call EXCEPT ![c].late = TRUE]
                     /\ UNCHANGED Shared

CallAgain(c) == /\ At(c, "returned")
                /\ call' = [call EXCEPT ![c] = Idle]
                /\ UNCHANGED Shared

CallNext == \E c \in Calls : \/ Caller(c) \/ Helpers(c) \/ Refuse(c) \/ Busy(c)
                         \/ Cancel(c) \/ DeadlinePasses(c) \/ CallAgain(c)

CallSpec == CallInit /\ [][CallNext]_callVars

\* What is owed (AskAnswer says it): the threads run, and time passes for a call
\* whose timer is armed.  Nothing is asked of the server: it may send chunks for
\* ever.

----------------------------------------------------------------------------
(* Properties.                                                              *)

\* The calls whose finally block will come to the release.
Keeping == {c \in Calls : /\ call[c].pc \in Holding
                          /\ call[c].watcher # "unstarted"
                          /\ call[c].timer # "unstarted"}

\* A permit is free or with a call that will give it back, except for exactly one
\* per helper thread that could not be started: the finally block joins that
\* thread, which raises, before it would release.  That loss is the code's own; no
\* answer, error, cancellation or deadline takes another permit with it.
PermitsAccounted == free + unstarted + Cardinality(Keeping) = Capacity

\* Once a call has returned, neither its watcher nor its timer runs, and the
\* helpers can reach no response: a late helper cannot close the response of
\* the next request on the connection.
NothingLeftBehind ==
    \A c \in Calls : At(c, "returned") =>
        /\ call[c].watcher \in {None, "ended", "unstarted"}
        /\ call[c].timer \in {None, "ended", "unstarted"}
        /\ ~call[c].active

\* A body that a helper cut short is never taken for an answer, whichever way
\* the library reports the socket closed under the reader.
NoCutBody == \A c \in Calls : call[c].result = "content" => call[c].body = "whole"

\* A call to the model ends, and a cancelled call of either kind ends, however
\* long the server keeps sending.
CallEnds ==
    \A c \in Calls :
        (call[c].pc \in Holding /\ (client = "model" \/ Cancelled(c)))
            ~> (call[c].pc \notin Holding)

=============================================================================
