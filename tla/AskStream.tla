------------------------------ MODULE AskStream ------------------------------
(***************************************************************************)
(* What one admitted, isolated AI ask request answers its client: the      *)
(* child process puts records on a bounded queue                           *)
(* (services/ai_ask_worker.py, _ai_ask_process_entry) and the handler turns *)
(* them into the answer of its endpoint (fastapi/routers/ai_ask.py): the   *)
(* events of /ask/stream and /ask/progress, or the body of /ask.           *)
(*                                                                         *)
(* Of a response only success or failure is kept ("ok", "fail").  The      *)
(* child's "cancelled" record is left out: its cancel event is set only by *)
(* cancel_and_stop(), after which the handler reads no record.             *)
(***************************************************************************)
EXTENDS Integers, Sequences, SequencesExt

CONSTANTS
    Endpoints,  \* those that are called, of "stream", "progress" and "json"
    QueueSize,  \* _EVENT_QUEUE_SIZE
    MaxSteps    \* bound: the step or progress events of one run

ASSUME EndpointsAssumption == Endpoints \subseteq {"stream", "progress", "json"}
ASSUME QueueSizeAssumption == QueueSize \in Nat \ {0}
ASSUME MaxStepsAssumption == MaxSteps \in Nat

VARIABLES
    endpoint,   \* the endpoint that was called
    child,      \* where the child process is
    steps,      \* the step events it has reported
    outcome,    \* the response it has come to
    lost,       \* the result or __end__ was not queued, or died with the child
    queue,      \* _output_queue
    pc,         \* where the handler is
    pending,    \* records drained after the child's exit
    deadSince,  \* "no", "seen", or "over" once EXIT_GRACE_SECONDS have passed
    late,       \* the worker's deadline has passed
    received,   \* the response in the last result record read
    out,        \* the events produced for the client, or the response body
    ended       \* why the handler stopped reading

childVars == <<child, steps, outcome, lost, queue>>
handlerVars == <<pc, pending, deadSince, received, out, ended>>
vars == <<endpoint, childVars, handlerVars, late>>

Record(k, v) == [kind |-> k, val |-> v]

Init ==
    /\ endpoint \in Endpoints
    /\ child = "none"
    /\ steps = 0
    /\ outcome = "none"
    /\ lost = FALSE
    /\ queue = <<>>
    /\ pc = "begin"
    /\ pending = <<>>
    /\ deadSince = "no"
    /\ late = FALSE
    /\ received = "none"
    /\ out = <<>>
    /\ ended = "no"

-----------------------------------------------------------------------------
(* The child                                                               *)

Alive == child \notin {"none", "exited"}

HasRoom == Len(queue) < QueueSize

\* emit(): put_nowait, the record is dropped when the queue is full.
Offer(record) == queue' = IF HasRoom THEN Append(queue, record) ELSE queue

ReportStep ==
    /\ child = "work"
    /\ steps < MaxSteps
    /\ steps' = steps + 1
    /\ Offer(Record("step", "none"))
    /\ UNCHANGED <<child, outcome, lost, handlerVars, late, endpoint>>

\* AIAskExecutionService.ask reports its answer and then returns it.
ReportAnswer(v) ==
    /\ child = "work"
    /\ endpoint = "stream"
    /\ child' = "answered"
    /\ outcome' = v
    /\ Offer(Record("answer", v))
    /\ UNCHANGED <<steps, lost, handlerVars, late, endpoint>>

\* The service returns a response; AIAskService.ask reports no answer.
Return ==
    /\ \/ child = "answered" /\ UNCHANGED outcome
       \/ child = "work" /\ endpoint # "stream" /\ outcome' \in {"ok", "fail"}
    /\ child' = "result"
    /\ UNCHANGED <<steps, lost, queue, handlerVars, late, endpoint>>

\* The service raises: a fallback response is the result, or, when even that
\* cannot be made, a worker_error record.
Raise ==
    /\ child = "work"
    /\ outcome' = "fail"
    /\ \/ child' = "result" /\ UNCHANGED <<lost, queue>>
       \/ child' = "end" /\ lost' = TRUE /\ Offer(Record("worker_error", "none"))
    /\ UNCHANGED <<steps, handlerVars, late, endpoint>>

\* _queue_put(required=True) waits a second for room, and drops the record.
PutRequired(record) ==
    \/ HasRoom /\ queue' = Append(queue, record) /\ UNCHANGED lost
    \/ ~HasRoom /\ UNCHANGED queue /\ lost' = TRUE

PutResult ==
    /\ child = "result"
    /\ child' = "end"
    /\ PutRequired(Record("result", outcome))
    /\ UNCHANGED <<steps, outcome, handlerVars, late, endpoint>>

PutEnd ==
    /\ child = "end"
    /\ child' = "leaving"
    /\ PutRequired(Record("end", "none"))
    /\ UNCHANGED <<steps, outcome, handlerVars, late, endpoint>>

\* A normal exit flushes the queue's feeder thread first.
ChildExits ==
    /\ child = "leaving"
    /\ child' = "exited"
    /\ UNCHANGED <<steps, outcome, lost, queue, handlerVars, late, endpoint>>

\* The child is killed or crashes: records not yet written out are gone.
ChildDies ==
    /\ Alive
    /\ child' = "exited"
    /\ \E n \in 0..Len(queue) :
          /\ queue' = SubSeq(queue, 1, n)
          /\ lost' = (lost \/ child # "leaving" \/ n < Len(queue))
    /\ UNCHANGED <<steps, outcome, handlerVars, late, endpoint>>

-----------------------------------------------------------------------------
(* The handler                                                             *)

Emitted(event) == \E i \in DOMAIN out : out[i].kind = event

\* Fault: no answer of the handler's own.
AnsweringNothing(v, done) == Append(out, Record("done", done))

\* Close with response v: the events that end the endpoint's stream.  done is
\* "completed" exactly for a response that is a success.
Answering(v, done) ==
    CASE endpoint = "stream" ->
            Append(IF Emitted("answer") THEN out ELSE Append(out, Record("answer", v)),
                   Record("done", done))
      [] endpoint = "progress" -> Append(out, Record("result", v))
      [] endpoint = "json" -> Append(out, Record("body", v))

Finish(why) ==
    /\ ended' = why
    /\ pc' = IF endpoint = "json" THEN "closed" ELSE "flushing"

\* Not admitted, or worker.start() raised.
Unserved ==
    /\ pc = "begin"
    /\ out' = Answering("fail", "fail")
    /\ Finish("unserved")
    /\ UNCHANGED <<childVars, pending, deadSince, received, late, endpoint>>

Serve ==
    /\ pc = "begin"
    /\ pc' = "reading"
    /\ child' = "work"
    /\ UNCHANGED <<steps, outcome, lost, queue, pending, deadSince, received,
                   out, ended, late, endpoint>>

\* The response at __end__: the result read, or a failure.
AtEnd == IF received = "none" THEN "fail" ELSE received

Handle(m) ==
    \/ /\ m.kind = "step"
       /\ out' = IF endpoint = "json" THEN out ELSE Append(out, m)
       /\ UNCHANGED <<pc, received, ended>>
    \/ /\ m.kind = "answer"     \* report_execution drops a second one
       /\ out' = IF Emitted("answer") THEN out ELSE Append(out, m)
       /\ UNCHANGED <<pc, received, ended>>
    \/ /\ m.kind = "result"     \* /ask/progress passes it on at once
       /\ received' = m.val
       /\ out' = IF endpoint = "progress" THEN Append(out, m) ELSE out
       /\ UNCHANGED <<pc, ended>>
    \/ /\ m.kind = "worker_error"   \* only /ask/stream looks at it
       /\ received' = IF endpoint = "stream" THEN "fail" ELSE received
       /\ UNCHANGED <<pc, out, ended>>
    \/ /\ m.kind = "end"        \* /ask/progress just ends
       /\ out' = IF endpoint = "progress" THEN out ELSE Answering(AtEnd, AtEnd)
       /\ Finish("end")
       /\ UNCHANGED received

ReadPending ==
    /\ pc = "reading"
    /\ pending # <<>>
    /\ Handle(Head(pending))
    /\ pending' = Tail(pending)
    /\ UNCHANGED <<childVars, deadSince, late, endpoint>>

ReadQueue ==
    /\ pc = "reading"
    /\ pending = <<>> /\ queue # <<>>
    /\ Handle(Head(queue))
    /\ queue' = Tail(queue)
    /\ UNCHANGED <<child, steps, outcome, lost, pending, deadSince, late, endpoint>>

\* get_message() times out; the records of a live child may still be on their
\* way through its feeder thread.
ReadNothing ==
    /\ pc = "reading"
    /\ pending = <<>>
    /\ queue = <<>> \/ Alive
    /\ pc' = "got_none"
    /\ UNCHANGED <<childVars, pending, deadSince, received, out, ended, late, endpoint>>

\* has_timed_out(), or, alive or not, a database step that has been running for
\* too long on /ask/stream: the child is stopped and a timeout response made.
TimeOut ==
    /\ pc = "got_none"
    /\ \/ Alive /\ late
       \/ endpoint = "stream" /\ Emitted("step")
    /\ out' = Answering("fail", "fail")
    /\ received' = "fail"
    /\ Finish("timeout")
    /\ UNCHANGED <<childVars, pending, deadSince, late, endpoint>>

\* Fault: a child that lives has no deadline.
SeeAliveForever ==
    /\ pc = "got_none"
    /\ Alive
    /\ pc' = "reading"
    /\ UNCHANGED <<childVars, pending, deadSince, received, out, ended, late, endpoint>>

SeeAlive ==
    /\ pc = "got_none"
    /\ Alive /\ ~late
    /\ pc' = "reading"
    /\ UNCHANGED <<childVars, pending, deadSince, received, out, ended, late, endpoint>>

\* drain_messages() reads n records: up to __end__ or to the last there is.
Drained(n) ==
    /\ \A i \in 1..(n - 1) : queue[i].kind # "end"
    /\ n = Len(queue) \/ queue[n].kind = "end"

\* The child has exited, but left records.
Recover ==
    /\ pc = "got_none"
    /\ ~Alive /\ queue # <<>>
    /\ \E n \in 1..Len(queue) :
          /\ Drained(n)
          /\ pending' = SubSeq(queue, 1, n)
          /\ queue' = SubSeq(queue, n + 1, Len(queue))
    /\ deadSince' = "no"
    /\ pc' = "reading"
    /\ UNCHANGED <<child, steps, outcome, lost, received, out, ended, late, endpoint>>

SeeDead ==
    /\ pc = "got_none"
    /\ ~Alive /\ queue = <<>>
    /\ deadSince # "over"
    /\ deadSince' = "seen"
    /\ pc' = "reading"
    /\ UNCHANGED <<childVars, pending, received, out, ended, late, endpoint>>

\* Fault: a child that has exited is taken for a failure at once.
GiveUpAtOnce ==
    /\ pc = "got_none"
    /\ ~Alive
    /\ out' = Answering("fail", "fail")
    /\ received' = "fail"
    /\ Finish("dead")
    /\ UNCHANGED <<childVars, pending, deadSince, late, endpoint>>

\* No terminal record within the grace period.  /ask keeps a result it has.
GiveUpOnDead ==
    /\ pc = "got_none"
    /\ ~Alive /\ queue = <<>>
    /\ deadSince = "over"
    /\ out' = IF endpoint = "json" THEN Answering(AtEnd, AtEnd)
                                   ELSE Answering("fail", "fail")
    /\ received' = IF endpoint = "stream" THEN "fail" ELSE received
    /\ Finish("dead")
    /\ UNCHANGED <<childVars, pending, deadSince, late, endpoint>>

\* The local event queue has been sent to the client.
Close ==
    /\ pc = "flushing"
    /\ pc' = "closed"
    /\ UNCHANGED <<childVars, pending, deadSince, received, out, ended, late, endpoint>>

Disconnect ==
    /\ pc \in {"begin", "reading", "got_none", "flushing"}
    /\ endpoint # "json"
    /\ pc' = "closed"
    /\ ended' = "disconnect"
    /\ UNCHANGED <<childVars, pending, deadSince, received, out, late, endpoint>>

-----------------------------------------------------------------------------
(* Time                                                                    *)

PassDeadline ==
    /\ pc \notin {"begin", "closed"}
    /\ ~late
    /\ late' = TRUE
    /\ UNCHANGED <<childVars, handlerVars, endpoint>>

PassGrace ==
    /\ deadSince = "seen"
    /\ deadSince' = "over"
    /\ UNCHANGED <<childVars, pc, pending, received, out, ended, late, endpoint>>

-----------------------------------------------------------------------------

Child ==
    \/ ReportStep
    \/ \E v \in {"ok", "fail"} : ReportAnswer(v)
    \/ Return \/ Raise \/ PutResult \/ PutEnd \/ ChildExits \/ ChildDies

Handler ==
    \/ Unserved \/ Serve \/ ReadPending \/ ReadQueue \/ ReadNothing
    \/ TimeOut \/ SeeAlive \/ Recover \/ SeeDead \/ GiveUpOnDead \/ Close

Clock == PassDeadline \/ PassGrace

Next == Child \/ Handler \/ Clock \/ Disconnect

Spec == Init /\ [][Next]_vars

\* What is owed (AskAnswer says it): the event loop goes on (Handler) and time
\* passes (PassDeadline, PassGrace); nothing is asked of the child.

-----------------------------------------------------------------------------
(* Properties                                                              *)

AtMostOne(event) ==
    \A i, j \in DOMAIN out : out[i].kind = event /\ out[j].kind = event => i = j

\* What the client is told in the end.
Told(event, v) ==
    \E i \in DOMAIN out :
        /\ out[i] = Record(event, v)
        /\ \A j \in DOMAIN out : j > i => out[j].kind # event

\* The order the page insists on (aiAskExecution.ts): one answer at most, one
\* done at most, and nothing after done, whichever of a late record, a timeout
\* and the child's exit the handler comes to first.  Unless the client left, the
\* stream ends with both, without which the page reports a broken stream; and
\* one that says "completed" has carried a successful answer.
StreamIsWhole ==
    /\ AtMostOne("answer")
    /\ AtMostOne("done")
    /\ Emitted("done") => Last(out).kind = "done"
    /\ endpoint = "stream" /\ pc = "closed" /\ ended # "disconnect"
       => Emitted("answer") /\ Emitted("done")
    /\ Told("done", "ok") => Told("answer", "ok")

\* "is_alive() == False is not proof of failure": a child whose result and
\* __end__ records were queued is heard, even if it exited before they were
\* read, unless its deadline passed first.
CompletedChildIsHeard ==
    /\ pc = "closed" /\ ended \notin {"unserved", "timeout", "disconnect"}
    /\ ~lost
    => CASE endpoint = "stream" -> Told("done", outcome)
         [] endpoint = "progress" -> Told("result", outcome)
         [] endpoint = "json" -> Told("body", outcome)

=============================================================================
