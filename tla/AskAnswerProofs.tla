--------------------------- MODULE AskAnswerProofs ---------------------------
(***************************************************************************)
(* Theorems about AskAnswer and the endpoint it extends, for every queue   *)
(* size, number of step events, searches and threads, every limit of the   *)
(* pipeline and whichever endpoints are called.  Of the endpoint, under    *)
(* its own specification: the answer of a request is whole, and a child    *)
(* that completed is heard.  Of a question: it ends as cancelled only when *)
(* its caller cancelled it, nothing of it goes on when it has ended, and   *)
(* what the answer says of the search is so.                               *)
(***************************************************************************)
EXTENDS AskAnswer, SequenceTheorems, TLAPS

-----------------------------------------------------------------------------
(* The inductive invariant of the endpoint *)

Vals == {"none", "ok", "fail"}

Records == [kind : {"step", "answer", "result", "worker_error", "end", "done", "body"},
            val : Vals]

TypeOK ==
    /\ endpoint \in Endpoints
    /\ child \in {"none", "work", "answered", "result", "end", "leaving", "exited"}
    /\ outcome \in Vals /\ received \in Vals
    /\ lost \in BOOLEAN
    /\ queue \in Seq(Records) /\ pending \in Seq(Records) /\ out \in Seq(Records)
    /\ pc \in {"begin", "reading", "got_none", "flushing", "closed"}
    /\ ended \in {"no", "unserved", "end", "timeout", "dead", "disconnect"}

Reading == pc \in {"reading", "got_none"}

\* The response is the child's from when it has come to one.
OutcomeInPlace ==
    /\ child \in {"none", "work"} => outcome = "none"
    /\ child \in {"answered", "result", "end", "leaving"} => outcome # "none"
    /\ child = "none" => queue = <<>> /\ ~Reading
    /\ pc = "begin" => child = "none" /\ pending = <<>> /\ out = <<>>
                       /\ received = "none" /\ ended = "no"

\* What a record the child has queued says of the child.
Truthful(m) ==
    /\ m.kind \in {"step", "answer", "result", "worker_error", "end"}
    /\ m.kind \in {"answer", "result"} => m.val = outcome /\ outcome # "none"
    /\ m.kind = "worker_error" => outcome = "fail" /\ lost
    /\ m.kind = "end" => child \in {"leaving", "exited"} /\ outcome # "none"

\* Records are as the child meant them, __end__ is the last; those drained were
\* all there were.
RecordsInPlace ==
    /\ \A i \in DOMAIN queue : Truthful(queue[i]) /\ (queue[i].kind = "end" => i = Len(queue))
    /\ \A i \in DOMAIN pending :
          Truthful(pending[i]) /\ (pending[i].kind = "end" => i = Len(pending))
    /\ pending # <<>> => queue = <<>> /\ child = "exited" /\ pc # "got_none"

Queued(kind) == \/ \E i \in DOMAIN queue : queue[i].kind = kind
                \/ \E i \in DOMAIN pending : pending[i].kind = kind

\* What the child got through is in the handler's hands, or on its way.
OnItsWay ==
    Reading /\ ~lost =>
        /\ child \in {"end", "leaving", "exited"}
           => outcome # "none" /\ (received = outcome \/ Queued("result"))
        /\ child \in {"leaving", "exited"} => Queued("end")

\* While the handler reads, it has passed on what it read and nothing else.
PassedOn ==
    Reading =>
        /\ ended = "no"
        /\ received \in {"none", outcome}
        /\ ~Emitted("done") /\ ~Emitted("body")
        /\ \A i \in DOMAIN out : out[i].kind = "answer"
                             => out[i].val = outcome /\ outcome # "none"
        /\ endpoint = "progress" /\ received # "none" => Told("result", received)

\* The answer, once it is given.
Closed ==
    pc \in {"flushing", "closed"} =>
        /\ ended # "no"
        /\ endpoint = "stream" /\ ended # "disconnect" => Emitted("answer") /\ Emitted("done")
        /\ ended \in {"end", "dead"} => child \in {"leaving", "exited"}
        /\ ended = "dead" => lost
        /\ ended = "end" /\ ~lost =>
              /\ endpoint = "stream" => Told("done", outcome)
              /\ endpoint = "progress" => Told("result", outcome)
              /\ endpoint = "json" => Told("body", outcome)

Whole ==
    /\ AtMostOne("answer") /\ AtMostOne("done")
    /\ Emitted("done") => Last(out).kind = "done"
    /\ Told("done", "ok") => Told("answer", "ok")

IInv == /\ TypeOK /\ OutcomeInPlace /\ RecordsInPlace /\ OnItsWay
        /\ PassedOn /\ Closed /\ Whole

-----------------------------------------------------------------------------
(* Sequences of records *)

Has(s, k) == \E i \in DOMAIN s : s[i].kind = k
One(s, k) == \A i, j \in DOMAIN s : s[i].kind = k /\ s[j].kind = k => i = j
Ends(s, k, v) == \E i \in DOMAIN s : /\ s[i] = Record(k, v)
                                     /\ \A j \in DOMAIN s : j > i => s[j].kind # k

LEMMA Words ==
  /\ \A k : Emitted(k) <=> Has(out, k)
  /\ \A k : Emitted(k)' <=> Has(out', k)
  /\ \A k : AtMostOne(k) <=> One(out, k)
  /\ \A k : AtMostOne(k)' <=> One(out', k)
  /\ \A k, v : Told(k, v) <=> Ends(out, k, v)
  /\ \A k, v : Told(k, v)' <=> Ends(out', k, v)
BY DEF Emitted, Has, AtMostOne, One, Told, Ends

\* Append, position by position.
LEMMA Appended ==
  ASSUME NEW s \in Seq(Records), NEW e \in Records, NEW t, t = Append(s, e)
  PROVE  /\ t \in Seq(Records) /\ Len(t) = Len(s) + 1 /\ Len(s) \in Nat
         /\ DOMAIN s = 1..Len(s) /\ DOMAIN t = 1..(Len(s) + 1)
         /\ \A i \in 1..Len(s) : t[i] = s[i]
         /\ t[Len(s) + 1] = e
BY AppendProperties

LEMMA AppendedWords ==
  ASSUME NEW s \in Seq(Records), NEW e \in Records, NEW t, t = Append(s, e)
  PROVE  /\ \A k : Has(t, k) <=> Has(s, k) \/ e.kind = k
         /\ \A k : One(s, k) /\ (e.kind = k => ~Has(s, k)) => One(t, k)
         /\ Ends(t, e.kind, e.val)
         /\ \A k, v : k # e.kind => (Ends(t, k, v) <=> Ends(s, k, v))
         /\ Last(t) = e
<1>1. /\ t \in Seq(Records) /\ Len(t) = Len(s) + 1 /\ Len(s) \in Nat
      /\ DOMAIN s = 1..Len(s) /\ DOMAIN t = 1..(Len(s) + 1)
      /\ \A i \in 1..Len(s) : t[i] = s[i]
      /\ t[Len(s) + 1] = e
  BY Appended
<1>2. \A k : Has(t, k) <=> Has(s, k) \/ e.kind = k
  BY <1>1 DEF Has
<1>3. \A k : One(s, k) /\ (e.kind = k => ~Has(s, k)) => One(t, k)
  BY <1>1 DEF Has, One
<1>4. Ends(t, e.kind, e.val)
  BY <1>1 DEF Ends, Record, Records
<1>5. \A k, v : k # e.kind => (Ends(t, k, v) <=> Ends(s, k, v))
  <2> SUFFICES ASSUME NEW k, NEW v, k # e.kind
               PROVE  Ends(t, k, v) <=> Ends(s, k, v)
    OBVIOUS
  <2>1. ASSUME Ends(t, k, v) PROVE Ends(s, k, v)
    <3>1. PICK i \in DOMAIN t : t[i] = Record(k, v) /\ \A j \in DOMAIN t : j > i => t[j].kind # k
      BY <2>1 DEF Ends
    <3>2. i \in DOMAIN s
      BY <1>1, <3>1 DEF Record
    <3> QED
      BY <1>1, <3>1, <3>2 DEF Ends
  <2>2. ASSUME Ends(s, k, v) PROVE Ends(t, k, v)
    <3>1. PICK i \in DOMAIN s : s[i] = Record(k, v) /\ \A j \in DOMAIN s : j > i => s[j].kind # k
      BY <2>2 DEF Ends
    <3> QED
      BY <1>1, <3>1 DEF Ends
  <2> QED
    BY <2>1, <2>2
<1>6. Last(t) = e
  BY <1>1 DEF Last
<1> QED
  BY <1>2, <1>3, <1>4, <1>5, <1>6

LEMMA Popped ==
  ASSUME NEW s \in Seq(Records), s # <<>>
  PROVE  /\ Head(s) \in Records /\ Head(s) = s[1] /\ 1 \in DOMAIN s
         /\ Tail(s) \in Seq(Records) /\ Len(s) \in Nat \ {0} /\ Len(Tail(s)) = Len(s) - 1
         /\ DOMAIN s = 1..Len(s) /\ DOMAIN Tail(s) = 1..(Len(s) - 1)
         /\ \A i \in 1..(Len(s) - 1) : Tail(s)[i] = s[i + 1]
BY HeadTailProperties

-----------------------------------------------------------------------------
(* The child's steps *)

\* What a step of the child leaves alone.
ChildFrame == UNCHANGED <<handlerVars, endpoint>>

\* A step by which the child, still at its work, comes to outcome' and may
\* queue m.
LEMMA Queues ==
  ASSUME IInv, ChildFrame, NEW m \in Records,
         queue' = queue \/ queue' = Append(queue, m),
         child \notin {"none", "leaving", "exited"}, child' # "none",
         outcome \in {"none", outcome'}, lost => lost', Truthful(m)'
  PROVE  /\ queue' \in Seq(Records) /\ RecordsInPlace'
         /\ \A k : Queued(k) => Queued(k)'
         /\ queue' = Append(queue, m) => Queued(m.kind)'
<1>1. pending = <<>> /\ pending' = <<>>
  BY DEF IInv, RecordsInPlace, ChildFrame, handlerVars
<1>2. \A i \in DOMAIN queue : queue[i].kind # "end" /\ Truthful(queue[i])'
  BY DEF IInv, RecordsInPlace, Truthful
<1>3. DOMAIN pending = {} /\ DOMAIN pending' = {}
  BY <1>1
<1>4. CASE queue' = queue
  BY <1>1, <1>2, <1>3, <1>4, AppendedWords DEF IInv, TypeOK, RecordsInPlace, Queued
<1>5. CASE queue' = Append(queue, m)
  <2>1. /\ queue' \in Seq(Records) /\ Len(queue') = Len(queue) + 1 /\ Len(queue) \in Nat
        /\ DOMAIN queue = 1..Len(queue) /\ DOMAIN queue' = 1..(Len(queue) + 1)
        /\ \A i \in 1..Len(queue) : queue'[i] = queue[i]
        /\ queue'[Len(queue) + 1] = m
    BY <1>5, Appended DEF IInv, TypeOK
  <2>2. RecordsInPlace'
    BY <1>1, <1>2, <1>3, <2>1 DEF RecordsInPlace
  <2> QED
    BY <1>3, <2>1, <2>2 DEF Queued
<1> QED
  BY <1>4, <1>5

\* Nothing that was told changes, and no response the handler has.
LEMMA ChildTells ==
  ASSUME IInv, ChildFrame, outcome \in {"none", outcome'}, lost => lost',
         child # "none", child' # "none",
         child \in {"leaving", "exited"} => child' \in {"leaving", "exited"}
                                            /\ outcome' = outcome
  PROVE  PassedOn' /\ Closed' /\ Whole'
<1>1. UNCHANGED <<endpoint, pc, received, out, ended>>
  BY DEF ChildFrame, handlerVars
<1>2. PassedOn'
  BY <1>1 DEF IInv, PassedOn, Reading, Emitted, Told
<1>3. Closed'
  BY <1>1 DEF IInv, Closed, Emitted, Told, TypeOK
<1>4. Whole'
  BY <1>1 DEF IInv, Whole, AtMostOne, Emitted, Told
<1> QED
  BY <1>2, <1>3, <1>4

LEMMA ChildPreserves ==
  ASSUME IInv, Child
  PROVE  IInv'
<1> USE DEF Offer, PutRequired
<1> SUFFICES /\ TypeOK' /\ OutcomeInPlace' /\ RecordsInPlace' /\ OnItsWay'
             /\ PassedOn' /\ Closed' /\ Whole'
  BY DEF IInv
<1>0. /\ ChildFrame
      /\ UNCHANGED <<endpoint, pc, pending, received, out, ended>>
      /\ child # "none" /\ child' # "none" /\ child # "exited"
      /\ outcome \in {"none", outcome'}
      /\ lost => lost'
  <2> USE DEF ChildFrame, handlerVars, IInv, OutcomeInPlace, TypeOK
  <2>1. CASE ReportStep
    BY <2>1 DEF ReportStep
  <2>2. CASE \E v \in {"ok", "fail"} : ReportAnswer(v)
    BY <2>2 DEF ReportAnswer
  <2>3. CASE Return
    BY <2>3 DEF Return
  <2>4. CASE Raise
    BY <2>4 DEF Raise
  <2>5. CASE PutResult \/ PutEnd
    BY <2>5 DEF PutResult, PutEnd
  <2>6. CASE ChildExits \/ ChildDies
    BY <2>6 DEF ChildExits, ChildDies, Alive
  <2> QED
    BY <2>1, <2>2, <2>3, <2>4, <2>5, <2>6 DEF Child
<1>1. ASSUME ReportStep PROVE TypeOK' /\ OutcomeInPlace' /\ RecordsInPlace' /\ OnItsWay'
  <2>1. Record("step", "none") \in Records /\ Truthful(Record("step", "none"))'
    BY DEF Record, Records, Truthful, Vals
  <2>2. queue' \in Seq(Records) /\ RecordsInPlace'
    BY <1>0, <1>1, <2>1, Queues DEF ReportStep
  <2> QED
    BY <1>0, <1>1, <2>2 DEF ReportStep, IInv, TypeOK, OutcomeInPlace, OnItsWay
<1>2. ASSUME NEW v \in {"ok", "fail"}, ReportAnswer(v)
      PROVE  TypeOK' /\ OutcomeInPlace' /\ RecordsInPlace' /\ OnItsWay'
  <2>1. Record("answer", v) \in Records /\ Truthful(Record("answer", v))'
    BY <1>2 DEF Record, Records, Truthful, Vals, ReportAnswer
  <2>2. queue' \in Seq(Records) /\ RecordsInPlace'
    BY <1>0, <1>2, <2>1, Queues DEF ReportAnswer
  <2> QED
    BY <1>0, <1>2, <2>2 DEF ReportAnswer, IInv, TypeOK, OutcomeInPlace, OnItsWay, Vals, Reading
<1>3. ASSUME Return PROVE TypeOK' /\ OutcomeInPlace' /\ RecordsInPlace' /\ OnItsWay'
  <2>1. Record("step", "none") \in Records /\ Truthful(Record("step", "none"))'
    BY DEF Record, Records, Truthful, Vals
  <2>2. queue' \in Seq(Records) /\ RecordsInPlace'
    BY <1>0, <1>3, <2>1, Queues DEF Return
  <2> QED
    BY <1>0, <1>3, <2>2 DEF Return, IInv, TypeOK, OutcomeInPlace, OnItsWay, Vals, Reading
<1>4. ASSUME Raise PROVE TypeOK' /\ OutcomeInPlace' /\ RecordsInPlace' /\ OnItsWay'
  <2>1. CASE UNCHANGED <<lost, queue>> /\ child' = "result"
    <3>1. Record("step", "none") \in Records /\ Truthful(Record("step", "none"))'
      BY DEF Record, Records, Truthful, Vals
    <3>2. queue' \in Seq(Records) /\ RecordsInPlace'
      BY <1>0, <1>4, <2>1, <3>1, Queues DEF Raise
    <3> QED
      BY <1>0, <1>4, <2>1, <3>2 DEF Raise, IInv, TypeOK, OutcomeInPlace, OnItsWay, Vals, Reading
  <2>2. CASE /\ child' = "end" /\ lost'
             /\ queue' = queue \/ queue' = Append(queue, Record("worker_error", "none"))
    <3>1. Record("worker_error", "none") \in Records /\ Truthful(Record("worker_error", "none"))'
      BY <1>4, <2>2 DEF Record, Records, Truthful, Vals, Raise
    <3>2. queue' \in Seq(Records) /\ RecordsInPlace'
      BY <1>0, <1>4, <2>2, <3>1, Queues DEF Raise
    <3> QED
      BY <1>0, <1>4, <2>2, <3>2 DEF Raise, IInv, TypeOK, OutcomeInPlace, OnItsWay, Vals, Reading
  <2> QED
    BY <1>4, <2>1, <2>2 DEF Raise
<1>5. ASSUME PutResult PROVE TypeOK' /\ OutcomeInPlace' /\ RecordsInPlace' /\ OnItsWay'
  <2>0. PICK v \in Vals : v = outcome
    BY DEF IInv, TypeOK
  <2> DEFINE m == Record("result", v)
  <2>1. m \in Records /\ Truthful(m)' /\ m.kind = "result"
    BY <1>5, <2>0 DEF Record, Records, Truthful, PutResult, IInv, TypeOK, OutcomeInPlace
  <2> HIDE DEF m
  <2>2. (queue' = queue /\ lost') \/ queue' = Append(queue, m)
    BY <1>5, <2>0 DEF PutResult, m
  <2>3. /\ queue' \in Seq(Records) /\ RecordsInPlace'
        /\ queue' = Append(queue, m) => Queued("result")'
    BY <1>0, <1>5, <2>1, <2>2, Queues DEF PutResult
  <2>4. OnItsWay'
    BY <1>0, <1>5, <2>2, <2>3 DEF PutResult, IInv, OutcomeInPlace, OnItsWay
  <2> QED
    BY <1>0, <1>5, <2>3, <2>4 DEF PutResult, IInv, TypeOK, OutcomeInPlace, Reading
<1>6. ASSUME PutEnd PROVE TypeOK' /\ OutcomeInPlace' /\ RecordsInPlace' /\ OnItsWay'
  <2> DEFINE m == Record("end", "none")
  <2>1. m \in Records /\ Truthful(m)' /\ m.kind = "end"
    BY <1>6 DEF Record, Records, Truthful, PutEnd, IInv, TypeOK, OutcomeInPlace, Vals
  <2> HIDE DEF m
  <2>2. (queue' = queue /\ lost') \/ queue' = Append(queue, m)
    BY <1>6 DEF PutEnd, m
  <2>3. /\ queue' \in Seq(Records) /\ RecordsInPlace'
        /\ \A k : Queued(k) => Queued(k)'
        /\ queue' = Append(queue, m) => Queued("end")'
    BY <1>0, <1>6, <2>1, <2>2, Queues DEF PutEnd
  <2>4. OnItsWay'
    BY <1>0, <1>6, <2>2, <2>3 DEF PutEnd, IInv, OutcomeInPlace, OnItsWay, Reading
  <2> QED
    BY <1>0, <1>6, <2>3, <2>4 DEF PutEnd, IInv, TypeOK, OutcomeInPlace, Reading
<1>7. ASSUME ChildExits PROVE TypeOK' /\ OutcomeInPlace' /\ RecordsInPlace' /\ OnItsWay'
  BY <1>0, <1>7 DEF ChildExits, IInv, TypeOK, OutcomeInPlace, RecordsInPlace, Truthful, OnItsWay,
     Queued, Reading
<1>8. ASSUME ChildDies PROVE TypeOK' /\ OutcomeInPlace' /\ RecordsInPlace' /\ OnItsWay'
  <2>1. PICK n \in 0..Len(queue) : /\ queue' = SubSeq(queue, 1, n)
                                   /\ lost' = (lost \/ child # "leaving" \/ n < Len(queue))
    BY <1>8 DEF ChildDies
  <2>2. /\ queue' \in Seq(Records) /\ Len(queue') = n /\ DOMAIN queue' = 1..n
        /\ DOMAIN queue = 1..Len(queue) /\ Len(queue) \in Nat
        /\ \A i \in 1..n : queue'[i] = queue[i]
    BY <2>1, SubSeqProperties DEF IInv, TypeOK
  <2>3. pending = <<>> /\ pending' = <<>>
    BY <1>0 DEF IInv, RecordsInPlace
  <2>4. RecordsInPlace'
    BY <1>0, <1>8, <2>1, <2>2, <2>3 DEF ChildDies, IInv, RecordsInPlace, Truthful
  <2>5. ~lost' => queue' = queue /\ child = "leaving"
    <3>1. ~lost' => n = Len(queue) /\ child = "leaving"
      <4>1. ~lost' => ~(lost \/ child # "leaving" \/ n < Len(queue))
        BY <2>1, Zenon
      <4>2. n \in 0..Len(queue) /\ Len(queue) \in Nat
        BY <2>1, <2>2
      <4> QED
        BY <4>1, <4>2
    <3> QED
      BY <2>1, <3>1, SubSeqFull DEF IInv, TypeOK
  <2>6. OnItsWay'
    BY <1>0, <1>8, <2>1, <2>3, <2>5 DEF ChildDies, IInv, TypeOK, OnItsWay, Queued, Reading
  <2> QED
    BY <1>0, <1>8, <2>1, <2>2, <2>4, <2>6 DEF ChildDies, IInv, TypeOK, OutcomeInPlace, Reading
<1>9. child \in {"leaving", "exited"} => child' \in {"leaving", "exited"} /\ outcome' = outcome
  BY DEF Child, ReportStep, ReportAnswer, Return, Raise, PutResult, PutEnd, ChildExits, ChildDies,
         Alive
<1>10. PassedOn' /\ Closed' /\ Whole'
  BY <1>0, <1>9, ChildTells
<1> QED
  BY <1>1, <1>2, <1>3, <1>4, <1>5, <1>6, <1>7, <1>8, <1>10 DEF Child

-----------------------------------------------------------------------------
(* The handler's steps *)

\* What closes an answer: it stays whole, and the client is told v and done.
LEMMA Answers ==
  ASSUME IInv, Reading \/ pc = "begin", NEW v \in {"ok", "fail"}, NEW done \in {"ok", "fail"},
         out' = Answering(v, done), endpoint' = endpoint,
         done = "ok" => v = "ok" /\ \A i \in DOMAIN out : out[i].kind = "answer" => out[i].val = "ok"
  PROVE  /\ out' \in Seq(Records) /\ Whole'
         /\ endpoint = "stream" => Emitted("answer")' /\ Emitted("done")' /\ Told("done", done)'
         /\ endpoint = "progress" => Told("result", v)'
         /\ endpoint = "json" => Told("body", v)'
<1>1. /\ out \in Seq(Records) /\ One(out, "answer") /\ One(out, "done")
      /\ ~Has(out, "done")
  BY Words DEF IInv, TypeOK, Whole, PassedOn, OutcomeInPlace, Has
<1>2. /\ Record("answer", v) \in Records /\ Record("done", done) \in Records
      /\ Record("result", v) \in Records /\ Record("body", v) \in Records
  BY DEF Records, Record, Vals
<1>3. CASE endpoint = "stream"
  <2> DEFINE t == IF Emitted("answer") THEN out ELSE Append(out, Record("answer", v))
  <2>1. /\ t \in Seq(Records) /\ One(t, "answer") /\ ~Has(t, "done") /\ Has(t, "answer")
        /\ One(t, "done")
        /\ done = "ok" => Ends(t, "answer", "ok")
    <3>1. CASE Emitted("answer")
      <4>1. t = out /\ Has(t, "answer")
        BY <3>1, Words
      <4> HIDE DEF t
      <4>2. PICK i \in DOMAIN t : t[i].kind = "answer"
        BY <4>1 DEF Has
      <4>3. \A j \in DOMAIN t : j > i => t[j].kind # "answer"
        BY <1>1, <4>1, <4>2, AppendedWords DEF One
      <4>4. t[i] \in Records
        BY <1>1, <4>1, <4>2, ElementOfSeq
      <4>5. done = "ok" => t[i] = Record("answer", "ok")
        BY <4>1, <4>2, <4>4 DEF Records, Record
      <4> QED
        BY <1>1, <4>1, <4>3, <4>5 DEF Ends
    <3>2. CASE ~Emitted("answer")
      <4> DEFINE e == Record("answer", v)
      <4>1. t = Append(out, e) /\ ~Has(out, "answer")
        BY <3>2, Words
      <4>2. e.kind = "answer" /\ e.val = v /\ e \in Records
        BY <1>2 DEF Record
      <4> HIDE DEF t, e
      <4>3. t \in Seq(Records)
        BY <1>1, <4>1, <4>2, Appended
      <4>4. \A k : Has(t, k) <=> Has(out, k) \/ e.kind = k
        BY <1>1, <4>1, <4>2, AppendedWords
      <4>5. \A k : One(out, k) /\ (e.kind = k => ~Has(out, k)) => One(t, k)
        BY <1>1, <4>1, <4>2, AppendedWords
      <4>6. Ends(t, e.kind, e.val)
        BY <1>1, <4>1, <4>2, AppendedWords
      <4> QED
        BY <1>1, <4>1, <4>2, <4>3, <4>4, <4>5, <4>6
    <3> QED
      BY <3>1, <3>2
  <2> DEFINE e == Record("done", done)
  <2>2. out' = Append(t, e)
    BY <1>3 DEF Answering
  <2>3. e.kind = "done" /\ e.val = done /\ e \in Records
    BY <1>2 DEF Record
  <2> HIDE DEF t, e
  <2>4. out' \in Seq(Records)
    BY <2>1, <2>2, <2>3, Appended
  <2>5. /\ \A k : Has(out', k) <=> Has(t, k) \/ k = "done"
        /\ One(out', "answer") /\ One(out', "done")
        /\ Ends(out', "done", done)
        /\ Ends(t, "answer", "ok") => Ends(out', "answer", "ok")
        /\ Last(out').kind = "done"
    <3>1. \A k : Has(out', k) <=> Has(t, k) \/ e.kind = k
      BY <2>1, <2>2, <2>3, AppendedWords
    <3>2. \A k : One(t, k) /\ (e.kind = k => ~Has(t, k)) => One(out', k)
      BY <2>1, <2>2, <2>3, AppendedWords
    <3>3. Ends(out', e.kind, e.val) /\ Last(out') = e
      BY <2>1, <2>2, <2>3, AppendedWords
    <3>4. \A k, w : k # e.kind => (Ends(out', k, w) <=> Ends(t, k, w))
      BY <2>1, <2>2, <2>3, AppendedWords
    <3> QED
      BY <2>1, <2>3, <3>1, <3>2, <3>3, <3>4
  <2>6. Ends(out', "done", "ok") => done = "ok"
    <3>1. /\ DOMAIN out' = 1..(Len(t) + 1) /\ Len(t) \in Nat /\ DOMAIN t = 1..Len(t)
          /\ \A i \in 1..Len(t) : out'[i] = t[i]
          /\ out'[Len(t) + 1] = e
      BY <2>1, <2>2, <2>3, Appended
    <3> QED
      BY <2>1, <2>3, <3>1 DEF Ends, Has, Record
  <2>7. Whole'
    BY <2>1, <2>5, <2>6, Words DEF Whole
  <2> QED
    BY <1>3, <2>1, <2>4, <2>5, <2>7, Words
<1>4. ASSUME NEW k \in {"result", "body"}, out' = Append(out, Record(k, v))
      PROVE  out' \in Seq(Records) /\ Whole' /\ Told(k, v)'
  <2> DEFINE e == Record(k, v)
  <2>1. out' = Append(out, e) /\ e.kind = k /\ e.val = v /\ e \in Records
    BY <1>2, <1>4 DEF Record
  <2> HIDE DEF e
  <2>2. out' \in Seq(Records)
    BY <1>1, <2>1, Appended
  <2>3. /\ ~Has(out', "done") /\ One(out', "answer") /\ One(out', "done") /\ Ends(out', k, v)
    <3>1. \A kind : Has(out', kind) <=> Has(out, kind) \/ e.kind = kind
      BY <1>1, <2>1, AppendedWords
    <3>2. \A kind : One(out, kind) /\ (e.kind = kind => ~Has(out, kind)) => One(out', kind)
      BY <1>1, <2>1, AppendedWords
    <3>3. Ends(out', e.kind, e.val)
      BY <1>1, <2>1, AppendedWords
    <3> QED
      BY <1>1, <2>1, <3>1, <3>2, <3>3
  <2>4. ~Ends(out', "done", "ok")
    BY <2>3 DEF Ends, Has, Record
  <2> QED
    BY <2>2, <2>3, <2>4, Words DEF Whole
<1>5. CASE endpoint = "progress"
  BY <1>4, <1>5 DEF Answering
<1>6. CASE endpoint = "json"
  BY <1>4, <1>6 DEF Answering
<1> QED
  BY <1>3, <1>5, <1>6, EndpointsAssumption DEF IInv, TypeOK

\* The handler stops reading and closes with v.
LEMMA Finishes ==
  ASSUME IInv, Reading \/ pc = "begin", NEW v \in {"ok", "fail"}, NEW done \in {"ok", "fail"},
         NEW why \in {"unserved", "end", "timeout", "dead"},
         out' = Answering(v, done), Finish(why), UNCHANGED <<endpoint, child, outcome, lost>>,
         done = "ok" => v = "ok" /\ \A i \in DOMAIN out : out[i].kind = "answer" => out[i].val = "ok",
         received' \in Vals,
         queue' \in Seq(Records), pending' \in Seq(Records), RecordsInPlace',
         child = "none" => queue' = <<>>,
         why \in {"end", "dead"} => child \in {"leaving", "exited"},
         why = "dead" => lost,
         why = "end" /\ ~lost => v = outcome /\ done = outcome
  PROVE  IInv'
<1>1. /\ out' \in Seq(Records) /\ Whole'
      /\ endpoint = "stream" => Emitted("answer")' /\ Emitted("done")' /\ Told("done", done)'
      /\ endpoint = "progress" => Told("result", v)'
      /\ endpoint = "json" => Told("body", v)'
  BY Answers
<1>2. pc' \in {"flushing", "closed"} /\ ended' = why
  BY DEF Finish
<1>3. TypeOK'
  BY <1>1, <1>2 DEF IInv, TypeOK
<1>4. OutcomeInPlace'
  BY <1>2 DEF IInv, OutcomeInPlace, Reading
<1>5. OnItsWay' /\ PassedOn'
  BY <1>2 DEF OnItsWay, PassedOn, Reading
<1>6. Closed'
  <2>1. why = "end" /\ ~lost' => /\ endpoint' = "stream" => Told("done", outcome)'
                                 /\ endpoint' = "progress" => Told("result", outcome)'
                                 /\ endpoint' = "json" => Told("body", outcome)'
    BY <1>1 DEF Told
  <2> QED
    BY <1>1, <1>2, <2>1 DEF Closed
<1> QED
  BY <1>1, <1>3, <1>4, <1>5, <1>6 DEF IInv

\* The next record leaves a sequence whose records are in place.
LEMMA NextRecord ==
  ASSUME IInv, pc = "reading", UNCHANGED <<child, outcome, lost>>, pc' # "got_none",
         \/ pending # <<>> /\ pending' = Tail(pending) /\ queue' = queue
         \/ pending = <<>> /\ queue # <<>> /\ queue' = Tail(queue) /\ pending' = pending
  PROVE  LET m == IF pending # <<>> THEN Head(pending) ELSE Head(queue)
         IN  /\ m \in Records /\ Truthful(m)
             /\ queue' \in Seq(Records) /\ pending' \in Seq(Records) /\ RecordsInPlace'
             /\ \A k : Queued(k) => m.kind = k \/ Queued(k)'
             /\ m.kind = "end" => \A k : ~Queued(k)'
<1> DEFINE m == IF pending # <<>> THEN Head(pending) ELSE Head(queue)
<1>1. CASE pending # <<>>
  <2>1. /\ m \in Records /\ m = pending[1] /\ 1 \in DOMAIN pending
        /\ pending' \in Seq(Records) /\ Len(pending) \in Nat \ {0}
        /\ Len(pending') = Len(pending) - 1
        /\ DOMAIN pending = 1..Len(pending) /\ DOMAIN pending' = 1..(Len(pending) - 1)
        /\ \A i \in 1..(Len(pending) - 1) : pending'[i] = pending[i + 1]
    BY <1>1, Popped DEF IInv, TypeOK
  <2> HIDE DEF m
  <2>2. queue = <<>> /\ queue' = <<>> /\ child = "exited" /\ DOMAIN queue = {} /\ DOMAIN queue' = {}
    BY <1>1 DEF IInv, RecordsInPlace
  <2>3. \A i \in DOMAIN pending : Truthful(pending[i]) /\ (pending[i].kind = "end" => i = Len(pending))
    BY DEF IInv, RecordsInPlace
  <2>4. Truthful(m)
    BY <2>1, <2>3
  <2>5. RecordsInPlace'
    BY <2>1, <2>2, <2>3 DEF RecordsInPlace, Truthful
  <2>6. \A k : Queued(k) => m.kind = k \/ Queued(k)'
    <3> SUFFICES ASSUME NEW k, Queued(k), m.kind # k PROVE Queued(k)'
      OBVIOUS
    <3>1. PICK i \in DOMAIN pending : pending[i].kind = k
      BY <2>2 DEF Queued
    <3>2. i # 1 /\ i - 1 \in 1..(Len(pending) - 1) /\ (i - 1) + 1 = i
      BY <2>1, <3>1
    <3>3. pending'[i - 1] = pending[i]
      BY <2>1, <3>2
    <3> QED
      BY <2>1, <3>1, <3>2, <3>3 DEF Queued
  <2>7. m.kind = "end" => \A k : ~Queued(k)'
    BY <2>1, <2>2, <2>3 DEF Queued
  <2>8. queue' \in Seq(Records)
    BY <1>1 DEF IInv, TypeOK
  <2> QED
    BY <1>1, <2>1, <2>4, <2>5, <2>6, <2>7, <2>8 DEF m
<1>2. CASE pending = <<>>
  <2>1. /\ m \in Records /\ m = queue[1] /\ 1 \in DOMAIN queue
        /\ queue' \in Seq(Records) /\ Len(queue) \in Nat \ {0}
        /\ Len(queue') = Len(queue) - 1
        /\ DOMAIN queue = 1..Len(queue) /\ DOMAIN queue' = 1..(Len(queue) - 1)
        /\ \A i \in 1..(Len(queue) - 1) : queue'[i] = queue[i + 1]
    BY <1>2, Popped DEF IInv, TypeOK
  <2> HIDE DEF m
  <2>2. pending' = <<>> /\ DOMAIN pending = {} /\ DOMAIN pending' = {}
    BY <1>2
  <2>3. \A i \in DOMAIN queue : Truthful(queue[i]) /\ (queue[i].kind = "end" => i = Len(queue))
    BY DEF IInv, RecordsInPlace
  <2>4. Truthful(m)
    BY <2>1, <2>3
  <2>5. RecordsInPlace'
    BY <2>1, <2>2, <2>3 DEF RecordsInPlace, Truthful
  <2>6. \A k : Queued(k) => m.kind = k \/ Queued(k)'
    <3> SUFFICES ASSUME NEW k, Queued(k), m.kind # k PROVE Queued(k)'
      OBVIOUS
    <3>1. PICK i \in DOMAIN queue : queue[i].kind = k
      BY <2>2 DEF Queued
    <3>2. i # 1 /\ i - 1 \in 1..(Len(queue) - 1) /\ (i - 1) + 1 = i
      BY <2>1, <3>1
    <3>3. queue'[i - 1] = queue[i]
      BY <2>1, <3>2
    <3> QED
      BY <2>1, <3>1, <3>2, <3>3 DEF Queued
  <2>7. m.kind = "end" => \A k : ~Queued(k)'
    BY <2>1, <2>2, <2>3 DEF Queued
  <2>8. pending' \in Seq(Records)
    BY <1>2 DEF IInv, TypeOK
  <2> QED
    BY <1>2, <2>1, <2>4, <2>5, <2>6, <2>7, <2>8 DEF m
<1> QED
  BY <1>1, <1>2

\* A record that does not end the reading is passed on, or kept back.
LEMMA Passes ==
  ASSUME IInv, pc = "reading", NEW m \in Records, Truthful(m), m.kind # "end",
         UNCHANGED <<endpoint, child, outcome, lost, pc, ended>>,
         queue' \in Seq(Records), pending' \in Seq(Records), RecordsInPlace',
         \A k : Queued(k) => m.kind = k \/ Queued(k)',
         \/ out' = out
         \/ /\ out' = Append(out, m) /\ m.kind \in {"step", "answer", "result"}
            /\ m.kind = "answer" => ~Emitted("answer"),
         received' \in {received, outcome},
         m.kind = "result" => received' = outcome,
         endpoint = "progress" =>
            IF m.kind = "result" THEN out' = Append(out, m) ELSE received' = received
  PROVE  IInv'
<1>1. child # "none" /\ Reading /\ Reading'
  BY DEF IInv, OutcomeInPlace, Reading
<1>2. /\ out \in Seq(Records) /\ ~Has(out, "done") /\ ~Has(out, "body")
      /\ One(out, "answer") /\ One(out, "done")
      /\ \A i \in DOMAIN out : out[i].kind = "answer" => out[i].val = outcome /\ outcome # "none"
      /\ endpoint = "progress" /\ received # "none" => Ends(out, "result", received)
  BY <1>1, Words DEF IInv, TypeOK, PassedOn, Whole
<1>3. /\ out' \in Seq(Records) /\ ~Has(out', "done") /\ ~Has(out', "body")
      /\ One(out', "answer") /\ One(out', "done")
      /\ \A i \in DOMAIN out' : out'[i].kind = "answer" => out'[i].val = outcome /\ outcome # "none"
      /\ endpoint = "progress" /\ received' # "none" => Ends(out', "result", received')
  <2>1. CASE out' = out
    <3>1. endpoint = "progress" => received' = received
      <4>1. ASSUME m.kind = "result", out = Append(out, m) PROVE FALSE
        BY <1>2, <4>1, Appended
      <4> QED
        BY <2>1, <4>1
    <3> QED
      BY <1>2, <2>1, <3>1
  <2>2. CASE /\ out' = Append(out, m) /\ m.kind \in {"step", "answer", "result"}
             /\ m.kind = "answer" => ~Emitted("answer")
    <3>0. m.kind = "answer" => ~Has(out, "answer")
      BY <2>2, Words
    <3>1. \A k : Has(out', k) <=> Has(out, k) \/ m.kind = k
      BY <1>2, <2>2, AppendedWords
    <3>2. \A k : One(out, k) /\ (m.kind = k => ~Has(out, k)) => One(out', k)
      BY <1>2, <2>2, AppendedWords
    <3>3. Ends(out', m.kind, m.val)
      BY <1>2, <2>2, AppendedWords
    <3>4. \A k, v : k # m.kind => (Ends(out', k, v) <=> Ends(out, k, v))
      BY <1>2, <2>2, AppendedWords
    <3>5. /\ out' \in Seq(Records) /\ DOMAIN out' = 1..(Len(out) + 1) /\ Len(out) \in Nat
          /\ DOMAIN out = 1..Len(out)
          /\ \A i \in 1..Len(out) : out'[i] = out[i]
          /\ out'[Len(out) + 1] = m
      BY <1>2, <2>2, Appended
    <3>6. m.kind \in {"answer", "result"} => m.val = outcome /\ outcome # "none"
      BY DEF Truthful
    <3>7. \A i \in DOMAIN out' : out'[i].kind = "answer" => out'[i].val = outcome /\ outcome # "none"
      BY <1>2, <3>5, <3>6
    <3>8. endpoint = "progress" /\ received' # "none" => Ends(out', "result", received')
      BY <1>2, <3>3, <3>4, <3>6
    <3> QED
      BY <1>2, <2>2, <3>0, <3>1, <3>2, <3>5, <3>7, <3>8
  <2> QED
    BY <2>1, <2>2
<1>4. Whole'
  <2>1. ~Ends(out', "done", "ok")
    BY <1>3 DEF Has, Ends, Record
  <2> QED
    BY <1>3, <2>1, Words DEF Whole
<1>5. PassedOn'
  BY <1>1, <1>3, Words DEF IInv, PassedOn
<1>6. OnItsWay'
  BY <1>1 DEF IInv, OnItsWay
<1>7. TypeOK'
  BY <1>3 DEF IInv, TypeOK
<1>8. OutcomeInPlace' /\ Closed'
  BY <1>1 DEF IInv, OutcomeInPlace, Closed, Reading
<1> QED
  BY <1>4, <1>5, <1>6, <1>7, <1>8 DEF IInv

\* Every record the handler reads.
LEMMA Hears ==
  ASSUME IInv, pc = "reading", NEW m \in Records, Truthful(m), Handle(m),
         UNCHANGED <<endpoint, child, outcome, lost>>,
         queue' \in Seq(Records), pending' \in Seq(Records), RecordsInPlace',
         \A k : Queued(k) => m.kind = k \/ Queued(k)',
         m.kind = "end" => \A k : ~Queued(k)'
  PROVE  IInv'
<1>0. Reading /\ child # "none" /\ received \in {"none", outcome}
  BY DEF IInv, OutcomeInPlace, PassedOn, Reading
<1>1. CASE m.kind = "step"
  BY <1>1, Passes DEF Handle
<1>2. CASE m.kind = "answer"
  BY <1>2, Passes DEF Handle
<1>3. CASE m.kind = "result"
  <2>1. received' = m.val /\ m.val = outcome
    BY <1>3 DEF Handle, Truthful
  <2> QED
    BY <1>3, <2>1, Passes DEF Handle
<1>4. CASE m.kind = "worker_error"
  <2>1. outcome = "fail"
    BY <1>4 DEF Truthful
  <2> QED
    BY <1>4, <2>1, Passes DEF Handle
<1>5. CASE m.kind = "end"
  <2>1. /\ child \in {"leaving", "exited"} /\ outcome # "none" /\ received' = received
        /\ Finish("end")
        /\ out' = IF endpoint = "progress" THEN out ELSE Answering(AtEnd, AtEnd)
    BY <1>5 DEF Truthful, Handle
  <2>2. ~lost => received = outcome
    BY <1>0, <1>5, <2>1 DEF IInv, OnItsWay
  <2>3. CASE endpoint # "progress"
    <3>1. AtEnd \in {"ok", "fail"} /\ (~lost => AtEnd = outcome)
      BY <1>0, <2>1, <2>2 DEF AtEnd, IInv, TypeOK, Vals
    <3>2. AtEnd = "ok" => \A i \in DOMAIN out : out[i].kind = "answer" => out[i].val = "ok"
      BY <1>0, <2>1 DEF AtEnd, IInv, PassedOn
    <3>3. PICK v \in {"ok", "fail"} : v = AtEnd
      BY <3>1
    <3>4. received' \in Vals
      BY <2>1 DEF IInv, TypeOK
    <3> QED
      BY <1>0, <2>1, <2>3, <3>1, <3>2, <3>3, <3>4, Finishes
  <2>4. CASE endpoint = "progress"
    <3>1. /\ out' = out /\ received' = received /\ pc' = "flushing" /\ ended' = "end"
      BY <2>1, <2>4 DEF Finish
    <3>3. TypeOK'
      BY <3>1 DEF IInv, TypeOK
    <3>4. Whole'
      BY <3>1 DEF IInv, Whole, AtMostOne, Emitted, Told
    <3>5. OutcomeInPlace' /\ OnItsWay' /\ PassedOn'
      BY <1>0, <3>1 DEF IInv, OutcomeInPlace, OnItsWay, PassedOn, Reading
    <3>6. ~lost => Told("result", outcome)
      BY <1>0, <2>1, <2>2, <2>4 DEF IInv, PassedOn
    <3>7. Closed'
      BY <2>1, <2>4, <3>1, <3>6 DEF Closed, Told
    <3> QED
      BY <3>3, <3>4, <3>5, <3>7 DEF IInv
  <2> QED
    BY <2>3, <2>4
<1> QED
  BY <1>1, <1>2, <1>3, <1>4, <1>5 DEF Handle

\* What the queue holds stays in place when nothing but the handler's place
\* changes.
LEMMA StillInPlace ==
  ASSUME IInv, UNCHANGED <<child, outcome, lost, queue, pending>>,
         pc' = "got_none" => pending = <<>>
  PROVE  /\ queue' \in Seq(Records) /\ pending' \in Seq(Records) /\ RecordsInPlace'
         /\ \A k : Queued(k)' <=> Queued(k)
BY DEF IInv, TypeOK, RecordsInPlace, Truthful, Queued

\* The handler looks at the child, and goes on.
LEMMA Looks ==
  ASSUME IInv, Reading, Reading',
         UNCHANGED <<endpoint, child, outcome, lost, received, out, ended>>,
         queue' \in Seq(Records), pending' \in Seq(Records), RecordsInPlace',
         \A k : Queued(k) => Queued(k)'
  PROVE  IInv'
<1>1. child # "none" /\ pc' \in {"reading", "got_none"}
  BY DEF IInv, OutcomeInPlace, Reading
<1>2. TypeOK'
  BY <1>1 DEF IInv, TypeOK
<1>3. OutcomeInPlace' /\ OnItsWay' /\ Closed'
  BY <1>1 DEF IInv, OutcomeInPlace, OnItsWay, Closed
<1>4. PassedOn'
  BY DEF IInv, PassedOn, Emitted, Told
<1>5. Whole'
  BY DEF IInv, Whole, AtMostOne, Emitted, Told
<1> QED
  BY <1>2, <1>3, <1>4, <1>5 DEF IInv

LEMMA HandlerPreserves ==
  ASSUME IInv, Handler
  PROVE  IInv'
<1> USE DEF childVars
<1>1. CASE Unserved
  <2>1. /\ child = "none" /\ out = <<>> /\ DOMAIN out = {} /\ pc' # "got_none"
        /\ pc = "begin" /\ received' \in Vals /\ queue = <<>>
    BY <1>1 DEF Unserved, Finish, IInv, TypeOK, OutcomeInPlace
  <2> QED
    BY <1>1, <2>1, StillInPlace, Finishes DEF Unserved
<1>2. CASE Serve
  <2>1. /\ child = "none" /\ queue = <<>> /\ pending = <<>> /\ out = <<>>
        /\ received = "none" /\ ended = "no" /\ outcome = "none"
    BY <1>2 DEF Serve, IInv, OutcomeInPlace
  <2>2. TypeOK' /\ OutcomeInPlace' /\ OnItsWay' /\ Closed'
    BY <1>2, <2>1 DEF Serve, IInv, TypeOK, OutcomeInPlace, OnItsWay, Closed, Reading
  <2>3. RecordsInPlace'
    BY <1>2, <2>1 DEF Serve, RecordsInPlace
  <2>4. PassedOn'
    BY <1>2, <2>1 DEF Serve, PassedOn, Emitted
  <2>5. Whole'
    BY <1>2, <2>1 DEF Serve, Whole, AtMostOne, Emitted, Told
  <2> QED
    BY <2>2, <2>3, <2>4, <2>5 DEF IInv
<1>3. CASE ReadPending
  <2> DEFINE m == Head(pending)
  <2>1. pc' # "got_none" /\ pc = "reading"
    BY <1>3 DEF ReadPending, Handle, Finish
  <2>2. /\ m \in Records /\ Truthful(m)
        /\ queue' \in Seq(Records) /\ pending' \in Seq(Records) /\ RecordsInPlace'
        /\ \A k : Queued(k) => m.kind = k \/ Queued(k)'
        /\ m.kind = "end" => \A k : ~Queued(k)'
    BY <1>3, <2>1, NextRecord DEF ReadPending
  <2> QED
    BY <1>3, <2>1, <2>2, Hears DEF ReadPending
<1>4. CASE ReadQueue
  <2> DEFINE m == Head(queue)
  <2>1. pc' # "got_none" /\ pc = "reading"
    BY <1>4 DEF ReadQueue, Handle, Finish
  <2>2. /\ m \in Records /\ Truthful(m)
        /\ queue' \in Seq(Records) /\ pending' \in Seq(Records) /\ RecordsInPlace'
        /\ \A k : Queued(k) => m.kind = k \/ Queued(k)'
        /\ m.kind = "end" => \A k : ~Queued(k)'
    BY <1>4, <2>1, NextRecord DEF ReadQueue
  <2> QED
    BY <1>4, <2>1, <2>2, Hears DEF ReadQueue
<1>5. CASE ReadNothing
  BY <1>5, StillInPlace, Looks DEF ReadNothing, Reading
<1>6. CASE TimeOut
  <2>1. child # "none" /\ pc' # "got_none" /\ received' \in Vals /\ Reading
    BY <1>6 DEF TimeOut, Finish, Reading, IInv, OutcomeInPlace, Vals
  <2> QED
    BY <1>6, <2>1, StillInPlace, Finishes DEF TimeOut
<1>7. CASE SeeAlive
  BY <1>7, StillInPlace, Looks DEF SeeAlive, Reading
<1>8. CASE Recover
  <2>1. PICK n \in 1..Len(queue) : /\ Drained(n)
                                   /\ pending' = SubSeq(queue, 1, n)
                                   /\ queue' = SubSeq(queue, n + 1, Len(queue))
    BY <1>8 DEF Recover
  <2>2. /\ queue \in Seq(Records) /\ Len(queue) \in Nat /\ DOMAIN queue = 1..Len(queue)
        /\ \A i \in DOMAIN queue : Truthful(queue[i]) /\ (queue[i].kind = "end" => i = Len(queue))
    BY DEF IInv, TypeOK, RecordsInPlace
  <2>3. n = Len(queue)
    BY <2>1, <2>2 DEF Drained
  <2>4. pending' = queue
    BY <2>1, <2>2, <2>3, SubSeqFull
  <2>5. queue' = <<>>
    BY <2>1, <2>2, <2>3, SubSeqProperties
  <2>6. /\ UNCHANGED <<endpoint, child, outcome, lost, received, out, ended>>
        /\ Reading /\ Reading' /\ pc' = "reading" /\ child = "exited" /\ pending = <<>>
    BY <1>8 DEF Recover, Reading, Alive, IInv, RecordsInPlace, OutcomeInPlace
  <2>7. DOMAIN queue' = {} /\ DOMAIN pending = {}
    BY <2>5, <2>6
  <2>8. queue' \in Seq(Records) /\ pending' \in Seq(Records) /\ RecordsInPlace'
    <3>1. queue' \in Seq(Records) /\ pending' \in Seq(Records)
      BY <2>2, <2>4, <2>5, EmptySeq
    <3> QED
      BY <2>2, <2>4, <2>5, <2>6, <2>7, <3>1 DEF RecordsInPlace, Truthful
  <2>9. \A k : Queued(k) => Queued(k)'
    BY <2>4, <2>7 DEF Queued
  <2> QED
    BY <2>6, <2>8, <2>9, Looks
<1>9. CASE SeeDead
  BY <1>9, StillInPlace, Looks DEF SeeDead, Reading
<1>10. CASE GiveUpOnDead
  <2>1. /\ Reading /\ child = "exited" /\ queue = <<>> /\ pending = <<>> /\ pc' # "got_none"
        /\ Finish("dead")
    BY <1>10 DEF GiveUpOnDead, Reading, Alive, Finish, IInv, RecordsInPlace, OutcomeInPlace
  <2>2. lost
    <3>1. ~Queued("end")
      BY <2>1 DEF Queued
    <3> QED
      BY <2>1, <3>1 DEF IInv, OnItsWay
  <2>3. received' \in Vals
    BY <1>10 DEF GiveUpOnDead, IInv, TypeOK, Vals
  <2>4. PICK v \in {"ok", "fail"} : v = IF endpoint = "json" THEN AtEnd ELSE "fail"
    BY DEF AtEnd, IInv, TypeOK, Vals
  <2>5. out' = Answering(v, v)
    BY <1>10, <2>4 DEF GiveUpOnDead
  <2>6. v = "ok" => \A i \in DOMAIN out : out[i].kind = "answer" => out[i].val = "ok"
    BY <2>1, <2>4 DEF AtEnd, IInv, PassedOn
  <2> QED
    BY <1>10, <2>1, <2>2, <2>3, <2>5, <2>6, StillInPlace, Finishes DEF GiveUpOnDead
<1>11. CASE Close
  <2>1. /\ UNCHANGED <<endpoint, child, outcome, lost, queue, pending, received, out, ended>>
        /\ pc = "flushing" /\ pc' = "closed"
    BY <1>11 DEF Close
  <2>2. RecordsInPlace'
    BY <2>1, StillInPlace
  <2>3. TypeOK' /\ OutcomeInPlace' /\ OnItsWay' /\ PassedOn'
    BY <2>1 DEF IInv, TypeOK, OutcomeInPlace, OnItsWay, PassedOn, Reading
  <2>4. Closed' /\ Whole'
    BY <2>1 DEF IInv, Closed, Whole, AtMostOne, Emitted, Told
  <2> QED
    BY <2>2, <2>3, <2>4 DEF IInv
<1> QED
  BY <1>1, <1>2, <1>3, <1>4, <1>5, <1>6, <1>7, <1>8, <1>9, <1>10, <1>11 DEF Handler

LEMMA DisconnectPreserves ==
  ASSUME IInv, Disconnect
  PROVE  IInv'
<1> USE DEF childVars
<1>1. /\ UNCHANGED <<endpoint, child, outcome, lost, queue, pending, received, out>>
      /\ pc' = "closed" /\ ended' = "disconnect"
  BY DEF Disconnect
<1>2. RecordsInPlace'
  BY <1>1, StillInPlace
<1>3. TypeOK' /\ OutcomeInPlace' /\ OnItsWay' /\ PassedOn'
  BY <1>1 DEF IInv, TypeOK, OutcomeInPlace, OnItsWay, PassedOn, Reading
<1>4. Closed' /\ Whole'
  BY <1>1 DEF IInv, Closed, Whole, AtMostOne, Emitted, Told
<1> QED
  BY <1>2, <1>3, <1>4 DEF IInv

\* Time, and steps that are none.
LEMMA UntouchedPreserves ==
  ASSUME IInv,
         UNCHANGED <<endpoint, child, outcome, lost, queue, pc, pending, received, out, ended>>
  PROVE  IInv'
<1>1. RecordsInPlace' /\ \A k : Queued(k)' <=> Queued(k)
  BY StillInPlace DEF IInv, RecordsInPlace
<1>2. TypeOK' /\ OutcomeInPlace' /\ OnItsWay'
  BY <1>1 DEF IInv, TypeOK, OutcomeInPlace, OnItsWay, Reading
<1>3. PassedOn' /\ Closed' /\ Whole'
  BY DEF IInv, PassedOn, Closed, Whole, AtMostOne, Emitted, Told, Reading
<1> QED
  BY <1>1, <1>2, <1>3 DEF IInv

-----------------------------------------------------------------------------
(* The theorems *)

THEOREM StreamInvariant == Spec => []IInv
<1>1. Init => IInv
  <2> SUFFICES ASSUME Init PROVE IInv
    OBVIOUS
  <2>1. /\ queue \in Seq(Records) /\ pending \in Seq(Records) /\ out \in Seq(Records)
        /\ DOMAIN queue = {} /\ DOMAIN pending = {} /\ DOMAIN out = {}
    BY EmptySeq DEF Init
  <2>2. TypeOK /\ OutcomeInPlace /\ OnItsWay /\ PassedOn /\ Closed
    BY <2>1 DEF Init, TypeOK, Vals, OutcomeInPlace, OnItsWay, PassedOn, Closed, Reading
  <2>3. RecordsInPlace /\ Whole
    BY <2>1 DEF Init, RecordsInPlace, Whole, AtMostOne, Emitted, Told
  <2> QED
    BY <2>2, <2>3 DEF IInv
<1>2. IInv /\ [Next]_vars => IInv'
  <2> SUFFICES ASSUME IInv, [Next]_vars PROVE IInv'
    OBVIOUS
  <2>1. CASE Child
    BY <2>1, ChildPreserves
  <2>2. CASE Handler
    BY <2>2, HandlerPreserves
  <2>3. CASE Clock
    BY <2>3, UntouchedPreserves DEF Clock, PassDeadline, PassGrace, childVars, handlerVars
  <2>4. CASE Disconnect
    BY <2>4, DisconnectPreserves
  <2>5. CASE UNCHANGED vars
    BY <2>5, UntouchedPreserves DEF vars, childVars, handlerVars
  <2> QED
    BY <2>1, <2>2, <2>3, <2>4, <2>5 DEF Next
<1> QED
  BY <1>1, <1>2, PTL DEF Spec

\* The events of an answer come in the order the page insists on: one answer and
\* one done at most, nothing after done, and both unless the client left.
THEOREM AnswersAreWhole == Spec => []StreamIsWhole
<1>1. IInv => StreamIsWhole
  BY DEF IInv, StreamIsWhole, Whole, Closed
<1> QED
  BY <1>1, StreamInvariant, PTL

\* A child that queued its result and __end__ is heard, even if it had exited by
\* the time they were read.
THEOREM ChildrenAreHeard == Spec => []CompletedChildIsHeard
<1>1. IInv => CompletedChildIsHeard
  <2> SUFFICES ASSUME IInv, pc = "closed", ended \notin {"unserved", "timeout", "disconnect"}, ~lost
               PROVE  /\ endpoint = "stream" => Told("done", outcome)
                      /\ endpoint = "progress" => Told("result", outcome)
                      /\ endpoint = "json" => Told("body", outcome)
    BY EndpointsAssumption DEF CompletedChildIsHeard, IInv, TypeOK
  <2> QED
    BY DEF IInv, TypeOK, Closed
<1> QED
  BY <1>1, StreamInvariant, PTL

-----------------------------------------------------------------------------
(* The inductive invariant of the pipeline *)

AskFields == {"kind", "pc", "told", "round", "submitted", "supplemental", "over", "next",
              "taken", "evidence", "gap", "answer"}
SearchFields == {"at", "signal", "step", "lookup", "status", "hits"}

PipelineTypes ==
    /\ DOMAIN ask = AskFields /\ ask.kind \in {"plain", "structured"}
    /\ ask.kind = "plain" => ~ask.gap
    /\ DOMAIN ask.told = Execution!Stages /\ DOMAIN ask.taken = Searches
    /\ ask.submitted \subseteq Searches
    /\ DOMAIN signals = {"caller", "deadline"}
    /\ DOMAIN search = Searches
    /\ \A s \in Searches : DOMAIN search[s] = SearchFields

\* A step or lookup that the user was shown is open only while its search is at it.
StepsAreClosed ==
    \A s \in Searches :
        /\ search[s].at \in {"absent", "queued", "begun", "sent", "catalog", "finished", "dropped"}
        /\ search[s].at \notin {"sent", "catalog"} => search[s].step # "open"
        /\ search[s].at # "catalog" => search[s].lookup # "open"
        /\ search[s].at = "finished" => search[s].status \in {"available", "degraded", "unavailable"}

\* Searches run only in a round, or where /ask waits for its own.
SearchesAreOver ==
    /\ \/ ask.kind = "structured" /\ ask.pc \in {"round", "waiting", "shutdown"}
       \/ ask.kind = "plain" /\ ask.pc = "retrieving"
       \/ \A s \in Searches : Execution!Over(s)
    /\ ask.kind = "plain" => \A s \in Searches \ {1} : search[s].at = "absent"

\* A cancellation on its way is the caller's.
CallerCancelled ==
    /\ ask.answer.status = "cancelled" => signals.caller
    /\ ask.kind = "plain" /\ ask.pc = "count_cancelled" => signals.caller
    /\ ask.pc = "shutdown" => /\ ask.next \in {"raise", "timeout", "merge"}
                              /\ ask.next = "raise" => signals.caller

\* The stage that may run where /ask is.
StageOf(place) ==
    CASE place = "analyzing" -> {"analyzing"}
      [] place \in {"recommend", "retrieving", "retrieved"} -> {"retrieving"}
      [] place = "counting" -> {"counting"}
      [] place = "organizing" -> {"organizing"}
      [] place \in {"generating", "repairing"} -> {"generating"}
      [] OTHER -> {}

StagesAreEnded ==
    /\ ask.kind = "structured" => \A stage \in Execution!Stages : ask.told[stage] = "none"
    /\ ask.kind = "plain" /\ (ask.pc = "done" => ask.answer.status # "cancelled") =>
           \A stage \in Execution!Stages \ StageOf(ask.pc) : ask.told[stage] # "running"

Unplanned == {"start", "count", "counted", "count_cancelled", "planning", "planned"}

\* The thread has heard the searches it counts on, and after a round all of them.
SearchesAreHeard ==
    ask.kind = "structured" =>
        /\ \A s \in Searches :
              /\ ask.taken[s] \in {"none", "available", "degraded", "unavailable"}
              /\ ask.taken[s] \in {"available", "degraded"}
                 => search[s].at = "finished" /\ search[s].status = ask.taken[s]
              /\ s \notin ask.submitted => ask.taken[s] = "none"
        /\ ask.pc \in Unplanned => ask.round = 0 /\ \A s \in Searches : ask.taken[s] = "none"
        /\ ask.round # 2 => Execution!Supplemental \notin ask.submitted
        /\ \/ ask.pc \in {"merge", "verify", "batch", "generate"}
           \/ ask.pc = "shutdown" /\ ask.next = "merge"
           => \A s \in ask.submitted : ask.taken[s] # "none"

\* What an answer would say of the search, if it were given now.
Claims(answer) ==
    /\ answer.status = "insufficient_evidence" /\ ~answer.generated
       => \A s \in Execution!Sent :
             search[s].status \in {"available", "degraded"} /\ search[s].hits = {}
    /\ answer.retrieval = "available" \/ answer.status = "answered"
       => \A s \in Execution!Sent : search[s].status = "available"
    /\ answer.status = "answered" => ~ask.gap

PInv == /\ PipelineTypes /\ StepsAreClosed /\ SearchesAreOver /\ CallerCancelled
        /\ StagesAreEnded /\ SearchesAreHeard /\ AnswersAreHonest

-----------------------------------------------------------------------------
(* What the thread that answers does to its own state *)

\* Everything of a question but where it is, what it has told and its answer.
SameQuestion ==
    /\ DOMAIN ask' = AskFields /\ DOMAIN ask'.told = Execution!Stages
    /\ ask'.kind = ask.kind /\ ask'.round = ask.round /\ ask'.submitted = ask.submitted
    /\ ask'.taken = ask.taken /\ ask'.gap = ask.gap /\ ask'.next = ask.next

LEMMA GotoFacts ==
  ASSUME PInv, NEW place, Execution!Goto(place)
  PROVE  SameQuestion /\ ask'.pc = place /\ ask'.told = ask.told /\ ask'.answer = ask.answer
BY DEF PInv, PipelineTypes, AskFields, Execution!Goto, SameQuestion

LEMMA SayFacts ==
  ASSUME PInv, NEW reply, Execution!Say(reply)
  PROVE  SameQuestion /\ ask'.pc = "done" /\ ask'.told = ask.told /\ ask'.answer = reply
BY DEF PInv, PipelineTypes, AskFields, Execution!Say, SameQuestion

LEMMA TellFacts ==
  ASSUME PInv, NEW stage \in Execution!Stages, NEW status, NEW place,
         Execution!Tell(stage, status, place)
  PROVE  /\ SameQuestion /\ ask'.pc = place /\ ask'.answer = ask.answer
         /\ ask'.told[stage] = status
         /\ \A other \in Execution!Stages \ {stage} : ask'.told[other] = ask.told[other]
BY DEF PInv, PipelineTypes, AskFields, Execution!Tell, SameQuestion

LEMMA EndFacts ==
  ASSUME PInv, NEW stage \in Execution!Stages, NEW status, NEW reply,
         Execution!End(stage, status, reply)
  PROVE  /\ SameQuestion /\ ask'.pc = "done" /\ ask'.answer = reply
         /\ ask'.told[stage] = status
         /\ \A other \in Execution!Stages \ {stage} : ask'.told[other] = ask.told[other]
BY DEF PInv, PipelineTypes, AskFields, Execution!End, SameQuestion

\* The question is answered, or given up.
LEMMA Concludes ==
  ASSUME PInv, UNCHANGED Execution!Rest, SameQuestion, ask'.pc = "done",
         \A s \in Searches : Execution!Over(s),
         ask'.answer.status = "cancelled" => signals.caller,
         ask.kind = "structured" => ask'.told = ask.told,
         ask.kind = "plain" /\ ask'.answer.status # "cancelled"
         => \A stage \in Execution!Stages : ask'.told[stage] # "running",
         Claims(ask'.answer)
  PROVE  PInv'
<1> USE DEF Execution!Rest, SameQuestion
<1>1. PipelineTypes' /\ StepsAreClosed'
  BY DEF PInv, PipelineTypes, StepsAreClosed
<1>2. SearchesAreOver' /\ CallerCancelled'
  BY DEF PInv, SearchesAreOver, CallerCancelled, Execution!Over
<1>3. StagesAreEnded'
  BY DEF PInv, StagesAreEnded, PipelineTypes
<1>4. SearchesAreHeard'
  BY DEF PInv, SearchesAreHeard, Unplanned, Execution!Supplemental
<1>5. AnswersAreHonest'
  BY DEF Claims, Execution!Sent, AnswersAreHonest, Execution!AnswersAreHonest, Execution!Says,
         Execution!Done
<1> QED
  BY <1>1, <1>2, <1>3, <1>4, <1>5 DEF PInv

\* /ask goes on to another step.
LEMMA PlainMoves ==
  ASSUME PInv, ask.kind = "plain", UNCHANGED Execution!Rest, SameQuestion,
         ask'.answer = ask.answer, ask'.pc \notin {"done", "shutdown"},
         ask'.pc = "retrieving" \/ \A s \in Searches : Execution!Over(s),
         ask'.pc = "count_cancelled" => signals.caller,
         \A stage \in Execution!Stages \ StageOf(ask'.pc) : ask'.told[stage] # "running"
  PROVE  PInv'
<1> USE DEF Execution!Rest, SameQuestion
<1>1. PipelineTypes' /\ StepsAreClosed'
  BY DEF PInv, PipelineTypes, StepsAreClosed
<1>2. SearchesAreOver' /\ CallerCancelled'
  BY DEF PInv, SearchesAreOver, CallerCancelled, Execution!Over
<1>3. StagesAreEnded' /\ SearchesAreHeard' /\ AnswersAreHonest'
  BY DEF StagesAreEnded, SearchesAreHeard, AnswersAreHonest, Execution!AnswersAreHonest,
         Execution!Says, Execution!Done
<1> QED
  BY <1>1, <1>2, <1>3 DEF PInv

\* What the answers of the pipelines are.
LEMMA ReplyStatus ==
  ASSUME NEW status, NEW cites, NEW retrieval, NEW generated
  PROVE  /\ Execution!Reply(status, cites, retrieval, generated).status = status
         /\ Execution!Reply(status, cites, retrieval, generated).retrieval = retrieval
         /\ Execution!Reply(status, cites, retrieval, generated).generated = generated
         /\ Execution!Unavailable.status = "retrieval_unavailable"
         /\ Execution!NotGenerated(retrieval).status = "generation_unavailable"
         /\ Execution!NotGenerated(retrieval).retrieval = retrieval
         /\ Execution!NothingFound(retrieval, generated).status = "insufficient_evidence"
         /\ Execution!NothingFound(retrieval, generated).generated = generated
BY DEF Execution!Reply, Execution!Unavailable, Execution!NotGenerated, Execution!NothingFound

\* Of these nothing has to be so.
LEMMA ModestReplies ==
  /\ Claims(Execution!Unavailable) /\ Claims(Execution!NotGenerated("not_run"))
  /\ Claims(Execution!Reply("cancelled", {}, "none", FALSE))
  /\ Execution!Reply("cancelled", {}, "none", FALSE).status = "cancelled"
  /\ \A status \in {"ambiguous_scope", "metadata_count_unavailable", "metadata_count_answered"} :
        /\ Claims(Execution!Reply(status, {}, "not_run", FALSE))
        /\ Execution!Reply(status, {}, "not_run", FALSE).status = status
BY DEF Claims, Execution!Reply, Execution!Unavailable, Execution!NotGenerated

-----------------------------------------------------------------------------
(* The steps of /ask *)

\* A step between two stages that ends the question.
LEMMA PlainSays ==
  ASSUME PInv, ask.kind = "plain", UNCHANGED Execution!Rest, NEW reply, Execution!Say(reply),
         ask.pc # "retrieving",
         reply.status = "cancelled" => signals.caller,
         reply.status = "cancelled" \/ (StageOf(ask.pc) = {} /\ ask.pc # "done"),
         Claims(reply)
  PROVE  PInv'
<1>1. SameQuestion /\ ask'.pc = "done" /\ ask'.told = ask.told /\ ask'.answer = reply
  BY SayFacts
<1>2. \A s \in Searches : Execution!Over(s)
  BY DEF PInv, SearchesAreOver
<1>3. reply.status # "cancelled" => \A stage \in Execution!Stages : ask.told[stage] # "running"
  BY DEF PInv, StagesAreEnded
<1> QED
  BY <1>1, <1>2, <1>3, Concludes

\* A stage ends, and the question with it.
LEMMA PlainEnds ==
  ASSUME PInv, ask.kind = "plain", UNCHANGED Execution!Rest,
         NEW stage \in Execution!Stages, NEW status, NEW reply,
         Execution!End(stage, status, reply),
         ask.pc \notin {"retrieving", "done"}, StageOf(ask.pc) \subseteq {stage},
         status # "running", reply.status # "cancelled", Claims(reply)
  PROVE  PInv'
<1>1. /\ SameQuestion /\ ask'.pc = "done" /\ ask'.answer = reply
      /\ ask'.told[stage] = status
      /\ \A other \in Execution!Stages \ {stage} : ask'.told[other] = ask.told[other]
  BY EndFacts
<1>2. \A s \in Searches : Execution!Over(s)
  BY DEF PInv, SearchesAreOver
<1>3. \A other \in Execution!Stages : ask'.told[other] # "running"
  BY <1>1 DEF PInv, StagesAreEnded
<1> QED
  BY <1>1, <1>2, <1>3, Concludes

\* A stage begins, or ends.
LEMMA PlainTells ==
  ASSUME PInv, ask.kind = "plain", UNCHANGED Execution!Rest,
         NEW stage \in Execution!Stages, NEW status, NEW place,
         Execution!Tell(stage, status, place),
         ask.pc \notin {"retrieving", "done"}, place \notin {"done", "shutdown", "count_cancelled"},
         StageOf(ask.pc) \subseteq {stage}, status # "running" \/ StageOf(place) = {stage}
  PROVE  PInv'
<1>1. /\ SameQuestion /\ ask'.pc = place /\ ask'.answer = ask.answer
      /\ ask'.told[stage] = status
      /\ \A other \in Execution!Stages \ {stage} : ask'.told[other] = ask.told[other]
  BY TellFacts
<1>2. \A s \in Searches : Execution!Over(s)
  BY DEF PInv, SearchesAreOver
<1>3. \A other \in Execution!Stages \ StageOf(place) : ask'.told[other] # "running"
  BY <1>1 DEF PInv, StagesAreEnded
<1> QED
  BY <1>1, <1>2, <1>3, PlainMoves

LEMMA PlainStarts ==
  ASSUME PInv, ask.kind = "plain", UNCHANGED Execution!Rest,
         NEW stage \in Execution!Stages, NEW place, Execution!Start(stage, place),
         ask.pc \notin {"retrieving", "done"}, place \notin {"done", "shutdown", "count_cancelled"},
         StageOf(ask.pc) \subseteq {stage}, StageOf(place) = {stage}
  PROVE  PInv'
<1>1. CASE signals.caller /\ Execution!Raise
  <2> DEFINE reply == Execution!Reply("cancelled", {}, "none", FALSE)
  <2>1. Execution!Say(reply) /\ reply.status = "cancelled" /\ Claims(reply)
    BY <1>1, ModestReplies DEF Execution!Raise
  <2> HIDE DEF reply
  <2> QED
    BY <1>1, <2>1, PlainSays
<1>2. CASE Execution!Tell(stage, "running", place)
  BY <1>2, PlainTells
<1> QED
  BY <1>1, <1>2 DEF Execution!Start

LEMMA PlainRaises ==
  ASSUME PInv, ask.kind = "plain", UNCHANGED Execution!Rest, Execution!Raise,
         signals.caller, ask.pc # "retrieving"
  PROVE  PInv'
<1> DEFINE reply == Execution!Reply("cancelled", {}, "none", FALSE)
<1>1. Execution!Say(reply) /\ reply.status = "cancelled" /\ Claims(reply)
  BY ModestReplies DEF Execution!Raise
<1> HIDE DEF reply
<1> QED
  BY <1>1, PlainSays

LEMMA PlainGoes ==
  ASSUME PInv, ask.kind = "plain", UNCHANGED Execution!Rest, NEW place, Execution!Goto(place),
         ask.pc \notin {"retrieving", "done"}, place \notin {"done", "shutdown"},
         StageOf(ask.pc) \subseteq StageOf(place),
         place = "count_cancelled" => signals.caller
  PROVE  PInv'
<1>1. SameQuestion /\ ask'.pc = place /\ ask'.told = ask.told /\ ask'.answer = ask.answer
  BY GotoFacts
<1>2. \A s \in Searches : Execution!Over(s)
  BY DEF PInv, SearchesAreOver
<1>3. \A stage \in Execution!Stages \ StageOf(place) : ask.told[stage] # "running"
  BY DEF PInv, StagesAreEnded
<1> QED
  BY <1>1, <1>2, <1>3, PlainMoves

LEMMA PlainPreserves ==
  ASSUME PInv, Execution!PlainStep
  PROVE  PInv'
<1> USE DEF Execution!Is, StageOf, Execution!Stages
<1>1. CASE Execution!Analyze
  BY <1>1, PlainStarts DEF Execution!Analyze
<1>2. CASE Execution!Analyzed
  <2>1. CASE Execution!End("analyzing", "failed", Execution!NotGenerated("not_run"))
    BY <1>2, <2>1, PlainEnds, ReplyStatus, ModestReplies DEF Execution!Analyzed
  <2>2. CASE \E step \in {"count", "enabled"} : Execution!Tell("analyzing", "completed", step)
    BY <1>2, <2>2, PlainTells DEF Execution!Analyzed
  <2> QED
    BY <1>2, <2>1, <2>2 DEF Execution!Analyzed
<1>3. CASE Execution!CountPlain
  <2>1. /\ ask.kind = "plain" /\ ask.pc = "count" /\ UNCHANGED Execution!Rest
        /\ \/ Execution!Goto("counted")
           \/ Execution!Say(Execution!Reply("ambiguous_scope", {}, "not_run", FALSE))
           \/ Execution!Say(Execution!Reply("metadata_count_unavailable", {}, "not_run", FALSE))
           \/ signals.caller /\ Execution!Goto("count_cancelled")
    BY <1>3 DEF Execution!CountPlain, Execution!CountTables
  <2>2. CASE Execution!Say(Execution!Reply("ambiguous_scope", {}, "not_run", FALSE))
    <3> DEFINE reply == Execution!Reply("ambiguous_scope", {}, "not_run", FALSE)
    <3>1. reply.status = "ambiguous_scope" /\ Claims(reply)
      BY ModestReplies
    <3>2. Execution!Say(reply)
      BY <2>2
    <3> HIDE DEF reply
    <3> QED
      BY <2>1, <3>1, <3>2, PlainSays
  <2>3. CASE Execution!Say(Execution!Reply("metadata_count_unavailable", {}, "not_run", FALSE))
    <3> DEFINE reply == Execution!Reply("metadata_count_unavailable", {}, "not_run", FALSE)
    <3>1. reply.status = "metadata_count_unavailable" /\ Claims(reply)
      BY ModestReplies
    <3>2. Execution!Say(reply)
      BY <2>3
    <3> HIDE DEF reply
    <3> QED
      BY <2>1, <3>1, <3>2, PlainSays
  <2>4. CASE Execution!Goto("counted") \/ (signals.caller /\ Execution!Goto("count_cancelled"))
    BY <2>1, <2>4, PlainGoes
  <2> QED
    BY <2>1, <2>2, <2>3, <2>4
<1>4. CASE Execution!CountedPlain
  <2>1. CASE ask.pc = "count_cancelled" \/ signals.caller
    <3>1. ask.kind = "plain" /\ ask.pc \in {"counted", "count_cancelled"} /\ Execution!Raise
      BY <1>4, <2>1 DEF Execution!CountedPlain
    <3>2. signals.caller
      BY <2>1, <3>1 DEF PInv, CallerCancelled
    <3> QED
      BY <1>4, <3>1, <3>2, PlainRaises DEF Execution!CountedPlain
  <2>2. CASE ~(ask.pc = "count_cancelled" \/ signals.caller)
    <3> DEFINE reply == Execution!Reply("metadata_count_answered", {}, "not_run", FALSE)
    <3>1. /\ ask.kind = "plain" /\ ask.pc = "counted" /\ UNCHANGED Execution!Rest
          /\ Execution!End("completed", "completed", reply)
      BY <1>4, <2>2 DEF Execution!CountedPlain
    <3>2. reply.status = "metadata_count_answered" /\ Claims(reply)
      BY ModestReplies
    <3> HIDE DEF reply
    <3> QED
      BY <3>1, <3>2, PlainEnds
  <2> QED
    BY <2>1, <2>2
<1>5. CASE Execution!CheckEnabled
  <2>1. CASE Execution!Say(Execution!NotGenerated("not_run"))
    BY <1>5, <2>1, PlainSays, ReplyStatus, ModestReplies DEF Execution!CheckEnabled
  <2>2. CASE Execution!Start("retrieving", "recommend")
    BY <1>5, <2>2, PlainStarts DEF Execution!CheckEnabled
  <2> QED
    BY <1>5, <2>1, <2>2 DEF Execution!CheckEnabled
<1>6. CASE Execution!Recommend
  <2>1. /\ SameQuestion /\ ask'.pc = "retrieving" /\ ask'.told = ask.told /\ ask'.answer = ask.answer
        /\ ask.kind = "plain" /\ ask.pc = "recommend" /\ UNCHANGED signals
        /\ search' = [search EXCEPT ![1].at = "begun"]
    BY <1>6, GotoFacts DEF Execution!Recommend
  <2>2. 1 \in Searches
    BY SearchesAssumption
  <2>3. \A s \in Searches : Execution!Over(s)
    BY <2>1 DEF PInv, SearchesAreOver
  <2>4. /\ DOMAIN search' = Searches
        /\ search'[1] = [search[1] EXCEPT !.at = "begun"]
        /\ \A s \in Searches \ {1} : search'[s] = search[s]
    BY <2>1, <2>2 DEF PInv, PipelineTypes
  <2>5. /\ DOMAIN search'[1] = SearchFields /\ search'[1].at = "begun"
        /\ search'[1].step = search[1].step /\ search'[1].lookup = search[1].lookup
    BY <2>2, <2>4 DEF PInv, PipelineTypes, SearchFields
  <2>6. PipelineTypes' /\ StepsAreClosed'
    BY <2>1, <2>2, <2>3, <2>4, <2>5 DEF PInv, PipelineTypes, StepsAreClosed, SameQuestion,
       Execution!Over
  <2>7. SearchesAreOver' /\ CallerCancelled'
    BY <2>1, <2>4 DEF PInv, SearchesAreOver, CallerCancelled, SameQuestion
  <2>8. StagesAreEnded'
    BY <2>1 DEF PInv, StagesAreEnded, SameQuestion
  <2>9. SearchesAreHeard' /\ AnswersAreHonest'
    BY <2>1 DEF SearchesAreHeard, AnswersAreHonest, Execution!AnswersAreHonest, Execution!Says,
       Execution!Done, SameQuestion
  <2> QED
    BY <2>6, <2>7, <2>8, <2>9 DEF PInv
<1>7. CASE Execution!Retrieve
  <2>1. /\ SameQuestion /\ ask'.pc = "retrieved" /\ ask'.told = ask.told /\ ask'.answer = ask.answer
        /\ ask.kind = "plain" /\ ask.pc = "retrieving" /\ UNCHANGED Execution!Rest
        /\ search[1].at = "finished"
    BY <1>7, GotoFacts DEF Execution!Retrieve
  <2>2. \A s \in Searches : Execution!Over(s)
    BY <2>1 DEF PInv, SearchesAreOver, Execution!Over
  <2>3. \A stage \in Execution!Stages \ StageOf("retrieved") : ask'.told[stage] # "running"
    BY <2>1 DEF PInv, StagesAreEnded
  <2> QED
    BY <2>1, <2>2, <2>3, PlainMoves
<1>8. CASE Execution!Retrieved
  <2>1. CASE signals.caller
    BY <1>8, <2>1, PlainRaises DEF Execution!Retrieved
  <2>2. CASE Execution!End("retrieving", "failed", Execution!Unavailable)
    BY <1>8, <2>2, PlainEnds, ReplyStatus, ModestReplies DEF Execution!Retrieved
  <2>3. CASE Execution!Tell("retrieving", "completed", "counting")
    BY <1>8, <2>3, PlainTells DEF Execution!Retrieved
  <2> QED
    BY <1>8, <2>1, <2>2, <2>3 DEF Execution!Retrieved
<1>9. ASSUME NEW stage \in {"counting", "organizing"}, NEW following \in {"organizing", "organized"},
             Execution!Arrange(stage, following)
      PROVE  PInv'
  <2>0. ask.kind = "plain" /\ ask.pc = stage /\ UNCHANGED Execution!Rest
    BY <1>9 DEF Execution!Arrange
  <2>1. CASE Execution!Start(stage, stage)
    BY <2>0, <2>1, PlainStarts
  <2>2. CASE Execution!End(stage, "failed", Execution!Unavailable)
    BY <2>0, <2>2, PlainEnds, ReplyStatus, ModestReplies
  <2>3. CASE Execution!Tell(stage, "completed", following)
    BY <2>0, <2>3, PlainTells
  <2> QED
    BY <1>9, <2>1, <2>2, <2>3 DEF Execution!Arrange
<1>10. CASE Execution!Organized
  <2>0. ask.kind = "plain" /\ ask.pc = "organized" /\ UNCHANGED Execution!Rest
    BY <1>10 DEF Execution!Organized
  <2>1. CASE Execution!Start("generating", "generating")
    BY <2>0, <2>1, PlainStarts
  <2>2. CASE Execution!Say(Execution!Unavailable)
    BY <2>0, <2>2, PlainSays, ReplyStatus, ModestReplies
  <2>3. CASE signals.caller /\ Execution!Raise
    BY <2>0, <2>3, PlainRaises
  <2>4. ASSUME Execution!End("completed", "completed", Execution!NothingFound("available", FALSE)),
               search[1].hits = {}, search[1].status = "available"
        PROVE  PInv'
    <3> DEFINE reply == Execution!NothingFound("available", FALSE)
    <3>1. reply.status = "insufficient_evidence" /\ Claims(reply)
      BY <2>0, <2>4 DEF Claims, Execution!Sent, Execution!NothingFound, Execution!Reply
    <3>2. Execution!End("completed", "completed", reply)
      BY <2>4
    <3> HIDE DEF reply
    <3> QED
      BY <2>0, <3>1, <3>2, PlainEnds
  <2> QED
    BY <1>10, <2>1, <2>2, <2>3, <2>4 DEF Execution!Organized
<1>11. ASSUME NEW step \in {"generating", "repairing"}, NEW again \in BOOLEAN,
              Execution!Generate(step, again)
       PROVE  PInv'
  <2>0. ask.kind = "plain" /\ ask.pc = step /\ UNCHANGED Execution!Rest
    BY <1>11 DEF Execution!Generate
  <2>1. CASE signals.caller /\ Execution!Raise
    BY <2>0, <2>1, PlainRaises
  <2>2. CASE Execution!End("generating", "failed", Execution!NotGenerated(search[1].status))
    <3> DEFINE reply == Execution!NotGenerated(search[1].status)
    <3>1. reply.status = "generation_unavailable" /\ Claims(reply)
      BY <2>0 DEF Claims, Execution!Sent, Execution!NotGenerated, Execution!Reply
    <3>2. Execution!End("generating", "failed", reply)
      BY <2>2
    <3> HIDE DEF reply
    <3> QED
      BY <2>0, <3>1, <3>2, PlainEnds
  <2>3. CASE Execution!Goto("repairing")
    BY <2>0, <2>3, PlainGoes
  <2>4. ASSUME NEW chosen, ask' = [ask EXCEPT !.told["generating"] = "completed",
                                              !.pc = "generated", !.evidence = chosen]
        PROVE  PInv'
    <3>1. /\ SameQuestion /\ ask'.pc = "generated" /\ ask'.answer = ask.answer
          /\ ask'.told = [ask.told EXCEPT !["generating"] = "completed"]
      BY <2>4 DEF PInv, PipelineTypes, AskFields, SameQuestion
    <3>2. \A s \in Searches : Execution!Over(s)
      BY <2>0 DEF PInv, SearchesAreOver
    <3>3. \A stage \in Execution!Stages : ask'.told[stage] # "running"
      BY <2>0, <3>1 DEF PInv, StagesAreEnded, PipelineTypes
    <3> QED
      BY <2>0, <3>1, <3>2, <3>3, PlainMoves
  <2> QED
    BY <1>11, <2>1, <2>2, <2>3, <2>4 DEF Execution!Generate
<1>12. CASE Execution!Generated
  <2>0. ask.kind = "plain" /\ ask.pc = "generated" /\ UNCHANGED Execution!Rest
    BY <1>12 DEF Execution!Generated
  <2>1. CASE signals.caller /\ Execution!Raise
    BY <2>0, <2>1, PlainRaises
  <2>2. ASSUME NEW status \in {"insufficient_evidence", "answered", "partial_answer"},
               status = "answered" => search[1].status = "available",
               Execution!End("completed", "completed",
                             Execution!Reply(status, ask.evidence, search[1].status, TRUE))
        PROVE  PInv'
    <3> DEFINE reply == Execution!Reply(status, ask.evidence, search[1].status, TRUE)
    <3>1. reply.status = status /\ Claims(reply)
      BY <2>0, <2>2 DEF Claims, Execution!Sent, Execution!Reply, PInv, PipelineTypes
    <3>2. Execution!End("completed", "completed", reply)
      BY <2>2
    <3> HIDE DEF reply
    <3> QED
      BY <2>0, <3>1, <3>2, PlainEnds
  <2> QED
    BY <1>12, <2>1, <2>2 DEF Execution!Generated
<1> QED
  BY <1>1, <1>2, <1>3, <1>4, <1>5, <1>6, <1>7, <1>8, <1>9, <1>10, <1>11, <1>12
     DEF Execution!PlainStep

-----------------------------------------------------------------------------
(* The steps of the structured pipeline *)

LEMMA StructuredSays ==
  ASSUME PInv, ask.kind = "structured", UNCHANGED Execution!Rest, NEW reply, Execution!Say(reply),
         ask.pc \notin {"round", "waiting"},
         ask.pc = "shutdown" => \A s \in Searches : Execution!Over(s),
         reply.status = "cancelled" => signals.caller,
         Claims(reply)
  PROVE  PInv'
<1>1. SameQuestion /\ ask'.pc = "done" /\ ask'.told = ask.told /\ ask'.answer = reply
  BY SayFacts
<1>2. \A s \in Searches : Execution!Over(s)
  BY DEF PInv, SearchesAreOver
<1> QED
  BY <1>1, <1>2, Concludes

LEMMA StructuredRaises ==
  ASSUME PInv, ask.kind = "structured", UNCHANGED Execution!Rest, Execution!Raise,
         ask.pc \notin {"round", "waiting"},
         ask.pc = "shutdown" => \A s \in Searches : Execution!Over(s),
         signals.caller
  PROVE  PInv'
<1> DEFINE reply == Execution!Reply("cancelled", {}, "none", FALSE)
<1>1. reply.status = "cancelled" /\ Claims(reply)
  BY ModestReplies
<1>2. Execution!Say(reply)
  BY DEF Execution!Raise
<1> HIDE DEF reply
<1> QED
  BY <1>1, <1>2, StructuredSays

LEMMA StructuredTimesOut ==
  ASSUME PInv, ask.kind = "structured", UNCHANGED Execution!Rest,
         Execution!Timeout \/ Execution!Say(Execution!Unavailable),
         ask.pc \notin {"round", "waiting"},
         ask.pc = "shutdown" => \A s \in Searches : Execution!Over(s)
  PROVE  PInv'
<1>1. Execution!Say(Execution!Unavailable)
  BY DEF Execution!Timeout
<1>2. Execution!Unavailable.status = "retrieval_unavailable" /\ Claims(Execution!Unavailable)
  BY ReplyStatus, ModestReplies
<1> QED
  BY <1>1, <1>2, StructuredSays

AfterRound == {"merge", "verify", "batch", "generate"}

\* The thread goes on to another step, outside of a round.
LEMMA StructuredMoves ==
  ASSUME PInv, ask.kind = "structured", UNCHANGED Execution!Rest,
         DOMAIN ask' = AskFields,
         ask'.kind = ask.kind, ask'.told = ask.told, ask'.answer = ask.answer,
         ask'.round = ask.round, ask'.taken = ask.taken,
         ask'.pc \notin {"done", "shutdown"},
         \A s \in Searches : Execution!Over(s),
         ask'.pc \in Unplanned => ask.pc \in Unplanned,
         \/ ask'.submitted = ask.submitted
         \/ /\ ask.pc \in Unplanned /\ ask'.pc \in Unplanned
            /\ ask'.submitted \subseteq Searches \ {Execution!Supplemental},
         ask'.pc \in AfterRound => ask.pc \in AfterRound \/ (ask.pc = "shutdown" /\ ask.next = "merge")
  PROVE  PInv'
<1> USE DEF Execution!Rest
<1>1. PipelineTypes' /\ StepsAreClosed'
  BY DEF PInv, PipelineTypes, StepsAreClosed
<1>2. SearchesAreOver' /\ CallerCancelled'
  BY DEF PInv, SearchesAreOver, CallerCancelled, Execution!Over
<1>3. StagesAreEnded'
  BY DEF PInv, StagesAreEnded
<1>4. AnswersAreHonest'
  BY DEF AnswersAreHonest, Execution!AnswersAreHonest, Execution!Says, Execution!Done,
         Execution!Sent
<1>5. SearchesAreHeard'
  <2>1. CASE ask'.submitted = ask.submitted
    BY <2>1 DEF PInv, SearchesAreHeard, Unplanned, AfterRound, Execution!Supplemental
  <2>2. CASE /\ ask.pc \in Unplanned /\ ask'.pc \in Unplanned
             /\ ask'.submitted \subseteq Searches \ {Execution!Supplemental}
    BY <2>2 DEF PInv, SearchesAreHeard, Unplanned, AfterRound, Execution!Supplemental
  <2> QED
    BY <2>1, <2>2
<1> QED
  BY <1>1, <1>2, <1>3, <1>4, <1>5 DEF PInv

LEMMA StructuredGoes ==
  ASSUME PInv, ask.kind = "structured", UNCHANGED Execution!Rest,
         NEW place, Execution!Goto(place),
         place \notin {"done", "shutdown"},
         ask.pc \notin {"round", "waiting"},
         ask.pc = "shutdown" => ask.next = "merge" /\ \A s \in Searches : Execution!Over(s),
         place \in Unplanned => ask.pc \in Unplanned,
         place \in AfterRound => ask.pc \in AfterRound \cup {"shutdown"}
  PROVE  PInv'
<1>1. SameQuestion /\ ask'.pc = place /\ ask'.told = ask.told /\ ask'.answer = ask.answer
  BY GotoFacts
<1>2. \A s \in Searches : Execution!Over(s)
  BY DEF PInv, SearchesAreOver
<1> QED
  BY <1>1, <1>2, StructuredMoves DEF SameQuestion

\* AIAskCancelled before _DeadlineExceeded.
LEMMA CheckedPreserves ==
  ASSUME PInv, ask.kind = "structured", UNCHANGED Execution!Rest,
         NEW place, Execution!CheckedBoth(Execution!Goto(place)),
         place \notin {"done", "shutdown"}, ask.pc \notin {"round", "waiting", "shutdown"},
         place \in Unplanned => ask.pc \in Unplanned,
         place \in AfterRound => ask.pc \in AfterRound
  PROVE  PInv'
<1>1. CASE signals.caller /\ Execution!Raise
  BY <1>1, StructuredRaises
<1>2. CASE Execution!Timeout
  BY <1>2, StructuredTimesOut
<1>3. CASE Execution!Goto(place)
  BY <1>3, StructuredGoes
<1> QED
  BY <1>1, <1>2, <1>3 DEF Execution!CheckedBoth

LEMMA CountPreserves ==
  ASSUME PInv, Execution!CountStructured
  PROVE  PInv'
<1>1. ask.kind = "structured" /\ UNCHANGED Execution!Rest
  BY DEF Execution!CountStructured, Execution!CountTables
<1>2. ASSUME NEW status \in {"ambiguous_scope", "metadata_count_unavailable", "metadata_count_answered"},
             Execution!Say(Execution!Reply(status, {}, "not_run", FALSE)),
             ask.pc \in Unplanned
      PROVE  PInv'
  <2> DEFINE reply == Execution!Reply(status, {}, "not_run", FALSE)
  <2>1. reply.status = status /\ Claims(reply)
    BY ModestReplies
  <2>2. Execution!Say(reply)
    BY <1>2
  <2> HIDE DEF reply
  <2> QED
    BY <1>1, <1>2, <2>1, <2>2, StructuredSays DEF Unplanned
<1>3. ASSUME NEW place \in {"counted", "count_cancelled"}, Execution!Goto(place), ask.pc \in Unplanned
      PROVE  PInv'
  BY <1>1, <1>3, StructuredGoes DEF Unplanned, AfterRound
<1>4. CASE Execution!CountTables(Execution!Signalled)
  BY <1>2, <1>3, <1>4 DEF Execution!CountTables, Unplanned
<1>5. CASE ask.pc = "counted"
  BY <1>2, <1>3, <1>4, <1>5 DEF Execution!CountStructured, Unplanned
<1>6. CASE ask.pc = "count_cancelled" /\ signals.caller /\ Execution!Raise
  BY <1>1, <1>6, StructuredRaises
<1>7. CASE /\ ask.pc = "count_cancelled"
           /\ Execution!Say(Execution!Reply("metadata_count_unavailable", {}, "not_run", FALSE))
  BY <1>2, <1>7 DEF Unplanned
<1> QED
  BY <1>4, <1>5, <1>6, <1>7 DEF Execution!CountStructured

LEMMA PlanPreserves ==
  ASSUME PInv, Execution!Plan
  PROVE  PInv'
<1>1. PICK n \in 1..(Execution!Supplemental - 1), more \in BOOLEAN : Execution!Planning(1..n, more)
  BY DEF Execution!Plan
<1>2. ask.kind = "structured" /\ ask.pc = "planning" /\ UNCHANGED Execution!Rest
  BY <1>1 DEF Execution!Planning, Execution!Is
<1>3. CASE Execution!Timeout
  BY <1>2, <1>3, StructuredTimesOut
<1>4. CASE Execution!Signalled /\ ~signals.deadline /\ Execution!Raise
  BY <1>2, <1>4, StructuredRaises DEF Execution!Signalled
<1>5. CASE ask' = [ask EXCEPT !.pc = "planned", !.submitted = 1..n, !.supplemental = more]
  <2>1. /\ DOMAIN ask' = AskFields
        /\ ask'.kind = ask.kind /\ ask'.told = ask.told /\ ask'.answer = ask.answer
        /\ ask'.round = ask.round /\ ask'.taken = ask.taken
        /\ ask'.pc = "planned" /\ ask'.submitted = 1..n
    BY <1>5 DEF PInv, PipelineTypes, AskFields
  <2>2. 1..n \subseteq Searches \ {Execution!Supplemental}
    BY <1>1, SearchesAssumption
  <2>3. \A s \in Searches : Execution!Over(s)
    BY <1>2 DEF PInv, SearchesAreOver
  <2> QED
    BY <1>2, <2>1, <2>2, <2>3, StructuredMoves DEF Unplanned, AfterRound
<1> QED
  BY <1>1, <1>3, <1>4, <1>5 DEF Execution!Planning

\* A round begins: its searches are new.
LEMMA SubmitPreserves ==
  ASSUME PInv, ask.kind = "structured", ask.pc \notin {"round", "waiting", "shutdown"},
         NEW queries \in SUBSET Searches, Execution!Submit(queries),
         \A s \in queries : ask.taken[s] = "none",
         \/ ask.round = 0 /\ Execution!Supplemental \notin queries
         \/ ask.round = 1
  PROVE  PInv'
<1>1. /\ DOMAIN ask' = AskFields
      /\ ask'.kind = ask.kind /\ ask'.told = ask.told /\ ask'.answer = ask.answer
      /\ ask'.round = ask.round + 1 /\ ask'.taken = ask.taken /\ ask'.pc = "round"
      /\ ask'.submitted = ask.submitted \cup queries
      /\ UNCHANGED signals
  BY DEF Execution!Submit, PInv, PipelineTypes, AskFields
<1>2. /\ DOMAIN search' = Searches
      /\ \A s \in queries : search'[s] = [Execution!NotRun EXCEPT !.at = "queued"]
      /\ \A s \in Searches \ queries : search'[s] = search[s]
  BY DEF Execution!Submit
<1>3. \A s \in queries : /\ DOMAIN search'[s] = SearchFields /\ search'[s].at = "queued"
                         /\ search'[s].step = "none" /\ search'[s].lookup = "none"
  BY <1>2 DEF Execution!NotRun, SearchFields
<1>4. PipelineTypes' /\ StepsAreClosed'
  BY <1>1, <1>2, <1>3 DEF PInv, PipelineTypes, StepsAreClosed
<1>5. SearchesAreOver' /\ CallerCancelled'
  BY <1>1 DEF PInv, SearchesAreOver, CallerCancelled
<1>6. StagesAreEnded'
  BY <1>1 DEF PInv, StagesAreEnded
<1>7. AnswersAreHonest'
  BY <1>1 DEF AnswersAreHonest, Execution!AnswersAreHonest, Execution!Says, Execution!Done,
         Execution!Sent
<1>8. SearchesAreHeard'
  <2>1. /\ \A s \in Searches :
              /\ ask'.taken[s] \in {"none", "available", "degraded", "unavailable"}
              /\ ask'.taken[s] \in {"available", "degraded"}
                 => search'[s].at = "finished" /\ search'[s].status = ask'.taken[s]
              /\ s \notin ask'.submitted => ask'.taken[s] = "none"
    BY <1>1, <1>2 DEF PInv, SearchesAreHeard
  <2>2. ask'.round # 2 => Execution!Supplemental \notin ask'.submitted
    BY <1>1 DEF PInv, SearchesAreHeard
  <2> QED
    BY <1>1, <2>1, <2>2 DEF SearchesAreHeard, Unplanned, AfterRound, Execution!Supplemental
<1> QED
  BY <1>4, <1>5, <1>6, <1>7, <1>8 DEF PInv

LEMMA PlannedPreserves ==
  ASSUME PInv, Execution!Planned
  PROVE  PInv'
<1>1. ask.kind = "structured" /\ ask.pc = "planned"
  BY DEF Execution!Planned, Execution!Is
<1>2. CASE Execution!Submit(ask.submitted)
  <2>1. PICK queries \in SUBSET Searches : queries = ask.submitted
    BY DEF PInv, PipelineTypes
  <2>2. ask.round = 0 /\ \A s \in Searches : ask.taken[s] = "none"
    BY <1>1 DEF PInv, SearchesAreHeard, Unplanned
  <2>3. Execution!Supplemental \notin queries
    BY <1>1, <2>1, <2>2 DEF PInv, SearchesAreHeard
  <2> QED
    BY <1>1, <1>2, <2>1, <2>2, <2>3, SubmitPreserves
<1>3. CASE Execution!Signalled /\ Execution!CheckedBoth(FALSE) /\ UNCHANGED Execution!Rest
  <2>1. CASE signals.caller /\ Execution!Raise
    BY <1>1, <1>3, <2>1, StructuredRaises
  <2>2. CASE Execution!Timeout
    BY <1>1, <1>3, <2>2, StructuredTimesOut
  <2> QED
    BY <1>3, <2>1, <2>2 DEF Execution!CheckedBoth
<1> QED
  BY <1>2, <1>3 DEF Execution!Planned

LEMMA SecondRoundPreserves ==
  ASSUME PInv, Execution!SecondRound
  PROVE  PInv'
<1>1. /\ ask.kind = "structured" /\ ask.pc = "merge" /\ ask.round = 1
      /\ Execution!Submit({Execution!Supplemental})
  BY DEF Execution!SecondRound, Execution!Is
<1>2. PICK queries \in SUBSET Searches : queries = {Execution!Supplemental}
  <2>1. Execution!Supplemental \in Searches
    BY SearchesAssumption
  <2> QED
    BY <2>1
<1>3. \A s \in queries : ask.taken[s] = "none"
  BY <1>1, <1>2 DEF PInv, SearchesAreHeard
<1> QED
  BY <1>1, <1>2, <1>3, SubmitPreserves

\* The thread stays with its round, or goes on to shut the pool down.
LEMMA RoundMoves ==
  ASSUME PInv, ask.kind = "structured", ask.pc \in {"round", "waiting"},
         UNCHANGED signals, DOMAIN ask' = AskFields, DOMAIN ask'.taken = Searches,
         ask'.kind = ask.kind, ask'.told = ask.told, ask'.answer = ask.answer,
         ask'.round = ask.round, ask'.submitted = ask.submitted,
         ask'.pc \in {"round", "waiting", "shutdown"},
         ask'.pc = "shutdown" => /\ ask'.next \in {"raise", "timeout", "merge"}
                                 /\ ask'.next = "raise" => signals.caller
                                 /\ ask'.next = "merge" => \A s \in ask.submitted : ask'.taken[s] # "none",
         DOMAIN search' = Searches,
         \A s \in Searches :
            /\ DOMAIN search'[s] = SearchFields
            /\ search'[s].at = search[s].at
               \/ (search[s].at = "queued" /\ search'[s].at = "dropped")
            /\ search'[s].status = search[s].status /\ search'[s].lookup = search[s].lookup
            /\ search'[s].step \in {search[s].step, "closed"}
            /\ \/ ask'.taken[s] = ask.taken[s]
               \/ s \in ask.submitted /\ ask'.taken[s] = "unavailable"
               \/ /\ s \in ask.submitted /\ search[s].at = "finished"
                  /\ ask'.taken[s] = search[s].status
  PROVE  PInv'
<1>1. PipelineTypes'
  BY DEF PInv, PipelineTypes
<1>2. StepsAreClosed'
  BY DEF PInv, StepsAreClosed
<1>3. SearchesAreOver' /\ CallerCancelled'
  BY DEF PInv, SearchesAreOver, CallerCancelled
<1>4. StagesAreEnded'
  BY DEF PInv, StagesAreEnded
<1>5. AnswersAreHonest'
  BY DEF AnswersAreHonest, Execution!AnswersAreHonest, Execution!Says, Execution!Done,
         Execution!Sent
<1>6. SearchesAreHeard'
  <2>1. \A s \in Searches :
              /\ ask'.taken[s] \in {"none", "available", "degraded", "unavailable"}
              /\ ask'.taken[s] \in {"available", "degraded"}
                 => search'[s].at = "finished" /\ search'[s].status = ask'.taken[s]
              /\ s \notin ask'.submitted => ask'.taken[s] = "none"
    BY DEF PInv, SearchesAreHeard, StepsAreClosed
  <2> QED
    BY <2>1 DEF PInv, SearchesAreHeard, Unplanned, Execution!Supplemental
<1> QED
  BY <1>1, <1>2, <1>3, <1>4, <1>5, <1>6 DEF PInv

LEMMA StopAllFacts ==
  ASSUME PInv, NEW states, NEW closing, search' = Execution!StopAll(states, closing)
  PROVE  /\ DOMAIN search' = Searches
         /\ \A s \in Searches :
               /\ DOMAIN search'[s] = SearchFields
               /\ search'[s].at = search[s].at
                  \/ (search[s].at = "queued" /\ search'[s].at = "dropped")
               /\ search'[s].status = search[s].status /\ search'[s].lookup = search[s].lookup
               /\ search'[s].step \in {search[s].step, "closed"}
<1>1. DOMAIN search' = Searches
  BY DEF Execution!StopAll
<1> SUFFICES ASSUME NEW s \in Searches
             PROVE  /\ DOMAIN search'[s] = SearchFields
                    /\ search'[s].at = search[s].at
                       \/ (search[s].at = "queued" /\ search'[s].at = "dropped")
                    /\ search'[s].status = search[s].status /\ search'[s].lookup = search[s].lookup
                    /\ search'[s].step \in {search[s].step, "closed"}
  BY <1>1
<1>2. DOMAIN search[s] = SearchFields
  BY DEF PInv, PipelineTypes
<1>3. CASE s \notin states
  BY <1>2, <1>3 DEF Execution!StopAll
<1>4. CASE s \in states
  <2>1. search'[s] = [search[s] EXCEPT
                !.signal = TRUE,
                !.at = IF @ = "queued" THEN "dropped" ELSE @,
                !.step = IF s \in closing /\ search[s].at # "finished" THEN "closed" ELSE @]
    BY <1>4 DEF Execution!StopAll
  <2> QED
    BY <1>2, <2>1 DEF SearchFields
<1> QED
  BY <1>3, <1>4

LEMMA RoundPreserves ==
  ASSUME PInv,
         \/ Execution!SeeSignal \/ Execution!RoundExpires \/ Execution!Wait
         \/ Execution!TakeFinished \/ Execution!RoundDone
  PROVE  PInv'
<1> USE DEF Execution!Is, Execution!Pending, Execution!Taken, Execution!Rest
<1>0. /\ DOMAIN ask = AskFields /\ DOMAIN ask.taken = Searches /\ ask.submitted \subseteq Searches
      /\ DOMAIN search = Searches /\ \A s \in Searches : DOMAIN search[s] = SearchFields
  BY DEF PInv, PipelineTypes
<1>1. CASE Execution!SeeSignal
  <2>1. /\ DOMAIN ask' = AskFields
        /\ ask'.kind = ask.kind /\ ask'.told = ask.told /\ ask'.answer = ask.answer
        /\ ask'.round = ask.round /\ ask'.submitted = ask.submitted /\ ask'.taken = ask.taken
        /\ ask'.pc = "shutdown" /\ ask'.next = IF signals.caller THEN "raise" ELSE "timeout"
        /\ UNCHANGED signals /\ ask.kind = "structured" /\ ask.pc = "round"
        /\ search' = Execution!StopAll(Execution!Pending, {})
    BY <1>0, <1>1 DEF Execution!SeeSignal, AskFields
  <2> QED
    BY <1>0, <2>1, StopAllFacts, RoundMoves
<1>2. CASE Execution!RoundExpires
  <2>1. /\ DOMAIN ask' = AskFields
        /\ ask'.kind = ask.kind /\ ask'.told = ask.told /\ ask'.answer = ask.answer
        /\ ask'.round = ask.round /\ ask'.submitted = ask.submitted
        /\ ask'.taken = [s \in Searches |-> IF s \in Execution!Pending THEN "unavailable"
                                            ELSE ask.taken[s]]
        /\ ask'.pc = "shutdown" /\ ask'.next = "merge"
        /\ UNCHANGED signals /\ ask.kind = "structured" /\ ask.pc = "round"
        /\ search' = Execution!StopAll(Execution!Pending, Execution!Pending)
    BY <1>0, <1>2 DEF Execution!RoundExpires, AskFields
  <2>2. /\ \A s \in Searches : \/ ask'.taken[s] = ask.taken[s]
                               \/ s \in ask.submitted /\ ask'.taken[s] = "unavailable"
        /\ \A s \in ask.submitted : ask'.taken[s] # "none"
        /\ DOMAIN ask'.taken = Searches
    BY <1>0, <2>1
  <2> QED
    BY <1>0, <2>1, <2>2, StopAllFacts, RoundMoves
<1>3. CASE Execution!Wait
  <2>1. /\ SameQuestion /\ ask'.pc = "waiting" /\ ask'.told = ask.told /\ ask'.answer = ask.answer
        /\ ask.kind = "structured" /\ ask.pc = "round" /\ UNCHANGED <<signals, search>>
    BY <1>3, GotoFacts DEF Execution!Wait
  <2> QED
    BY <1>0, <2>1, RoundMoves DEF SameQuestion
<1>4. CASE Execution!TakeFinished
  <2> DEFINE finished == {s \in Execution!Pending : search[s].at = "finished"}
  <2>1. /\ DOMAIN ask' = AskFields
        /\ ask'.kind = ask.kind /\ ask'.told = ask.told /\ ask'.answer = ask.answer
        /\ ask'.round = ask.round /\ ask'.submitted = ask.submitted
        /\ ask'.taken = [s \in Searches |-> IF s \in finished THEN search[s].status
                                            ELSE ask.taken[s]]
        /\ ask'.pc = "round"
        /\ UNCHANGED signals /\ ask.kind = "structured" /\ ask.pc = "waiting"
        /\ search' = [s \in Searches |-> IF s \in finished
                                         THEN [search[s] EXCEPT !.step = "closed"] ELSE search[s]]
    BY <1>0, <1>4 DEF Execution!TakeFinished, AskFields
  <2>2. \A s \in finished : s \in ask.submitted /\ search[s].at = "finished"
    OBVIOUS
  <2> HIDE DEF finished
  <2>3. /\ \A s \in Searches : \/ ask'.taken[s] = ask.taken[s]
                               \/ /\ s \in ask.submitted /\ search[s].at = "finished"
                                  /\ ask'.taken[s] = search[s].status
        /\ DOMAIN ask'.taken = Searches
    BY <2>1, <2>2
  <2>4. /\ DOMAIN search' = Searches
        /\ \A s \in Searches :
              /\ DOMAIN search'[s] = SearchFields
              /\ search'[s].at = search[s].at
              /\ search'[s].status = search[s].status /\ search'[s].lookup = search[s].lookup
              /\ search'[s].step \in {search[s].step, "closed"}
    <3> SUFFICES ASSUME NEW s \in Searches
                 PROVE  /\ DOMAIN search'[s] = SearchFields
                        /\ search'[s].at = search[s].at
                        /\ search'[s].status = search[s].status
                        /\ search'[s].lookup = search[s].lookup
                        /\ search'[s].step \in {search[s].step, "closed"}
      BY <2>1
    <3>1. CASE s \in finished
      <4>1. search'[s] = [search[s] EXCEPT !.step = "closed"]
        BY <2>1, <3>1
      <4> QED
        BY <1>0, <4>1 DEF SearchFields
    <3>2. CASE s \notin finished
      BY <1>0, <2>1, <3>2
    <3> QED
      BY <3>1, <3>2
  <2> QED
    BY <1>0, <2>1, <2>3, <2>4, RoundMoves
<1>5. CASE Execution!RoundDone
  <2>1. /\ DOMAIN ask' = AskFields
        /\ ask'.kind = ask.kind /\ ask'.told = ask.told /\ ask'.answer = ask.answer
        /\ ask'.round = ask.round /\ ask'.submitted = ask.submitted /\ ask'.taken = ask.taken
        /\ ask'.pc = "shutdown" /\ ask'.next = "merge"
        /\ UNCHANGED <<signals, search>> /\ ask.kind = "structured" /\ ask.pc = "round"
        /\ \A s \in ask.submitted : ask.taken[s] # "none"
    BY <1>0, <1>5 DEF Execution!RoundDone, AskFields
  <2> QED
    BY <1>0, <2>1, RoundMoves
<1> QED
  BY <1>1, <1>2, <1>3, <1>4, <1>5

\* The pool is down: every search is over.
LEMMA ShutDownPreserves ==
  ASSUME PInv, Execution!ShutDown
  PROVE  PInv'
<1>1. /\ ask.kind = "structured" /\ ask.pc = "shutdown" /\ UNCHANGED Execution!Rest
      /\ \A s \in Searches : Execution!Over(s)
  BY DEF Execution!ShutDown, Execution!Is
<1>2. /\ ask.next \in {"raise", "timeout", "merge"}
      /\ ask.next = "raise" => signals.caller
  BY <1>1 DEF PInv, CallerCancelled
<1>3. CASE ask.next = "raise"
  BY <1>1, <1>2, <1>3, StructuredRaises DEF Execution!ShutDown
<1>4. CASE ask.next = "timeout"
  BY <1>1, <1>4, StructuredTimesOut DEF Execution!ShutDown
<1>5. CASE ask.next = "merge"
  BY <1>1, <1>5, StructuredGoes DEF Execution!ShutDown, Unplanned, AfterRound
<1> QED
  BY <1>2, <1>3, <1>4, <1>5

\* What the searches that were heard came to, once all were heard.
LEMMA HeardAll ==
  ASSUME PInv, ask.kind = "structured", ask.pc \in AfterRound
  PROVE  /\ \A s \in Searches : Execution!Over(s)
         /\ ~Execution!Failed =>
               \A s \in ask.submitted : /\ search[s].status \in {"available", "degraded"}
                                        /\ Execution!Useful(s)
                                        /\ search[s].status = ask.taken[s]
         /\ ~Execution!Degraded => \A s \in ask.submitted : search[s].status = "available"
<1>1. \A s \in ask.submitted :
         /\ s \in Searches /\ ask.taken[s] \in {"available", "degraded", "unavailable"}
         /\ ask.taken[s] \in {"available", "degraded"} => search[s].status = ask.taken[s]
  BY DEF PInv, SearchesAreHeard, PipelineTypes, AfterRound
<1> QED
  BY <1>1 DEF PInv, SearchesAreOver, AfterRound, Execution!Failed, Execution!Degraded,
              Execution!Useful, Execution!Taken

LEMMA NothingMergedPreserves ==
  ASSUME PInv, Execution!NothingMerged
  PROVE  PInv'
<1> DEFINE found == Execution!NothingFound(Execution!Retrieval(FALSE), FALSE)
<1>1. /\ ask.kind = "structured" /\ ask.pc = "merge" /\ UNCHANGED Execution!Rest
      /\ Execution!Found = {}
      /\ Execution!Say(IF Execution!Failed THEN Execution!Unavailable ELSE found)
  BY DEF Execution!NothingMerged, Execution!Is
<1>2. CASE Execution!Failed
  BY <1>1, <1>2, StructuredTimesOut
<1>3. CASE ~Execution!Failed
  <2>1. /\ found.status = "insufficient_evidence"
        /\ found.retrieval = "available" => ~Execution!Degraded
    BY DEF Execution!NothingFound, Execution!Reply, Execution!Retrieval
  <2>2. Execution!Say(found)
    BY <1>1, <1>3
  <2> HIDE DEF found
  <2>3. SameQuestion /\ ask'.pc = "done" /\ ask'.told = ask.told /\ ask'.answer = found
    BY <2>2, SayFacts
  <2>4. /\ \A s \in Searches : Execution!Over(s)
        /\ \A s \in ask.submitted : /\ search[s].status \in {"available", "degraded"}
                                    /\ Execution!Useful(s)
        /\ ~Execution!Degraded => \A s \in ask.submitted : search[s].status = "available"
    BY <1>1, <1>3, HeardAll DEF AfterRound
  <2>5. \A s \in ask.submitted : search[s].hits = {}
    <3> SUFFICES ASSUME NEW s \in ask.submitted, NEW h \in search[s].hits PROVE FALSE
      OBVIOUS
    <3>1. h \in Execution!Found
      BY <2>4 DEF Execution!Found
    <3> QED
      BY <1>1, <3>1
  <2>6. Claims(found)
    BY <1>1, <2>1, <2>4, <2>5 DEF Claims, Execution!Sent
  <2> QED
    BY <1>1, <2>1, <2>3, <2>4, <2>6, Concludes
<1> QED
  BY <1>2, <1>3

LEMMA MergePreserves ==
  ASSUME PInv, Execution!Merge
  PROVE  PInv'
<1>1. /\ ask.kind = "structured" /\ ask.pc = "merge" /\ UNCHANGED Execution!Rest
  BY DEF Execution!Merge, Execution!Is
<1>2. PICK best : ask' = [ask EXCEPT !.pc = "verify", !.evidence = best, !.supplemental = FALSE]
  BY DEF Execution!Merge
<1>3. /\ SameQuestion /\ ask'.pc = "verify" /\ ask'.told = ask.told /\ ask'.answer = ask.answer
  BY <1>2 DEF PInv, PipelineTypes, AskFields, SameQuestion
<1>4. \A s \in Searches : Execution!Over(s)
  BY <1>1 DEF PInv, SearchesAreOver
<1> QED
  BY <1>1, <1>3, <1>4, StructuredMoves DEF SameQuestion, Unplanned, AfterRound

LEMMA ReadDetailsPreserves ==
  ASSUME PInv, Execution!ReadDetails
  PROVE  PInv'
<1>1. ask.kind = "structured" /\ ask.pc = "batch" /\ UNCHANGED Execution!Rest
  BY DEF Execution!ReadDetails, Execution!Is
<1>2. CASE Execution!Say(Execution!Unavailable)
  BY <1>1, <1>2, StructuredTimesOut
<1>3. ASSUME NEW confirmed, NEW gap,
             ask' = [ask EXCEPT !.pc = "generate", !.evidence = confirmed, !.gap = gap]
      PROVE  PInv'
  <2>1. /\ DOMAIN ask' = AskFields
        /\ ask'.kind = ask.kind /\ ask'.told = ask.told /\ ask'.answer = ask.answer
        /\ ask'.round = ask.round /\ ask'.taken = ask.taken /\ ask'.submitted = ask.submitted
        /\ ask'.pc = "generate"
    BY <1>3 DEF PInv, PipelineTypes, AskFields
  <2>2. \A s \in Searches : Execution!Over(s)
    BY <1>1 DEF PInv, SearchesAreOver
  <2> QED
    BY <1>1, <2>1, <2>2, StructuredMoves DEF Unplanned, AfterRound
<1> QED
  BY <1>2, <1>3 DEF Execution!ReadDetails

LEMMA GeneratePreserves ==
  ASSUME PInv, Execution!GenerateStructured
  PROVE  PInv'
<1> DEFINE retrieval == Execution!Retrieval(ask.gap)
<1>1. ask.kind = "structured" /\ ask.pc = "generate" /\ UNCHANGED Execution!Rest
  BY DEF Execution!GenerateStructured, Execution!Is
<1>2. /\ \A s \in Searches : Execution!Over(s)
      /\ retrieval = "available"
         => ~ask.gap /\ \A s \in ask.submitted : search[s].status = "available"
  <2>1. retrieval = "available" => ~Execution!Degraded /\ ~ask.gap
    BY DEF Execution!Retrieval
  <2> QED
    BY <1>1, <2>1, HeardAll DEF AfterRound
<1> HIDE DEF retrieval
<1>3. ASSUME NEW reply, Execution!Say(reply), reply.status # "cancelled",
             reply.status # "insufficient_evidence" \/ reply.generated,
             reply.retrieval = retrieval, reply.status = "answered" => retrieval = "available"
      PROVE  PInv'
  <2>1. Claims(reply)
    BY <1>1, <1>2, <1>3 DEF Claims, Execution!Sent
  <2> QED
    BY <1>1, <1>3, <2>1, StructuredSays
<1>4. CASE Execution!Say(Execution!NotGenerated(retrieval))
  BY <1>3, <1>4, ReplyStatus
<1>5. CASE Execution!Signalled /\ ~signals.deadline /\ Execution!Raise
  BY <1>1, <1>5, StructuredRaises DEF Execution!Signalled
<1>6. ASSUME NEW chosen, NEW whole \in BOOLEAN, NEW status,
             status = IF chosen = {} THEN "insufficient_evidence"
                      ELSE IF whole /\ retrieval = "available" THEN "answered"
                      ELSE "partial_answer",
             Execution!Say(Execution!Reply(status, chosen, retrieval, TRUE))
      PROVE  PInv'
  <2>1. status \in {"insufficient_evidence", "answered", "partial_answer"}
        /\ (status = "answered" => retrieval = "available")
    BY <1>6
  <2> DEFINE reply == Execution!Reply(status, chosen, retrieval, TRUE)
  <2>2. Execution!Say(reply) /\ reply.status = status /\ reply.generated = TRUE
        /\ reply.retrieval = retrieval
    BY <1>6 DEF Execution!Reply
  <2> HIDE DEF reply
  <2> QED
    BY <1>3, <2>1, <2>2
<1> QED
  BY <1>4, <1>5, <1>6 DEF Execution!GenerateStructured, retrieval

LEMMA StructuredPreserves ==
  ASSUME PInv, Execution!StructuredStep
  PROVE  PInv'
<1>1. CASE Execution!Begin
  <2>1. ask.kind = "structured" /\ ask.pc = "start" /\ UNCHANGED Execution!Rest
    BY <1>1 DEF Execution!Begin, Execution!Is
  <2>2. CASE Execution!Goto("count") \/ Execution!Goto("planning")
    BY <2>1, <2>2, StructuredGoes DEF Unplanned, AfterRound
  <2>3. CASE Execution!Say(Execution!NotGenerated("not_run"))
    <3>1. /\ Execution!NotGenerated("not_run").status = "generation_unavailable"
          /\ Claims(Execution!NotGenerated("not_run"))
      BY ReplyStatus, ModestReplies
    <3> QED
      BY <2>1, <2>3, <3>1, StructuredSays
  <2> QED
    BY <1>1, <2>2, <2>3 DEF Execution!Begin
<1>2. CASE Execution!CountStructured \/ Execution!Plan \/ Execution!Planned
  BY <1>2, CountPreserves, PlanPreserves, PlannedPreserves
<1>3. CASE \/ Execution!SeeSignal \/ Execution!RoundExpires \/ Execution!Wait
           \/ Execution!TakeFinished \/ Execution!RoundDone
  BY <1>3, RoundPreserves
<1>4. CASE \/ Execution!ShutDown \/ Execution!SecondRound \/ Execution!NothingMerged
           \/ Execution!Merge \/ Execution!ReadDetails \/ Execution!GenerateStructured
  BY <1>4, ShutDownPreserves, SecondRoundPreserves, NothingMergedPreserves, MergePreserves,
     ReadDetailsPreserves, GeneratePreserves
<1>5. CASE Execution!Verify
  <2>1. ask.kind = "structured" /\ ask.pc = "verify" /\ UNCHANGED Execution!Rest
        /\ Execution!CheckedBoth(Execution!Goto("batch"))
    BY <1>5 DEF Execution!Verify, Execution!Is
  <2> QED
    BY <2>1, CheckedPreserves DEF Unplanned, AfterRound
<1>6. CASE Execution!Fails
  BY <1>6, StructuredTimesOut DEF Execution!Fails
<1> QED
  BY <1>1, <1>2, <1>3, <1>4, <1>5, <1>6 DEF Execution!StructuredStep

-----------------------------------------------------------------------------
(* The threads that search, and the surroundings *)

\* One search moves, while the thread that answers waits for it.
LEMMA SearchMoves ==
  ASSUME PInv, UNCHANGED <<ask, signals>>, NEW s \in Searches,
         search[s].at \in {"queued", "begun", "sent", "catalog"},
         DOMAIN search' = Searches, DOMAIN search'[s] = SearchFields,
         \A t \in Searches \ {s} : search'[t] = search[t],
         search'[s].at \in {"begun", "sent", "catalog", "finished"},
         search'[s].at \notin {"sent", "catalog"} => search'[s].step # "open",
         search'[s].at # "catalog" => search'[s].lookup # "open",
         search'[s].at = "finished"
         => search'[s].status \in {"available", "degraded", "unavailable"}
  PROVE  PInv'
<1>1. PipelineTypes' /\ StepsAreClosed'
  BY DEF PInv, PipelineTypes, StepsAreClosed
<1>2. ~Execution!Over(s)
  BY DEF Execution!Over
<1>3. \/ ask.kind = "structured" /\ ask.pc \in {"round", "waiting", "shutdown"}
      \/ ask.kind = "plain" /\ ask.pc = "retrieving"
  BY <1>2 DEF PInv, SearchesAreOver
<1>4. SearchesAreOver' /\ CallerCancelled' /\ StagesAreEnded'
  BY <1>3 DEF PInv, SearchesAreOver, CallerCancelled, StagesAreEnded
<1>5. SearchesAreHeard'
  <2>1. \A t \in Searches : search[t].at = "finished" => search'[t] = search[t]
    OBVIOUS
  <2> QED
    BY <2>1 DEF PInv, SearchesAreHeard, Execution!Supplemental
<1>6. AnswersAreHonest'
  BY <1>3 DEF AnswersAreHonest, Execution!AnswersAreHonest, Execution!Says, Execution!Done,
         Execution!Sent
<1> QED
  BY <1>1, <1>4, <1>5, <1>6 DEF PInv

\* A thread returns a response.
LEMMA Returns ==
  ASSUME PInv, UNCHANGED <<ask, signals>>, NEW s \in Searches,
         search[s].at \in {"begun", "sent", "catalog"},
         NEW status \in {"available", "degraded", "unavailable"}, NEW hits,
         Execution!Return(s, status, hits)
  PROVE  PInv'
<1>1. DOMAIN search = Searches /\ DOMAIN search[s] = SearchFields
  BY DEF PInv, PipelineTypes
<1>2. /\ DOMAIN search' = Searches
      /\ \A t \in Searches \ {s} : search'[t] = search[t]
      /\ search'[s] = [search[s] EXCEPT !.at = "finished", !.status = status, !.hits = hits,
                          !.step = Execution!Closed(@), !.lookup = Execution!Closed(@)]
  BY <1>1 DEF Execution!Return
<1>3. /\ DOMAIN search'[s] = SearchFields /\ search'[s].at = "finished"
      /\ search'[s].status = status
      /\ search'[s].step = Execution!Closed(search[s].step)
      /\ search'[s].lookup = Execution!Closed(search[s].lookup)
  BY <1>1, <1>2 DEF SearchFields
<1>4. search'[s].step # "open" /\ search'[s].lookup # "open"
  BY <1>3 DEF Execution!Closed
<1> QED
  BY <1>2, <1>3, <1>4, SearchMoves

LEMMA SearchPreserves ==
  ASSUME PInv, NEW s \in Searches, Execution!Search(s) \/ Execution!PoolTakes(s)
  PROVE  PInv'
<1>0. /\ DOMAIN search = Searches /\ DOMAIN search[s] = SearchFields
      /\ search[s].at \notin {"sent", "catalog"} => search[s].step # "open"
      /\ search[s].at # "catalog" => search[s].lookup # "open"
  BY DEF PInv, PipelineTypes, StepsAreClosed
<1>1. ASSUME NEW at \in {"begun", "sent", "catalog"}, UNCHANGED <<ask, signals>>,
             search[s].at \in {"queued", "begun", "sent"},
             DOMAIN search' = Searches, \A t \in Searches \ {s} : search'[t] = search[t],
             DOMAIN search'[s] = SearchFields, search'[s].at = at,
             search'[s].step # "open" \/ at \in {"sent", "catalog"},
             search'[s].lookup # "open" \/ at = "catalog"
      PROVE  PInv'
  BY <1>1, SearchMoves
<1>2. CASE Execution!PoolTakes(s)
  <2>1. /\ search'[s] = [search[s] EXCEPT !.at = "begun"] /\ DOMAIN search' = Searches
        /\ \A t \in Searches \ {s} : search'[t] = search[t]
        /\ search[s].at = "queued" /\ UNCHANGED <<ask, signals>>
    BY <1>0, <1>2 DEF Execution!PoolTakes
  <2>2. /\ DOMAIN search'[s] = SearchFields /\ search'[s].at = "begun"
        /\ search'[s].step = search[s].step /\ search'[s].lookup = search[s].lookup
    BY <1>0, <2>1 DEF SearchFields
  <2> QED
    BY <1>0, <1>1, <2>1, <2>2
<1>3. CASE Execution!ReturnUnsent(s) /\ UNCHANGED ask
  BY <1>3, Returns DEF Execution!ReturnUnsent
<1>4. CASE Execution!SendSearch(s) /\ UNCHANGED ask
  <2>1. /\ search'[s] = [search[s] EXCEPT !.at = "sent", !.step = "open"]
        /\ DOMAIN search' = Searches
        /\ \A t \in Searches \ {s} : search'[t] = search[t]
        /\ search[s].at = "begun" /\ UNCHANGED <<ask, signals>>
    BY <1>0, <1>4 DEF Execution!SendSearch
  <2>2. /\ DOMAIN search'[s] = SearchFields /\ search'[s].at = "sent"
        /\ search'[s].lookup = search[s].lookup
    BY <1>0, <2>1 DEF SearchFields
  <2> QED
    BY <1>0, <1>1, <2>1, <2>2
<1>5. CASE Execution!RemoteAnswers(s) /\ UNCHANGED ask
  <2>0. search[s].at = "sent" /\ UNCHANGED <<ask, signals>>
    BY <1>5 DEF Execution!RemoteAnswers
  <2>1. CASE Execution!Return(s, "unavailable", {})
    BY <2>0, <2>1, Returns
  <2>2. ASSUME NEW found, search' = [search EXCEPT ![s].at = "catalog", ![s].hits = found,
                                                   ![s].lookup = "open"]
        PROVE  PInv'
    <3>1. /\ search'[s] = [search[s] EXCEPT !.at = "catalog", !.hits = found, !.lookup = "open"]
          /\ DOMAIN search' = Searches
          /\ \A t \in Searches \ {s} : search'[t] = search[t]
      BY <1>0, <2>2
    <3>2. DOMAIN search'[s] = SearchFields /\ search'[s].at = "catalog"
      BY <1>0, <3>1 DEF SearchFields
    <3> QED
      BY <1>1, <2>0, <3>1, <3>2
  <2> QED
    BY <1>5, <2>1, <2>2 DEF Execution!RemoteAnswers
<1>6. CASE Execution!LookUp(s) /\ UNCHANGED ask
  <2>0. search[s].at = "catalog" /\ UNCHANGED <<ask, signals>>
    BY <1>6 DEF Execution!LookUp
  <2>1. PICK status \in {"available", "degraded", "unavailable"} :
           \E hits : Execution!Return(s, status, hits)
    BY <1>6 DEF Execution!LookUp
  <2>2. PICK hits : Execution!Return(s, status, hits)
    BY <2>1
  <2> QED
    BY <2>0, <2>2, Returns
<1> QED
  BY <1>2, <1>3, <1>4, <1>5, <1>6 DEF Execution!Search, Execution!SearchStep

\* The deadline, the caller and the catalogue do not touch the question.
LEMMA SurroundingsPreserve ==
  ASSUME PInv, UNCHANGED <<ask, search>>, DOMAIN signals' = {"caller", "deadline"},
         signals.caller => signals'.caller
  PROVE  PInv'
<1>1. PipelineTypes' /\ StepsAreClosed'
  BY DEF PInv, PipelineTypes, StepsAreClosed
<1>2. SearchesAreOver' /\ CallerCancelled' /\ StagesAreEnded'
  BY DEF PInv, SearchesAreOver, CallerCancelled, StagesAreEnded, Execution!Over
<1>3. SearchesAreHeard'
  BY DEF PInv, SearchesAreHeard, Execution!Supplemental
<1>4. AnswersAreHonest'
  BY DEF PInv, AnswersAreHonest, Execution!AnswersAreHonest, Execution!Says, Execution!Done,
         Execution!Sent
<1> QED
  BY <1>1, <1>2, <1>3, <1>4 DEF PInv

LEMMA RoundTimePreserves ==
  ASSUME PInv, Execution!RoundTimeOver
  PROVE  PInv'
<1>1. /\ DOMAIN ask' = AskFields
      /\ ask'.kind = ask.kind /\ ask'.told = ask.told /\ ask'.answer = ask.answer
      /\ ask'.round = ask.round /\ ask'.submitted = ask.submitted /\ ask'.taken = ask.taken
      /\ ask'.pc = ask.pc /\ ask'.next = ask.next /\ ask'.gap = ask.gap
      /\ UNCHANGED <<signals, search>>
  BY DEF Execution!RoundTimeOver, Execution!Rest, PInv, PipelineTypes, AskFields
<1>2. PipelineTypes' /\ StepsAreClosed'
  BY <1>1 DEF PInv, PipelineTypes, StepsAreClosed
<1>3. SearchesAreOver' /\ CallerCancelled' /\ StagesAreEnded'
  BY <1>1 DEF PInv, SearchesAreOver, CallerCancelled, StagesAreEnded, Execution!Over
<1>4. SearchesAreHeard'
  BY <1>1 DEF PInv, SearchesAreHeard, Execution!Supplemental
<1>5. AnswersAreHonest'
  BY <1>1 DEF PInv, AnswersAreHonest, Execution!AnswersAreHonest, Execution!Says, Execution!Done,
         Execution!Sent
<1> QED
  BY <1>2, <1>3, <1>4, <1>5 DEF PInv

-----------------------------------------------------------------------------
(* The theorems *)

THEOREM PipelineInvariant == AnswerSpec => []PInv
<1>1. AnswerInit => PInv
  <2> SUFFICES ASSUME AnswerInit PROVE PInv
    OBVIOUS
  <2>1. PICK kind \in {"plain", "structured"} : Execution!AskInit(kind)
    BY DEF AnswerInit, Execution!Init
  <2>2. /\ DOMAIN ask = AskFields /\ ask.kind = kind /\ ask.pc = "start"
        /\ ask.told = [stage \in Execution!Stages |-> "none"]
        /\ ~ask.gap /\ ask.round = 0 /\ ask.submitted = {} /\ ask.taken = [s \in Searches |-> "none"]
        /\ ask.answer = Execution!Reply("none", {}, "none", FALSE)
    BY <2>1 DEF Execution!AskInit, Execution!Unanswered, AskFields
  <2>3. ask.answer.status = "none"
    BY <2>2 DEF Execution!Reply
  <2>4. /\ DOMAIN signals = {"caller", "deadline"} /\ DOMAIN search = Searches
        /\ \A s \in Searches : /\ DOMAIN search[s] = SearchFields /\ search[s].at = "absent"
                               /\ search[s].step = "none" /\ search[s].lookup = "none"
    BY DEF AnswerInit, Execution!Init, Execution!SearchInit, Execution!NotRun, SearchFields
  <2>5. PipelineTypes /\ StepsAreClosed
    BY <2>2, <2>4 DEF PipelineTypes, StepsAreClosed
  <2>6. SearchesAreOver /\ CallerCancelled /\ StagesAreEnded
    BY <2>2, <2>3, <2>4 DEF SearchesAreOver, CallerCancelled, StagesAreEnded, Execution!Over
  <2>7. SearchesAreHeard /\ AnswersAreHonest
    BY <2>2 DEF SearchesAreHeard, AnswersAreHonest, Execution!AnswersAreHonest, Execution!Says,
       Execution!Done
  <2> QED
    BY <2>5, <2>6, <2>7 DEF PInv
<1>2. PInv /\ [AnswerNext]_answerVars => PInv'
  <2> SUFFICES ASSUME PInv, [AnswerNext]_answerVars PROVE PInv'
    OBVIOUS
  <2>0. DOMAIN signals = {"caller", "deadline"}
    BY DEF PInv, PipelineTypes
  <2>1. CASE UNCHANGED executionVars
    BY <2>0, <2>1, SurroundingsPreserve DEF executionVars
  <2>2. CASE Execution!Next
    <3>1. CASE Execution!PlainStep \/ Execution!StructuredStep
      BY <3>1, PlainPreserves, StructuredPreserves
    <3>2. CASE \E s \in Searches : Execution!Search(s) \/ Execution!PoolTakes(s)
      BY <3>2, SearchPreserves
    <3>3. CASE Execution!CatalogChanges /\ Execution!CatalogIsRead /\ UNCHANGED ask
      BY <2>0, <3>3, SurroundingsPreserve DEF Execution!CatalogChanges
    <3>4. CASE Execution!CallerCancels /\ UNCHANGED ask
      BY <2>0, <3>4, SurroundingsPreserve DEF Execution!CallerCancels
    <3>5. CASE Execution!DeadlinePasses
      BY <2>0, <3>5, SurroundingsPreserve DEF Execution!DeadlinePasses
    <3>6. CASE Execution!RoundTimeOver
      BY <3>6, RoundTimePreserves
    <3> QED
      BY <2>2, <3>1, <3>2, <3>3, <3>4, <3>5, <3>6 DEF Execution!Next
  <2> QED
    BY <2>1, <2>2 DEF AnswerNext, answerVars, executionVars
<1> QED
  BY <1>1, <1>2, PTL DEF AnswerSpec

\* A question ends without an answer only because its caller cancelled it.
THEOREM CallersCancel == AnswerSpec => []CancelledOnlyByCaller
<1>1. PInv => CancelledOnlyByCaller
  BY DEF PInv, CallerCancelled, CancelledOnlyByCaller, Execution!CancelledOnlyByCaller,
     Execution!Says, Execution!Done
<1> QED
  BY <1>1, PipelineInvariant, PTL

\* No search, step or stage of a question goes on when it has ended.
THEOREM NothingGoesOn == AnswerSpec => []NothingOutlivesAsk
<1>1. PInv => NothingOutlivesAsk
  <2> SUFFICES ASSUME PInv, ask.pc = "done"
               PROVE  /\ \A s \in Searches :
                            /\ Execution!Over(s)
                            /\ search[s].step # "open" /\ search[s].lookup # "open"
                      /\ ask.answer.status # "cancelled" =>
                            \A stage \in Execution!Stages : ask.told[stage] # "running"
    BY DEF NothingOutlivesAsk, Execution!NothingOutlivesAsk, Execution!Done
  <2>1. \A s \in Searches : Execution!Over(s)
    BY DEF PInv, SearchesAreOver
  <2>2. \A s \in Searches : search[s].step # "open" /\ search[s].lookup # "open"
    BY <2>1 DEF PInv, StepsAreClosed, Execution!Over
  <2>3. ask.answer.status # "cancelled" =>
           \A stage \in Execution!Stages : ask.told[stage] # "running"
    BY DEF PInv, StagesAreEnded, PipelineTypes, StageOf
  <2> QED
    BY <2>1, <2>2, <2>3
<1> QED
  BY <1>1, PipelineInvariant, PTL

\* "No such asset" is said only when every search sent was heard and left nothing,
\* "available" only when all came back whole, "answered" only without a gap.
THEOREM AnswersAreTrue == AnswerSpec => []AnswersAreHonest
<1>1. PInv => AnswersAreHonest
  BY DEF PInv
<1> QED
  BY <1>1, PipelineInvariant, PTL

\* What is shown of the endpoint under its own specification holds beside the pipeline.
THEOREM StreamBesidePipeline == AnswerSpec => [](StreamIsWhole /\ CompletedChildIsHeard)
<1>1. AnswerSpec => Spec
  <2>1. AnswerInit => Init
    BY DEF AnswerInit
  <2>2. [AnswerNext]_answerVars => [Next]_vars
    BY DEF AnswerNext, answerVars
  <2> QED
    BY <2>1, <2>2, PTL DEF AnswerSpec, Spec
<1> QED
  BY <1>1, AnswersAreWhole, ChildrenAreHeard, PTL

=============================================================================
