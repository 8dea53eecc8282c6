---------------------------- MODULE AskExecution ----------------------------
(* AIAskExecutionService.ask, the structured pipeline behind the event stream: *)
(* plan, one or two rounds of parallel searches, one authoritative read of the *)
(* candidates, and an answer bound to what that read confirmed.  A timer sets  *)
(* the overall deadline from its own thread; a round has a time limit of its   *)
(* own; the caller may cancel at any moment.                                   *)
EXTENDS AskPipeline

\* All positive.
CONSTANTS Parallel,    \* _MAX_PARALLEL_SEARCHES
          MaxTables,   \* _MAX_DETAIL_TABLES
          MaxMerged    \* _MAX_CANDIDATES

vars == <<catalog, signals, search, ask>>

\* The last search is the supplemental one; the first round may use the others.
Supplemental == Cardinality(Searches)

\* Out of time: _DeadlineExceeded, answered at the end of ask.
Timeout == Say(Unavailable)

\* AIAskCancelled before _DeadlineExceeded, as ask checks them.
CheckedBoth(step) == \/ signals.caller /\ Raise
                     \/ ~signals.caller /\ signals.deadline /\ Timeout
                     \/ ~Signalled /\ step

\* The statuses of the searches whose responses the thread has taken.
Taken(s) == ask.taken[s]
Useful(s) == Taken(s) \in {"available", "degraded"}

\* Fault: only a search of the last round counts as failed.
FailedLately == \E s \in ask.submitted : Taken(s) = "unavailable"
                                         /\ (ask.round = 2 => s = Supplemental)

Failed == \E s \in ask.submitted : Taken(s) = "unavailable"
Degraded == Failed \/ \E s \in ask.submitted : Taken(s) = "degraded"

Retrieval(gap) == IF Degraded \/ gap THEN "degraded" ELSE "available"
Found == UNION {search[s].hits : s \in {t \in ask.submitted : Useful(t)}}

----------------------------------------------------------------------------
\* Fault: a model call cancelled by the deadline is taken for a cancellation.
PlanningAnyCancel(queries, more) ==
    /\ Is("structured", "planning")
    /\ \/ Signalled /\ Raise
       \/ ask' = [ask EXCEPT !.pc = "planned", !.submitted = queries, !.supplemental = more]
    /\ UNCHANGED Rest

\* Fault: the pool is left behind, executor.shutdown(wait=False).
ShutDownHasty ==
    /\ Is("structured", "shutdown")
    /\ CASE ask.next = "raise" -> Raise
         [] ask.next = "timeout" -> Timeout
         [] ask.next = "merge" -> Goto("merge")
    /\ UNCHANGED Rest

----------------------------------------------------------------------------
(* Counting and planning.                                                   *)

Begin ==
    /\ Is("structured", "start")
    /\ Goto("count") \/ Goto("planning") \/ Say(NotGenerated("not_run"))
    /\ UNCHANGED Rest

\* A count stopped by the deadline is an answer, one stopped by the caller is not.
CountStructured ==
    /\ ask.kind = "structured"
    /\ \/ CountTables(Signalled)
       \/ /\ ask.pc = "counted"
          /\ \/ Signalled /\ Goto("count_cancelled")
             \/ ~Signalled /\ Say(Reply("metadata_count_answered", {}, "not_run", FALSE))
          /\ UNCHANGED Rest
       \/ /\ ask.pc = "count_cancelled"
          /\ \/ signals.caller /\ Raise
             \/ /\ ~signals.caller
                /\ Say(Reply("metadata_count_unavailable", {}, "not_run", FALSE))
          /\ UNCHANGED Rest

\* The plan: an identifier is searched as it stands, a model that fails leaves
\* the question itself, a model that answers gives more queries.
Planning(queries, more) ==
    /\ Is("structured", "planning")
    /\ \/ Signalled /\ signals.deadline /\ Timeout
       \/ Signalled /\ ~signals.deadline /\ Raise
       \/ ask' = [ask EXCEPT !.pc = "planned", !.submitted = queries, !.supplemental = more]
    /\ UNCHANGED Rest

Plan == \E n \in 1 .. Supplemental - 1, more \in BOOLEAN : Planning(1 .. n, more)

----------------------------------------------------------------------------
(* The search rounds.                                                       *)

Submit(queries) ==
    /\ search' = [s \in Searches |-> IF s \in queries
                                     THEN [NotRun EXCEPT !.at = "queued"] ELSE search[s]]
    /\ ask' = [ask EXCEPT !.pc = "round", !.round = @ + 1, !.over = FALSE,
                          !.submitted = @ \union queries]
    /\ UNCHANGED <<catalog, signals>>

Planned == /\ Is("structured", "planned")
           /\ \/ /\ Signalled
                 /\ CheckedBoth(FALSE)
                 /\ UNCHANGED Rest
              \/ ~Signalled /\ Submit(ask.submitted)

\* A thread of the pool takes the next search.
PoolTakes(s) ==
    /\ search[s].at = "queued"
    /\ \A t \in Searches : search[t].at = "queued" => s <= t
    /\ Cardinality({t \in Searches : Running(t)}) < Parallel
    /\ search' = [search EXCEPT ![s].at = "begun"]
    /\ UNCHANGED <<catalog, signals, ask>>

Pending == {s \in ask.submitted : Taken(s) = "none"}

\* Every search of the round is told to stop, and those not begun are dropped.
StopAll(states, steps) ==
    [s \in Searches |->
        IF s \notin states THEN search[s]
        ELSE [search[s] EXCEPT !.signal = TRUE,
                !.at = IF @ = "queued" THEN "dropped" ELSE @,
                !.step = IF s \in steps /\ search[s].at # "finished" THEN "closed" ELSE @]]

SeeSignal ==
    /\ Is("structured", "round") /\ Pending # {} /\ Signalled
    /\ search' = StopAll(Pending, {})
    /\ ask' = [ask EXCEPT !.pc = "shutdown", !.over = FALSE,
                          !.next = IF signals.caller THEN "raise" ELSE "timeout"]
    /\ UNCHANGED <<catalog, signals>>

\* The time of the round is up: what was not taken is unavailable, whatever it
\* brings later.  Its step is ended here, and again when the thread is done.
RoundExpires ==
    /\ Is("structured", "round") /\ Pending # {} /\ ~Signalled /\ ask.over
    /\ search' = StopAll(Pending, Pending)
    /\ ask' = [ask EXCEPT !.pc = "shutdown", !.next = "merge", !.over = FALSE,
                          !.taken = [s \in Searches |-> IF s \in Pending THEN "unavailable"
                                                        ELSE Taken(s)]]
    /\ UNCHANGED <<catalog, signals>>

Wait == /\ Is("structured", "round") /\ Pending # {} /\ ~Signalled /\ ~ask.over
        /\ Goto("waiting")
        /\ UNCHANGED Rest

TakeFinished ==
    /\ Is("structured", "waiting")
    /\ LET finished == {s \in Pending : search[s].at = "finished"} IN
       /\ ask' = [ask EXCEPT !.pc = "round",
                    !.taken = [s \in Searches |-> IF s \in finished THEN search[s].status
                                                  ELSE Taken(s)]]
       /\ search' = [s \in Searches |-> IF s \in finished
                                        THEN [search[s] EXCEPT !.step = "closed"] ELSE search[s]]
    /\ UNCHANGED <<catalog, signals>>

RoundDone == /\ Is("structured", "round") /\ Pending = {}
             /\ ask' = [ask EXCEPT !.pc = "shutdown", !.next = "merge", !.over = FALSE]
             /\ UNCHANGED Rest

\* The pool is waited for before the thread goes on, whatever comes next.
ShutDown ==
    /\ Is("structured", "shutdown")
    /\ \A s \in Searches : Over(s)
    /\ CASE ask.next = "raise" -> Raise
         [] ask.next = "timeout" -> Timeout
         [] ask.next = "merge" -> Goto("merge")
    /\ UNCHANGED Rest

SecondRound == /\ Is("structured", "merge")
               /\ Found = {} /\ ask.supplemental /\ ask.round = 1
               /\ Submit({Supplemental})

\* "No such asset" is said only when every search that ran was heard; a degraded
\* one counts as heard, where the plain pipeline answers Unavailable (Organized).
NothingMerged ==
    /\ Is("structured", "merge")
    /\ Found = {} /\ ~(ask.supplemental /\ ask.round = 1)
    /\ Say(IF Failed THEN Unavailable ELSE NothingFound(Retrieval(FALSE), FALSE))
    /\ UNCHANGED Rest

----------------------------------------------------------------------------
(* Verification and generation.                                             *)

\* The best candidates, and of those the ones of the first tables.
Merged == {best \in SUBSET Found :
              Cardinality(best) = IF Cardinality(Found) > MaxMerged THEN MaxMerged
                                  ELSE Cardinality(Found)}

Merge == /\ Is("structured", "merge") /\ Found # {}
         /\ \E best \in Merged :
               ask' = [ask EXCEPT !.pc = "verify", !.evidence = best,
                                   !.supplemental = FALSE]
         /\ UNCHANGED Rest

Verify == /\ Is("structured", "verify")
          /\ CheckedBoth(Goto("batch"))
          /\ UNCHANGED Rest

Details == {tables \in SUBSET {h[1] : h \in ask.evidence} :
              Cardinality(tables) <= MaxTables
              /\ (Cardinality(tables) < MaxTables => tables = {h[1] : h \in ask.evidence})}

\* One read for all candidates.  An error of this read, cancellation included,
\* confirms nothing; otherwise each candidate is confirmed or reported.
ReadDetails ==
    /\ Is("structured", "batch")
    /\ \/ Say(Unavailable)
       \/ \E tables \in Details :
             LET confirmed == {h \in ask.evidence \intersect Subjects(catalog.shown) :
                                  h[1] \in tables} IN
             IF confirmed = {} THEN Say(Unavailable)
             ELSE ask' = [ask EXCEPT !.pc = "generate", !.evidence = confirmed,
                                     !.gap = confirmed # ask.evidence]
    /\ UNCHANGED Rest

GenerateStructured ==
    /\ Is("structured", "generate")
    /\ \/ Signalled /\ signals.deadline /\ Say(NotGenerated(Retrieval(ask.gap)))
       \/ Signalled /\ ~signals.deadline /\ Raise
       \/ Say(NotGenerated(Retrieval(ask.gap)))
       \/ \E chosen \in Selections(ask.evidence), whole \in BOOLEAN :
             LET retrieval == Retrieval(ask.gap)
                 status == IF chosen = {} THEN "insufficient_evidence"
                           ELSE IF whole /\ retrieval = "available" THEN "answered"
                           ELSE "partial_answer"
             IN Say(Reply(status, chosen, retrieval, TRUE))
    /\ UNCHANGED Rest

\* Anything unexpected between two stages.
Fails == /\ ask.kind = "structured"
         /\ ask.pc \in {"start", "planning", "planned", "merge", "verify"}
         /\ Say(Unavailable)
         /\ UNCHANGED Rest

StructuredStep ==
    \/ Begin \/ CountStructured \/ Plan \/ Planned
    \/ SeeSignal \/ RoundExpires \/ Wait \/ TakeFinished \/ RoundDone \/ ShutDown
    \/ SecondRound \/ NothingMerged \/ Merge \/ Verify \/ ReadDetails
    \/ GenerateStructured \/ Fails

\* The timer of the request and the clock of the round.
DeadlinePasses == /\ ask.kind = "structured" /\ ask.pc # "done" /\ ~signals.deadline
                  /\ signals' = [signals EXCEPT !.deadline = TRUE]
                  /\ UNCHANGED <<catalog, search, ask>>

RoundTimeOver == /\ ask.pc \in {"round", "waiting"} /\ ~ask.over
                 /\ ask' = [ask EXCEPT !.over = TRUE]
                 /\ UNCHANGED Rest

----------------------------------------------------------------------------
Init == SearchInit /\ \E kind \in {"plain", "structured"} : AskInit(kind)

Search(s) == SearchStep(s) /\ UNCHANGED ask

\* A change is told apart from an earlier one only by a read between them, so it is
\* enough that the catalogue changes where the next step may read it.
CatalogIsRead == Is("structured", "batch") \/ \E s \in Searches : search[s].at = "catalog"

Next == \/ PlainStep \/ StructuredStep
        \/ \E s \in Searches : Search(s) \/ PoolTakes(s)
        \/ CatalogChanges /\ CatalogIsRead /\ UNCHANGED ask
        \/ CallerCancels /\ ask.pc # "done" /\ UNCHANGED ask
        \/ DeadlinePasses \/ RoundTimeOver

\* What is owed: the threads run, the model call ends (BoundedCall.CallEnds) and
\* the clock of the round runs.  The remote search answers for certain only once
\* it is told to stop.  The overall deadline may be far away.
Run == PlainStep \/ StructuredStep
SearchRuns(s) == (ReturnUnsent(s) \/ SendSearch(s) \/ LookUp(s)) /\ UNCHANGED ask
ToldAnswers(s) == Told(s) /\ RemoteAnswers(s) /\ UNCHANGED ask
PoolRuns == \E s \in Searches : PoolTakes(s) \/ SearchRuns(s) \/ ToldAnswers(s)

----------------------------------------------------------------------------
(* Properties.                                                              *)

Done == ask.pc = "done"
Says(status) == Done /\ ask.answer.status = status

\* Only the caller makes a question end without an answer: a deadline that
\* fires while a stage is returning is answered as a deadline, by whichever
\* stage notices it.
CancelledOnlyByCaller == Says("cancelled") => signals.caller

\* When a question is answered, or given up, none of its searches is running or
\* waiting for a thread: the admission slot it holds is all it holds.  Every
\* search and every catalogue lookup the user saw begin was seen to end, also
\* when it was cancelled, timed out or came too late; and the plain pipeline
\* leaves no stage running next to an answer.
NothingOutlivesAsk ==
    Done =>
        /\ \A s \in Searches :
              Over(s) /\ search[s].step # "open" /\ search[s].lookup # "open"
        /\ ask.answer.status # "cancelled" =>
              \A stage \in Stages : ask.told[stage] # "running"

\* The searches an answer rests on.
Sent == IF ask.kind = "plain" THEN {1} ELSE ask.submitted

\* What an answer says of the search is so.  "There is no such asset", said
\* without the model, means that every search that was sent, in both rounds, was
\* heard and left nothing after the catalogue was asked; an answer that calls the
\* retrieval available rests on searches that all came back whole, whichever
\* status it has; and one that calls itself complete also on candidates that were
\* all confirmed.  The structured pipeline does say "no such asset" when a search
\* came back degraded, and admits the degradation: see DegradedIsUnavailable.
AnswersAreHonest ==
    /\ Says("insufficient_evidence") /\ ~ask.answer.generated
       => \A s \in Sent : search[s].status \in {"available", "degraded"}
                           /\ search[s].hits = {}
    /\ Done /\ (ask.answer.retrieval = "available" \/ ask.answer.status = "answered")
       => \A s \in Sent : search[s].status = "available"
    /\ Says("answered") => ~ask.gap

\* A degraded search without evidence is no verdict: the answer is
\* "retrieval_unavailable", of both pipelines.  (The plain one keeps to it, the
\* structured one does not: NothingMerged.)
DegradedIsUnavailable ==
    Says("insufficient_evidence") /\ ~ask.answer.generated
    => \A s \in Sent : search[s].status # "degraded"
=============================================================================
