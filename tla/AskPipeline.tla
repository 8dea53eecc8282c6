--------------------------- MODULE AskPipeline ----------------------------
(* AIAskService.ask: analyse, retrieve, count, organize, generate, one stage *)
(* after the other, each told to the user as it runs.  AskExecution extends  *)
(* it the way AIAskExecutionService extends the class.                       *)
EXTENDS Naturals, FiniteSets

-----------------------------------------------------------------------------
(* RagSearchService.recommend as the thread that runs it sees it: the remote *)
(* search returns identities, and only those the DAP catalogue shows at that *)
(* moment become recommendations.  A hit is <<table, 0>> or <<table, field>>. *)
CONSTANTS Finds,       \* the sets of identities the remote index may return
          Searches,    \* 1 .. n, in the order they are submitted
          MaxChanges   \* changes of the catalogue while a question is answered

VARIABLES catalog,   \* [shown |-> the hits the catalogue shows now, changes |-> n]
          signals,   \* [caller |-> cancelled by the caller, deadline |-> overall time limit over]
          search     \* the state of every search

Table(h) == <<h[1], 0>>
Hits == UNION Finds
Shown == Hits \union {Table(h) : h \in Hits}
Subjects(shown) == {h \in shown : Table(h) \in shown}   \* a field goes with its table

NotRun == [at |-> "absent",     \* absent, queued, begun, sent, catalog, finished, dropped
           signal |-> FALSE,    \* _ChildCancelSignal._local
           step |-> "none",     \* the step search-<id> the user sees: none, open, closed
           lookup |-> "none",   \* the step catalog-<id>
           status |-> "none", hits |-> {}]

SearchInit == /\ catalog = [shown |-> Shown, changes |-> 0]
              /\ signals = [caller |-> FALSE, deadline |-> FALSE]
              /\ search = [s \in Searches |-> NotRun]

\* _CancelSignal and _ChildCancelSignal: the search's own event or the request's.
Signalled == signals.caller \/ signals.deadline
Told(s) == Signalled \/ search[s].signal

Running(s) == search[s].at \in {"begun", "sent", "catalog"}
Over(s) == search[s].at \in {"absent", "finished", "dropped"}

\* The thread returns a response; a step that was opened is closed before.
Closed(step) == IF step = "open" THEN "closed" ELSE step
Return(s, status, hits) ==
    search' = [search EXCEPT ![s].at = "finished", ![s].status = status, ![s].hits = hits,
                             ![s].step = Closed(@), ![s].lookup = Closed(@)]

----------------------------------------------------------------------------
(* The steps of one search.                                                 *)

\* Answers given without a request: cancelled, switched off, not configured,
\* hidden profile, no token.  Both pipelines treat "disabled" as "unavailable".
ReturnUnsent(s) ==
    /\ search[s].at = "begun"
    /\ Return(s, "unavailable", {})
    /\ UNCHANGED <<catalog, signals>>

SendSearch(s) ==
    /\ search[s].at = "begun" /\ ~Told(s)
    /\ search' = [search EXCEPT ![s].at = "sent", ![s].step = "open"]
    /\ UNCHANGED <<catalog, signals>>

\* The request fails, is cancelled, or brings identities.
RemoteAnswers(s) ==
    /\ search[s].at = "sent"
    /\ \/ Return(s, "unavailable", {})
       \/ ~Told(s) /\ \E found \in Finds :
             search' = [search EXCEPT ![s].at = "catalog", ![s].hits = found,
                                      ![s].lookup = "open"]
    /\ UNCHANGED <<catalog, signals>>

\* The candidates are read from the catalogue in one batch; what it does not
\* show is rejected and makes the response degraded.  This read is not told
\* about cancellation.
LookUp(s) ==
    /\ search[s].at = "catalog"
    /\ LET known == search[s].hits \intersect Subjects(catalog.shown) IN
       \/ Return(s, IF known = search[s].hits THEN "available" ELSE "degraded", known)
       \/ Return(s, "unavailable", {})
    /\ UNCHANGED <<catalog, signals>>

SearchStep(s) == ReturnUnsent(s) \/ SendSearch(s) \/ RemoteAnswers(s) \/ LookUp(s)

\* The surroundings: an asset or field is hidden or deleted; the caller leaves.
CatalogChanges ==
    /\ catalog.changes < MaxChanges
    /\ \E h \in catalog.shown :
          catalog' = [shown |-> catalog.shown \ {h}, changes |-> catalog.changes + 1]
    /\ UNCHANGED <<signals, search>>

CallerCancels == /\ ~signals.caller
                 /\ signals' = [signals EXCEPT !.caller = TRUE]
                 /\ UNCHANGED <<catalog, search>>

-----------------------------------------------------------------------------
VARIABLE ask   \* the thread that answers: its step and what it found so far

Stages == {"analyzing", "retrieving", "counting", "organizing", "generating", "completed"}

\* The answer: which evidence it cites, how retrieval is described to the
\* user, and whether the model was heard.
Reply(status, cites, retrieval, generated) ==
    [status |-> status, cites |-> cites, retrieval |-> retrieval, generated |-> generated]

Unanswered == Reply("none", {}, "none", FALSE)

AskInit(kind) == ask = [kind |-> kind,          \* "plain" or "structured"
                        pc |-> "start",
                        told |-> [stage \in Stages |-> "none"],
                        round |-> 0, submitted |-> {}, supplemental |-> FALSE,
                        over |-> FALSE,         \* the time of this round is up
                        next |-> "none",        \* where to go once the pool is down
                        taken |-> [s \in Searches |-> "none"],
                        evidence |-> {},        \* what the catalogue confirmed
                        gap |-> FALSE,          \* some candidate could not be confirmed
                        answer |-> Unanswered]

Is(kind, step) == ask.kind = kind /\ ask.pc = step
Goto(step) == ask' = [ask EXCEPT !.pc = step]
Say(reply) == ask' = [ask EXCEPT !.pc = "done", !.answer = reply]
Raise == Say(Reply("cancelled", {}, "none", FALSE))      \* AIAskCancelled
Rest == <<catalog, signals, search>>

\* Telling the user: start refuses when the caller has left (start_), the
\* other two end the stage that runs.
Tell(stage, status, step) == ask' = [ask EXCEPT !.told[stage] = status, !.pc = step]
Start(stage, step) == \/ signals.caller /\ Raise
                      \/ ~signals.caller /\ Tell(stage, "running", step)
End(stage, status, reply) ==
    ask' = [ask EXCEPT !.told[stage] = status, !.pc = "done", !.answer = reply]

Unavailable == Reply("retrieval_unavailable", {}, "unavailable", FALSE)
NotGenerated(retrieval) == Reply("generation_unavailable", {}, retrieval, FALSE)
NothingFound(retrieval, generated) == Reply("insufficient_evidence", {}, retrieval, generated)

\* What the model's text can come to once it is parsed against the candidates:
\* unusable, a citation of something else, or a choice among them.
Selections(candidates) == SUBSET candidates

----------------------------------------------------------------------------
(* The stages of /ask.                                                      *)

Analyze ==
    /\ Is("plain", "start") /\ Start("analyzing", "analyzing")
    /\ UNCHANGED Rest

Analyzed ==
    /\ Is("plain", "analyzing")
    /\ \/ End("analyzing", "failed", NotGenerated("not_run"))
       \/ \E step \in {"count", "enabled"} : Tell("analyzing", "completed", step)
    /\ UNCHANGED Rest

\* An exact count needs the filter catalogue, then the count; the caller is
\* asked for before, between and after.  In the structured pipeline the cancel
\* event passed down is also set by the deadline.
CountTables(cancelled) ==
    /\ ask.pc = "count"
    /\ \/ Goto("counted")
       \/ Say(Reply("ambiguous_scope", {}, "not_run", FALSE))
       \/ Say(Reply("metadata_count_unavailable", {}, "not_run", FALSE))
       \/ cancelled /\ Goto("count_cancelled")
    /\ UNCHANGED Rest

CountPlain == ask.kind = "plain" /\ CountTables(signals.caller)

CountedPlain ==
    /\ ask.kind = "plain"
    /\ \/ (ask.pc = "count_cancelled" \/ (ask.pc = "counted" /\ signals.caller)) /\ Raise
       \/ /\ ask.pc = "counted" /\ ~signals.caller
          /\ End("completed", "completed",
                 Reply("metadata_count_answered", {}, "not_run", FALSE))
    /\ UNCHANGED Rest

CheckEnabled == /\ Is("plain", "enabled")
                /\ Say(NotGenerated("not_run")) \/ Start("retrieving", "recommend")
                /\ UNCHANGED Rest

\* The search runs in this thread; whatever it raises is an unavailable one.
Recommend == /\ Is("plain", "recommend")
             /\ search' = [search EXCEPT ![1].at = "begun"]
             /\ Goto("retrieving")
             /\ UNCHANGED <<catalog, signals>>

Retrieve == /\ Is("plain", "retrieving") /\ search[1].at = "finished"
            /\ Goto("retrieved")
            /\ UNCHANGED Rest

Retrieved ==
    /\ Is("plain", "retrieved")
    /\ \/ signals.caller /\ Raise
       \/ /\ ~signals.caller /\ search[1].status = "unavailable"
          /\ End("retrieving", "failed", Unavailable)
       \/ /\ ~signals.caller /\ search[1].status \in {"available", "degraded"}
          /\ Tell("retrieving", "completed", "counting")
    /\ UNCHANGED Rest

\* counting and organizing only arrange what the search returned.
Arrange(stage, following) ==
    /\ Is("plain", stage)
    /\ IF ask.told[stage] = "none" THEN Start(stage, stage)
       ELSE \/ End(stage, "failed", Unavailable)
            \/ Tell(stage, "completed", following)
    /\ UNCHANGED Rest

\* Nothing to show to the model: "no such asset" only when the search was whole.
Organized ==
    /\ Is("plain", "organized")
    /\ IF search[1].hits # {} THEN Start("generating", "generating")
       ELSE \/ search[1].status = "degraded" /\ Say(Unavailable)
            \/ /\ search[1].status = "available"
               /\ \/ signals.caller /\ Raise
                  \/ /\ ~signals.caller
                     /\ End("completed", "completed", NothingFound("available", FALSE))
    /\ UNCHANGED Rest

\* The model is asked, and asked once more when it chose nothing.
Generate(step, again) ==
    /\ Is("plain", step)
    /\ \/ signals.caller /\ Raise
       \/ /\ ~signals.caller
          /\ \/ End("generating", "failed", NotGenerated(search[1].status))
             \/ \E chosen \in Selections(search[1].hits) :
                   IF chosen = {} /\ again THEN Goto("repairing")
                   ELSE ask' = [ask EXCEPT !.told["generating"] = "completed",
                                           !.pc = "generated", !.evidence = chosen]
    /\ UNCHANGED Rest

Generated ==
    /\ Is("plain", "generated")
    /\ \/ signals.caller /\ Raise
       \/ /\ ~signals.caller
          /\ \E whole \in BOOLEAN :
                LET status == IF ask.evidence = {} THEN "insufficient_evidence"
                              ELSE IF whole /\ search[1].status = "available" THEN "answered"
                              ELSE "partial_answer"
                IN End("completed", "completed",
                       Reply(status, ask.evidence, search[1].status, TRUE))
    /\ UNCHANGED Rest

PlainStep == \/ Analyze \/ Analyzed \/ CountPlain \/ CountedPlain \/ CheckEnabled
             \/ Recommend \/ Retrieve \/ Retrieved \/ Arrange("counting", "organizing")
             \/ Arrange("organizing", "organized") \/ Organized
             \/ Generate("generating", TRUE) \/ Generate("repairing", FALSE) \/ Generated
=============================================================================
