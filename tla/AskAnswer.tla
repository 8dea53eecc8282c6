----------------------------- MODULE AskAnswer -----------------------------
(***************************************************************************)
(* A question from its three ends: how the pipeline comes to an answer, how *)
(* the records of the child that runs it become the answer of an endpoint,  *)
(* and how a call to the model or to the retrieval service is made.  What   *)
(* passes between them is an outcome that the other end leaves open: the    *)
(* child's in AskStream, a call's in AskPipeline; so a behaviour is about   *)
(* one end.                                                                 *)
(***************************************************************************)
EXTENDS AskStream, BoundedCall

CONSTANTS Finds, Searches, MaxChanges, Parallel, MaxTables, MaxMerged   \* of the pipeline

VARIABLES catalog, signals, search, ask,   \* of the pipeline
          end    \* which end this behaviour is about

Execution == INSTANCE AskExecution

\* The planned queries, in their order, and a supplemental one; /ask has one.
ASSUME SearchesAssumption ==
  Execution!Supplemental \in Nat \ {0} /\ Searches = 1..Execution!Supplemental

executionVars == <<catalog, signals, search, ask>>
answerVars == <<vars, executionVars, callVars, end>>

AnswerInit ==
  /\ end \in {"pipeline", "endpoint", "call"}
  /\ Init
  /\ Execution!Init
  /\ CallInit
  /\ end # "endpoint" => endpoint = CHOOSE e \in Endpoints : TRUE
  /\ end # "pipeline" => ask.kind = "plain"
  /\ end # "call" => client = "model"

AnswerNext ==
  /\ UNCHANGED end
  /\ \/ end = "endpoint" /\ Next /\ UNCHANGED <<executionVars, callVars>>
     \/ end = "pipeline" /\ Execution!Next /\ UNCHANGED <<vars, callVars>>
     \/ end = "call" /\ CallNext /\ UNCHANGED <<vars, executionVars>>

\* Each end is fair in the behaviours that are about it.
AnswerSpec ==
  /\ AnswerInit /\ [][AnswerNext]_answerVars
  /\ WF_vars(end = "endpoint" /\ Handler)
  /\ WF_vars(end = "endpoint" /\ PassDeadline)
  /\ WF_vars(end = "endpoint" /\ PassGrace)
  /\ WF_executionVars(end = "pipeline" /\ Execution!Run)
  /\ WF_executionVars(end = "pipeline" /\ Execution!RoundTimeOver)
  /\ WF_executionVars(end = "pipeline" /\ Execution!PoolRuns)
  /\ \A c \in Calls : /\ WF_callVars(end = "call" /\ Caller(c))
                      /\ WF_callVars(end = "call" /\ Helpers(c))
                      /\ WF_callVars(end = "call" /\ DeadlinePasses(c))

(***************************************************************************)
(* Properties of the pipeline; those of the endpoint are AskStream's.      *)
(***************************************************************************)
\* Only the caller makes a question end without an answer: a deadline that
\* fires while a stage is returning is answered as a deadline, by whichever
\* stage notices it.
CancelledOnlyByCaller == Execution!CancelledOnlyByCaller

\* Nothing of a question goes on when it is answered or given up: no search, no
\* step or stage the user is shown.
NothingOutlivesAsk == Execution!NothingOutlivesAsk

\* "No such asset" was searched for everywhere, a retrieval that is called
\* available was whole, and "answered" rests on confirmed candidates.
AnswersAreHonest == Execution!AnswersAreHonest

\* docs/ai-ask-mvp.md:125: degraded and without evidence is "retrieval_unavailable".
DegradedIsUnavailable == Execution!DegradedIsUnavailable

\* The client has the outcome of its request, or has left.  Of /ask/progress the
\* code promises less: when the result could not be queued, or even the fallback
\* could not be made, __end__ just closes the stream, and the client has no result.
Answered ==
  /\ pc = "closed"
  /\ \/ ended = "disconnect"
     \/ endpoint = "stream" /\ Emitted("answer") /\ Emitted("done")
     \/ endpoint = "json" /\ Emitted("body")
     \/ endpoint = "progress" /\ (Emitted("result") \/ (ended = "end" /\ lost))

\* Every request comes to its outcome, with a child that hangs, dies or never
\* reports; and a structured question ends within the time of its rounds, however
\* silent the retrieval service is, without help of the overall deadline.  (At
\* another end the endpoint stays at "begin", and the pipeline at "start".)
EveryAskEnds ==
  (end = "endpoint" \/ ask.kind = "structured") ~> (Answered \/ ask.pc = "done")

(***************************************************************************)
(* The instance that is checked: a search finds nothing, a field of one    *)
(* table, or this field and another table.                                 *)
(***************************************************************************)
FieldAndTable == {{}, {<<1, 1>>}, {<<1, 1>>, <<2, 0>>}}
=============================================================================
