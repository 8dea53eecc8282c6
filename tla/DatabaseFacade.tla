--------------------------- MODULE DatabaseFacade ---------------------------
(***************************************************************************)
(* One operation of a service on the database: calls of the facade, each   *)
(* with a connection and a transaction of its own, or all of them within   *)
(* one scope (database_transaction) whose connection they share, with or   *)
(* without the record an audited operation writes last.                    *)
(*                                                                         *)
(* The profile is read anew for each call and may be edited meanwhile;     *)
(* connecting, each statement, commit, rollback and close may fail.  This  *)
(* is what the transactions of RegisterStore and LineagePublish stand on.  *)
(***************************************************************************)
EXTENDS Naturals, Sequences, FiniteSets

CONSTANTS
    Backends,        \* of "sqlite", "postgres", "gaussdb"
    Plans,           \* operations: a scope, and calls with profile, path, rows
    Profiles, AuditProfile,
    Configurations,  \* what a profile may say: a database and a schema
    MaxConfigEdits   \* bound: edits of a profile

VARIABLES
    backend, plan,
    config,       \* what each profile says now
    configEdits,  \* edits left
    op,           \* the operation
    stored        \* rows committed, with the place they are in and the place meant

NoConnection ==
    [status |-> "none", profile |-> "", made |-> <<>>, pinned |-> FALSE, rows |-> {}]

NotStarted ==
    [pc |-> "next", at |-> 1, row |-> 1, read |-> <<>>, conn |-> NoConnection,
     outcome |-> "none", doubt |-> FALSE]

Scoped == plan.scope # "none"
Audited == plan.scope = "audit"
Call == plan.calls[op.at]
At(pc) == op.pc = pc
IsOpen == op.conn.status = "open"

\* A call or the scope raises: what is open is rolled back first.
Failed(o) == [o EXCEPT !.outcome = "error", !.pc = IF o.conn.status = "open" THEN "roll_back" ELSE "done"]
Fail == op' = Failed(op)

Untouched == UNCHANGED <<backend, plan, config, configEdits>>

-----------------------------------------------------------------------------
(* Where a statement goes *)

\* Names of the schema are written into the statement, the database is the session's.
PlacedAt(conn, c) ==
    [database |-> conn.made.database, schema |-> IF backend = "sqlite" THEN "dwp" ELSE c.schema]

\* Fault: the session is taken to be the one meant.
SessionFitsAny(conn, c) == TRUE

\* The session is asked what it is before anything is written.
SessionFits(conn, c) ==
    IF backend = "sqlite" THEN conn.made.database = c.database
                          ELSE conn.made.schema = c.schema

-----------------------------------------------------------------------------
(* One call *)

GetDbProfile ==
    /\ At("next") /\ op.at <= Len(plan.calls) /\ ~Call.nested
    /\ \/ op' = [op EXCEPT !.read = config[Call.profile], !.row = 1, !.pc = "connect"]
       \/ Fail
    /\ Untouched /\ UNCHANGED stored

\* A scope within a scope is refused.
RefuseNested ==
    /\ At("next") /\ op.at <= Len(plan.calls) /\ Call.nested
    /\ Fail
    /\ Untouched /\ UNCHANGED stored

ConnectWithProfile ==
    /\ At("connect") /\ ~IsOpen
    /\ \/ op' = [op EXCEPT !.pc = "check",
                    !.conn = [status |-> "open", profile |-> Call.profile,
                              made |-> op.read, pinned |-> TRUE, rows |-> {}]]
       \/ Fail
    /\ Untouched /\ UNCHANGED stored

\* The scope's connection is for one profile, as it was when it was made.
ConnectionFor ==
    /\ At("connect") /\ IsOpen
    /\ IF /\ op.conn.profile = Call.profile
          /\ op.conn.pinned => op.conn.made = op.read
       THEN op' = [op EXCEPT !.pc = "check"]
       ELSE Fail
    /\ Untouched /\ UNCHANGED stored

ValidateConnectionTarget ==
    /\ At("check")
    /\ IF SessionFits(op.conn, op.read) THEN op' = [op EXCEPT !.pc = "run"] ELSE Fail
    /\ Untouched /\ UNCHANGED stored

\* A call commits and closes a connection of its own only.
AfterCall == IF Scoped THEN "next" ELSE "commit"

RunStatement ==
    /\ At("run")
    /\ LET place == PlacedAt(op.conn, op.read)
           row == [row |-> <<op.at, op.row>>, at |-> place,
                   meant |-> [place EXCEPT !.database = op.read.database]]
           done == [op EXCEPT !.conn.rows = @ \cup {row}, !.row = @ + 1]
       IN \/ op' = IF op.row < Call.rows THEN done
                   ELSE [done EXCEPT !.at = @ + 1, !.pc = AfterCall]
          \/ Fail
    /\ Untouched /\ UNCHANGED stored

-----------------------------------------------------------------------------
(* The end of a scope *)

\* A scope that was given no call has no connection and nothing to commit.
EndCalls ==
    /\ At("next") /\ op.at > Len(plan.calls)
    /\ op' = CASE Audited -> [op EXCEPT !.pc = "audit"]
               [] ~Audited /\ IsOpen -> [op EXCEPT !.pc = "commit"]
               [] OTHER -> [op EXCEPT !.pc = "done", !.outcome = "ok"]
    /\ Untouched /\ UNCHANGED stored

\* The record is written on the scope's connection; if no call has made one, one is
\* made now.
AuditConnection ==
    /\ At("audit")
    /\ \/ /\ IsOpen
          /\ IF op.conn.profile = AuditProfile THEN op' = [op EXCEPT !.pc = "record"] ELSE Fail
       \/ /\ ~IsOpen
          /\ op' = [op EXCEPT !.pc = "record",
                       !.conn = [status |-> "open", profile |-> AuditProfile,
                                 made |-> config[AuditProfile], pinned |-> FALSE, rows |-> {}]]
       \/ ~IsOpen /\ Fail
    /\ Untouched /\ UNCHANGED stored

\* The profile is read once more for the record.
RecordAudit ==
    /\ At("record")
    /\ LET c == config[AuditProfile]
           place == PlacedAt(op.conn, c)
       IN \/ /\ SessionFits(op.conn, c)
             /\ op' = [op EXCEPT !.pc = "commit",
                          !.conn.rows = @ \cup {[row |-> <<0, 0>>, at |-> place, meant |-> place]}]
          \/ Fail
    /\ Untouched /\ UNCHANGED stored

-----------------------------------------------------------------------------
(* Commit, rollback, close *)

CommitSucceeds ==
    /\ stored' = stored \cup op.conn.rows
    /\ op' = [op EXCEPT !.conn.rows = {}, !.pc = "close"]

\* A commit that raises may have been done, may have been undone by the server, or
\* may still be there to be rolled back.
CommitRaises(next) ==
    \E fate \in {"done", "undone", "pending"} :
        LET o == [op EXCEPT !.doubt = TRUE, !.conn.rows = IF fate = "pending" THEN @ ELSE {}] IN
        /\ stored' = IF fate = "done" THEN stored \cup op.conn.rows ELSE stored
        /\ op' = IF next = "again" THEN [o EXCEPT !.pc = "again"] ELSE Failed(o)

CommitIfNeeded ==
    /\ At("commit")
    /\ \/ CommitSucceeds
       \/ CommitRaises(IF backend = "gaussdb" THEN "again" ELSE "raise")
    /\ Untouched

\* Over JDBC a commit that has raised is tried once more on the Java connection.
CommitAgain ==
    /\ At("again")
    /\ CommitSucceeds \/ CommitRaises("raise")
    /\ Untouched

\* An error of the rollback is logged, or takes the place of the one before it.
RollbackIfNeeded ==
    /\ At("roll_back")
    /\ \E rows \in {{}, op.conn.rows} : op' = [op EXCEPT !.conn.rows = rows, !.pc = "close"]
    /\ Untouched /\ UNCHANGED stored

\* The server forgets what was not committed.
Closed == [op EXCEPT !.conn = [NoConnection EXCEPT !.status = "closed"]]

Close ==
    /\ At("close")
    /\ op' = CASE op.outcome = "error" -> [Closed EXCEPT !.pc = "done"]
               [] op.outcome # "error" /\ ~Scoped /\ op.at <= Len(plan.calls) ->
                    [Closed EXCEPT !.pc = "next"]
               [] OTHER -> [Closed EXCEPT !.pc = "done", !.outcome = "ok"]
    /\ Untouched /\ UNCHANGED stored

\* A connection of a call through Core that fails to close makes the call fail, over
\* JDBC; elsewhere such an error is logged or swallowed.
CloseFails ==
    /\ At("close") /\ ~Scoped /\ op.outcome # "error"
    /\ backend = "gaussdb" /\ plan.calls[op.at - 1].path = "core"
    /\ op' = [Closed EXCEPT !.pc = "done", !.outcome = "error", !.doubt = TRUE]
    /\ Untouched /\ UNCHANGED stored

EditConfig ==
    /\ configEdits > 0 /\ ~At("done")
    /\ \E c \in Configurations : c # config[AuditProfile] /\ config' = [config EXCEPT ![AuditProfile] = c]
    /\ configEdits' = configEdits - 1
    /\ UNCHANGED <<backend, plan, op, stored>>

FacadeInit ==
    /\ backend \in Backends
    /\ plan \in Plans
    /\ config \in [Profiles -> Configurations]
    /\ configEdits = MaxConfigEdits
    /\ op = NotStarted
    /\ stored = {}

FacadeStep ==
    \/ GetDbProfile \/ RefuseNested \/ ConnectWithProfile \/ ConnectionFor
    \/ ValidateConnectionTarget \/ RunStatement \/ EndCalls \/ AuditConnection \/ RecordAudit
    \/ CommitIfNeeded \/ CommitAgain \/ RollbackIfNeeded \/ Close \/ CloseFails \/ EditConfig

-----------------------------------------------------------------------------
(* Properties *)

RowsOfCall(k) == {k} \X (1 .. plan.calls[k].rows)
RowsOfPlan == (UNION {RowsOfCall(k) : k \in DOMAIN plan.calls})
                \cup (IF Audited THEN {<<0, 0>>} ELSE {})
Units == IF Scoped THEN {RowsOfPlan} ELSE {RowsOfCall(k) : k \in DOMAIN plan.calls}
StoredRows == {r.row : r \in stored}

\* A scope is stored as a whole or not at all, its audit record with it, and so is a
\* call without one: nobody ever sees a part.
StoredWhole == \A unit \in Units : unit \cap StoredRows \in {{}, unit}

\* A row is where the profile its call had read says, and a scope is in one place
\* however the profile is edited while it runs.
StoredWhereMeant ==
    /\ \A r \in stored : r.at = r.meant
    /\ Scoped => \A q, r \in stored : q.at = r.at

\* Success means stored, and failure of a scope means not stored, unless a commit has
\* raised and its fate is unknown; and the connection is given back.
OutcomeIsTrue ==
    /\ op.outcome = "ok" /\ ~op.doubt => StoredRows = RowsOfPlan
    /\ op.outcome = "error" /\ Scoped /\ ~op.doubt => stored = {}
    /\ At("done") => ~IsOpen

\* Whatever fails on the way, and whenever the profile is edited.
OperationsAreWhole == StoredWhole /\ StoredWhereMeant /\ OutcomeIsTrue
=============================================================================
