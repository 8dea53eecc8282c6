---------------------------- MODULE Migrations ----------------------------
(* backend/scripts/schema_migrate.py apply on GaussDB/DWS: the fresh       *)
(* baseline (migrations/schema.py initialize), the ordered revisions       *)
(* (migrations/dws_runner.py), the final verification and the two seeds.   *)
(* One runner, which may be stopped between any two statements and be run  *)
(* again; users and operators change the database meanwhile.  Whether DDL  *)
(* commits what came before it is not known of the target release, so both *)
(* are explored (ddlCommits).                                              *)
EXTENDS RevisionAdapters

CONSTANTS
    Situations,  \* the deployments a runner may find: records, see Init
    DdlModes,    \* the subset of BOOLEAN ddlCommits is chosen from
    Changes,     \* what others may do to the database: [what, key, to], see Changed
    MaxCrashes,
    MaxChanges

VARIABLES
    db,          \* what is committed
    work,        \* what the runner's connection sees: db and its own statements
    ledger,      \* alembic_version as a position in Chain, 0 the baseline, or None
    stage,       \* where main() is; "off" when no runner runs
    looked,      \* the schema reflected before the last inspection
    todo,        \* the statements still to issue
    how,         \* "adopt" or "apply", for the revision being stamped
    results,     \* what the runs did of each revision, "none" if nothing
    failed,      \* why the last run stopped: << reason, position >>
    plan,        \* what plan_revisions said of the deployment as it was found
    ddlCommits,
    crashes,
    touched,     \* the revisions whose objects or rows others changed
    released     \* the deployment was found as a released baseline left it

vars == << db, work, ledger, stage, looked, todo, how, results, failed, plan,
           ddlCommits, crashes, touched, released >>
fixed == << plan, ddlCommits, released >>

HeadRevision == Len(Chain)
Fine == << "none", 0 >>

---------------------------------------------------------------------------
(* plan_revisions: everything is inspected against the schema as it is.    *)

\* Fault: no revision waits for its predecessors
PlanOfAlone(d, from) ==
    LET found == [k \in 1 .. HeadRevision |-> Inspect(Chain[k], d)]
    IN  IF \E k \in from + 1 .. HeadRevision : found[k] = "error" THEN << "error" >>
        ELSE [k \in 1 .. HeadRevision |->
                IF k <= from THEN "done"
                ELSE CASE found[k] = "applied"     -> "adopt"
                       [] found[k] = "not_applied" -> "apply"
                       [] OTHER                    -> "conflict"]

PlanOf(d, from) ==
    LET found == [k \in 1 .. HeadRevision |-> Inspect(Chain[k], d)]
        Pending(k) == \E j \in from + 1 .. k - 1 : found[j] = "not_applied"
    IN  IF \E k \in from + 1 .. HeadRevision : found[k] = "error" THEN << "error" >>
        ELSE [k \in 1 .. HeadRevision |->
                IF k <= from THEN "done"
                ELSE CASE found[k] = "applied"     -> "adopt"
                       [] found[k] = "not_applied" -> "apply"
                       [] OTHER                    -> IF Pending(k) THEN "pending" ELSE "conflict"]

---------------------------------------------------------------------------
(* The canonical baseline is the repository head, without its seed rows.   *)

CoreFragment ==
    [name |-> "asset_source_key",
     gives |-> [Right(AssetColumns \cup IndicatorColumns
                        \cup {"asset_by_identity", "filter_index", "field_index",
                              "identity_index", "reference_index",
                              "mapping_upstream", "mapping_source"})
                  EXCEPT !["mapping_upstream"] = "not_null", !["mapping_source"] = "null"]]

Baseline == << Create(CoreFragment) >> \o ApplyOpenModules
              \o [k \in DOMAIN RbacFragments |-> Create(RbacFragments[k])]
              \o << Create(KeywordFragment) >>

HeadSchema ==
    FoldLeft(LAMBDA schema, s : Defining(schema, s.gives), << >>, Baseline)

\* compare_schema: every expected object as expected and no further unique
\* constraint; further indexes and check constraints are not compared.
Verified(schema) ==
    /\ \A n \in DOMAIN HeadSchema \ {"code_check"} :
          n \in DOMAIN schema /\ schema[n] = HeadSchema[n]
    /\ "asset_by_name" \notin DOMAIN schema

---------------------------------------------------------------------------
(* What others do meanwhile: a user of the application assigns a system to *)
(* a mapping, adds an option or a keyword, or sets the status of a code    *)
(* table to one its check allows; an operator makes an index.              *)

\* The revision whose rows or objects each of these is about.
About == [mappings |-> "upstream_id", options |-> "upstream_options",
          words |-> "hot_keywords", statuses |-> "binary_status", index |-> "asset_filter"]

Changed(c, d) ==
    CASE c.what = "mappings" ->
           IF c.key \in DOMAIN d.mappings /\ d.mappings[c.key].upstream = None
             THEN [d EXCEPT !.mappings[c.key].upstream = c.to] ELSE d
      [] c.what \in {"options", "words"} ->
           IF c.key \in DOMAIN d[c.what] /\ d[c.what][c.key] = "absent"
             THEN [d EXCEPT ![c.what][c.key] = "custom"] ELSE d
      [] c.what = "statuses" ->
           IF c.key \in DOMAIN d.statuses
             THEN [d EXCEPT !.statuses[c.key] =
                     IF Is(d, "code_check", "binary") THEN "enabled" ELSE "active"] ELSE d
      [] c.what = "index" ->
           IF Has(d, "mapping_upstream") /\ ~Has(d, "filter_index")
             THEN [d EXCEPT !.schema = Defining(@, [filter_index |-> "right"])] ELSE d

ASSUME ChangesAssumption == \A c \in Changes : c.what \in DOMAIN About

---------------------------------------------------------------------------
(* The deployments.                                                        *)

Parts == {"schema", "mappings", "systems", "statuses", "references", "options", "words",
          "rag", "roles", "menus"}

\* A database has finitely many rows, and no rows or columns of a table that is
\* not there.
IsDatabase(d) ==
    /\ DOMAIN d = Parts
    /\ \A p \in {"mappings", "options", "words"} : IsFiniteSet(DOMAIN d[p])
    /\ \A r \in DOMAIN d.mappings : DOMAIN d.mappings[r] = {"source", "upstream"}
    /\ \A i \in DOMAIN d.references : DOMAIN d.references[i] = {"asset", "field"}
    /\ ~Has(d, "code_table") => DOMAIN d.statuses = {}
    /\ ~Has(d, "keyword_table") => DOMAIN d.words = {}
    /\ ~Has(d, "push_job") => ~Has(d, "push_width")

\* A deployment with a ledger has the mappings' table, and what the ledger says.
ASSUME SituationsAssumption ==
    \A s \in Situations :
       /\ IsDatabase(s.db)
       /\ s.ledger \in {None} \cup 0 .. HeadRevision
       /\ s.ledger # None =>
             /\ Has(s.db, "mapping_upstream")
             /\ s.db.schema["mapping_upstream"] \in {"null", "not_null"}
             /\ \A k \in 1 .. s.ledger : Inspect(Chain[k], s.db) = "applied"

ASSUME NoneAssumption == None \notin Nat
ASSUME KeywordsAssumption == IsFiniteSet(Keywords)

---------------------------------------------------------------------------
Init ==
    \E s \in Situations, mode \in DdlModes :
       /\ db = s.db /\ work = s.db
       /\ ledger = s.ledger
       /\ released = s.released
       /\ ddlCommits = mode
       /\ plan = IF s.ledger = None THEN << >> ELSE PlanOf(s.db, s.ledger)
       /\ stage = "off" /\ looked = << >> /\ todo = << >> /\ how = "none"
       /\ results = [k \in 1 .. HeadRevision |-> "none"]
       /\ failed = Fine
       /\ crashes = 0 /\ touched = {}

\* The connection is closed, and what it did not commit is gone.
Stop == /\ stage' = "off" /\ work' = db /\ looked' = << >> /\ todo' = << >>
        /\ how' = "none"

Fail(reason) ==
    /\ Stop
    /\ failed' = << reason, IF ledger = None THEN 0 ELSE ledger + 1 >>
    /\ UNCHANGED << db, ledger, results, crashes, touched >> /\ UNCHANGED fixed

\* main(): current_revision, then initialize
Start ==
    /\ stage = "off"
    /\ failed' = Fine
    /\ IF ledger = None
         THEN stage' = "baseline" /\ todo' = Baseline
         ELSE stage' = "next" /\ todo' = << >>
    /\ UNCHANGED << db, work, ledger, looked, how, results, crashes, touched >>
    /\ UNCHANGED fixed

\* initialize() refuses tables it did not make.
RefuseTables ==
    /\ stage = "baseline" /\ todo = Baseline
    /\ DOMAIN work.schema # {}
    /\ Fail("unmanaged")

\* One statement of the baseline or of a revision.
Execute ==
    /\ stage \in {"baseline", "run"} /\ todo # << >>
    /\ ~(stage = "baseline" /\ todo = Baseline /\ DOMAIN work.schema # {})
    /\ LET s == todo[1]
       IN  IF Accepts(work, s)
             THEN /\ work' = Executed(work, s)
                  /\ db' = IF IsDdl(s) /\ ddlCommits THEN work' ELSE db
                  /\ todo' = Tail(todo)
                  /\ UNCHANGED << ledger, stage, looked, how, results, failed,
                                  crashes, touched >>
                  /\ UNCHANGED fixed
             ELSE Fail("refused")

\* verify_database inside initialize, before anything is recorded
VerifyBaseline ==
    /\ stage = "baseline" /\ todo = << >>
    /\ IF Verified(work.schema)
         THEN /\ stage' = "stamp"
              /\ UNCHANGED << db, work, ledger, looked, todo, how, results, failed,
                              crashes, touched >>
              /\ UNCHANGED fixed
         ELSE Fail("unverified")

\* apply_revisions: reflect and inspect the next revision
Look ==
    /\ stage = "next" /\ ledger < HeadRevision
    /\ LET found == Inspect(Chain[ledger + 1], work)
       IN  IF found \in {"conflict", "error"}
             THEN Fail(found)
             ELSE /\ stage' = IF found = "applied" THEN "stamp" ELSE "apply"
                  /\ how' = IF found = "applied" THEN "adopt" ELSE "apply"
                  /\ looked' = work.schema
                  /\ UNCHANGED << db, work, ledger, todo, results, failed, crashes,
                                  touched >>
                  /\ UNCHANGED fixed

\* adapter.apply: decided on the schema reflected before, on the rows as they are
Begin ==
    /\ stage = "apply"
    /\ stage' = "run"
    /\ todo' = Statements(Chain[ledger + 1], looked, work)
    /\ UNCHANGED << db, work, ledger, looked, how, results, failed, crashes, touched >>
    /\ UNCHANGED fixed

\* The post-condition is inspected again before the revision is recorded.
Confirm ==
    /\ stage = "run" /\ todo = << >>
    /\ IF Inspect(Chain[ledger + 1], work) = "applied"
         THEN /\ stage' = "stamp"
              /\ UNCHANGED << db, work, ledger, looked, todo, how, results, failed,
                              crashes, touched >>
              /\ UNCHANGED fixed
         ELSE Fail("unconfirmed")

\* CREATE TABLE IF NOT EXISTS alembic_version is DDL too.
OpenLedger ==
    /\ stage = "stamp"
    /\ stage' = "commit"
    /\ db' = IF ddlCommits THEN work ELSE db
    /\ UNCHANGED << work, ledger, looked, todo, how, results, failed, crashes, touched >>
    /\ UNCHANGED fixed

\* The row is replaced and everything is committed.
Commit ==
    /\ stage = "commit"
    /\ stage' = "next"
    /\ db' = work
    /\ ledger' = IF ledger = None THEN 0 ELSE ledger + 1
    /\ results' = IF ledger = None THEN results ELSE [results EXCEPT ![ledger + 1] = how]
    /\ looked' = << >> /\ how' = "none"
    /\ UNCHANGED << work, todo, failed, crashes, touched >> /\ UNCHANGED fixed

\* After the last revision the whole schema must match the repository's.
VerifyHead ==
    /\ stage = "next" /\ ledger = HeadRevision
    /\ IF Verified(work.schema)
         THEN /\ stage' = "rbac"
              /\ UNCHANGED << db, work, ledger, looked, todo, how, results, failed,
                              crashes, touched >>
              /\ UNCHANGED fixed
         ELSE Fail("drift")

InsertAbsent(rows) == [k \in DOMAIN rows |-> IF rows[k] = "absent" THEN "seeded" ELSE rows[k]]

\* seed_rbac: roles, permissions and grants in one transaction
SeedRbac ==
    /\ stage = "rbac"
    /\ stage' = "menus"
    /\ db' = [db EXCEPT !.roles = InsertAbsent(@)] /\ work' = db'
    /\ UNCHANGED << ledger, looked, todo, how, results, failed, crashes, touched >>
    /\ UNCHANGED fixed

\* seed_menus_for_profile, the last thing main() does
SeedMenus ==
    /\ stage = "menus"
    /\ stage' = "done"
    /\ db' = [db EXCEPT !.menus = InsertAbsent(@)] /\ work' = db'
    /\ UNCHANGED << ledger, looked, todo, how, results, failed, crashes, touched >>
    /\ UNCHANGED fixed

Exit ==
    /\ stage = "done"
    /\ Stop
    /\ UNCHANGED << db, ledger, results, failed, crashes, touched >> /\ UNCHANGED fixed

Crash ==
    /\ stage # "off" /\ crashes < MaxCrashes
    /\ Stop
    /\ crashes' = crashes + 1
    /\ UNCHANGED << db, ledger, results, failed, touched >> /\ UNCHANGED fixed

\* Others change the database while the runner has nothing uncommitted.
Elsewhere ==
    /\ work = db /\ Cardinality(touched) < MaxChanges
    /\ \E c \in Changes :
          /\ db' = Changed(c, db) /\ db' # db
          /\ touched' = touched \cup {About[c.what]}
    /\ work' = db'
    /\ UNCHANGED << ledger, stage, looked, todo, how, results, failed, crashes >>
    /\ UNCHANGED fixed

Runner == \/ Start \/ RefuseTables \/ Execute \/ VerifyBaseline \/ Look \/ Begin
          \/ Confirm \/ OpenLedger \/ Commit \/ VerifyHead \/ SeedRbac \/ SeedMenus
          \/ Exit

Next == Runner \/ Crash \/ Elsewhere

Spec == Init /\ [][Next]_vars

---------------------------------------------------------------------------
\* What the ledger says is there is there: every revision up to it still has
\* its post-condition, though later revisions drop and replace what earlier
\* ones made and runs stop half way.  Where DDL survives a run that stopped,
\* the next revision is a conflict until an operator has repaired it: what it
\* undid is not passed over.  (Code behaviour: apply_revisions stamps after
\* the second inspection; 0006 accepts the index that 0010 puts in the place
\* of its own, and 0010 refuses to find neither.)
LedgerIsTrue ==
    ledger # None =>
      \A k \in 1 .. ledger :
         \/ Chain[k] \in touched
         \/ Inspect(Chain[k], db) = "applied"
         \/ /\ ddlCommits /\ ledger < HeadRevision
            /\ Inspect(Chain[ledger + 1], db) = "conflict"

Kept(rows, now) == \A k \in DOMAIN rows : rows[k] = "absent" \/ now[k] = rows[k]

\* No step of a runner, stopped or not, loses or replaces what an
\* installation has: an assigned upstream system, a resolved reference, an
\* option, keyword, reserved configuration, role or menu that is already there
\* keeps its value whoever wrote it and whenever; a status only takes its new
\* name.  (Code behaviour: the NULL-only updates of 0006 and 0008 and the
\* insert-missing seeds, planned from rows read before.)
RowsSurvive ==
    [][~Elsewhere =>
        /\ \A r \in DOMAIN db.mappings :
              db.mappings[r].upstream \in {None, db'.mappings[r].upstream}
        /\ \A i \in DOMAIN db.references :
              /\ db.references[i].asset \in {None, db'.references[i].asset}
              /\ db.references[i].field \in {None, db'.references[i].field}
        /\ \A c \in DOMAIN db.statuses :
              << db.statuses[c], db'.statuses[c] >> \in
                  {<< "active", "enabled" >>, << "draft", "disabled" >>,
                   << db.statuses[c], db.statuses[c] >>}
        /\ Kept(db.options, db'.options) /\ Kept(db.words, db'.words)
        /\ Kept(db.roles, db'.roles) /\ Kept(db.menus, db'.menus)
        /\ db.rag \in {"absent", db'.rag}]_vars

\* The read-only plan comes true when nobody else interferes and DDL is rolled
\* back with the rest: a revision
\* announced as adopted or applied is, an announced conflict is never passed,
\* and no other is found in conflict or unconfirmed, across any number of
\* stopped and repeated runs.  (Code behaviour: plan_revisions inspects every
\* revision against one schema, apply_revisions each against the schema its
\* predecessors left.)
PlanComesTrue ==
    touched = {} /\ ~ddlCommits /\ Len(plan) = HeadRevision =>
      /\ \A k \in 1 .. HeadRevision :
            /\ plan[k] = "conflict" => results[k] = "none"
            /\ results[k] # "none" => plan[k] \in {results[k], "pending"}
      /\ failed[1] \in {"conflict", "error", "unconfirmed"} =>
            plan[failed[2]] \in {"conflict", "pending"}

\* An installation left by any released baseline, whatever revision its ledger
\* names, reaches the head: no run of it ends in an error, not even after it
\* was stopped.  (Doc: a revision is adopted when its post-condition holds and
\* executed when it does not.)
ReleasedReachHead ==
    released /\ touched = {} /\ (ddlCommits => crashes = 0) => failed = Fine

\* The statement of alembic/DWS_MIGRATION_COMPATIBILITY.md: a failed or
\* partially applied revision is never stamped complete.  (Code behaviour: 0003
\* is found applied once its tables exist, whether or not their indexes do.)
PartialNeverStamped ==
    released /\ ledger # None /\ ledger >= 2 =>
      OpenTables \cup {"lineage_index"} \subseteq DOMAIN db.schema

===========================================================================
