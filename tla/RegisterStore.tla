--------------------------- MODULE RegisterStore ---------------------------
(***************************************************************************)
(* The tables behind the registers edited by hand, and what a write to     *)
(* them is: checks and reads on the shared connection, keys chosen as      *)
(* MAX+1, and then all statements, the audit row and the commit in one     *)
(* transaction.  The isolation is READ COMMITTED: a read sees what is      *)
(* committed when it runs, so another session may commit between the       *)
(* checks, the choice of the keys and the statements.  The statements and  *)
(* the commit are one step: until the commit nobody sees them, and a       *)
(* session that would touch the same row or key waits for it.              *)
(***************************************************************************)
EXTENDS Integers, FiniteSets, Sequences, SequencesExt

CONSTANT Sessions  \* requests that write at the same time

ASSUME StoreAssumption == IsFiniteSet(Sessions)

VARIABLES db,           \* the committed rows of every table
          foreignKeys,  \* the database keeps foreign keys (DWS does not)
          session,      \* what each session has read and means to write
          writes,       \* bound: writes that may still begin
          raced         \* a write was committed over one it had not seen

storeVars == <<db, foreignKeys, session, writes, raced>>

NoKey == 0

\* The primary key of each table, the columns that refer to another table,
\* and the columns a UNIQUE constraint covers.
Key == [system |-> "system_id", push_system |-> "system_id", push_job |-> "job_id",
        push_job_field |-> "field_id", push_change_log |-> "change_id",
        api_asset |-> "api_pk", api_param |-> "param_pk",
        data_source |-> "source_id", upstream_system |-> "system_pk",
        upstream_unload_time |-> "time_pk", upstream_change_log |-> "change_id",
        mapping_table |-> "table_pk", mapping_field |-> "field_pk",
        api_response_field |-> "field_pk", api_relation |-> "relation_pk",
        report_asset |-> "report_pk", indicator_item |-> "indicator_pk",
        indicator_change_log |-> "change_id", root_item |-> "root_id",
        root_change_log |-> "change_id", manual_code_table |-> "table_id",
        asset_table |-> "asset_id", asset_field |-> "field_id",
        asset_change_log |-> "change_id", code_category |-> "category_id",
        code_item |-> "item_id", menu |-> "menu_id"]

Tables == DOMAIN Key

References ==
  [push_system |-> [master_system_id |-> "system"], push_job |-> [system_id |-> "push_system"],
   push_job_field |-> [job_id |-> "push_job"], api_asset |-> [system_id |-> "system"],
   upstream_system |-> [data_source_id |-> "data_source"],
   upstream_unload_time |-> [system_pk |-> "upstream_system"],
   mapping_table |-> [upstream_system_id |-> "upstream_system"],
   mapping_field |-> [table_pk |-> "mapping_table"]]

\* Columns that refer to another table although the database does not know.
LogicalReferences == [asset_field |-> [asset_id |-> "asset_table"]]

Cascading == {"push_job", "push_job_field", "upstream_unload_time", "mapping_field"}

UniqueColumns ==
  [system |-> {"system_code"}, push_system |-> {"system_code"},
   push_job |-> {"system_id", "job_code"}, push_job_field |-> {"job_id", "field_name"},
   api_asset |-> {"api_code"}, api_param |-> {"api_code", "name"},
   report_asset |-> {"report_code"}, indicator_item |-> {"indicator_id"},
   root_item |-> {"root_abbr"}, manual_code_table |-> {"table_code"},
   data_source |-> {"source_code"}, upstream_system |-> {"system_id"},
   upstream_unload_time |-> {"system_pk", "unload_time"},
   api_response_field |-> {"api_code", "name"}, api_relation |-> {"api_code", "name"},
   asset_table |-> {"source_key", "external_id"}, code_category |-> {"category_code"},
   code_item |-> {"category_code", "item_code"}, menu |-> {"menu_code"}]

\* Only an asset a source maintains has a source key; a missing value equals
\* nothing in a UNIQUE constraint.
IsNull(c, value) == c = "source_key" /\ value = ""

(***************************************************************************)
(* Reads.                                                                  *)
(***************************************************************************)
Matching(rows, selector) ==
  {row \in rows : \A c \in DOMAIN selector : row[c] \in selector[c]}

Select(t, selector) == Matching(db[t], selector)

\* Rows that are not marked as deleted, in the tables that mark them.
Live(t) == {row \in db[t] : ~row.is_deleted}

The(rows) == CHOOSE row \in rows : TRUE

\* Lists of a payload, the elements of one that are in S, and the columns of two
\* rows in one.
IsList(seq) == seq \in Seq(ToSet(seq))

Within(seq, S) ==
  FoldLeft(LAMBDA kept, x : IF x \in S THEN Append(kept, x) ELSE kept, <<>>, seq)

Joined(row, more) ==
  [c \in DOMAIN row \cup DOMAIN more |-> IF c \in DOMAIN row THEN row[c] ELSE more[c]]

NextKey(t) == 1 + (IF db[t] = {} THEN 0 ELSE Max({row[Key[t]] : row \in db[t]}))

(***************************************************************************)
(* Statements.  A key chosen as MAX+1 is written New(k) until it is        *)
(* chosen: the k-th number after the largest key of its table.             *)
(***************************************************************************)
New(k) == - (k + 1)

Insert(t, row)           == [do |-> "insert", table |-> t, row |-> row]
Update(t, selector, set) == [do |-> "update", table |-> t, where |-> selector, set |-> set]
Delete(t, selector)      == [do |-> "delete", table |-> t, where |-> selector]
Recount(system)          == [do |-> "recount", table |-> "push_system", system |-> system]

\* The table whose keys a column of t holds, or "" for a plain column.
Holds(t, c) ==
  CASE c = Key[t] -> t
    [] c # Key[t] /\ t \in DOMAIN References /\ c \in DOMAIN References[t] -> References[t][c]
    [] c # Key[t] /\ t \in DOMAIN LogicalReferences /\ c \in DOMAIN LogicalReferences[t] ->
         LogicalReferences[t][c]
    [] OTHER -> ""

Numbered(t, row, base) ==
  [c \in DOMAIN row |->
     IF Holds(t, c) # "" /\ row[c] < 0 THEN base[Holds(t, c)] - row[c] - 1 ELSE row[c]]

SetColumns(row, set) == [c \in DOMAIN row |-> IF c \in DOMAIN set THEN set[c] ELSE row[c]]

ParentExists(d, t, row) ==
  t \in DOMAIN References =>
    \A c \in DOMAIN References[t] :
      row[c] = NoKey \/ \E parent \in d[References[t][c]] : parent[Key[References[t][c]]] = row[c]

Orphans(d) == UNION {{<<t, row>> : row \in {r \in d[t] : ~ParentExists(d, t, r)}} : t \in Tables}

\* ON DELETE CASCADE: children of a deleted row go with it.
Cascade(d) ==
  LET once(e) == [t \in Tables |->
        IF t \in Cascading THEN {r \in e[t] : ParentExists(e, t, r)} ELSE e[t]]
  IN  IF foreignKeys THEN once(once(d)) ELSE d

ConstraintsHold(d, t) ==
  /\ t \in DOMAIN UniqueColumns =>
       \A a, b \in d[t] : a # b => \E c \in UniqueColumns[t] : a[c] # b[c] \/ IsNull(c, a[c])
  /\ \A a, b \in d[t] : a # b => a[Key[t]] # b[Key[t]]
  /\ foreignKeys => Orphans(d) = {}

\* One statement on the transaction's connection; a violated constraint
\* fails the whole transaction.
Execute(base, result, statement) ==
  LET t    == statement.table
      rows == result.db[t]
      hit  == IF statement.do \in {"update", "delete"} THEN Matching(rows, statement.where) ELSE {}
      row  == IF statement.do = "insert" THEN Numbered(t, statement.row, base) ELSE <<>>
      next ==
        CASE statement.do = "insert" -> [result.db EXCEPT ![t] = rows \cup {row}]
          [] statement.do = "update" ->
               [result.db EXCEPT ![t] = (rows \ hit) \cup {SetColumns(r, statement.set) : r \in hit}]
          [] statement.do = "delete" -> Cascade([result.db EXCEPT ![t] = rows \ hit])
          [] OTHER ->
               [result.db EXCEPT ![t] =
                  {IF r.system_id = statement.system
                   THEN [r EXCEPT !.job_count =
                          Cardinality(Matching(result.db["push_job"], [system_id |-> {r.system_id}]))]
                   ELSE r : r \in rows}]
  IN  [db |-> next,
       ok |-> result.ok /\ ConstraintsHold(next, t)
                        /\ (statement.do = "insert" => row \notin rows)]

RunAll(s) ==
  FoldLeft(LAMBDA result, statement : Execute(session[s].base, result, statement),
           [db |-> db, ok |-> TRUE], session[s].statements)

(***************************************************************************)
(* A write.                                                                *)
(***************************************************************************)
Idle == [at |-> "idle", request |-> <<>>, statements |-> <<>>, found |-> {}, base |-> <<>>, late |-> FALSE]

\* The checks have passed: the session knows what it will write and which
\* rows its answer will look up afterwards.
Begin(s, request, statements, found) ==
  /\ session[s].at = "idle"
  /\ writes > 0
  /\ writes' = writes - 1
  /\ session' = [session EXCEPT ![s] =
       [Idle EXCEPT !.at = "checked", !.request = request, !.statements = statements, !.found = found]]
  /\ UNCHANGED <<db, foreignKeys, raced>>

\* MAX+1 of every table the session will insert into.
ChooseKeys(s) ==
  /\ session[s].at = "checked"
  /\ LET into == {session[s].statements[i].table : i \in
                    {j \in DOMAIN session[s].statements : session[s].statements[j].do = "insert"}}
     IN  session' = [session EXCEPT ![s].at = "numbered",
                                    ![s].base = [t \in into |-> NextKey(t)]]
  /\ UNCHANGED <<db, foreignKeys, writes, raced>>

\* The statements succeed, and the rows the answer shows are there.
Answered(s, result) ==
  /\ result.ok
  /\ \A row \in session[s].found : Matching(result.db[row.table], row.where) # {}

Commit(s) ==
  /\ session[s].at = "numbered"
  /\ LET result == RunAll(s) IN
     /\ Answered(s, result)
     /\ db' = result.db
  /\ raced' = (raced \/ session[s].late)
  /\ session' = [r \in Sessions |->
       IF r = s THEN Idle
       ELSE IF session[r].at = "idle" THEN session[r] ELSE [session[r] EXCEPT !.late = TRUE]]
  /\ UNCHANGED <<foreignKeys, writes>>

\* A violated constraint, or a row the answer needs is gone.
IsRefused(s) == session[s].at = "numbered" /\ ~Answered(s, RunAll(s))

\* Rolled back: refused, or the connection or the audit row failed before
\* the commit.
RollBack(s) ==
  /\ session[s].at = "numbered"
  /\ session' = [session EXCEPT ![s] = Idle]
  /\ UNCHANGED <<db, foreignKeys, writes, raced>>
=============================================================================
