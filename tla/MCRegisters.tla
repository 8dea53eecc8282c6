---------------------------- MODULE MCRegisters ----------------------------
EXTENDS Registers, TLC

CONSTANTS s1, s2, t1, t2

MCSessions == {s1, s2}
MCThreads == {t1, t2}

Alike == Permutations(MCSessions) \cup Permutations(MCThreads)

MCWrites(where) == IF where \in Registered THEN 3 ELSE 2

Job(id, option, fields) == [id |-> id, option |-> option, fields |-> fields]
MCPushSystems ==
  {[id |-> "a", status |-> "enabled", keeps |-> TRUE, jobs |-> <<>>],
   [id |-> "b", status |-> "disabled", keeps |-> FALSE, jobs |-> <<Job("j", "listed", <<"w">>)>>],
   [id |-> "b", status |-> "enabled",
    keeps |-> FALSE, jobs |-> <<Job("j", "listed", <<"w">>), Job("k", "listed", <<"v">>)>>]}
MCPushJobs == {Job("j", "retired", <<"x", "y">>), Job("k", "listed", <<"z">>)}

MCUpstreamSystems ==
  {[id |-> "a", status |-> "enabled", option |-> "LISTED", times |-> {"t1"}],
   [id |-> "b", status |-> "disabled", option |-> "retired", times |-> {"t2", "t3"}]}

Field(source, target, rule) == [source |-> source, target |-> target, rule |-> rule]
MCMappingItems ==
  {[table |-> "T", target |-> "x", pinned |-> FALSE, fields |-> <<Field("c", "y", "r")>>],
   [table |-> "t", target |-> "X", pinned |-> FALSE,
    fields |-> <<Field("C", "y", "q"), Field("d", "", "r")>>],
   [table |-> "t", target |-> "y", pinned |-> TRUE, fields |-> <<Field("c", "y", "r")>>]}

MCApiAssets ==
  {[code |-> "a", system |-> 1, status |-> "enabled"],
   [code |-> "b", system |-> 2, status |-> "disabled"]}
MCApiRows == {<<"x">>, <<"y", "z">>}

MCIndicators ==
  {[id |-> "a", status |-> "enabled", asset |-> 0, field |-> 1, name |-> "n"],
   [id |-> "b", status |-> "disabled", asset |-> 2, field |-> 0, name |-> "n"],
   [id |-> "b", status |-> "enabled", asset |-> 0, field |-> 0, name |-> "n"]}
Reference(id, name) == [id |-> id, name |-> name]
MCReports ==
  {[code |-> "a", status |-> "enabled", tables |-> {Reference(1, "")}, indicators |-> {"a"}],
   [code |-> "b", status |-> "enabled", tables |-> {Reference(0, "t")}, indicators |-> {}],
   [code |-> "b", status |-> "enabled", tables |-> {Reference(0, "u")}, indicators |-> {}]}

MCRoots == {[abbr |-> "a", cn |-> "one"], [abbr |-> "b", cn |-> "two"]}
MCRootBatches ==
  {<<[abbr |-> "a", cn |-> "two"], [abbr |-> "b", cn |-> "one"]>>,
   <<[abbr |-> "b", cn |-> "one"], [abbr |-> "b", cn |-> "two"]>>}
MCCodeTables == {[code |-> "a", status |-> "enabled"], [code |-> "b", status |-> "disabled"]}

MCFieldKey(name) == IF name = "F" THEN "f" ELSE name

Incoming(name, type, order, desc) ==
  [name |-> name, type |-> type, nullable |-> Absent, order |-> order, desc |-> desc]
Item(external, name, desc, listed, fields) ==
  [source |-> "s", external |-> external, name |-> name, desc |-> desc,
   listed |-> listed, fields |-> fields]

MCIngestRequests ==
  {<<Item("a", "t", "d", TRUE, <<Incoming("f", "int", 0, "e"), Incoming("g", "int", 1, Absent)>>)>>,
   <<Item("a", "u", Absent, TRUE, <<Incoming("F", "text", 2, Absent)>>),
     Item("b", "t", Absent, TRUE, <<Incoming("h", "int", 0, Absent)>>)>>,
   <<Item("a", "t", "", FALSE, <<>>)>>}

Form(name, desc, owner, fields) == [name |-> name, desc |-> desc, owner |-> owner, fields |-> fields]
FormFieldOf(name, type, cn) == [name |-> name, type |-> type, nullable |-> "yes", cn |-> cn]

MCAssetPayloads ==
  {Form("t", Absent, "me", <<FormFieldOf("f", "int", "eff")>>),
   Form("u", "w", "you", <<FormFieldOf("F", "text", "x"), FormFieldOf("h", "int", "h")>>)}

MCMenus == {[code |-> "a", order |-> 10, active |-> FALSE],
            [code |-> "b", order |-> NoDisplayOrder, active |-> TRUE]}

Payload(category, code, active) == [category |-> category, code |-> code, value |-> "v", active |-> active]
MCDictionaries == {Payload("C", "x", TRUE), Payload("D", "y", TRUE), Payload(Reserved, "x", TRUE)}

MCBatches == {<<"C">>, <<List>>}

FacadeCall(profile, path, rows) == [profile |-> profile, path |-> path, rows |-> rows, nested |-> FALSE]
Inner == [profile |-> "main", path |-> "core", rows |-> 1, nested |-> TRUE]
MCPlans ==
  {[scope |-> scope, calls |-> <<FacadeCall("main", "core", 2), FacadeCall("main", "raw", 1)>>] :
     scope \in {"none", "transaction", "audit"}}
  \cup {[scope |-> "audit", calls |-> calls] :
          calls \in {<<>>, <<FacadeCall("other", "core", 1)>>, <<FacadeCall("main", "raw", 1), Inner>>,
                    <<FacadeCall("main", "core", 1), FacadeCall("other", "core", 1)>>}}
MCConfigurations ==
  {[database |-> "A", schema |-> "s"], [database |-> "B", schema |-> "s"], [database |-> "A", schema |-> "t"]}

Empty == [t \in Tables |-> {}]

\* The asset a source sends under the external id "a", if it has a source.
AssetRow(id, source, name, count, deleted) ==
  [asset_id |-> id, source_key |-> source, external_id |-> IF source = "" THEN "" ELSE "a",
   table_name |-> name, table_desc |-> "d", owner_name |-> "you", field_count |-> count,
   is_deleted |-> deleted]
FieldRow(id, deleted) ==
  [field_id |-> id, asset_id |-> id, field_name |-> "f", data_type |-> "int", nullable |-> "yes",
   field_order |-> 1, field_desc |-> "e", field_cn_name |-> "eff", is_deleted |-> deleted]

Category(id, code, active) == [category_id |-> id, category_code |-> code, is_active |-> active]
ItemRow(id, category, code, active) ==
  [item_id |-> id, category_code |-> category, item_code |-> code, value |-> "v", is_active |-> active]
Menu(id, code, order, active) ==
  [menu_id |-> id, menu_code |-> code, display_order |-> order, active |-> active]

MCSeed(where) ==
  CASE where = "push" ->
         [Empty EXCEPT
            !["system"] = {[system_id |-> 1, system_code |-> "a", status |-> "enabled"]},
            !["push_system"] = {[system_id |-> 1, master_system_id |-> 1, system_code |-> "a",
                                 status |-> "enabled", job_count |-> 1]},
            !["push_job"] = {[job_id |-> 1, system_id |-> 1, job_code |-> "j", option |-> "retired"]},
            !["push_job_field"] = {[field_id |-> 1, job_id |-> 1, field_name |-> "w", field_order |-> 1]}]
    [] where = "upstream" ->
         [Empty EXCEPT
            !["data_source"] = {[source_id |-> 1, source_code |-> "a", status |-> "enabled"]},
            !["upstream_system"] =
               {[system_pk |-> 1, data_source_id |-> 1, system_id |-> "a", status |-> "enabled",
                 option |-> "retired", unload_count |-> 1]},
            !["upstream_unload_time"] = {[time_pk |-> 1, system_pk |-> 1, unload_time |-> "t1"]},
            !["mapping_table"] =
               {[table_pk |-> 1, upstream_system_id |-> 1, source_table |-> "T", target |-> "y",
                 is_deleted |-> TRUE, total |-> 1, mapped |-> 1]},
            !["mapping_field"] =
               {[field_pk |-> 1, table_pk |-> 1, source |-> "C", target |-> "y", rule |-> "r",
                 is_deleted |-> FALSE],
                [field_pk |-> 2, table_pk |-> 1, source |-> "d", target |-> "", rule |-> "r",
                 is_deleted |-> TRUE]}]
    [] where = "assets" ->
         [Empty EXCEPT
            !["asset_table"] = {AssetRow(1, "s", "t", 1, FALSE)},
            !["asset_field"] = {FieldRow(1, FALSE)},
            !["indicator_item"] =
               {[indicator_pk |-> 1, indicator_id |-> "a", status |-> "enabled", source_asset_id |-> 0,
                 result_field_id |-> 0, table_name |-> "n", is_deleted |-> FALSE]}]
    [] where = "statistics" ->
         [Empty EXCEPT !["menu"] = {Menu(1, "a", 10, TRUE), Menu(2, "c", 20, TRUE)}]
    [] where = "menus" ->
         [Empty EXCEPT !["menu"] = {Menu(1, "a", 10, TRUE), Menu(2, "c", 20, TRUE), Menu(3, "d", 30, TRUE)}]
    [] where = "codes" ->
         [Empty EXCEPT
            !["code_category"] = {Category(1, "C", TRUE), Category(2, "D", TRUE), Category(3, Reserved, FALSE)},
            !["code_item"] = {ItemRow(1, Reserved, DefaultCode, FALSE), ItemRow(2, "C", "x", TRUE)}]
    [] OTHER -> Empty
=============================================================================
