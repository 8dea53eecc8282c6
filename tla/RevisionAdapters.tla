------------------------- MODULE RevisionAdapters -------------------------
(* The thirteen DWS revision adapters of                                   *)
(* backend/app/migrations/dws_revisions.py with the planners of            *)
(* revision_logic.py, search_hot_keyword_seed.py and                       *)
(* rag_search_config_seed.py: what an adapter makes of the database it     *)
(* finds (Inspect) and the statements it issues (Statements).              *)
(*                                                                         *)
(* A database is a record.  "schema" maps the name of each object that     *)
(* exists (a table, column, index, check or default) to its definition;    *)
(* the other fields are the rows a revision reads or writes.  Of each      *)
(* family of alike objects two stand for all: two of the twelve module     *)
(* tables' indexes, two of the six identity columns, two of the four       *)
(* indicator columns.                                                      *)
EXTENDS Naturals, FiniteSets, SequencesExt

CONSTANTS
    Matches,      \* the live assets an indicator's legacy table name resolves to
    FieldMatches, \* <<indicator, asset>> to the live fields of its field name
    Keywords,     \* the rows 0012 wants
    None

Chain == << "asset_filter", "open_modules", "ingestion_identity", "rbac",
            "upstream_id", "binary_status", "indicator_semantics",
            "upstream_options", "mapping_identity", "freq_capacity",
            "hot_keywords", "field_filter", "rag_config" >>

Has(d, n) == n \in DOMAIN d.schema
Is(d, n, definition) == Has(d, n) /\ d.schema[n] = definition
HasAll(d, names) == names \subseteq DOMAIN d.schema
HasNone(d, names) == names \cap DOMAIN d.schema = {}

\* A schema with further objects, and with these in place of those of their name.
Defining(schema, more) ==
    [n \in DOMAIN schema \cup DOMAIN more |-> IF n \in DOMAIN more THEN more[n] ELSE schema[n]]

(* Every inspection answers one of three: the post-condition holds, the    *)
(* revision's own pre-condition holds, or neither.  One may fail instead:  *)
(* 0006 reads the rows of a table it has not looked for.                   *)
Found(applied, pending) ==
    IF applied THEN "applied" ELSE IF pending THEN "not_applied" ELSE "conflict"

---------------------------------------------------------------------------
(* The objects and what the canonical baseline creates with each table.    *)

Right(names) == [n \in names |-> "right"]

AssetColumns     == {"asset_source_key", "asset_external_id"}
LineageColumns   == {"lineage_source_key", "lineage_hash"}
IndicatorColumns == {"indicator_asset", "indicator_state"}
OpenTables       == {"upstream_system", "push_job", "code_table", "lineage"}
RbacTables       == {"role", "permission", "role_permission"}

\* baseline_table_statements: each table's CREATE, then its indexes, in the
\* order of dws.sql.
OpenFragments ==
    << [name |-> "upstream_system", gives |-> Right({"upstream_system"})],
       [name |-> "push_job",
        gives |-> [Right({"push_job", "push_width"}) EXCEPT !["push_width"] = "wide"]],
       [name |-> "code_table",
        gives |-> [Right({"code_table", "code_default", "code_check"})
                     EXCEPT !["code_default"] = "enabled", !["code_check"] = "binary"]],
       [name |-> "lineage", gives |-> Right({"lineage"} \cup LineageColumns)],
       [name |-> "lineage_index", gives |-> Right({"lineage_index"})] >>

RbacFragments ==
    << [name |-> "role", gives |-> Right({"role"})],
       [name |-> "permission", gives |-> Right({"permission"})],
       [name |-> "role_permission", gives |-> Right({"role_permission"})],
       [name |-> "grant_index", gives |-> Right({"grant_index"})] >>

KeywordFragment == [name |-> "keyword_table", gives |-> Right({"keyword_table"})]

---------------------------------------------------------------------------
(* Statements: what is executed and when the database refuses it.          *)

Create(fragment)     == [do |-> "create", name |-> fragment.name, gives |-> fragment.gives]
CreateOne(n)         == [do |-> "create", name |-> n, gives |-> Right({n})]
Drop(n)              == [do |-> "drop", name |-> n]
Alter(n, definition) == [do |-> "alter", name |-> n, to |-> definition]
Assign(r, s)         == [do |-> "assign", row |-> r, system |-> s]
Insert(where, key)   == [do |-> "insert", where |-> where, key |-> key]
Rewrite(old, new)    == [do |-> "rewrite", old |-> old, new |-> new]
FillReferences       == [do |-> "fill"]
Refuse               == [do |-> "refuse"]      \* the adapter raises DwsMigrationError

IsDdl(s) == s.do \in {"create", "drop", "alter"}

Each(set, Statement(_)) == LET order == SetToSeq(set)
                           IN  [k \in DOMAIN order |-> Statement(order[k])]

---------------------------------------------------------------------------
(* A backfill writes only what matches alone, and only where nothing was.  *)
Only(set, old) ==
    IF old = None /\ Cardinality(set) = 1 THEN CHOOSE x \in set : TRUE ELSE old

(* 0006: plan_upstream_backfill and duplicate_mapping_keys.                *)

Candidates(d, source) ==
    {s \in DOMAIN d.systems : source # None /\ d.systems[s] = source}

Unassigned(d) == {r \in DOMAIN d.mappings : d.mappings[r].upstream = None}

Unsafe(d) ==
    {r \in DOMAIN d.mappings :
       LET m == d.mappings[r]
       IN  IF m.upstream = None
             THEN Cardinality(Candidates(d, m.source)) # 1
             ELSE \/ m.upstream \notin DOMAIN d.systems
                  \/ /\ None \notin {m.source, d.systems[m.upstream]}
                     /\ m.source # d.systems[m.upstream]}

Planned(d, r) == Only(Candidates(d, d.mappings[r].source), d.mappings[r].upstream)

Duplicated(d) == \E r1, r2 \in DOMAIN d.mappings : r1 # r2 /\ Planned(d, r1) = Planned(d, r2)

(* 0008: plan_indicator_reference_backfill, from exact matches.            *)
Resolved(d, i) ==
    LET asset == Only(Matches[i], d.references[i].asset)
    IN  [asset |-> asset,
         field |-> IF asset = None THEN d.references[i].field
                   ELSE Only(FieldMatches[<<i, asset>>], d.references[i].field)]

(* 0009, 0012: the rows that are not there under their code.               *)
Missing(rows) == {k \in DOMAIN rows : rows[k] = "absent"}

---------------------------------------------------------------------------
(* What each adapter makes of the database.                                *)

InspectAssetFilter(d) == Found(Is(d, "filter_index", "right"), ~Has(d, "filter_index"))

InspectOpenModules(d) == Found(HasAll(d, OpenTables), HasNone(d, OpenTables))

InspectIngestionIdentity(d) ==
    LET legacy   == Has(d, "asset_by_name")
        identity == Has(d, "asset_by_identity")
        new      == HasAll(d, AssetColumns) /\ ~legacy /\ identity
    IN  IF ~Has(d, "lineage") THEN "conflict"
        ELSE Found(new /\ HasAll(d, LineageColumns),
                   \/ HasNone(d, AssetColumns) /\ legacy /\ ~identity
                   \/ new /\ HasNone(d, LineageColumns))

InspectRbac(d) ==
    LET whole == \A t \in RbacTables : Is(d, t, "right")
    IN  Found(whole /\ Is(d, "grant_index", "right"),
              HasNone(d, RbacTables) \/ whole)

InspectUpstreamId(d) ==
    IF Has(d, "source_key_index") /\ ~Is(d, "source_key_index", "right") THEN "conflict"
    ELSE IF ~Has(d, "upstream_system") THEN "error"
    ELSE Found(/\ Is(d, "mapping_upstream", "not_null")
               /\ Has(d, "source_key_index") \/ Is(d, "identity_index", "right"),
               Unsafe(d) = {} /\ ~Duplicated(d))

InspectBinaryStatus(d) ==
    LET statuses == {d.statuses[c] : c \in DOMAIN d.statuses}
    IN  IF ~Has(d, "code_table") \/ "other" \in statuses THEN "conflict"
        ELSE Found(/\ Is(d, "code_check", "binary") /\ Is(d, "code_default", "enabled")
                   /\ statuses \cap {"active", "draft"} = {},
                   TRUE)

InspectIndicatorSemantics(d) ==
    LET whole == HasAll(d, IndicatorColumns) /\ Is(d, "reference_index", "right")
    IN  Found(whole /\ \A i \in DOMAIN d.references : Resolved(d, i) = d.references[i],
              HasNone(d, IndicatorColumns) \/ whole)

InspectUpstreamOptions(d) == Found(Missing(d.options) = {}, TRUE)

\* Fault: neither index is taken for not yet applied
InspectMappingIdentityLenient(d) ==
    IF Has(d, "identity_index") /\ ~Is(d, "identity_index", "right") THEN "conflict"
    ELSE Found(Has(d, "identity_index") /\ ~Has(d, "source_key_index"),
               ~Has(d, "identity_index"))

InspectMappingIdentity(d) ==
    LET obsolete == Has(d, "source_key_index")
    IN  IF \/ Has(d, "identity_index") /\ ~Is(d, "identity_index", "right")
           \/ Has(d, "other_source_key")
          THEN "conflict"
          ELSE Found(Has(d, "identity_index") /\ ~obsolete,
                     ~Has(d, "identity_index") /\ obsolete)

InspectFreqCapacity(d) ==
    IF ~Has(d, "push_width") THEN "conflict"
    ELSE Found(d.schema["push_width"] \in {"wide", "unlimited"},
               d.schema["push_width"] = "narrow")

InspectHotKeywords(d) ==
    IF ~Has(d, "keyword_table") THEN "not_applied"
    ELSE Found(Is(d, "keyword_table", "right") /\ Missing(d.words) = {},
               Is(d, "keyword_table", "right"))

InspectFieldFilter(d) == Found(Is(d, "field_index", "right"), ~Has(d, "field_index"))

\* An active or renamed reserved row is never touched.
InspectRagConfig(d) == Found(d.rag \in {"seeded", "tuned"}, d.rag = "absent")

Inspect(r, d) ==
    CASE r = "asset_filter"        -> InspectAssetFilter(d)
      [] r = "open_modules"        -> InspectOpenModules(d)
      [] r = "ingestion_identity"  -> InspectIngestionIdentity(d)
      [] r = "rbac"                -> InspectRbac(d)
      [] r = "upstream_id"         -> InspectUpstreamId(d)
      [] r = "binary_status"       -> InspectBinaryStatus(d)
      [] r = "indicator_semantics" -> InspectIndicatorSemantics(d)
      [] r = "upstream_options"    -> InspectUpstreamOptions(d)
      [] r = "mapping_identity"    -> InspectMappingIdentity(d)
      [] r = "freq_capacity"       -> InspectFreqCapacity(d)
      [] r = "hot_keywords"        -> InspectHotKeywords(d)
      [] r = "field_filter"        -> InspectFieldFilter(d)
      [] r = "rag_config"          -> InspectRagConfig(d)

---------------------------------------------------------------------------
(* The statements of each adapter: "looked" is the schema reflected before *)
(* the inspection, "d" the database whose rows the adapter reads now.      *)

Absent(looked, names) == names \ DOMAIN looked
Defined(looked, n) == n \in DOMAIN looked /\ looked[n] = "right"
When(condition, statement) == IF condition THEN << statement >> ELSE << >>

ApplyOpenModules == [k \in DOMAIN OpenFragments |-> Create(OpenFragments[k])]

ApplyIngestionIdentity(looked) ==
    Each(Absent(looked, AssetColumns), CreateOne)
      \o When("asset_by_name" \in DOMAIN looked, Drop("asset_by_name"))
      \o When("asset_by_identity" \notin DOMAIN looked, CreateOne("asset_by_identity"))
      \o Each(Absent(looked, LineageColumns), CreateOne)

ApplyRbac(looked) ==
    IF Absent(looked, RbacTables) # {}
      THEN [k \in DOMAIN RbacFragments |-> Create(RbacFragments[k])]
      ELSE << CreateOne("grant_index") >>

ApplyUpstreamId(looked, d) ==
    IF Unsafe(d) # {} \/ Duplicated(d) THEN << Refuse >>
    ELSE Each(Unassigned(d), LAMBDA r : Assign(r, Planned(d, r)))
           \o When(looked["mapping_source"] = "not_null", Alter("mapping_source", "null"))
           \o When(looked["mapping_upstream"] = "null", Alter("mapping_upstream", "not_null"))
           \o When(~Defined(looked, "identity_index") /\ "source_key_index" \notin DOMAIN looked,
                   CreateOne("source_key_index"))

\* Fault: the check is made before the rows are rewritten
ApplyBinaryStatusCheckFirst(d) ==
    When(Has(d, "code_check") /\ ~Is(d, "code_check", "binary"), Drop("code_check"))
      \o When(~Is(d, "code_check", "binary"),
              Create([name |-> "code_check", gives |-> [code_check |-> "binary"]]))
      \o << Rewrite("active", "enabled"), Rewrite("draft", "disabled"),
            Alter("code_default", "enabled") >>

ApplyBinaryStatus(d) ==
    When(Has(d, "code_check") /\ ~Is(d, "code_check", "binary"), Drop("code_check"))
      \o << Rewrite("active", "enabled"), Rewrite("draft", "disabled"),
            Alter("code_default", "enabled") >>
      \o When(~Is(d, "code_check", "binary"),
              Create([name |-> "code_check", gives |-> [code_check |-> "binary"]]))

ApplyIndicatorSemantics(looked) ==
    Each(Absent(looked, IndicatorColumns), CreateOne)
      \o When(~Defined(looked, "reference_index"), CreateOne("reference_index"))
      \o << FillReferences >>

ApplyMappingIdentity(looked) ==
    When("source_key_index" \in DOMAIN looked, Drop("source_key_index"))
      \o When(~Defined(looked, "identity_index"), CreateOne("identity_index"))

ApplyHotKeywords(looked, d) ==
    IF "keyword_table" \in DOMAIN looked
      THEN Each(Missing(d.words), LAMBDA k : Insert("words", k))
      ELSE << Create(KeywordFragment) >> \o Each(Keywords, LAMBDA k : Insert("words", k))

ApplyRagConfig(d) ==
    CASE d.rag = "absent"             -> << Insert("rag", "rag") >>
      [] d.rag \in {"seeded", "tuned"} -> << >>
      [] OTHER                         -> << Refuse >>

Statements(r, looked, d) ==
    CASE r = "asset_filter"        -> << CreateOne("filter_index") >>
      [] r = "open_modules"        -> ApplyOpenModules
      [] r = "ingestion_identity"  -> ApplyIngestionIdentity(looked)
      [] r = "rbac"                -> ApplyRbac(looked)
      [] r = "upstream_id"         -> ApplyUpstreamId(looked, d)
      [] r = "binary_status"       -> ApplyBinaryStatus(d)
      [] r = "indicator_semantics" -> ApplyIndicatorSemantics(looked)
      [] r = "upstream_options"    -> Each(Missing(d.options), LAMBDA k : Insert("options", k))
      [] r = "mapping_identity"    -> ApplyMappingIdentity(looked)
      [] r = "freq_capacity"       -> << Alter("push_width", "wide") >>
      [] r = "hot_keywords"        -> ApplyHotKeywords(looked, d)
      [] r = "field_filter"        -> << CreateOne("field_index") >>
      [] r = "rag_config"          -> ApplyRagConfig(d)

---------------------------------------------------------------------------
(* One statement on the database: the database that results, or nothing    *)
(* when it is refused.                                                     *)

\* What is there already keeps a CREATE, and rows that break a new rule
\* keep the rule, from being made; a column that is not there is not altered.
Accepts(d, s) ==
    CASE s.do = "create" -> /\ ~Has(d, s.name)
                            /\ s.name = "source_key_index" => ~Duplicated(d)
                            /\ s.name = "code_check" =>
                                 \A c \in DOMAIN d.statuses :
                                     d.statuses[c] \in {"enabled", "disabled"}
      [] s.do = "drop"   -> Has(d, s.name)
      [] s.do = "alter"  -> /\ s.name # "code_default" => Has(d, s.name)
                            /\ s.name = "mapping_upstream" => Unassigned(d) = {}
      [] s.do = "insert" -> IF s.where = "rag" THEN d.rag = "absent"
                            ELSE d[s.where][s.key] = "absent"
      [] s.do = "refuse" -> FALSE
      [] OTHER           -> TRUE

\* Fault: the update does not look at what is there
AssignedAnyway(d, s) == [d EXCEPT !.mappings[s.row].upstream = s.system]

\* UPDATE ... WHERE table_pk = ? AND upstream_system_id IS NULL
Assigned(d, s) ==
    IF d.mappings[s.row].upstream = None
      THEN [d EXCEPT !.mappings[s.row].upstream = s.system] ELSE d

Executed(d, s) ==
    CASE s.do = "create" ->
           [d EXCEPT !.schema = Defining(@, s.gives),
                     !.statuses = IF s.name = "code_table" THEN << >> ELSE @,
                     !.words = IF s.name = "keyword_table"
                               THEN [k \in Keywords |-> "absent"] ELSE @]
      [] s.do = "drop"    -> [d EXCEPT !.schema = [n \in DOMAIN @ \ {s.name} |-> @[n]]]
      [] s.do = "alter"   -> [d EXCEPT !.schema = Defining(@, [n \in {s.name} |-> s.to])]
      [] s.do = "assign"  -> Assigned(d, s)
      [] s.do = "rewrite" -> [d EXCEPT !.statuses =
                                [c \in DOMAIN @ |-> IF @[c] = s.old THEN s.new ELSE @[c]]]
      [] s.do = "fill"    -> [d EXCEPT !.references = [i \in DOMAIN @ |-> Resolved(d, i)]]
      [] s.do = "insert"  -> IF s.where = "rag" THEN [d EXCEPT !.rag = "seeded"]
                             ELSE [d EXCEPT ![s.where][s.key] = "seeded"]
===========================================================================
