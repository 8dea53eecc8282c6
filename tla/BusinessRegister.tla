------------------------- MODULE BusinessRegister -------------------------
(***************************************************************************)
(* What the business says of the data: reports and indicators, word roots  *)
(* and code tables.                                                        *)
(***************************************************************************)
EXTENDS RegisterStore

-----------------------------------------------------------------------------
(***************************************************************************)
(* The registers of reports and indicators.  Both name assets that live in *)
(* other tables without a foreign key: an indicator keeps the ids of its   *)
(* source asset and result field beside copies of their names, a report    *)
(* keeps the assets and indicators it is made of in one column.  A         *)
(* deletion only marks the row.                                            *)
(***************************************************************************)
CONSTANTS Reports,    \* payloads of a report: code, status, tables, indicators
          Indicators  \* payloads: id, status, asset, field, name

NoReference == 0

AllowedStatus == {"enabled", "disabled"}

(***************************************************************************)
(* Indicators.                                                             *)
(***************************************************************************)
SemanticAsset(id) == Select("asset_table", [asset_id |-> {id}])
SemanticField(id) == Select("asset_field", [field_id |-> {id}])

\* A field alone stands for its asset as well.
SourceOf(payload) ==
  IF payload.asset = NoReference
  THEN LET fields == SemanticField(payload.field)
       IN  IF fields = {} THEN NoReference ELSE The(fields).asset_id
  ELSE payload.asset

\* References are to rows that are there, are not deleted and agree.
SemanticsHold(payload) ==
  /\ payload.field # NoReference =>
       \E field \in SemanticField(payload.field) :
         ~field.is_deleted /\ field.asset_id = SourceOf(payload)
  /\ SourceOf(payload) # NoReference =>
       \E asset \in SemanticAsset(SourceOf(payload)) : ~asset.is_deleted
  /\ payload.status \in AllowedStatus

\* Names given by the request give way to those of the rows referred to.
NormalizedIndicator(payload) ==
  [indicator_id    |-> payload.id,
   status          |-> payload.status,
   source_asset_id |-> SourceOf(payload),
   result_field_id |-> payload.field,
   table_name      |-> IF SourceOf(payload) = NoReference THEN payload.name
                       ELSE The(SemanticAsset(SourceOf(payload))).table_name]

LiveIndicator(id) == {row \in Live("indicator_item") : row.indicator_id = id}

IndicatorChange == Insert("indicator_change_log", [change_id |-> New(0)])

CreateIndicator(s) == \E payload \in Indicators :
  /\ SemanticsHold(payload)
  /\ LiveIndicator(payload.id) = {}
  /\ Begin(s, <<"create_indicator">>,
           <<Insert("indicator_item", [indicator_pk |-> New(0), is_deleted |-> FALSE]
                                      @@ NormalizedIndicator(payload)),
             IndicatorChange>>, {})

UpdateIndicator(s) == \E row \in Live("indicator_item"), payload \in Indicators :
  /\ SemanticsHold(payload)
  /\ payload.id # row.indicator_id => LiveIndicator(payload.id) = {}
  /\ Begin(s, <<"update_indicator">>,
           <<Update("indicator_item", [indicator_pk |-> {row.indicator_pk}],
                    NormalizedIndicator(payload)),
             IndicatorChange>>, {})

PatchIndicatorStatus(s) == \E row \in Live("indicator_item"), status \in AllowedStatus :
  Begin(s, <<"patch_status">>,
        <<Update("indicator_item", [indicator_pk |-> {row.indicator_pk}], [status |-> status]),
          IndicatorChange>>, {})

DeleteIndicator(s) == \E row \in Live("indicator_item") :
  Begin(s, <<"delete_indicator">>,
        <<Update("indicator_item", [indicator_pk |-> {row.indicator_pk}], [is_deleted |-> TRUE]),
          IndicatorChange>>, {})

(***************************************************************************)
(* Reports.                                                                *)
(***************************************************************************)
\* A related table is given by id or by a name only one live asset has.
AssetLookup(reference) ==
  {asset \in Live("asset_table") :
     IF reference.id # NoReference THEN asset.asset_id = reference.id
     ELSE asset.table_name = reference.name}

RelatedTables(payload) == UNION {AssetLookup(reference) : reference \in payload.tables}

ReportIsValid(payload) ==
  /\ payload.status \in AllowedStatus
  /\ \A reference \in payload.tables : Cardinality(AssetLookup(reference)) = 1
  /\ \A id \in payload.indicators : LiveIndicator(id) # {}

ReportColumns(payload) ==
  [report_code |-> payload.code, status |-> payload.status,
   tables |-> {asset.asset_id : asset \in RelatedTables(payload)},
   indicators |-> payload.indicators]

LiveReport(code) == {row \in Live("report_asset") : row.report_code = code}

ReportDetail(code) ==
  [table |-> "report_asset", where |-> [report_code |-> {code}, is_deleted |-> {FALSE}]]

CreateReport(s) == \E payload \in Reports :
  /\ ReportIsValid(payload)
  /\ LiveReport(payload.code) = {}
  /\ Begin(s, <<"create_report">>,
           <<Insert("report_asset", [report_pk |-> New(0), is_deleted |-> FALSE]
                                    @@ ReportColumns(payload))>>,
           {ReportDetail(payload.code)})

UpdateReport(s) == \E row \in Live("report_asset"), payload \in Reports :
  /\ ReportIsValid(payload)
  /\ payload.code # row.report_code => LiveReport(payload.code) = {}
  /\ Begin(s, <<"update_report">>,
           <<Update("report_asset", [report_pk |-> {row.report_pk}], ReportColumns(payload))>>,
           {ReportDetail(payload.code)})

DeleteReport(s) == \E row \in Live("report_asset") :
  Begin(s, <<"delete_report">>,
        <<Update("report_asset", [report_pk |-> {row.report_pk}], [is_deleted |-> TRUE])>>, {})

MetricOperation(s) ==
  \/ CreateIndicator(s) \/ UpdateIndicator(s) \/ PatchIndicatorStatus(s) \/ DeleteIndicator(s)
  \/ CreateReport(s) \/ UpdateReport(s) \/ DeleteReport(s)

-----------------------------------------------------------------------------
(***************************************************************************)
(* The registers of word roots and of code tables kept by hand.  A root is *)
(* marked as deleted and keeps its abbreviation; a code table's row goes,  *)
(* and with MAX+1 its id is given again.                                   *)
(***************************************************************************)
CONSTANTS Roots,        \* payloads of a root: abbr, cn
          RootBatches,  \* lists of them, for an import
          CodeTables    \* payloads of a code table: code, status

\* A batch is a list of roots.
ASSUME TermAssumption == \A items \in RootBatches : IsList(items)

RootChange(k) == Insert("root_change_log", [change_id |-> New(k)])

LiveRoot(abbr) == {row \in Live("root_item") : row.root_abbr = abbr}

RootColumns(item) == [root_abbr |-> item.abbr, cn |-> item.cn]

InsertRoot(item, k) ==
  <<Insert("root_item", [root_id |-> New(k), is_deleted |-> FALSE] @@ RootColumns(item))>>

UpdateRootRow(row, item) == <<Update("root_item", [root_id |-> {row.root_id}], RootColumns(item))>>

CreateRoot(s) == \E item \in Roots :
  /\ LiveRoot(item.abbr) = {}
  /\ Begin(s, <<"create_root">>, InsertRoot(item, 0) \o <<RootChange(0)>>, {})

UpdateRoot(s) == \E row \in Live("root_item"), item \in Roots :
  /\ item.abbr # row.root_abbr => LiveRoot(item.abbr) = {}
  /\ Begin(s, <<"update_root">>, UpdateRootRow(row, item) \o <<RootChange(0)>>, {})

DeleteRoot(s) == \E row \in Live("root_item") :
  Begin(s, <<"delete_root">>,
        <<Update("root_item", [root_id |-> {row.root_id}], [is_deleted |-> TRUE]), RootChange(0)>>, {})

\* The batch is one transaction, and which roots are new is decided before
\* the first is written: a new root that comes twice fails the whole batch.
NewRoots(items) == {i \in DOMAIN items : LiveRoot(items[i].abbr) = {}}

ImportRoots(s) == \E items \in RootBatches :
  LET before(i) == Cardinality({j \in NewRoots(items) : j < i})
      write(i)  == IF i \in NewRoots(items) THEN InsertRoot(items[i], before(i))
                   ELSE UpdateRootRow(The(LiveRoot(items[i].abbr)), items[i])
  IN
  /\ \A i, j \in NewRoots(items) : items[i].abbr = items[j].abbr => i = j
  /\ Begin(s, <<"import_roots", items>>,
           FlattenSeq([i \in DOMAIN items |-> write(i) \o <<RootChange(i - 1)>>]), {})

(***************************************************************************)
(* Code tables.  A page shows the ids; an edit comes later, by id.         *)
(***************************************************************************)
TableStatuses == {"enabled", "disabled"}

CodeTable(id) == [table |-> "manual_code_table", where |-> [table_id |-> {id}]]

CodeIsFree(code, but) ==
  \A row \in db["manual_code_table"] : row.table_code = code => row.table_id = but

CreateCodeTable(s) == \E payload \in CodeTables :
  /\ payload.status \in TableStatuses
  /\ CodeIsFree(payload.code, NoKey)
  /\ Begin(s, <<"create_table">>,
           <<Insert("manual_code_table",
                    [table_id |-> New(0), table_code |-> payload.code, status |-> payload.status])>>, {})

UpdateCodeTable(s) == \E row \in db["manual_code_table"], payload \in CodeTables :
  /\ payload.status \in TableStatuses
  /\ CodeIsFree(payload.code, row.table_id)
  /\ Begin(s, <<"update_table">>,
           <<Update("manual_code_table", [table_id |-> {row.table_id}],
                    [table_code |-> payload.code, status |-> payload.status])>>,
           {CodeTable(row.table_id)})

UpdateCodeTableStatus(s) == \E row \in db["manual_code_table"], status \in TableStatuses :
  Begin(s, <<"update_status">>,
        <<Update("manual_code_table", [table_id |-> {row.table_id}], [status |-> status])>>,
        {CodeTable(row.table_id)})

DeleteCodeTable(s) == \E row \in db["manual_code_table"] :
  Begin(s, <<"delete_table">>, <<Delete("manual_code_table", [table_id |-> {row.table_id}])>>, {})

TermOperation(s) ==
  \/ CreateRoot(s) \/ UpdateRoot(s) \/ DeleteRoot(s) \/ ImportRoots(s)
  \/ CreateCodeTable(s) \/ UpdateCodeTable(s) \/ UpdateCodeTableStatus(s) \/ DeleteCodeTable(s)
=============================================================================
