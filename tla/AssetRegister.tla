-------------------------- MODULE AssetRegister ---------------------------
(***************************************************************************)
(* The asset catalogue: collectors and people write it at the same time.   *)
(* A source owns the assets it sends and their technical columns, the      *)
(* portal the rest; ids are for ever.                                      *)
(*                                                                         *)
(* Here are the assets edited by hand.  An asset without a source belongs  *)
(* to the portal and every column can be edited; of one a source           *)
(* maintains, only the portal's columns.  A deletion marks the asset and   *)
(* its fields.                                                             *)
(***************************************************************************)
EXTENDS AssetIngestion

CONSTANT AssetPayloads   \* forms: name, owner, desc, fields (name, type, nullable, cn)

\* A form has a list of fields.
ASSUME AssetAssumption == \A form \in AssetPayloads : IsList(form.fields)

NoSource == ""

FormIsValid(fields) == fields # <<>> /\ UniqueNames(fields)

EnsureTableAbsent(name, but) ==
  \A row \in Live("asset_table") : row.table_name = name => row.asset_id = but

SourceBound(row) == row.source_key # NoSource

\* A form may repeat what the source says of the asset, not change it.
KeepsSourceColumns(row, form) ==
  SourceBound(row) =>
    /\ form.name = row.table_name
    /\ form.desc \in {Absent, row.table_desc}

KeepsSourceFields(row, fields) ==
  SourceBound(row) =>
    LET active == AssetFields(row.asset_id) IN
    /\ Inserted(active, fields) = <<>>
    /\ Deleted(active, fields) = {}
    /\ \A pair \in Matched(active, fields) :
         pair[1].data_type = pair[2].type /\ pair[1].nullable = pair[2].nullable

(***************************************************************************)
(* Statements.                                                             *)
(***************************************************************************)
FormField(field, order) ==
  [field_name |-> field.name, field_cn_name |-> field.cn, data_type |-> field.type,
   nullable |-> field.nullable, field_order |-> order, field_desc |-> field.cn]

InsertFields(id, fields, base) ==
  [i \in DOMAIN fields |->
     Insert("asset_field",
            Joined([field_id |-> New(i - 1), asset_id |-> id, is_deleted |-> FALSE],
                   FormField(fields[i], base + i)))]

\* The name shown may be the description or the field's name.
DisplayName(row) ==
  CASE row.field_cn_name # Null -> row.field_cn_name
    [] row.field_cn_name = Null /\ row.field_desc # Null -> row.field_desc
    [] OTHER -> row.field_name

FormChanges(row, bound, field) ==
  \/ DisplayName(row) # field.cn
  \/ /\ ~bound
     /\ <<row.field_name, row.data_type, row.nullable>> # <<field.name, field.type, field.nullable>>

FormUpdate(row, bound, field) ==
  IF bound THEN [field_cn_name |-> field.cn] ELSE FormField(field, row.field_order)

ReconcileFields(asset, fields) ==
  LET bound   == SourceBound(asset)
      active  == AssetFields(asset.asset_id)
      gone    == Deleted(active, fields)
      changed == SetToSeq({pair \in Matched(active, fields) : FormChanges(pair[1], bound, pair[2])})
  IN  (IF gone = {} THEN <<>>
       ELSE <<Update("asset_field", [field_id |-> {row.field_id : row \in gone}], [is_deleted |-> TRUE])>>)
      \o [i \in DOMAIN changed |->
            Update("asset_field", [field_id |-> {changed[i][1].field_id}],
                   FormUpdate(changed[i][1], bound, changed[i][2]))]
      \o InsertFields(asset.asset_id, Inserted(active, fields),
                      Highest({row.field_order : row \in active}))

(***************************************************************************)
(* Operations, each in an audited transaction.                             *)
(***************************************************************************)
CreateAssetTable(s) == \E form \in AssetPayloads :
  /\ FormIsValid(form.fields)
  /\ EnsureTableAbsent(form.name, NoKey)
  /\ Begin(s, <<"create">>,
       <<Insert("asset_table",
           [asset_id |-> New(0), source_key |-> NoSource, external_id |-> Null,
            table_name |-> form.name, table_desc |-> Given(form.desc, Null),
            owner_name |-> form.owner, field_count |-> Len(form.fields), is_deleted |-> FALSE])>>
       \o InsertFields(New(0), form.fields, 0) \o <<AssetChange(0)>>, {})

\* The answer reads the asset again: it must still be there.
UpdateAssetTable(s) == \E row \in Live("asset_table"), form \in AssetPayloads :
  LET active == AssetFields(row.asset_id) IN
  /\ FormIsValid(form.fields)
  /\ KeepsSourceColumns(row, form)
  /\ form.name # row.table_name => EnsureTableAbsent(form.name, row.asset_id)
  /\ ~IsAmbiguous(active, form.fields)
  /\ KeepsSourceFields(row, form.fields)
  /\ Begin(s, <<"update", row.asset_id>>,
       <<Update("asset_table", [asset_id |-> {row.asset_id}],
           Joined(IF SourceBound(row) THEN <<>>
                  ELSE [table_name |-> form.name, table_desc |-> Given(form.desc, Null)],
                  [owner_name |-> form.owner, field_count |-> CountAfter(active, form.fields)]))>>
       \o ReconcileFields(row, form.fields) \o <<AssetChange(0)>>,
       {[table |-> "asset_table",
         where |-> [asset_id |-> {row.asset_id}, is_deleted |-> {FALSE}]]})

UpdateAssetFields(s) == \E row \in Live("asset_table"), form \in AssetPayloads :
  LET active == AssetFields(row.asset_id) IN
  /\ FormIsValid(form.fields)
  /\ ~IsAmbiguous(active, form.fields)
  /\ KeepsSourceFields(row, form.fields)
  /\ Begin(s, <<"update", row.asset_id>>,
       ReconcileFields(row, form.fields)
       \o <<Update("asset_table", [asset_id |-> {row.asset_id}],
                   [field_count |-> CountAfter(active, form.fields)]),
            AssetChange(0)>>, {})

DeleteAssetTable(s) == \E row \in Live("asset_table") :
  Begin(s, <<"delete", row.asset_id>>,
    <<AssetChange(0),
      Update("asset_field", [asset_id |-> {row.asset_id}, is_deleted |-> {FALSE}],
             [is_deleted |-> TRUE]),
      Update("asset_table", [asset_id |-> {row.asset_id}], [field_count |-> 0, is_deleted |-> TRUE])>>,
    {})

-----------------------------------------------------------------------------
AssetOperation(s) ==
  \/ IngestAssets(s)
  \/ CreateAssetTable(s)
  \/ UpdateAssetTable(s)
  \/ UpdateAssetFields(s)
  \/ DeleteAssetTable(s)

(***************************************************************************)
(* Properties.                                                             *)
(***************************************************************************)
\* An id is a lifetime identity: an asset's id always stands for the same
\* natural key, a field's id for the same field of the same asset, no id is
\* given up, and a field that is marked as deleted never comes back, whatever
\* requests overlap (an asset may: its source sends it again).
IdsAreForever ==
  [][/\ \A row \in db["asset_table"] : \E now \in db'["asset_table"] :
          /\ now.asset_id = row.asset_id
          /\ now.source_key = row.source_key /\ now.external_id = row.external_id
     /\ \A row \in db["asset_field"] : \E now \in db'["asset_field"] :
          /\ now.field_id = row.field_id /\ now.asset_id = row.asset_id
          /\ FieldKey(now.field_name) = FieldKey(row.field_name)
          /\ row.is_deleted => now.is_deleted]_storeVars

PortalView(d) ==
  <<{<<row.asset_id, row.owner_name>> : row \in d["asset_table"]},
    {<<row.field_id, row.field_cn_name>> : row \in d["asset_field"]}>>

SourceView(d, row) ==
  {<<f.field_id, f.field_name, f.data_type, f.nullable, f.field_order, f.field_desc>> :
     f \in {g \in d["asset_field"] : g.asset_id = row.asset_id}}

\* An ingestion adds rows and never changes a column of the portal; an edit
\* by hand never changes, adds or drops what a source maintains of an asset
\* (an edit that only deletes is no change of content).
OwnersKeepTheirColumns ==
  [][\A s \in Sessions : Commit(s) =>
       IF session[s].request[1] = "ingest"
       THEN PortalView(db)[1] \subseteq PortalView(db')[1] /\ PortalView(db)[2] \subseteq PortalView(db')[2]
       ELSE \A row \in db["asset_table"] : SourceBound(row) =>
              /\ SourceView(db, row) = SourceView(db', row)
              /\ \E now \in db'["asset_table"] :
                   /\ now.asset_id = row.asset_id
                   /\ now.table_name = row.table_name /\ now.table_desc = row.table_desc]_storeVars

\* The number of fields beside an asset is the number of its live fields, no
\* two of them have the same name (two would make every later merge fail), a
\* deleted asset has none, and the portal's own assets have different names.
FieldsAgree ==
  /\ \A row \in db["asset_table"] :
       /\ row.field_count = Cardinality(AssetFields(row.asset_id))
       /\ row.is_deleted => row.field_count = 0
  /\ \A a, b \in Live("asset_field") :
       a.asset_id = b.asset_id /\ FieldKey(a.field_name) = FieldKey(b.field_name) => a = b
  /\ \A a, b \in Live("asset_table") :
       a.table_name = b.table_name /\ ~SourceBound(a) /\ ~SourceBound(b) => a = b
=============================================================================
