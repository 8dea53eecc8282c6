--------------------------- MODULE AssetIngestion ---------------------------
(***************************************************************************)
(* The ingestion of assets a collector sends.  A request is checked as a   *)
(* whole, compared with what is stored for its source, and written in one  *)
(* transaction: assets by their natural key, fields merged by name.  The   *)
(* rows are read when the request is compared, the new ids afterwards.     *)
(***************************************************************************)
EXTENDS RegisterStore, FieldMerge

CONSTANT IngestRequests   \* sequences of items: source, external, name, desc, listed, fields

\* A request is a list of items, each with a list of fields.
ASSUME IngestAssumption ==
  \A request \in IngestRequests :
    IsList(request) /\ \A i \in DOMAIN request : IsList(request[i].fields)

(***************************************************************************)
(* Checks and reads.                                                       *)
(***************************************************************************)
AssetKey(item) == <<item.source, item.external>>

\* Fields of one item have different names and different positions.
ItemIsValid(item) ==
  /\ UniqueNames(item.fields)
  /\ \A i, j \in DOMAIN item.fields :
       item.fields[i].order = item.fields[j].order /\ item.fields[i].order # NoOrder => i = j

\* One item that is wrong, or given twice, rejects the request.
PreflightAssets(request) ==
  /\ request # <<>>
  /\ \A i \in DOMAIN request : ItemIsValid(request[i])
  /\ \A i, j \in DOMAIN request : AssetKey(request[i]) = AssetKey(request[j]) => i = j

AssetFields(id) == {field \in Live("asset_field") : field.asset_id = id}

\* Deleted assets are found as well: their ids come back with them.
ExistingAssets(item) ==
  {row \in db["asset_table"] : row.source_key = item.source /\ row.external_id = item.external}

IsNew(item) == ExistingAssets(item) = {}

Current(item) == The(ExistingAssets(item))

ActiveFields(item) == IF IsNew(item) THEN {} ELSE AssetFields(Current(item).asset_id)

\* A request that does not list the fields of an item leaves them alone.
CanMerge(item) == item.listed => ~IsAmbiguous(ActiveFields(item), item.fields)

Inserts(item) == IF item.listed THEN Inserted(ActiveFields(item), item.fields) ELSE <<>>

AssetContent(item) ==
  [table_name |-> item.name,
   table_desc |-> Given(item.desc, IF IsNew(item) THEN Null ELSE Current(item).table_desc)]

\* Fault: a description the item does not mention is compared as empty.
IsUnchangedAsGiven(item) ==
  /\ ~IsNew(item)
  /\ ~Current(item).is_deleted
  /\ Current(item).table_name = item.name /\ Current(item).table_desc = Given(item.desc, Null)
  /\ ~(item.listed /\ PlanChanges(ActiveFields(item), item.fields))

IsUnchanged(item) ==
  /\ ~IsNew(item)
  /\ ~Current(item).is_deleted
  /\ \A c \in DOMAIN AssetContent(item) : Current(item)[c] = AssetContent(item)[c]
  /\ ~(item.listed /\ PlanChanges(ActiveFields(item), item.fields))

(***************************************************************************)
(* Statements.                                                             *)
(***************************************************************************)
\* Fault: the fields are replaced, as they once were.
FieldReplaceStatements(item) ==
  LET gone == Deleted(ActiveFields(item), item.fields) IN
  <<Delete("asset_field", [field_id |-> {row.field_id : row \in gone}])>>

FieldMergeStatements(item) ==
  LET active  == ActiveFields(item)
      gone    == Deleted(active, item.fields)
      changed == SetToSeq({pair \in Matched(active, item.fields) : SourceChanged(pair[1], pair[2])})
  IN  (IF gone = {} THEN <<>>
       ELSE <<Update("asset_field", [field_id |-> {row.field_id : row \in gone}], [is_deleted |-> TRUE])>>)
      \o [i \in DOMAIN changed |->
            Update("asset_field", [field_id |-> {changed[i][1].field_id}],
                   ResolveSourceField(changed[i][1], changed[i][2]))]

\* The portal's columns of an asset are written on creation only.
InsertAsset(item, id) ==
  Insert("asset_table",
    Joined([asset_id |-> id, source_key |-> item.source, external_id |-> item.external,
            owner_name |-> Null, field_count |-> Len(Inserts(item)), is_deleted |-> FALSE],
           AssetContent(item)))

\* The natural key is written again.
UpdatedColumns(item) ==
  Joined(IF item.listed THEN [field_count |-> CountAfter(ActiveFields(item), item.fields)] ELSE <<>>,
         Joined([source_key |-> item.source, external_id |-> item.external, is_deleted |-> FALSE],
                AssetContent(item)))

\* Fault: the portal's columns are written again.
RewriteAsset(item) ==
  Update("asset_table", [asset_id |-> {Current(item).asset_id}],
         Joined([owner_name |-> Null], UpdatedColumns(item)))

UpdateAsset(item) ==
  Update("asset_table", [asset_id |-> {Current(item).asset_id}], UpdatedColumns(item))

AssetChange(k) == Insert("asset_change_log", [change_id |-> New(k)])

AssetStatements(item, id, k) ==
  IF IsNew(item) THEN <<InsertAsset(item, id), AssetChange(k)>>
  ELSE <<UpdateAsset(item)>> \o (IF item.listed THEN FieldMergeStatements(item) ELSE <<>>)
       \o <<AssetChange(k)>>

FieldRows(item, id, first) ==
  LET inserted == Inserts(item)
      orders   == InsertOrders(ActiveFields(item), inserted)
  IN  [i \in DOMAIN inserted |->
         Insert("asset_field",
           Joined([field_id |-> New(first + i - 1), asset_id |-> id, is_deleted |-> FALSE,
                   field_cn_name |-> inserted[i].name],
                  ResolveNewField(inserted[i], orders[i])))]

\* Items that are new or changed, in the order of the request; ids count on
\* from the ones read once for the whole batch.
PersistAssets(actions) ==
  LET id(k)    == IF IsNew(actions[k]) THEN New(Cardinality({j \in 1 .. k - 1 : IsNew(actions[j])}))
                  ELSE Current(actions[k]).asset_id
      first(k) == Len(FlattenSeq([j \in 1 .. k - 1 |-> Inserts(actions[j])]))
  IN  FlattenSeq([k \in DOMAIN actions |-> AssetStatements(actions[k], id(k), k - 1)])
      \o FlattenSeq([k \in DOMAIN actions |-> FieldRows(actions[k], id(k), first(k))])

ClassifyAssets(request) == Within(request, {item \in ToSet(request) : ~IsUnchanged(item)})

IngestAssets(s) == \E request \in IngestRequests :
  /\ PreflightAssets(request)
  /\ \A i \in DOMAIN request : CanMerge(request[i])
  /\ Begin(s, <<"ingest", request>>, PersistAssets(ClassifyAssets(request)), {})
=============================================================================
