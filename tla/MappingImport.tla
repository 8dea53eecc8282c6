--------------------------- MODULE MappingImport ---------------------------
(***************************************************************************)
(* The import of field mappings, one transaction for each item.  An item   *)
(* finds its table mapping by business identity or by table_pk; the        *)
(* identity has no UNIQUE index, so the import itself must keep two rows   *)
(* from sharing one.  The two counts of a mapping are kept with its row.   *)
(***************************************************************************)
EXTENDS RegisterStore

CONSTANT MappingItems  \* items: table, target, pinned (gives a table_pk), fields

\* An item has a list of fields.
ASSUME MappingAssumption == \A item \in MappingItems : IsList(item.fields)

\* Names differ only beyond their case: upper case and lower case are one.
Folded == [T |-> "t", t |-> "t", X |-> "x", x |-> "x", y |-> "y", c |-> "c", C |-> "c"]
Fold(name) == IF name \in DOMAIN Folded THEN Folded[name] ELSE name

IsEnabledStatus(row) == row.status = "enabled"

\* The system must exist and be enabled, and so must its data source.
ImportSourceSystems ==
  {owner \in db["upstream_system"] :
     /\ IsEnabledStatus(owner)
     /\ \E source \in Select("data_source", [source_id |-> {owner.data_source_id}]) :
          IsEnabledStatus(source)}

MappingIdentity(row) ==
  <<row.upstream_system_id, Fold(row.source_table), Fold(row.target)>>

Candidates(pk, table) ==
  {row \in Select("mapping_table", [upstream_system_id |-> {pk}]) :
     Fold(row.source_table) = Fold(table)}

\* The rows the item may mean: those of its identity, or the one it names.
ImportTables(owner, item) ==
  IF item.pinned THEN Candidates(owner.system_pk, item.table)
  ELSE {row \in Candidates(owner.system_pk, item.table) : Fold(row.target) = Fold(item.target)}

FieldIdentity(row) == <<Fold(row.source), Fold(row.target)>>
ImportFields(pk) == Select("mapping_field", [table_pk |-> {pk}])
LiveFields(pk) == {f \in ImportFields(pk) : ~f.is_deleted}
HasUniqueFields(pk) ==
  \A f, g \in LiveFields(pk) : FieldIdentity(f) = FieldIdentity(g) => f = g

\* The stored field an incoming one means: the live one of its identity, or
\* else the oldest deleted one, which the import brings back.
FieldFor(pk, field) ==
  LET same == {f \in ImportFields(pk) : FieldIdentity(f) = FieldIdentity(field)}
      live == same \cap LiveFields(pk)
  IN  IF live # {} THEN live ELSE {f \in same : \A g \in same : f.field_pk <= g.field_pk}

\* A field that is there keeps its source name; the rest comes from the item.
DesiredField(field, current) ==
  [source |-> IF current = {} THEN field.source ELSE (CHOOSE f \in current : TRUE).source,
   target |-> field.target, rule |-> field.rule, is_deleted |-> FALSE]

FieldContentEqual(row, desired) ==
  ~row.is_deleted /\ Fold(row.target) = Fold(desired.target) /\ row.rule = desired.rule

FieldAction(pk, field) ==
  LET current == FieldFor(pk, field)
      desired == DesiredField(field, current)
  IN  [do |-> IF current = {} THEN "create"
              ELSE IF \A f \in current : FieldContentEqual(f, desired) THEN "unchanged"
              ELSE "update",
       current |-> current, values |-> desired]

\* What the item does to the mapping table and its fields; current is {} or
\* the one row found.
Prepared(owner, item, current) ==
  LET pk      == IF current = {} THEN NoKey ELSE (CHOOSE row \in current : TRUE).table_pk
      actions == [i \in DOMAIN item.fields |-> FieldAction(pk, item.fields[i])]
      kept    == {f \in LiveFields(pk) : \A i \in DOMAIN actions : f \notin actions[i].current}
      named   == {f \in kept : f.target # ""}
      values  ==
        [upstream_system_id |-> owner.system_pk,
         source_table |-> IF current = {} THEN item.table ELSE (CHOOSE row \in current : TRUE).source_table,
         target |-> item.target, is_deleted |-> FALSE,
         total  |-> Cardinality(kept) + Len(actions),
         mapped |-> Cardinality(named)
                    + Cardinality({i \in DOMAIN actions : actions[i].values.target # ""})]
  IN  [pk |-> pk, values |-> values, actions |-> actions,
       changed |-> \/ current = {}
                   \/ \E row \in current : \/ row.is_deleted
                                           \/ MappingIdentity(row) # MappingIdentity(values)
                                           \/ row.total # values.total
                                           \/ row.mapped # values.mapped
                   \/ \E i \in DOMAIN actions : actions[i].do # "unchanged"]

\* Another row already has the identity the item asks for.
IdentityIsAvailable(prepared) ==
  \A row \in Candidates(prepared.values.upstream_system_id, prepared.values.source_table) :
    MappingIdentity(row) = MappingIdentity(prepared.values) => row.table_pk = prepared.pk

PersistFields(prepared, pk) ==
  LET created == Within(prepared.actions, {a \in ToSet(prepared.actions) : a.do = "create"})
      updated == Within(prepared.actions, {a \in ToSet(prepared.actions) : a.do = "update"})
  IN  [i \in DOMAIN created |->
         Insert("mapping_field", [field_pk |-> New(i - 1), table_pk |-> pk] @@ created[i].values)]
      \o [i \in DOMAIN updated |->
            Update("mapping_field", [field_pk |-> {f.field_pk : f \in updated[i].current}],
                   updated[i].values)]

PersistItem(prepared) ==
  IF prepared.pk = NoKey
  THEN <<Insert("mapping_table", [table_pk |-> New(0)] @@ prepared.values)>>
       \o PersistFields(prepared, New(0))
  ELSE <<Update("mapping_table", [table_pk |-> {prepared.pk}], prepared.values)>>
       \o PersistFields(prepared, prepared.pk)

\* An item that changes nothing writes nothing.
ImportMapping(s) == \E owner \in ImportSourceSystems, item \in MappingItems :
  \E current \in IF ImportTables(owner, item) = {} THEN {{}}
                 ELSE {{row} : row \in ImportTables(owner, item)} :
  LET prepared == Prepared(owner, item, current) IN
  /\ item.pinned => current # {}
  /\ ~item.pinned => Cardinality(ImportTables(owner, item)) <= 1
  /\ IsInjective([i \in DOMAIN item.fields |-> FieldIdentity(item.fields[i])])
  /\ HasUniqueFields(prepared.pk)
  /\ IdentityIsAvailable(prepared)
  /\ prepared.changed
  /\ Begin(s, <<"import", item, owner.system_pk>>, PersistItem(prepared), {})
=============================================================================
