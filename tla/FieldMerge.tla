----------------------------- MODULE FieldMerge -----------------------------
(***************************************************************************)
(* How the fields of an asset are merged with the ones a source or a form  *)
(* sends: fields are matched by their name without regard to case, matched *)
(* ones keep their row and its id, missing ones are marked as deleted, new *)
(* ones get new rows.  Pure operators; a stored field is a row of          *)
(* asset_field, an incoming one a record in which an optional attribute    *)
(* may be Absent (NoOrder for the position).                               *)
(***************************************************************************)
EXTENDS Integers, FiniteSets, Sequences, SequencesExt

CONSTANT FieldKey(_)   \* a field's name, trimmed and in one case

Absent  == "absent"
Null    == ""
NoOrder == 0

(***************************************************************************)
(* The plan: what is matched, inserted and deleted.                        *)
(***************************************************************************)
SameKey(row, field) == FieldKey(row.field_name) = FieldKey(field.name)

UniqueNames(incoming) ==
  \A i, j \in DOMAIN incoming :
    FieldKey(incoming[i].name) = FieldKey(incoming[j].name) => i = j

\* Two stored or two incoming fields of one name: nothing can be merged.
IsAmbiguous(active, incoming) ==
  \/ \E a, b \in active : a # b /\ FieldKey(a.field_name) = FieldKey(b.field_name)
  \/ ~UniqueNames(incoming)

Matched(active, incoming) ==
  {pair \in active \X ToSet(incoming) : SameKey(pair[1], pair[2])}

Inserted(active, incoming) ==
  LET new == {field \in ToSet(incoming) : \A row \in active : ~SameKey(row, field)}
  IN  FoldLeft(LAMBDA kept, field : IF field \in new THEN Append(kept, field) ELSE kept,
               <<>>, incoming)

Deleted(active, incoming) ==
  {row \in active : \A field \in ToSet(incoming) : ~SameKey(row, field)}

CountAfter(active, incoming) ==
  Cardinality(active) - Cardinality(Deleted(active, incoming)) + Len(Inserted(active, incoming))

(***************************************************************************)
(* The values a source's payload leaves in a field.                        *)
(***************************************************************************)
SourceColumns == {"field_name", "data_type", "nullable", "field_order", "field_desc"}

Given(value, otherwise) == IF value = Absent THEN otherwise ELSE value

ResolveSourceField(row, field) ==
  [field_name  |-> field.name,
   data_type   |-> field.type,
   nullable    |-> Given(field.nullable, row.nullable),
   field_order |-> IF field.order = NoOrder THEN row.field_order ELSE field.order,
   field_desc  |-> Given(field.desc, row.field_desc)]

ResolveNewField(field, order) ==
  [field_name |-> field.name, data_type |-> field.type, nullable |-> Given(field.nullable, "yes"),
   field_order |-> order, field_desc |-> Given(field.desc, Null)]

SourceChanged(row, field) ==
  \E c \in SourceColumns : row[c] # ResolveSourceField(row, field)[c]

Highest(orders) == Max(orders \cup {0})

\* Positions of the inserted fields: the one given, else one after the
\* highest that is stored or came earlier in the payload.
InsertOrders(active, inserted) ==
  FoldLeft(LAMBDA orders, field :
             Append(orders, IF field.order # NoOrder THEN field.order
                            ELSE 1 + Highest({row.field_order : row \in active} \cup ToSet(orders))),
           <<>>, inserted)

\* What the payload changes in the stored fields of an asset.
PlanChanges(active, incoming) ==
  \/ Inserted(active, incoming) # <<>>
  \/ Deleted(active, incoming) # {}
  \/ \E pair \in Matched(active, incoming) : SourceChanged(pair[1], pair[2])
=============================================================================
