----------------------------- MODULE CommonCodes -----------------------------
(***************************************************************************)
(* The dictionaries: categories of codes that administrators edit, and the *)
(* cache CommonCodeService keeps of them, one entry for each category and  *)
(* one for the list of categories.  A write takes the entries away after   *)
(* its statement and before its commit; a reader that finds no entry asks  *)
(* the database and stores what it got.  One reserved category holds the   *)
(* configuration of the asset search in a row that is never active.        *)
(***************************************************************************)
EXTENDS RegisterStore, TLC

CONSTANTS Dictionaries,  \* payloads of an item: category, code, value, active
          RagConfigs,    \* configurations of the asset search
          Readers,       \* threads that ask for codes
          Batches,       \* what they ask for: sequences of categories, or <<List>>
          Lifetime,      \* ticks an entry of the cache is good for
          MaxLoad        \* bound: ticks that pass between a query and the
                         \* storing of its result

\* An entry is good for a second at least: _cache_ttl.
ASSUME CodesAssumption ==
  Lifetime \in Nat \ {0} /\ MaxLoad \in Nat /\ Batches \subseteq Seq(STRING)

VARIABLES cache,      \* the entries: value, ticks left; stale: ticks since the
                      \* database says something else
          reader,     \* where each reader is
          announced   \* the writes that have taken entries away and not ended

codeVars == <<cache, reader, announced>>

Reserved == "RAG_SEARCH_CONFIG"
DefaultCode == "DEFAULT"
List == "*"

\* keys: still to look up; missing: not in the cache; loaded: what the database
\* said of these, took: ticks ago; overlap: a write was between its taking away
\* of entries and its commit meanwhile; got: the answer so far.
IdleReader == [pc |-> "idle", keys |-> <<>>, missing |-> <<>>, loaded |-> <<>>,
               took |-> 0, overlap |-> FALSE, got |-> {}]

CodesInit ==
  /\ cache = <<>>
  /\ reader = [r \in Readers |-> IdleReader]
  /\ announced = {}

(***************************************************************************)
(* What the database says.                                                 *)
(***************************************************************************)
ActiveItems(category) == Select("code_item", [category_code |-> {category}, is_active |-> {TRUE}])

ActiveCategories == {row.category_code : row \in Select("code_category", [is_active |-> {TRUE}])}

GetCategories == [category \in ActiveCategories |-> Cardinality(ActiveItems(category))]

GetItems(category) ==
  IF category \in ActiveCategories
  THEN [exists |-> TRUE, items |-> {<<row.item_code, row.value>> : row \in ActiveItems(category)}]
  ELSE [exists |-> FALSE, items |-> {}]

\* A list of one, so that values of both kinds can be compared.
Stored(key) == IF key = List THEN <<GetCategories>> ELSE <<"items", GetItems(key)>>

(***************************************************************************)
(* Writes.                                                                 *)
(***************************************************************************)
CategoryExists(category) == Select("code_category", [category_code |-> {category}]) # {}

NormalizedItem(payload) == payload.category # Reserved /\ CategoryExists(payload.category)

ItemColumns(payload) ==
  [category_code |-> payload.category, item_code |-> payload.code,
   value |-> payload.value, is_active |-> payload.active]

NewItem(payload) ==
  [item_id |-> New(0), category_code |-> payload.category, item_code |-> payload.code,
   value |-> payload.value, is_active |-> payload.active]

ItemCodeIsFree(payload, but) ==
  \A row \in Select("code_item", [category_code |-> {payload.category}, item_code |-> {payload.code}]) :
    row.item_id = but

ById(id) == [item_id |-> {id}]

\* A request remembers the categories whose entries it will take away, or, if
\* it reads them only after its statement, the item.
CreateParamDict(s) == \E payload \in Dictionaries :
  /\ NormalizedItem(payload)
  /\ ItemCodeIsFree(payload, NoKey)
  /\ Begin(s, <<"item", {payload.category}>>,
           <<Insert("code_item", NewItem(payload))>>, {})

CategoriesOf(row, payload) == {row.category_code, payload.category}

UpdateParamDict(s) == \E row \in db["code_item"], payload \in Dictionaries :
  /\ NormalizedItem(payload)
  /\ row.category_code # Reserved
  /\ ItemCodeIsFree(payload, row.item_id)
  /\ Begin(s, <<"item", CategoriesOf(row, payload)>>,
           <<Update("code_item", ById(row.item_id), ItemColumns(payload))>>, {})

UpdateParamDictStatus(s) == \E row \in db["code_item"], active \in BOOLEAN :
  /\ row.category_code # Reserved
  /\ Begin(s, <<"status", row.item_id>>,
           <<Update("code_item", ById(row.item_id), [is_active |-> active])>>,
           {[table |-> "code_item", where |-> ById(row.item_id)]})

DeleteParamDict(s) == \E row \in db["code_item"] :
  /\ row.category_code # Reserved
  /\ Begin(s, <<"item", {row.category_code}>>, <<Delete("code_item", ById(row.item_id))>>, {})

UpdateParamCategoryStatus(s) == \E row \in db["code_category"], active \in BOOLEAN :
  /\ row.category_code # Reserved
  /\ Begin(s, <<"item", {row.category_code}>>,
           <<Update("code_category", [category_id |-> {row.category_id}], [is_active |-> active])>>, {})

RagRows == Select("code_item", [category_code |-> {Reserved}, item_code |-> {DefaultCode}])

\* The row is the only one, and neither it nor its category is active.
RagRowStands ==
  /\ Cardinality(RagRows) = 1 /\ \A row \in RagRows : ~row.is_active
  /\ Reserved \notin ActiveCategories

UpdateRagSearchConfig(s) == \E config \in RagConfigs :
  /\ RagRowStands
  /\ Begin(s, <<"rag">>,
           <<Update("code_item",
                    [item_id |-> {The(RagRows).item_id}, category_code |-> {Reserved},
                     item_code |-> {DefaultCode}, is_active |-> {FALSE}], [value |-> config])>>, {})

DictionaryOperation(s) ==
  \/ CreateParamDict(s) \/ UpdateParamDict(s) \/ UpdateParamDictStatus(s) \/ DeleteParamDict(s)
  \/ UpdateParamCategoryStatus(s) \/ UpdateRagSearchConfig(s)

(***************************************************************************)
(* The cache and the writes.                                               *)
(***************************************************************************)
Without(keys) == [key \in DOMAIN cache \ keys |-> cache[key]]

Overlapped ==
  [r \in Readers |-> IF reader[r].pc = "store" THEN [reader[r] EXCEPT !.overlap = TRUE] ELSE reader[r]]

\* The rows and codes a write locks from its statement to its end.
Locks(s) == UNION
  {LET statement == session[s].statements[i]
       row       == IF statement.do = "insert"
                    THEN Numbered(statement.table, statement.row, session[s].base) ELSE <<>>
       columns   == IF statement.do = "update" THEN statement.set ELSE row
       keys      == IF statement.do = "insert" THEN {row[Key[statement.table]]}
                    ELSE statement.where[Key[statement.table]]
   IN  {<<statement.table, key>> : key \in keys}
       \cup (IF "item_code" \in DOMAIN columns THEN {<<columns.category_code, columns.item_code>>}
             ELSE {})
   : i \in DOMAIN session[s].statements}

ChangedCategories(s) ==
  IF session[s].request[1] = "status"
  THEN {row.category_code : row \in Select("code_item", ById(session[s].request[2]))}
  ELSE session[s].request[2]

\* The statement has been executed: nobody sees its effect yet.
Invalidate(s) ==
  /\ session[s].at = "numbered" /\ session[s].request[1] # "rag"
  /\ s \notin announced
  /\ \A other \in announced : Locks(s) \cap Locks(other) = {}
  /\ ~IsRefused(s)
  /\ announced' = announced \cup {s}
  /\ cache' = Without(ChangedCategories(s) \cup {List})
  /\ reader' = Overlapped
  /\ UNCHANGED storeVars

\* The configuration's entries go after the commit.
CommitCodes(s) ==
  /\ Commit(s)
  /\ session[s].request[1] = "rag" \/ s \in announced
  /\ cache' = IF session[s].request[1] = "rag" THEN Without({Reserved, List}) ELSE cache
  /\ announced' = announced \ {s}
  /\ UNCHANGED reader

RollBackCodes(s) ==
  /\ RollBack(s)
  /\ announced' = announced \ {s}
  /\ UNCHANGED <<cache, reader>>

(***************************************************************************)
(* Readers.                                                                *)
(***************************************************************************)
GotFrom(entry, key) == [key |-> key, value |-> entry.value, stale |-> entry.stale]

AskCodes(r) == \E batch \in Batches :
  /\ reader[r].pc = "idle"
  /\ reader' = [reader EXCEPT ![r] = [IdleReader EXCEPT !.pc = "look_up", !.keys = batch]]
  /\ UNCHANGED <<cache, announced>>

\* Fault: an entry is good for ever.
IsCachedForEver(key) == key \in DOMAIN cache

IsCached(key) == key \in DOMAIN cache /\ cache[key].left > 0

\* Each entry is looked up on its own; one that is no longer good goes away.
GetCachedItems(r) ==
  LET key == Head(reader[r].keys)
      rest == [reader[r] EXCEPT !.keys = Tail(@)]
  IN
  /\ reader[r].pc = "look_up" /\ reader[r].keys # <<>>
  /\ IF IsCached(key)
     THEN /\ reader' = [reader EXCEPT ![r] = [rest EXCEPT !.got = @ \cup {GotFrom(cache[key], key)}]]
          /\ UNCHANGED cache
     ELSE /\ reader' = [reader EXCEPT ![r] = [rest EXCEPT !.missing = Append(@, key)]]
          /\ cache' = Without({key})
  /\ UNCHANGED announced

\* One statement for all that are missing.
FetchRows(r) ==
  /\ reader[r].pc = "look_up" /\ reader[r].keys = <<>> /\ reader[r].missing # <<>>
  /\ reader' = [reader EXCEPT
       ![r].pc = "store", ![r].overlap = announced # {},
       ![r].loaded = [key \in ToSet(reader[r].missing) |-> [value |-> Stored(key), stale |-> 0]]]
  /\ UNCHANGED <<cache, announced>>

SetCachedItems(r) ==
  LET key == Head(reader[r].missing)
      entry == reader[r].loaded[key]
  IN
  /\ reader[r].pc = "store" /\ reader[r].missing # <<>>
  /\ cache' = [k \in DOMAIN cache \cup {key} |->
                 IF k = key THEN [value |-> entry.value, stale |-> entry.stale, left |-> Lifetime,
                                  overlap |-> reader[r].overlap]
                 ELSE cache[k]]
  /\ reader' = [reader EXCEPT ![r].missing = Tail(@), ![r].got = @ \cup {GotFrom(entry, key)}]
  /\ UNCHANGED announced

AnswerCodes(r) ==
  /\ reader[r].pc \in {"look_up", "store"} /\ reader[r].keys = <<>> /\ reader[r].missing = <<>>
  /\ reader' = [reader EXCEPT ![r] = IdleReader]
  /\ UNCHANGED <<cache, announced>>

Aged(entry, key) ==
  IF entry.value = Stored(key) THEN [entry EXCEPT !.stale = 0]
  ELSE [entry EXCEPT !.stale = IF @ < Lifetime + MaxLoad THEN @ + 1 ELSE @]

\* A tick of the clock.
Tick ==
  /\ \A r \in Readers : reader[r].took < MaxLoad
  /\ cache' = [key \in DOMAIN cache |->
       [Aged(cache[key], key) EXCEPT !.left = IF @ > 0 THEN @ - 1 ELSE 0]]
  /\ reader' = [r \in Readers |->
       IF reader[r].pc # "store" THEN reader[r]
       ELSE [reader[r] EXCEPT !.took = @ + 1,
                              !.loaded = [key \in DOMAIN @ |-> Aged(@[key], key)]]]
  /\ UNCHANGED announced

CodeStep ==
  \/ Tick
  \/ \E r \in Readers :
       \/ AskCodes(r) \/ GetCachedItems(r) \/ FetchRows(r) \/ SetCachedItems(r) \/ AnswerCodes(r)
=============================================================================
