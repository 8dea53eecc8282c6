---------------------------- MODULE ApiRegister ----------------------------
(***************************************************************************)
(* The register of APIs.  An API is addressed by its code, never by its    *)
(* key; its parameters, response fields and relations are rows of their    *)
(* own, replaced as a whole.  A deletion only marks the API's row.         *)
(***************************************************************************)
EXTENDS RegisterStore

CONSTANTS ApiAssets,  \* payloads of an API: code, system, status
          ApiRows,    \* lists of names of parameters, response fields, relations
          RowKinds    \* the kinds of rows a request replaces

BinaryStatus == {"enabled", "disabled"}

KindTable == [params |-> "api_param", responseFields |-> "api_response_field",
              relations |-> "api_relation"]

\* Rows of a kind that has a table come in lists of names.
ASSUME ApiAssumption ==
  RowKinds \subseteq DOMAIN KindTable /\ \A names \in ApiRows : IsList(names)

ApiExists(code) == \E row \in Live("api_asset") : row.api_code = code

\* The system is looked up before the transaction of the write begins.
ValidateAsset(payload) ==
  /\ payload.status \in BinaryStatus
  /\ \E system \in Select("system", [system_id |-> {payload.system}]) : system.status = "enabled"

ValidateRows(names) == IsInjective(names)

GetAsset(code) == [table |-> "api_asset", where |-> [api_code |-> {code}, is_deleted |-> {FALSE}]]

InsertApiAsset(payload) ==
  Insert("api_asset", [api_pk |-> New(0), api_code |-> payload.code, system_id |-> payload.system,
                       status |-> payload.status, is_deleted |-> FALSE])

ReplaceRowsOf(code, kind, names) ==
  <<Delete(KindTable[kind], [api_code |-> {code}])>>
  \o [i \in DOMAIN names |->
        Insert(KindTable[kind],
               [c \in {Key[KindTable[kind]], "api_code", "name"} |->
                  CASE c = "api_code" -> code [] c = "name" -> names[i] [] OTHER -> New(i - 1)])]

\* A payload may carry rows of each kind; one that does not leaves them.
RowsOf(code, carried) ==
  FlattenSeq([i \in DOMAIN carried |-> ReplaceRowsOf(code, carried[i].kind, carried[i].names)])

Carried == {<<>>} \cup {<<[kind |-> kind, names |-> names]>> : kind \in RowKinds, names \in ApiRows}

CarriedAreValid(carried) == \A i \in DOMAIN carried : ValidateRows(carried[i].names)

CreateApi(s) == \E payload \in ApiAssets, carried \in Carried :
  /\ ValidateAsset(payload)
  /\ ~ApiExists(payload.code)
  /\ CarriedAreValid(carried)
  /\ Begin(s, <<"create">>, <<InsertApiAsset(payload)>> \o RowsOf(payload.code, carried),
           {GetAsset(payload.code)})

\* The code of an API is never changed.
UpdateApi(s) == \E payload \in ApiAssets, carried \in Carried :
  /\ ApiExists(payload.code)
  /\ ValidateAsset(payload)
  /\ CarriedAreValid(carried)
  /\ Begin(s, <<"update">>,
           <<Update("api_asset", [api_code |-> {payload.code}],
                    [system_id |-> payload.system, status |-> payload.status])>>
           \o RowsOf(payload.code, carried),
           {GetAsset(payload.code)})

UpdateApiStatus(s) == \E row \in Live("api_asset"), status \in BinaryStatus :
  Begin(s, <<"update_status">>,
        <<Update("api_asset", [api_code |-> {row.api_code}], [status |-> status])>>,
        {GetAsset(row.api_code)})

ReplaceRows(s) == \E row \in Live("api_asset"), kind \in RowKinds, names \in ApiRows :
  /\ ValidateRows(names)
  /\ Begin(s, <<"replace_rows">>, ReplaceRowsOf(row.api_code, kind, names), {GetAsset(row.api_code)})

DeleteApi(s) == \E row \in Live("api_asset") :
  Begin(s, <<"delete">>,
        <<Update("api_asset", [api_code |-> {row.api_code}], [is_deleted |-> TRUE])>>, {})

ApiOperation(s) ==
  \/ CreateApi(s)
  \/ UpdateApi(s)
  \/ UpdateApiStatus(s)
  \/ ReplaceRows(s)
  \/ DeleteApi(s)
=============================================================================
