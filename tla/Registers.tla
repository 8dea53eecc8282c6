----------------------------- MODULE Registers -----------------------------
(***************************************************************************)
(* The registers and the asset catalogue on one store: systems and their   *)
(* push jobs, APIs, upstream systems and the mappings imported for them,   *)
(* indicators and reports, roots and code tables, assets and their fields; *)
(* and what administrators edit.  Several requests write at the same time. *)
(* A behaviour stays in one area: a table that two registers write, or one *)
(* writes and another reads, is in the area of both (a push system and an  *)
(* API share the systems; the catalogue, indicators and reports share the  *)
(* assets).  One more area is the facade that their transactions go        *)
(* through, with all that may fail there.                                  *)
(***************************************************************************)
EXTENDS SystemRegister, MappingImport, ApiRegister, BusinessRegister, AssetRegister,
        Administration

CONSTANTS Areas,     \* the areas a behaviour may be in
          Seed(_),   \* the rows each table holds at first, by area
          Writes(_)  \* bound: writes of a behaviour, by area

CONSTANTS Backends, Plans, Profiles, AuditProfile, Configurations, MaxConfigEdits

\* An operation's calls, each of a statement at least.
ASSUME PlansAssumption ==
  \A plan \in Plans :
    plan.calls \in Seq([profile : Profiles, path : {"core", "raw"}, rows : Nat \ {0},
                       nested : BOOLEAN])

\* Tables are finite; a row has a key of its own, a number for an asset,
\* and all columns of its table.
ASSUME SeedAssumption ==
  \A where \in Areas :
    /\ DOMAIN Seed(where) = Tables
    /\ \A t \in Tables : IsFiniteSet(Seed(where)[t])
    /\ \A t \in Tables : \A a, b \in Seed(where)[t] : a[Key[t]] = b[Key[t]] => a = b
    /\ \A row \in Seed(where)["code_item"] :
         DOMAIN row = {"item_id", "category_code", "item_code", "value", "is_active"}
    /\ \A row \in Seed(where)["code_category"] :
         DOMAIN row = {"category_id", "category_code", "is_active"}
    /\ \A row \in Seed(where)["asset_table"] :
         /\ DOMAIN row = {"asset_id", "source_key", "external_id", "owner_name", "field_count",
                          "is_deleted", "table_name", "table_desc"}
         /\ row.asset_id \in Nat
    /\ \A row \in Seed(where)["asset_field"] :
         DOMAIN row = {"field_id", "asset_id", "is_deleted", "field_cn_name", "field_name",
                       "data_type", "nullable", "field_order", "field_desc"}

VARIABLES area, backend, planned, profileNow, configEdits, running, committed

Facade == INSTANCE DatabaseFacade WITH
            plan <- planned, config <- profileNow, op <- running, stored <- committed

facadeState == <<backend, planned, profileNow, configEdits, running, committed>>

vars == <<storeVars, adminVars, area, facadeState>>

NoOperation ==
  /\ backend = "none" /\ planned = [scope |-> "none", calls |-> <<>>] /\ profileNow = <<>>
  /\ configEdits = 0 /\ running = Facade!NotStarted /\ committed = {}

\* The areas of forms and collectors, where foreign keys matter.
Registered == {"push", "upstream", "terms", "assets"}

Init ==
  /\ area \in Areas
  /\ db = Seed(area)
  /\ foreignKeys \in IF area \in Registered THEN BOOLEAN ELSE {FALSE}
  /\ session = [s \in Sessions |-> Idle]
  /\ writes = Writes(area)
  /\ raced = FALSE
  /\ AdministrationInit
  /\ IF area = "facade" THEN Facade!FacadeInit ELSE NoOperation

Operation(s) ==
  \/ area = "push" /\ PushOperation(s)
  \/ area = "push" /\ ApiOperation(s)
  \/ area = "upstream" /\ UpstreamOperation(s)
  \/ area = "upstream" /\ ImportMapping(s)
  \/ area = "terms" /\ TermOperation(s)
  \/ area = "assets" /\ AssetOperation(s)
  \/ area = "assets" /\ MetricOperation(s)

RegisterStep ==
  /\ \E s \in Sessions : Operation(s) \/ ChooseKeys(s) \/ Commit(s) \/ RollBack(s)
  /\ UNCHANGED adminVars

Next ==
  /\ UNCHANGED area
  /\ \/ area \in Registered /\ RegisterStep /\ UNCHANGED facadeState
     \/ AdministrationStep(area) /\ UNCHANGED facadeState
     \/ area = "facade" /\ Facade!FacadeStep /\ UNCHANGED <<storeVars, adminVars>>

Spec == Init /\ [][Next]_vars

(***************************************************************************)
(* Properties.                                                             *)
(***************************************************************************)
\* What every service takes for granted of the facade: scopes and calls are stored
\* whole or not at all, where their profile says, and the outcome says which.
OperationsAreWhole == Facade!OperationsAreWhole

\* The rows below an API, a job or an upstream system are the ones some
\* single request sent, or none, never a mixture of two requests'.
DetailsAreOnePayload ==
  /\ \A row \in db["api_asset"], kind \in RowKinds :
       {r.name : r \in Select(KindTable[kind], [api_code |-> {row.api_code}])}
         \in {{}} \cup {ToSet(names) : names \in ApiRows}
  /\ \A row \in db["push_job"] :
       ToJob(row).fields \in {<<>>} \cup {job.fields : job \in PushJobs}
         \cup UNION {{p.jobs[i].fields : i \in DOMAIN p.jobs} : p \in PushSystems}
  /\ \A row \in db["upstream_system"] :
       LoadUnloadTimes(row.system_pk) \in {p.times : p \in UpstreamSystems}

\* Every job, field, unload time and mapping belongs to a row that is there, and
\* is of the request that sent the others, even when two requests replace the rows
\* at once.  With foreign keys that holds whatever the writes do; without them
\* (DWS) the deletes must name the children themselves, and only a write committed
\* over one it had not seen may leave a child behind, to be adopted by the next
\* row that is given the same key.
ChildrenHaveParents == (foreignKeys \/ ~raced) => Orphans(db) = {} /\ DetailsAreOnePayload

\* What is kept twice agrees, unless writes overlapped, for no constraint says
\* so: a system is described twice, counts are kept beside what they count.
RegistersAgree ==
  /\ \A row \in db["push_system"] :
       /\ row.job_count = LiveJobCount(row)
       /\ \E system \in db["system"] :
            /\ system.system_id = row.master_system_id
            /\ system.system_code = row.system_code /\ system.status = row.status
  /\ \A row \in db["upstream_system"] :
       /\ row.unload_count = Cardinality(LoadUnloadTimes(row.system_pk))
       /\ \E source \in db["data_source"] :
            /\ source.source_id = row.data_source_id
            /\ source.source_code = row.system_id /\ source.status = row.status
  /\ \A row \in db["mapping_table"] :
       /\ row.total = Cardinality(LiveFields(row.table_pk))
       /\ row.mapped = Cardinality({f \in LiveFields(row.table_pk) : f.target # ""})

\* An indicator's ids stand for an asset and a field of that asset, through every
\* edit, ingestion and deletion, overlapping or not.  Only the ids: the names that
\* are stored beside them are those of the day the indicator was written, and no
\* asset that is renamed or deleted since writes them again.
IndicatorsResolve ==
  \A row \in db["indicator_item"] :
    /\ row.source_asset_id # NoReference =>
         \E asset \in db["asset_table"] : asset.asset_id = row.source_asset_id
    /\ row.result_field_id # NoReference =>
         \E field \in db["asset_field"] :
           field.field_id = row.result_field_id /\ field.asset_id = row.source_asset_id

\* And two mappings never have the same business identity.
CopiesAgree ==
  /\ IndicatorsResolve
  /\ ~raced =>
       /\ RegistersAgree
       /\ FieldsAgree
       /\ \A a, b \in db["mapping_table"] : MappingIdentity(a) = MappingIdentity(b) => a = b

\* Sent now, the item would find its mapping and nothing to change in it.
ImportSettled(item, pk) ==
  \A owner \in ImportSourceSystems : owner.system_pk = pk =>
    \E row \in ImportTables(owner, item) : ~Prepared(owner, item, {row}).changed

\* A request that was answered, sent again, finds nothing to change: neither an
\* import of mappings nor an ingestion of assets.
ReplayChangesNothing ==
  [][\A s \in Sessions :
       session[s].request # <<>> /\ session'[s] = Idle /\ ~session[s].late /\ Commit(s) =>
         /\ \A request \in {session[s].request} :
              request[1] = "import" => ImportSettled(request[2], request[3])'
         /\ session[s].request[1] = "ingest" =>
              \A item \in ToSet(session[s].request[2]) : IsUnchanged(item)']_vars
=============================================================================
