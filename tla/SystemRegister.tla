-------------------------- MODULE SystemRegister --------------------------
(***************************************************************************)
(* The systems data comes from and the systems it is pushed to.            *)
(***************************************************************************)
EXTENDS RegisterStore

-----------------------------------------------------------------------------
(***************************************************************************)
(* The register of upstream systems.  A system is kept twice: a            *)
(* data_source row and an upstream_system row, each with the code and the  *)
(* status; its unload times are rows of their own.  A patch of the status  *)
(* finds the one by key and the other by code.                             *)
(***************************************************************************)
CONSTANTS UpstreamSystems  \* payloads of a system: id, status, option, times

\* A system has finitely many unload times.
ASSUME UpstreamAssumption == \A payload \in UpstreamSystems : IsFiniteSet(payload.times)

UpstreamStatuses == {"enabled", "disabled"}

\* Database type and department come from the common codes.  A code or a
\* name is accepted in place of the value and becomes the value.
OptionAliases == [listed |-> "listed", LISTED |-> "listed"]
NormalizeOption(o) == IF o \in DOMAIN OptionAliases THEN OptionAliases[o] ELSE o

UpstreamChange == Insert("upstream_change_log", [change_id |-> New(0)])

\* A type that is not listed passes only if the system has it already.
UpstreamIsValid(payload, current) ==
  /\ NormalizeOption(payload.option) \in
       {OptionAliases[a] : a \in DOMAIN OptionAliases} \cup {NormalizeOption(c.option) : c \in current}
  /\ payload.status \in UpstreamStatuses
  /\ payload.times # {}

UpstreamRow(code) == Select("upstream_system", [system_id |-> {code}])
LoadUnloadTimes(pk) ==
  {row.unload_time : row \in Select("upstream_unload_time", [system_pk |-> {pk}])}

\* One row for each different time.
InsertTimes(pk, times) ==
  LET ordered == SetToSeq(times)
  IN  [i \in DOMAIN ordered |->
         Insert("upstream_unload_time",
                [time_pk |-> New(i - 1), system_pk |-> pk, unload_time |-> ordered[i]])]

CreateUpstream(s) == \E payload \in UpstreamSystems :
  /\ UpstreamIsValid(payload, {})
  /\ UpstreamRow(payload.id) = {}
  /\ Begin(s, <<"create_system">>,
       <<Insert("data_source", [source_id |-> New(0), source_code |-> payload.id,
                                status |-> payload.status]),
         Insert("upstream_system", [system_pk |-> New(0), data_source_id |-> New(0),
                                    system_id |-> payload.id, status |-> payload.status,
                                    option |-> NormalizeOption(payload.option),
                                    unload_count |-> Cardinality(payload.times)])>>
       \o InsertTimes(New(0), payload.times) \o <<UpstreamChange>>, {})

UpdateUpstream(s) == \E row \in db["upstream_system"], payload \in UpstreamSystems :
  /\ UpstreamIsValid(payload, {row})
  /\ payload.id # row.system_id => UpstreamRow(payload.id) = {}
  /\ Begin(s, <<"update_system">>,
       <<Update("data_source", [source_id |-> {row.data_source_id}],
                [source_code |-> payload.id, status |-> payload.status]),
         Update("upstream_system", [system_pk |-> {row.system_pk}],
                [system_id |-> payload.id, status |-> payload.status,
                 option |-> NormalizeOption(payload.option),
                 unload_count |-> Cardinality(payload.times)]),
         Delete("upstream_unload_time", [system_pk |-> {row.system_pk}])>>
       \o InsertTimes(row.system_pk, payload.times) \o <<UpstreamChange>>, {})

PatchStatus(s) == \E row \in db["upstream_system"], status \in UpstreamStatuses :
  Begin(s, <<"patch_status">>,
        <<Update("upstream_system", [system_pk |-> {row.system_pk}], [status |-> status]),
          Update("data_source", [source_code |-> {row.system_id}], [status |-> status]),
          UpstreamChange>>, {})

\* Refused while any mapping refers to the system; the data source stays.
DeleteUpstream(s) == \E row \in db["upstream_system"] :
  /\ Select("mapping_table", [upstream_system_id |-> {row.system_pk}]) = {}
  /\ Begin(s, <<"delete_system">>,
       <<Delete("upstream_unload_time", [system_pk |-> {row.system_pk}]),
         Delete("upstream_system", [system_pk |-> {row.system_pk}]), UpstreamChange>>, {})

UpstreamOperation(s) ==
  \/ CreateUpstream(s)
  \/ UpdateUpstream(s)
  \/ PatchStatus(s)
  \/ DeleteUpstream(s)

-----------------------------------------------------------------------------
(***************************************************************************)
(* The register of downstream systems and their push jobs.  A system is    *)
(* kept twice: a row of the master table and a push_system row with its    *)
(* own copy of the code, the status and the number of jobs.                *)
(***************************************************************************)
CONSTANTS PushSystems,  \* payloads of a system: id, status, keeps, jobs (keeps: names no jobs)
          PushJobs      \* payloads of a job: id, option, fields

\* Jobs, and the fields of a job, come in lists.
ASSUME PushAssumption ==
  /\ \A payload \in PushSystems :
       IsList(payload.jobs) /\ \A i \in DOMAIN payload.jobs : IsList(payload.jobs[i].fields)
  /\ \A job \in PushJobs : IsList(job.fields)

EnabledOrDisabled == {"enabled", "disabled"}

\* Delimiter, encoding and frequency of a job come from the common codes;
\* one option stands for the three, and "retired" is one the code tables no
\* longer list.
AllowedOptions == {"listed"}

PushChange == Insert("push_change_log", [change_id |-> New(0)])

(***************************************************************************)
(* Checks of a payload.                                                    *)
(***************************************************************************)
\* An option that is no longer listed passes only if the job has it already.
JobIsValid(job, current) ==
  /\ job.option \in AllowedOptions \cup {c.option : c \in current}
  /\ job.fields # <<>> /\ IsInjective(job.fields)

\* Each job is compared with the stored job of the same id.
SystemIsValid(payload, jobs, stored) ==
  /\ payload.status \in EnabledOrDisabled
  /\ \A i \in DOMAIN jobs : JobIsValid(jobs[i], {c \in stored : c.id = jobs[i].id})
  /\ IsInjective([i \in DOMAIN jobs |-> jobs[i].id])

(***************************************************************************)
(* Reads.                                                                  *)
(***************************************************************************)
PushSystemRow(code) == Select("push_system", [system_code |-> {code}])
LoadJobRows(pk) == Select("push_job", [system_id |-> {pk}])
LoadFieldRows(ids) == Select("push_job_field", [job_id |-> ids])

ToJob(row) ==
  LET rows   == LoadFieldRows({row.job_id})
      fields == SetToSortSeq(rows, LAMBDA f, g : f.field_order < g.field_order)
  IN  [id |-> row.job_code, option |-> row.option,
       fields |-> [i \in 1 .. Cardinality(rows) |-> fields[i].field_name]]

StoredJobs(pk) == {ToJob(row) : row \in LoadJobRows(pk)}

EnsureSystemAbsent(code, but) == \A row \in PushSystemRow(code) : row.system_id = but

EnsureJobAbsent(pk, code, but) ==
  \A row \in LoadJobRows(pk) : row.job_code = code => row.job_id = but

\* What the page of systems shows: jobs are counted there, not read from
\* the column that keeps their number.
LiveJobCount(row) == Cardinality(LoadJobRows(row.system_id))

(***************************************************************************)
(* Statements.                                                             *)
(***************************************************************************)
\* The next key of the field table is read again for each job, before any
\* statement has run.
InsertJobFields(jobId, fields) ==
  [i \in DOMAIN fields |->
     Insert("push_job_field",
            [field_id |-> New(i - 1), job_id |-> jobId, field_name |-> fields[i], field_order |-> i])]

InsertJob(jobId, pk, job) ==
  <<Insert("push_job", [job_id |-> jobId, system_id |-> pk, job_code |-> job.id, option |-> job.option])>>
  \o InsertJobFields(jobId, job.fields)

InsertJobs(pk, jobs) ==
  FlattenSeq([i \in DOMAIN jobs |-> InsertJob(New(i - 1), pk, jobs[i])])

\* Fault: the fields are left to the database.
DeleteJobRows(pk) == <<Delete("push_job", [system_id |-> {pk}])>>

DeleteJobs(pk) ==
  IF LoadJobRows(pk) = {} THEN <<>>
  ELSE <<Delete("push_job_field", [job_id |-> {row.job_id : row \in LoadJobRows(pk)}]),
         Delete("push_job", [system_id |-> {pk}])>>

(***************************************************************************)
(* Operations.                                                             *)
(***************************************************************************)
CreatePushSystem(s) == \E payload \in PushSystems :
  LET jobs == payload.jobs IN
  /\ SystemIsValid(payload, jobs, {})
  /\ EnsureSystemAbsent(payload.id, NoKey)
  /\ Begin(s, <<"create_push_system">>,
       <<Insert("system", [system_id |-> New(0), system_code |-> payload.id, status |-> payload.status]),
         Insert("push_system", [system_id |-> New(0), master_system_id |-> New(0),
                                system_code |-> payload.id, status |-> payload.status,
                                job_count |-> Len(jobs)])>>
       \o InsertJobs(New(0), jobs) \o <<PushChange>>,
       {[table |-> "push_system", where |-> [system_code |-> {payload.id}]]})

UpdatePushSystem(s) == \E row \in db["push_system"], payload \in PushSystems :
  LET pk   == row.system_id
      jobs == IF payload.keeps THEN SetToSeq(StoredJobs(pk)) ELSE payload.jobs
  IN
  /\ SystemIsValid(payload, jobs, StoredJobs(pk))
  /\ EnsureSystemAbsent(payload.id, pk)
  /\ Begin(s, <<"update_push_system">>,
       <<Update("system", [system_id |-> {row.master_system_id}],
                [system_code |-> payload.id, status |-> payload.status]),
         Update("push_system", [system_id |-> {pk}],
                [system_code |-> payload.id, status |-> payload.status, job_count |-> Len(jobs)])>>
       \o DeleteJobs(pk) \o InsertJobs(pk, jobs) \o <<PushChange>>,
       {[table |-> "push_system", where |-> [system_code |-> {payload.id}]]})

\* The row of the master table stays.
DeletePushSystem(s) == \E row \in db["push_system"] :
  Begin(s, <<"delete_push_system">>,
        <<PushChange>> \o DeleteJobs(row.system_id)
        \o <<Delete("push_system", [system_id |-> {row.system_id}])>>, {})

CreatePushJob(s) == \E row \in db["push_system"], job \in PushJobs :
  /\ JobIsValid(job, {})
  /\ EnsureJobAbsent(row.system_id, job.id, NoKey)
  /\ Begin(s, <<"create_push_job">>,
       InsertJob(New(0), row.system_id, job) \o <<Recount(row.system_id), PushChange>>,
       {[table |-> "push_system", where |-> [system_code |-> {row.system_code}]]})

UpdatePushJob(s) == \E row \in db["push_system"], job \in PushJobs :
  \E old \in LoadJobRows(row.system_id) :
  /\ JobIsValid(job, {ToJob(old)})
  /\ EnsureJobAbsent(row.system_id, job.id, old.job_id)
  /\ Begin(s, <<"update_push_job">>,
       <<Update("push_job", [job_id |-> {old.job_id}], [job_code |-> job.id, option |-> job.option]),
         Delete("push_job_field", [job_id |-> {old.job_id}])>>
       \o InsertJobFields(old.job_id, job.fields) \o <<Recount(row.system_id), PushChange>>,
       {[table |-> "push_system", where |-> [system_code |-> {row.system_code}]],
        [table |-> "push_job", where |-> [system_id |-> {row.system_id}, job_code |-> {job.id}]]})

\* Fault: the system's count is not refreshed.
DeletePushJobUncounted(s) == \E row \in db["push_system"] :
  \E old \in LoadJobRows(row.system_id) :
  Begin(s, <<"delete_push_job">>,
        <<PushChange, Delete("push_job_field", [job_id |-> {old.job_id}]),
          Delete("push_job", [job_id |-> {old.job_id}])>>, {})

DeletePushJob(s) == \E row \in db["push_system"] :
  \E old \in LoadJobRows(row.system_id) :
  Begin(s, <<"delete_push_job">>,
        <<PushChange, Delete("push_job_field", [job_id |-> {old.job_id}]),
          Delete("push_job", [job_id |-> {old.job_id}]), Recount(row.system_id)>>, {})

PushOperation(s) ==
  \/ CreatePushSystem(s)
  \/ UpdatePushSystem(s)
  \/ DeletePushSystem(s)
  \/ CreatePushJob(s)
  \/ UpdatePushJob(s)
  \/ DeletePushJob(s)
=============================================================================
