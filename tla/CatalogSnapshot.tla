--------------------------- MODULE CatalogSnapshot ---------------------------
(***************************************************************************)
(* CatalogSnapshotService: frozen copies of the catalogue, issued under a  *)
(* lease to an indexing workload and read back page by page.               *)
(*                                                                         *)
(* Requests run on the threads of the web server.  A lease is issued under *)
(* the non-blocking capture lock; the store of snapshots has a lock of its *)
(* own, held for each look-up, insertion and removal but for nothing else. *)
(* Authorization is read from the database, one fact after another, with   *)
(* no lock at all: a role, a policy setting or a clock may change between  *)
(* any two steps.  Every step below is one such read, or one critical      *)
(* section of the store lock.                                              *)
(*                                                                         *)
(* A snapshot is the record the service freezes: `fence', the facts the    *)
(* issue was authorized by; `deadline' on the monotonic clock; `expires'   *)
(* on the wall clock, which may be set back; `size'.  Documents, cursors   *)
(* and proofs are left out: a caller that holds a lease presents its proof *)
(* and binding, and one that does not is turned away before any state is   *)
(* read.  The two queries, read_page and confirm_manifest, are alike here. *)
(***************************************************************************)
EXTENDS Integers, FiniteSets, FiniteSetsExt, Functions, Sequences

CONSTANTS
    Issuers,         \* threads that issue leases
    Readers,         \* threads that serve a workload
    None,            \* holder of the free capture lock
    NumFacts,        \* facts an authorization reads: subjects, policy, database
    Values,          \* the values of a fact that grant access
    Denied,          \* the value of a fact that does not
    MaxSnapshots,    \* max_snapshots
    MaxBytes,        \* max_bytes, of one snapshot and of all of them
    Sizes,           \* sizes of a captured catalogue
    TTLs,            \* ttl_seconds
    CaptureTimeout,  \* capture_timeout
    Skews,           \* how far the wall clock may be from the monotonic one
    MaxTime,         \* bound: ticks of the monotonic clock
    MaxChanges,      \* bound: changes of a fact, settings of the wall clock
    MaxIds           \* bound: snapshots inserted

ASSUME SnapshotAssumption ==
    /\ NumFacts \in Nat \ {0} /\ Denied \notin Values
    /\ None \notin Issuers /\ Issuers \cap Readers = {}
    /\ MaxSnapshots \in Nat \ {0} /\ MaxBytes \in Nat
    /\ Sizes \subseteq Nat /\ TTLs \subseteq Nat \ {0} /\ CaptureTimeout \in Nat
    /\ Skews \subseteq Int /\ 0 \in Skews
    /\ MaxTime \in Nat /\ MaxChanges \in Nat /\ MaxIds \in Nat

VARIABLES
    facts,       \* what the database and the settings say now
    changes,     \* how often they, or the wall clock, were changed
    mono,        \* the monotonic clock
    skew,        \* wall clock minus monotonic clock
    snap,        \* every snapshot ever frozen, by its id
    store,       \* ids of those retained (_snapshots)
    capturing,   \* holder of the capture lock
    draft,       \* what an issuer has gathered for its snapshot
    call,        \* the call each thread is in
    leased,      \* ids whose lease was returned
    refused      \* ids some check refused for the caller's authorization

world == <<facts, changes, mono, skew>>
vars == <<facts, changes, mono, skew, snap, store, capturing, draft, call,
          leased, refused>>

-----------------------------------------------------------------------------
(* State *)

Callers == Issuers \cup Readers
FactIds == 1..NumFacts

\* The uses of `_check'; `issue' reads the facts in a "first" and a "second" round
\* of its own.
CheckRounds == {"issued", "lookup", "final"}

Idle == [pc |-> "idle", round |-> "first", id |-> 0, seen |-> <<>>,
         built |-> 0, fresh |-> {}]
NoDraft == [ttl |-> 0, captureBy |-> 0, deadline |-> 0, expires |-> 0,
            size |-> 0, fence |-> <<>>]

Wall == mono + skew
Bytes(ids) == MapThenSumSet(LAMBDA id : snap[id].size, ids)

Init ==
    /\ facts \in [FactIds -> Values] /\ changes = 0
    /\ mono = 0 /\ skew = 0
    /\ snap = <<>> /\ store = {} /\ leased = {} /\ refused = {}
    /\ capturing = None
    /\ draft = [i \in Issuers |-> NoDraft]
    /\ call = [p \in Callers |-> Idle]

-----------------------------------------------------------------------------
(* The world outside *)

\* The deadline of the monotonic clock is what a wall clock set back cannot undo.
Expired(s) == Wall >= s.expires \/ mono >= s.deadline

Tick ==
    /\ mono < MaxTime
    /\ mono' = mono + 1
    /\ UNCHANGED <<facts, changes, skew, snap, store, capturing, draft, call,
                   leased, refused>>

SetWallClock ==
    /\ changes < MaxChanges
    /\ skew' \in Skews \ {skew}
    /\ changes' = changes + 1
    /\ UNCHANGED <<facts, mono, snap, store, capturing, draft, call,
                   leased, refused>>

\* The facts of the lease that hold at this instant.
Current(id, now) == {f \in FactIds : now[f] = snap[id].fence[f]}

\* An administrator changes a role, a permission or a policy.  A reader that
\* has built its page notes the facts that came to hold since (history).
SetFact(f, v) ==
    /\ changes < MaxChanges /\ facts[f] # v
    /\ facts' = [facts EXCEPT ![f] = v]
    /\ changes' = changes + 1
    /\ call' = [p \in Callers |->
                  IF call[p].round = "final"
                  THEN [call[p] EXCEPT !.fresh = @ \cup Current(call[p].id, facts')]
                  ELSE call[p]]
    /\ UNCHANGED <<mono, skew, snap, store, capturing, draft, leased, refused>>

-----------------------------------------------------------------------------
(* Helpers of the calls *)

At(p, pc) == call[p].pc = pc
Goto(p, pc) == call' = [call EXCEPT ![p].pc = pc]
Authorize(p, round) ==
    call' = [call EXCEPT ![p].pc = "auth", ![p].round = round, ![p].seen = <<>>]

\* A raised SnapshotError: an issuer runs its `finally', a reader answers.
Raise(p) ==
    IF p \in Issuers THEN Goto(p, "fail") ELSE call' = [call EXCEPT ![p] = Idle]

\* _prune: what the store keeps of its snapshots.
Pruned == {id \in store : ~Expired(snap[id])}

CaptureLockIsFree == capturing = None

-----------------------------------------------------------------------------
(* _current_authorization: the facts are read one after the other *)

ReadFact(p) ==
    LET f == Len(call[p].seen) + 1 IN
    /\ At(p, "auth") /\ f \in FactIds
    /\ facts[f] \in Values
    /\ call' = [call EXCEPT ![p].seen = Append(@, facts[f])]
    /\ UNCHANGED <<world, snap, store, capturing, draft, leased, refused>>

\* The fact denies access, or the database cannot be read: both are a
\* SnapshotError, and in `_check' both revoke.
AuthorizationFails(p) ==
    /\ At(p, "auth") /\ Len(call[p].seen) < NumFacts
    /\ IF call[p].round \in CheckRounds THEN Goto(p, "refuse") ELSE Goto(p, "fail")
    /\ UNCHANGED <<world, snap, store, capturing, draft, leased, refused>>

Authorized(p, round) ==
    At(p, "auth") /\ call[p].round = round /\ Len(call[p].seen) = NumFacts

-----------------------------------------------------------------------------
(* issue *)

\* An issuer that finds the lock held is told SNAPSHOT_BUSY, and changes nothing.
Acquire(i, ttl) ==
    /\ At(i, "idle") /\ CaptureLockIsFree
    /\ Cardinality(DOMAIN snap) < MaxIds
    /\ capturing' = i
    /\ draft' = [draft EXCEPT ![i].ttl = ttl, ![i].captureBy = mono + CaptureTimeout]
    /\ Authorize(i, "first")
    /\ UNCHANGED <<world, snap, store, leased, refused>>

\* Room is looked for before the capture; captured_at and the deadline are
\* read before it too, so a slow capture eats into the lease.
Reserve(i) ==
    /\ Authorized(i, "first")
    /\ store' = Pruned
    /\ IF Cardinality(store') >= MaxSnapshots
       THEN Goto(i, "fail") /\ UNCHANGED draft
       ELSE /\ draft' = [draft EXCEPT ![i].fence = call[i].seen,
                                      ![i].expires = Wall + draft[i].ttl,
                                      ![i].deadline = mono + draft[i].ttl]
            /\ Goto(i, "capture")
    /\ UNCHANGED <<world, snap, capturing, leased, refused>>

Capture(i, size) ==
    /\ At(i, "capture")
    /\ mono < draft[i].captureBy /\ size <= MaxBytes
    /\ draft' = [draft EXCEPT ![i].size = size]
    /\ Authorize(i, "second")
    /\ UNCHANGED <<world, snap, store, capturing, leased, refused>>

\* A capture times out, exceeds a limit, or cannot read the catalogue.
CaptureFails(i) ==
    /\ At(i, "capture")
    /\ Goto(i, "fail")
    /\ UNCHANGED <<world, snap, store, capturing, draft, leased, refused>>

\* The same facts again, or SNAPSHOT_POLICY_CHANGED; then the id is drawn.
Freeze(i) ==
    LET d == draft[i]
        id == Cardinality(DOMAIN snap) + 1
    IN
    /\ Authorized(i, "second")
    /\ IF call[i].seen # d.fence
       THEN Goto(i, "fail") /\ UNCHANGED snap
       ELSE /\ snap' = Append(snap, [fence |-> d.fence, deadline |-> d.deadline,
                                     expires |-> d.expires, size |-> d.size])
            /\ call' = [call EXCEPT ![i].pc = "insert", ![i].id = id]
    /\ UNCHANGED <<world, store, capturing, draft, leased, refused>>

Insert(i) ==
    LET id == call[i].id IN
    /\ At(i, "insert")
    /\ IF Expired(snap[id]) \/ Bytes(Pruned) + snap[id].size > MaxBytes
       THEN store' = Pruned /\ Goto(i, "fail")
       ELSE /\ store' = Pruned \cup {id}
            /\ call' = [call EXCEPT ![i].pc = "time", ![i].round = "issued"]
    /\ UNCHANGED <<world, snap, capturing, draft, leased, refused>>

\* Fault: a failed issue releases the lock and leaves its snapshot in the store.
NothingTakenBack(i) ==
    /\ At(i, "fail")
    /\ capturing' = None
    /\ draft' = [draft EXCEPT ![i] = NoDraft]
    /\ call' = [call EXCEPT ![i] = Idle]
    /\ UNCHANGED <<world, snap, store, leased, refused>>

\* `finally': what was inserted is taken back, and the lock is released.
GiveUp(i) ==
    /\ At(i, "fail")
    /\ store' = store \ {call[i].id}
    /\ capturing' = None
    /\ draft' = [draft EXCEPT ![i] = NoDraft]
    /\ call' = [call EXCEPT ![i] = Idle]
    /\ UNCHANGED <<world, snap, leased, refused>>

ReturnLease(i) ==
    /\ At(i, "stored") /\ i \in Issuers /\ call[i].id \in store
    /\ leased' = leased \cup {call[i].id}
    /\ capturing' = None
    /\ draft' = [draft EXCEPT ![i] = NoDraft]
    /\ call' = [call EXCEPT ![i] = Idle]
    /\ UNCHANGED <<world, snap, store, refused>>

-----------------------------------------------------------------------------
(* _check *)

\* Fault: the check that follows the page is of the clock and the store alone.
NoFinalAuthorization(p) ==
    /\ At(p, "time")
    /\ IF Expired(snap[call[p].id]) THEN Raise(p)
       ELSE IF call[p].round = "final" THEN Goto(p, "stored")
       ELSE Authorize(p, call[p].round)
    /\ UNCHANGED <<world, snap, store, capturing, draft, leased, refused>>

CheckTime(p) ==
    /\ At(p, "time")
    /\ IF Expired(snap[call[p].id]) THEN Raise(p) ELSE Authorize(p, call[p].round)
    /\ UNCHANGED <<world, snap, store, capturing, draft, leased, refused>>

CheckFence(p) ==
    /\ \E round \in CheckRounds : Authorized(p, round)
    /\ Goto(p, IF call[p].seen = snap[call[p].id].fence THEN "stored" ELSE "refuse")
    /\ UNCHANGED <<world, snap, store, capturing, draft, leased, refused>>

\* "Once observed invalid, this lease can never be revived."
Refuse(p) ==
    /\ At(p, "refuse")
    /\ store' = store \ {call[p].id}
    /\ refused' = refused \cup {call[p].id}
    /\ Raise(p)
    /\ UNCHANGED <<world, snap, capturing, draft, leased>>

\* Fault: the check ends with the authorization and leaves the store alone.
NoFinalStoreTest(p) ==
    /\ At(p, "stored")
    /\ \/ call[p].id \notin store /\ call[p].round # "final" /\ Raise(p)
       \/ call[p].id \in store /\ call[p].round = "lookup" /\ Goto(p, "build")
       \/ call[p].round = "final" /\ Goto(p, "served")
    /\ UNCHANGED <<world, snap, store, capturing, draft, leased, refused>>

CheckStored(p) ==
    /\ At(p, "stored")
    /\ \/ call[p].id \notin store /\ Raise(p)
       \/ call[p].id \in store /\ call[p].round = "lookup" /\ Goto(p, "build")
       \/ call[p].id \in store /\ call[p].round = "final" /\ Goto(p, "served")
    /\ UNCHANGED <<world, snap, store, capturing, draft, leased, refused>>

-----------------------------------------------------------------------------
(* read_page, confirm_manifest, revoke *)

\* Looked up under the store lock; the thread keeps the snapshot after it.
Lookup(r, id) ==
    /\ At(r, "idle") /\ id \in leased \cap store
    /\ call' = [call EXCEPT ![r] = [Idle EXCEPT !.pc = "time", !.round = "lookup",
                                                !.id = id]]
    /\ UNCHANGED <<world, snap, store, capturing, draft, leased, refused>>

\* The page is built from the frozen documents, then everything is checked again.
Build(r) ==
    /\ At(r, "build")
    /\ call' = [call EXCEPT ![r].pc = "time", ![r].round = "final", ![r].built = mono,
                            ![r].fresh = Current(call[r].id, facts)]
    /\ UNCHANGED <<world, snap, store, capturing, draft, leased, refused>>

\* The cursor or the page size is not one of this snapshot.
BadCursor(r) ==
    /\ At(r, "build")
    /\ Raise(r)
    /\ UNCHANGED <<world, snap, store, capturing, draft, leased, refused>>

Reply(r) ==
    /\ At(r, "served")
    /\ call' = [call EXCEPT ![r] = Idle]
    /\ UNCHANGED <<world, snap, store, capturing, draft, leased, refused>>

Revoke(id) ==
    /\ id \in leased \cap store
    /\ store' = store \ {id}
    /\ UNCHANGED <<world, snap, capturing, draft, call, leased, refused>>

-----------------------------------------------------------------------------

Authorization(p) == ReadFact(p) \/ AuthorizationFails(p)
Check(p) == CheckTime(p) \/ CheckFence(p) \/ Refuse(p) \/ CheckStored(p)

Issue(i) ==
    \/ \E ttl \in TTLs : Acquire(i, ttl)
    \/ \E size \in Sizes : Capture(i, size)
    \/ Reserve(i) \/ CaptureFails(i) \/ Freeze(i) \/ Insert(i)
    \/ GiveUp(i) \/ ReturnLease(i)

Read(r) ==
    \/ \E id \in DOMAIN snap : Lookup(r, id)
    \/ Build(r) \/ BadCursor(r) \/ Reply(r)

Environment ==
    \/ Tick \/ SetWallClock
    \/ \E f \in FactIds, v \in Values \cup {Denied} : SetFact(f, v)
    \/ \E id \in DOMAIN snap : Revoke(id)

Next ==
    \/ Environment
    \/ \E p \in Callers : Authorization(p) \/ Check(p)
    \/ \E i \in Issuers : Issue(i)
    \/ \E r \in Readers : Read(r)

Spec == Init /\ [][Next]_vars

-----------------------------------------------------------------------------
(* Properties *)

\* A snapshot some check has refused for its authorization is never served
\* again: not when the role or the setting is put back, and not by a request
\* that had read the facts before they changed.
NeverRevived ==
    [][\A r \in Readers : At(r, "stored") /\ At(r, "served")' => call[r].id \notin refused]_vars

\* A page leaves only if, for each fact of its lease, there was an instant
\* after the page was built at which that fact held; a role withdrawn before
\* is never missed because the request was let in under it.  And no page built
\* at or after the deadline of its lease leaves, even when the wall clock is set
\* back while the lease runs.
ServedIsCurrent ==
    \A r \in Readers : At(r, "served") =>
        /\ call[r].fresh = FactIds
        /\ call[r].built < snap[call[r].id].deadline

\* Every retained snapshot has a lease somebody holds, or its issue is still
\* going on: an issue that fails after the insertion leaves nothing behind that
\* would take the place of another until it expires.
NoOrphan == store \subseteq leased \cup {call[i].id : i \in Issuers}
=============================================================================
