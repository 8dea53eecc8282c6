--------------------------- MODULE LoginProtection ---------------------------
(***************************************************************************)
(* The limiter of online login attempts (security/login_protection.py)     *)
(* under the login handlers that call it (fastapi/routers/auth.py).  Each  *)
(* handler runs in a thread: it checks, authenticates, and then records    *)
(* what came of it, and each of the limiter's methods reads the clock      *)
(* before it takes the limiter's lock.                                     *)
(***************************************************************************)
EXTENDS Integers, Sequences, FiniteSets, SequencesExt

CONSTANTS
    Key,            \* pairs of a username and a client identity
    Attempt,        \* the handlers' threads
    Window,         \* failure_window_seconds
    Threshold,      \* failure_threshold
    InitialBackoff, \* initial_backoff_seconds
    MaxBackoff,     \* max_backoff_seconds
    Ttl,            \* state_ttl_seconds
    MaxEntries,     \* max_entries
    MaxDelay,       \* bound: the time from a read of the clock to the lock
    MaxTime         \* bound: the end of time

\* LoginProtectionPolicy.__post_init__
ASSUME PolicyAssumption ==
    /\ Window \in Nat \ {0}
    /\ Threshold \in Nat \ {0}
    /\ InitialBackoff \in Nat \ {0}
    /\ MaxBackoff \in Nat /\ MaxBackoff >= InitialBackoff
    /\ Ttl \in Nat \ {0}
    /\ MaxEntries \in Nat \ {0}
ASSUME BoundsAssumption == MaxDelay \in Nat /\ MaxTime \in Nat

VARIABLES
    now,        \* the monotonic clock
    entry,      \* _states: the failures of the keys it holds ...
    order,      \* ... and its order, the key least recently used first
    pc,         \* where each handler is
    key,        \* the pair it was called for
    read        \* the clock as its method has read it

states == <<entry, order>>
vars == <<now, states, pc, key, read>>

Failures == [window : Nat, last : Nat, count : Nat, blocked : Nat]

TypeOK ==
    /\ now \in 0..MaxTime
    /\ DOMAIN entry \subseteq Key
    /\ entry \in [DOMAIN entry -> Failures]
    /\ order \in Seq(Key)
    /\ pc \in [Attempt -> {"idle", "checking", "authenticating", "failing",
                           "succeeding", "counting"}]
    /\ key \in [Attempt -> Key]
    /\ read \in [Attempt -> 0..MaxTime]

Init ==
    /\ now = 0
    /\ entry = [k \in {} |-> 0]
    /\ order = <<>>
    /\ pc = [a \in Attempt |-> "idle"]
    /\ key \in [Attempt -> Key]
    /\ read = [a \in Attempt |-> 0]

\* A method of handler a reads the clock and goes for the lock.
Call(a, method) ==
    /\ pc' = [pc EXCEPT ![a] = method]
    /\ read' = [read EXCEPT ![a] = now]
    /\ UNCHANGED <<now, states>>

\* It has the lock and returns; its reading of the clock goes with it.
Return(a, from, to) ==
    /\ pc[a] = from
    /\ pc' = [pc EXCEPT ![a] = to]
    /\ read' = [read EXCEPT ![a] = 0]
    /\ UNCHANGED <<now, key>>

-----------------------------------------------------------------------------
(* The table                                                               *)

\* _cleanup_expired_locked
Kept(t) ==
    {k \in DOMAIN entry : entry[k].blocked > t \/ t - entry[k].last < Ttl}

\* _reset_window_if_expired_locked
WindowIsOver(k, t) == entry[k].blocked <= t /\ t - entry[k].window >= Window

\* After both, the table still has failures of k.
Known(k, t) == k \in Kept(t) /\ ~WindowIsOver(k, t)

Only(S) == FoldLeft(LAMBDA kept, k : IF k \in S THEN Append(kept, k) ELSE kept, <<>>, order)

Retain(S) ==
    /\ entry' = [k \in S |-> entry[k]]
    /\ order' = Only(S)

\* Fault: popitem(last=True).
EvictedNewest(s) ==
    IF Len(s) >= MaxEntries THEN SubSeq(s, 1, MaxEntries - 1) ELSE s

\* _evict_for_new_entry_locked, of the keys in s
Evicted(s) ==
    IF Len(s) >= MaxEntries
    THEN SubSeq(s, Len(s) - MaxEntries + 2, Len(s))
    ELSE s

\* A doubling for each failure past the threshold, up to the cap.
Doubled(backoff) == IF 2 * backoff < MaxBackoff THEN 2 * backoff ELSE MaxBackoff

Rounds[n \in Nat] == IF n = 0 THEN InitialBackoff ELSE Doubled(Rounds[n - 1])

Backoff(n) == Rounds[n - Threshold]

BlockedUntil(n, t) == IF n >= Threshold THEN t + Backoff(n) ELSE 0

-----------------------------------------------------------------------------
(* The login handler                                                       *)

Begin(a, k) ==
    /\ pc[a] = "idle"
    /\ key' = [key EXCEPT ![a] = k]
    /\ Call(a, "checking")

\* check() of a key without failures
CheckFresh(a) ==
    /\ ~Known(key[a], read[a])
    /\ Return(a, "checking", "authenticating")
    /\ Retain(Kept(read[a]) \ {key[a]})

\* check() of a key with failures; a blocked one is answered 429.
CheckKnown(a) ==
    LET k == key[a]
        t == read[a]
    IN  /\ Known(k, t)
        /\ Return(a, "checking",
                  IF entry[k].blocked > t THEN "idle" ELSE "authenticating")
        /\ entry' = [l \in Kept(t) |-> entry[l]]
        /\ order' = Append(Only(Kept(t) \ {k}), k)

\* authenticate() raised AuthValidationError, returned a user, or raised
\* another AuthError, of which nothing is recorded.
Fail(a) ==
    /\ pc[a] = "authenticating"
    /\ Call(a, "failing")
    /\ UNCHANGED key

Succeed(a) ==
    /\ pc[a] = "authenticating"
    /\ Call(a, "succeeding")
    /\ UNCHANGED key

Unavailable(a) ==
    /\ Return(a, "authenticating", "idle")
    /\ UNCHANGED states

\* record_failure() of a key without failures
RecordFirst(a) ==
    LET k == key[a]
        t == read[a]
        others == Evicted(Only(Kept(t) \ {k}))
        first == [window |-> t, last |-> t, count |-> 1,
                  blocked |-> BlockedUntil(1, t)]
    IN  /\ ~Known(k, t)
        /\ Return(a, "failing", "idle")
        /\ order' = Append(others, k)
        /\ entry' = [l \in {others[i] : i \in DOMAIN others} \cup {k} |->
                        IF l = k THEN first ELSE entry[l]]

\* record_failure() of a key with failures
RecordAgain(a) ==
    LET k == key[a]
        t == read[a]
        n == entry[k].count + 1
    IN  /\ Known(k, t)
        /\ Return(a, "failing", "idle")
        /\ order' = Append(Only(Kept(t) \ {k}), k)
        /\ entry' = [l \in Kept(t) |->
                        IF l = k
                        THEN [entry[k] EXCEPT !.count = n, !.last = t,
                                              !.blocked = BlockedUntil(n, t)]
                        ELSE entry[l]]

RecordSuccess(a) ==
    /\ Return(a, "succeeding", "idle")
    /\ Retain(Kept(read[a]) \ {key[a]})

\* failure_count_for() of a key, by whoever watches the limiter; state_count
\* does no more to the table.
Count(a, k) ==
    /\ pc[a] = "idle"
    /\ key' = [key EXCEPT ![a] = k]
    /\ Call(a, "counting")

FailureCountFor(a) ==
    /\ Return(a, "counting", "idle")
    /\ Retain(IF Known(key[a], read[a]) THEN Kept(read[a])
                                        ELSE Kept(read[a]) \ {key[a]})

\* A thread waits for the lock MaxDelay at most.
Tick ==
    /\ now < MaxTime
    /\ \A a \in Attempt :
          pc[a] \in {"idle", "authenticating"} \/ now - read[a] < MaxDelay
    /\ now' = now + 1
    /\ UNCHANGED <<states, pc, key, read>>

Next ==
    \/ Tick
    \/ \E a \in Attempt :
          \/ \E k \in Key : Begin(a, k) \/ Count(a, k)
          \/ CheckFresh(a) \/ CheckKnown(a)
          \/ Fail(a) \/ Succeed(a) \/ Unavailable(a)
          \/ RecordFirst(a) \/ RecordAgain(a) \/ RecordSuccess(a)
          \/ FailureCountFor(a)

Spec == Init /\ [][Next]_vars

-----------------------------------------------------------------------------
(* Properties                                                              *)

Blocked(k) == k \in DOMAIN entry /\ entry[k].blocked > now

\* The failures of k still count: its block, or its window, is not over.
Counts(k) ==
    /\ k \in DOMAIN entry
    /\ \/ Blocked(k)
       \/ now - entry[k].window < Window /\ now - entry[k].last < Ttl

\* The handler's success clears k, or k makes room for a new key as the one
\* least recently used.
MayForget(k) ==
    \/ \E a \in Attempt : pc[a] = "succeeding" /\ pc'[a] = "idle" /\ key[a] = k
    \/ \E a \in Attempt :
          /\ pc[a] = "failing" /\ pc'[a] = "idle" /\ key[a] # k
          /\ Len(order) >= MaxEntries /\ order[1] = k

\* "Clear only the successful username/client identity pair": failures that
\* still count are neither dropped nor counted down by anything but a success
\* of their own pair or, in a full table, the eviction of the oldest key.  While
\* a key is blocked no handler gets from its check to authenticate(), however
\* late it comes to the lock after it has read the clock; and another failure
\* does not let it in sooner: handlers that overtake one another on the way to
\* the lock cost at most their delay.
FailuresAreRemembered ==
    [][/\ \A k \in Key :
            Counts(k) /\ ~MayForget(k) =>
               k \in DOMAIN entry' /\ entry'[k].count >= entry[k].count
       /\ \A a \in Attempt :
            pc[a] = "checking" /\ pc'[a] = "authenticating" => ~Blocked(key[a])
       /\ \A k \in Key :
            Blocked(k) /\ k \in DOMAIN entry' =>
               entry'[k].blocked >= entry[k].blocked - MaxDelay]_vars

=============================================================================
