-------------------------- MODULE RegistersProofs --------------------------
(***************************************************************************)
(* Proofs about the registers and what they stand on, whatever overlaps:   *)
(* the facade of their transactions, where a scope is stored whole or not  *)
(* at all; the accounts; the caches of the portal; and the asset           *)
(* catalogue, whose ids are for ever and whose columns have owners.        *)
(***************************************************************************)
EXTENDS Registers, SequenceTheorems, FiniteSetTheorems, WellFoundedInduction, TLAPS

-----------------------------------------------------------------------------
(* The inductive invariant *)

Calls == planned.calls
Scoped == planned.scope # "none"
RowsInHand == {r.row : r \in running.conn.rows}

\* The rows of the first m calls.
RowsBelow(m) == UNION {Facade!RowsOfCall(k) : k \in 1 .. m}

PlanOK ==
    /\ Len(Calls) \in Nat /\ DOMAIN Calls = 1 .. Len(Calls)
    /\ \A k \in DOMAIN Calls : Calls[k].rows \in Nat \ {0}

OperationOK ==
    /\ DOMAIN running = {"pc", "at", "row", "read", "conn", "outcome", "doubt"}
    /\ DOMAIN running.conn = {"status", "profile", "made", "pinned", "rows"}
    /\ running.pc \in {"next", "connect", "check", "run", "audit", "record", "commit", "again",
                       "roll_back", "close", "done"}
    /\ running.at \in 1 .. Len(Calls) + 1
    /\ running.pc \in {"connect", "check", "run"} =>
          running.at <= Len(Calls) /\ running.row \in 1 .. Calls[running.at].rows
    /\ running.pc \in {"connect", "check"} => running.row = 1
    /\ running.pc \in {"audit", "record"} => Facade!Audited /\ running.at = Len(Calls) + 1
    /\ running.pc \in {"commit", "again"} \/ (running.pc = "close" /\ running.outcome = "none") =>
          IF Scoped THEN running.at = Len(Calls) + 1 ELSE running.at > 1
    /\ running.conn.status \in {"none", "open", "closed"}

\* What has been decided, and what is known of it.
OutcomeOK ==
    /\ running.outcome = CASE running.pc = "roll_back" -> "error"
                           [] running.pc \in {"close", "done"} -> running.outcome
                           [] OTHER -> "none"
    /\ running.pc = "close" => running.outcome \in {"none", "error"}
    /\ running.pc = "done" => running.outcome \in {"ok", "error"}
    /\ running.doubt \in BOOLEAN

\* A connection is there while it is needed, of the profile the call has read.
ConnectionOK ==
    /\ running.pc \in {"check", "run", "record", "commit", "again", "roll_back", "close"} =>
          Facade!IsOpen
    /\ running.pc = "done" => ~Facade!IsOpen
    /\ running.pc \in {"next", "connect"} /\ Facade!IsOpen => Scoped /\ running.conn.pinned
    /\ running.pc \in {"check", "run"} =>
          running.conn.pinned /\ running.conn.made = running.read
    /\ Scoped /\ running.pc \in {"next", "connect"} /\ running.at > 1 => Facade!IsOpen
    /\ ~Facade!IsOpen => running.conn.rows = {}

\* What the connection would commit.
Before == IF Scoped THEN RowsBelow(running.at - 1) ELSE {}
Unit == IF Scoped THEN Facade!RowsOfPlan ELSE Facade!RowsOfCall(running.at - 1)

HandOK ==
    /\ running.pc \in {"next", "connect", "check", "audit", "record"} => RowsInHand = Before
    /\ running.pc = "run" =>
          RowsInHand = Before \cup ({running.at} \X (1 .. running.row - 1))
    /\ running.pc = "commit" => RowsInHand = Unit
    /\ running.pc = "again" => running.conn.rows = {} \/ RowsInHand = Unit
    /\ running.pc = "close" /\ running.outcome = "none" => running.conn.rows = {}

\* Without a doubt, what is stored is what the calls that ended have written.
Done ==
    CASE running.pc \in {"next", "connect", "check", "run"} -> RowsBelow(running.at - 1)
      [] running.pc = "commit" -> RowsBelow(running.at - 2)
      [] OTHER -> RowsBelow(running.at - 1)

StoredOK ==
    /\ Facade!StoredWhole
    /\ Scoped /\ running.pc \in {"next", "connect", "check", "run", "audit", "record", "commit"} =>
          committed = {} /\ ~running.doubt
    /\ running.pc = "again" => running.doubt
    /\ Scoped /\ running.outcome = "error" /\ ~running.doubt => committed = {}
    /\ /\ Scoped /\ ~running.doubt
       /\ running.outcome = "ok" \/ (running.pc = "close" /\ running.outcome = "none")
       => Facade!StoredRows = Facade!RowsOfPlan
    /\ ~Scoped /\ ~running.doubt /\ running.outcome # "error" => Facade!StoredRows = Done
    /\ ~Scoped /\ running.outcome = "ok" => running.at = Len(Calls) + 1

PlacesOK ==
    /\ \A r \in committed \cup running.conn.rows : r.at = r.meant
    /\ Scoped => \A q, r \in committed \cup running.conn.rows : q.at = r.at
    /\ Scoped /\ running.pc \in {"next", "connect", "check", "run", "audit", "record"} =>
          \A r \in running.conn.rows : r.at = Facade!PlacedAt(running.conn, running.conn.made)

FacadeInv == /\ PlanOK /\ OperationOK /\ OutcomeOK /\ ConnectionOK /\ HandOK
             /\ StoredOK /\ PlacesOK

-----------------------------------------------------------------------------
(* Rows *)

LEMMA RowsOfOne ==
    ASSUME NEW k, NEW x
    PROVE  x \in Facade!RowsOfCall(k) <=> \E i \in 1 .. Calls[k].rows : x = <<k, i>>
BY DEF Facade!RowsOfCall, Calls

LEMMA RowsApart ==
    ASSUME NEW j, NEW k, j # k
    PROVE  Facade!RowsOfCall(j) \cap Facade!RowsOfCall(k) = {}
BY DEF Facade!RowsOfCall

LEMMA RowsBelowNone == RowsBelow(0) = {}
BY DEF RowsBelow

LEMMA RowsBelowNext ==
    ASSUME NEW m \in Nat
    PROVE  RowsBelow(m + 1) = RowsBelow(m) \cup Facade!RowsOfCall(m + 1)
<1>1. 1 .. m + 1 = (1 .. m) \cup {m + 1}
    OBVIOUS
<1> QED BY <1>1 DEF RowsBelow

LEMMA RowsBelowAll ==
    ASSUME PlanOK
    PROVE  Facade!RowsOfPlan = RowsBelow(Len(Calls))
                                 \cup IF Facade!Audited THEN {<<0, 0>>} ELSE {}
BY DEF Facade!RowsOfPlan, RowsBelow, PlanOK, Calls

\* The units of an operation are whole, or nothing of them is.
LEMMA UnitIsUnit ==
    ASSUME PlanOK, IF Scoped THEN TRUE ELSE running.at - 1 \in DOMAIN Calls
    PROVE  Unit \in Facade!Units
BY DEF Facade!Units, Unit, Scoped, Facade!Scoped, Calls

LEMMA UnitsApart ==
    ASSUME NEW u \in Facade!Units, NEW v \in Facade!Units, u # v
    PROVE  u \cap v = {}
<1>1. CASE Facade!Scoped
    BY <1>1 DEF Facade!Units
<1>2. CASE ~Facade!Scoped
    <2>1. PICK j \in DOMAIN planned.calls : u = Facade!RowsOfCall(j)
        BY <1>2 DEF Facade!Units
    <2>2. PICK k \in DOMAIN planned.calls : v = Facade!RowsOfCall(k)
        BY <1>2 DEF Facade!Units
    <2> QED BY <2>1, <2>2, RowsApart
<1> QED BY <1>1, <1>2

LEMMA WholeStays ==
    ASSUME Facade!StoredWhole, UNCHANGED <<planned, committed>>
    PROVE  Facade!StoredWhole'
BY DEF Facade!StoredWhole, Facade!StoredRows, Facade!Units, Facade!Scoped, Facade!RowsOfPlan,
       Facade!RowsOfCall, Facade!Audited

\* What is stored stays whole when a unit is added to it.
LEMMA WholeGrows ==
    ASSUME Facade!StoredWhole, UNCHANGED planned, NEW U \in Facade!Units,
           Facade!StoredRows' = Facade!StoredRows \cup U
    PROVE  Facade!StoredWhole'
<1>1. Facade!Units' = Facade!Units
    BY DEF Facade!Units, Facade!Scoped, Facade!RowsOfPlan, Facade!RowsOfCall, Facade!Audited
<1>2. ASSUME NEW unit \in Facade!Units
      PROVE  unit \cap (Facade!StoredRows \cup U) \in {{}, unit}
    <2>1. unit \cap Facade!StoredRows \in {{}, unit}
        BY DEF Facade!StoredWhole
    <2>2. CASE unit = U
        BY <2>2
    <2>3. CASE unit # U
        BY <2>1, <2>3, UnitsApart
    <2> QED BY <2>2, <2>3
<1> QED BY <1>1, <1>2 DEF Facade!StoredWhole

\* A step keeps the plan, and what is said of it.
LEMMA PlanStays ==
    ASSUME UNCHANGED <<planned, backend>>
    PROVE  /\ PlanOK' <=> PlanOK
           /\ Scoped' <=> Scoped
           /\ Facade!Audited' <=> Facade!Audited
           /\ Facade!RowsOfPlan' = Facade!RowsOfPlan
           /\ \A m : RowsBelow(m)' = RowsBelow(m)
           /\ \A k : Facade!RowsOfCall(k)' = Facade!RowsOfCall(k)
<1>1. /\ PlanOK' <=> PlanOK
      /\ Scoped' <=> Scoped
      /\ Facade!Audited' <=> Facade!Audited
    BY DEF PlanOK, Calls, Scoped, Facade!Audited
<1>2. \A k : Facade!RowsOfCall(k)' = Facade!RowsOfCall(k)
    BY DEF Facade!RowsOfCall
<1>3. Facade!RowsOfPlan' = Facade!RowsOfPlan
    BY DEF Facade!RowsOfPlan, Facade!RowsOfCall, Facade!Audited
<1>4. \A m : RowsBelow(m)' = RowsBelow(m)
    BY DEF RowsBelow, Facade!RowsOfCall
<1> QED BY <1>1, <1>2, <1>3, <1>4

LEMMA RowsStay ==
    ASSUME UNCHANGED planned
    PROVE  /\ Before' = IF Scoped THEN RowsBelow(running'.at - 1) ELSE {}
           /\ Unit' = IF Scoped THEN Facade!RowsOfPlan ELSE Facade!RowsOfCall(running'.at - 1)
           /\ RowsInHand' = {r.row : r \in running'.conn.rows}
           /\ committed' = committed => Facade!StoredRows' = Facade!StoredRows
<1>1. Before' = IF Scoped THEN RowsBelow(running'.at - 1) ELSE {}
    BY DEF Before, RowsBelow, Facade!RowsOfCall, Scoped
<1>2. Unit' = IF Scoped THEN Facade!RowsOfPlan ELSE Facade!RowsOfCall(running'.at - 1)
    BY DEF Unit, Facade!RowsOfPlan, Facade!RowsOfCall, Scoped, Facade!Audited
<1> QED BY <1>1, <1>2 DEF RowsInHand, Facade!StoredRows

LEMMA DoneStays ==
    ASSUME UNCHANGED planned
    PROVE  Done' =
      CASE running'.pc \in {"next", "connect", "check", "run"} -> RowsBelow(running'.at - 1)
        [] running'.pc = "commit" -> RowsBelow(running'.at - 2)
        [] OTHER -> RowsBelow(running'.at - 1)
BY DEF Done, RowsBelow, Facade!RowsOfCall

-----------------------------------------------------------------------------
(* The steps of a call *)

Early == {"next", "connect", "check", "run", "audit", "record"}
Fields == {"pc", "at", "row", "read", "conn", "outcome", "doubt"}
ConnectionFields == {"status", "profile", "made", "pinned", "rows"}

\* A step that neither writes nor commits.
Quiet ==
    /\ UNCHANGED <<planned, backend, committed>>
    /\ running.pc \in Early /\ running'.pc \in Early
    /\ DOMAIN running' = Fields /\ DOMAIN running'.conn = ConnectionFields
    /\ running'.at = running.at
    /\ running'.outcome = running.outcome /\ running'.doubt = running.doubt
    /\ running'.conn.rows = running.conn.rows

LEMMA QuietStep ==
    ASSUME FacadeInv, Quiet
    PROVE  /\ PlanOK' /\ OutcomeOK' /\ StoredOK'
           /\ Before' = Before /\ RowsInHand' = RowsInHand
           /\ \A r \in committed' \cup running'.conn.rows : r.at = r.meant
           /\ Scoped' => \A q, r \in committed' \cup running'.conn.rows : q.at = r.at
<1>1. PlanOK' /\ (Scoped' <=> Scoped)
    BY PlanStays DEF Quiet, FacadeInv
<1>2. OutcomeOK'
    BY DEF Quiet, FacadeInv, OutcomeOK, Early
<1>3. Before' = Before /\ RowsInHand' = RowsInHand
    BY RowsStay DEF Quiet, Before, RowsInHand
<1>4. Facade!StoredRows' = Facade!StoredRows
    BY RowsStay DEF Quiet
<1>5. Facade!StoredWhole'
    BY WholeStays DEF Quiet, FacadeInv, StoredOK
<1>6. ~Scoped => Done' = Done
    BY DoneStays DEF Quiet, Done, Early
<1>7. StoredOK'
    BY <1>1, <1>4, <1>5, <1>6 DEF Quiet, FacadeInv, StoredOK, Early, OutcomeOK
<1> QED BY <1>1, <1>2, <1>3, <1>7 DEF Quiet, FacadeInv, PlacesOK

LEMMA FailKeeps ==
    ASSUME FacadeInv, UNCHANGED <<planned, backend, committed>>, running.pc \in Early,
           running' = Facade!Failed(running)
    PROVE  FacadeInv'
<1>1. /\ running'.pc = IF Facade!IsOpen THEN "roll_back" ELSE "done"
      /\ running'.outcome = "error" /\ running'.at = running.at
      /\ running'.conn = running.conn /\ running'.doubt = running.doubt
      /\ DOMAIN running' = Fields
    BY DEF FacadeInv, OperationOK, Facade!Failed, Facade!IsOpen, Fields
<1>2. /\ PlanOK' /\ (Scoped' <=> Scoped)
    BY PlanStays DEF FacadeInv
<1>3. OperationOK'
    BY <1>1 DEF FacadeInv, OperationOK, Calls, Fields
<1>4. OutcomeOK' /\ ConnectionOK'
    BY <1>1, <1>2 DEF FacadeInv, OutcomeOK, ConnectionOK, Facade!IsOpen
<1>5. HandOK'
    BY <1>1 DEF HandOK
<1>6. Facade!StoredWhole'
    BY WholeStays DEF FacadeInv, StoredOK
<1>7. StoredOK'
    BY <1>1, <1>2, <1>6 DEF FacadeInv, StoredOK, Early
<1>8. PlacesOK'
    BY <1>1, <1>2 DEF FacadeInv, PlacesOK
<1> QED BY <1>2, <1>3, <1>4, <1>5, <1>7, <1>8 DEF FacadeInv

LEMMA GetDbProfileKeeps ==
    ASSUME FacadeInv, Facade!GetDbProfile PROVE FacadeInv'
<1>1. /\ running.pc = "next" /\ running.at <= Len(Calls)
      /\ UNCHANGED <<planned, backend, committed>>
    BY DEF Facade!GetDbProfile, Facade!At, Facade!Untouched, Calls
<1>2. CASE Facade!Fail
    BY <1>1, <1>2, FailKeeps DEF Facade!Fail, Early
<1>3. CASE \E profile : running' = [running EXCEPT !.read = profile, !.row = 1, !.pc = "connect"]
    <2>1. /\ DOMAIN running' = Fields /\ running'.pc = "connect" /\ running'.row = 1
          /\ running'.at = running.at /\ running'.conn = running.conn
          /\ running'.outcome = running.outcome /\ running'.doubt = running.doubt
        BY <1>3 DEF FacadeInv, OperationOK, Fields
    <2>2. Quiet
        BY <1>1, <2>1 DEF Quiet, Early, FacadeInv, OperationOK, ConnectionFields
    <2>3. OperationOK'
        BY <1>1, <2>1 DEF FacadeInv, OperationOK, PlanOK, Calls, Fields
    <2>4. ConnectionOK'
        BY <1>1, <2>1, PlanStays DEF FacadeInv, ConnectionOK, Facade!IsOpen
    <2>5. HandOK'
        BY <1>1, <2>1, <2>2, QuietStep DEF FacadeInv, HandOK
    <2>6. PlacesOK'
        BY <1>1, <2>1, <2>2, QuietStep, PlanStays DEF FacadeInv, PlacesOK, Facade!PlacedAt
    <2> QED BY <2>2, <2>3, <2>4, <2>5, <2>6, QuietStep DEF FacadeInv
<1> QED BY <1>2, <1>3 DEF Facade!GetDbProfile

LEMMA RefuseNestedKeeps ==
    ASSUME FacadeInv, Facade!RefuseNested PROVE FacadeInv'
BY FailKeeps DEF Facade!RefuseNested, Facade!At, Facade!Untouched, Facade!Fail, Early

LEMMA ConnectKeeps ==
    ASSUME FacadeInv, Facade!ConnectWithProfile PROVE FacadeInv'
<1>1. /\ running.pc = "connect" /\ ~Facade!IsOpen
      /\ UNCHANGED <<planned, backend, committed>>
    BY DEF Facade!ConnectWithProfile, Facade!At, Facade!Untouched
<1>2. CASE Facade!Fail
    BY <1>1, <1>2, FailKeeps DEF Facade!Fail, Early
<1>3. ASSUME NEW profile, NEW made, made = running.read,
             running' = [running EXCEPT !.pc = "check",
               !.conn = [status |-> "open", profile |-> profile, made |-> made,
                         pinned |-> TRUE, rows |-> {}]]
      PROVE  FacadeInv'
    <2>1. /\ DOMAIN running' = Fields /\ running'.pc = "check" /\ running'.row = running.row
          /\ running'.at = running.at /\ running'.read = running.read
          /\ running'.outcome = running.outcome /\ running'.doubt = running.doubt
          /\ running'.conn = [status |-> "open", profile |-> profile, made |-> made,
                              pinned |-> TRUE, rows |-> {}]
        BY <1>3 DEF FacadeInv, OperationOK, Fields
    <2>2. /\ DOMAIN running'.conn = ConnectionFields /\ running'.conn.status = "open"
          /\ running'.conn.made = running.read /\ running'.conn.pinned
          /\ running'.conn.rows = {} /\ running.conn.rows = {}
        BY <1>1, <1>3, <2>1 DEF ConnectionFields, FacadeInv, ConnectionOK
    <2>3. Quiet
        BY <1>1, <2>1, <2>2 DEF Quiet, Early
    <2>4. OperationOK'
        BY <1>1, <2>1, <2>2 DEF FacadeInv, OperationOK, Calls, Fields, ConnectionFields
    <2>5. ConnectionOK'
        BY <1>1, <2>1, <2>2 DEF FacadeInv, ConnectionOK, Facade!IsOpen
    <2>6. HandOK'
        BY <1>1, <2>1, <2>3, QuietStep DEF FacadeInv, HandOK
    <2>7. PlacesOK'
        BY <2>2, <2>3, QuietStep DEF FacadeInv, PlacesOK
    <2> QED BY <2>3, <2>4, <2>5, <2>6, <2>7, QuietStep DEF FacadeInv
<1> QED BY <1>2, <1>3 DEF Facade!ConnectWithProfile

\* The pc goes on, nothing else changes.
LEMMA GoesOn ==
    ASSUME FacadeInv, UNCHANGED <<planned, backend, committed>>,
           NEW from, NEW to, <<from, to>> \in {<<"connect", "check">>, <<"check", "run">>},
           running.pc = from, running' = [running EXCEPT !.pc = to],
           Facade!IsOpen, running.conn.pinned, running.conn.made = running.read
    PROVE  FacadeInv'
<1>1. /\ DOMAIN running' = Fields /\ running'.pc = to /\ running'.row = running.row
      /\ running'.at = running.at /\ running'.read = running.read
      /\ running'.outcome = running.outcome /\ running'.doubt = running.doubt
      /\ running'.conn = running.conn
    BY DEF FacadeInv, OperationOK, Fields
<1>2. Quiet
    BY <1>1 DEF Quiet, Early, FacadeInv, OperationOK, ConnectionFields
<1>3. OperationOK'
    BY <1>1 DEF FacadeInv, OperationOK, PlanOK, Calls, Fields
<1>4. ConnectionOK'
    BY <1>1, PlanStays DEF FacadeInv, ConnectionOK, Facade!IsOpen
<1>5. HandOK'
    <2>1. CASE to = "check"
        BY <1>1, <1>2, <2>1, QuietStep DEF FacadeInv, HandOK
    <2>2. CASE to = "run"
        <3>1. running.row = 1 /\ from = "check"
            BY <2>2 DEF FacadeInv, OperationOK
        <3>2. {running.at} \X (1 .. running.row - 1) = {}
            BY <3>1
        <3> QED BY <1>1, <1>2, <2>2, <3>1, <3>2, QuietStep DEF FacadeInv, HandOK
    <2> QED BY <2>1, <2>2
<1>6. PlacesOK'
    BY <1>1, <1>2, QuietStep, PlanStays DEF FacadeInv, PlacesOK, Facade!PlacedAt
<1> QED BY <1>2, <1>3, <1>4, <1>5, <1>6, QuietStep DEF FacadeInv

LEMMA ConnectionForKeeps ==
    ASSUME FacadeInv, Facade!ConnectionFor PROVE FacadeInv'
<1>1. /\ running.pc = "connect" /\ Facade!IsOpen
      /\ UNCHANGED <<planned, backend, committed>>
    BY DEF Facade!ConnectionFor, Facade!At, Facade!Untouched
<1>2. CASE Facade!Fail
    BY <1>1, <1>2, FailKeeps DEF Facade!Fail, Early
<1>3. CASE /\ running.conn.pinned => running.conn.made = running.read
           /\ running' = [running EXCEPT !.pc = "check"]
    <2>1. running.conn.pinned
        BY <1>1 DEF FacadeInv, ConnectionOK
    <2> QED BY <1>1, <1>3, <2>1, GoesOn
<1> QED BY <1>2, <1>3 DEF Facade!ConnectionFor

LEMMA ValidateKeeps ==
    ASSUME FacadeInv, Facade!ValidateConnectionTarget PROVE FacadeInv'
<1>1. /\ running.pc = "check" /\ UNCHANGED <<planned, backend, committed>>
      /\ Facade!IsOpen /\ running.conn.pinned /\ running.conn.made = running.read
    BY DEF Facade!ValidateConnectionTarget, Facade!At, Facade!Untouched, FacadeInv, ConnectionOK
<1>2. CASE Facade!Fail
    BY <1>1, <1>2, FailKeeps DEF Facade!Fail, Early
<1>3. CASE running' = [running EXCEPT !.pc = "run"]
    BY <1>1, <1>3, GoesOn
<1> QED BY <1>2, <1>3 DEF Facade!ValidateConnectionTarget

\* A statement writes where the profile says that its call has read.
LEMMA StatementPlaced ==
    ASSUME FacadeInv, running.pc = "run"
    PROVE  LET place == Facade!PlacedAt(running.conn, running.read) IN
           /\ place = Facade!PlacedAt(running.conn, running.conn.made)
           /\ [place EXCEPT !.database = running.read.database] = place
BY DEF FacadeInv, ConnectionOK, Facade!PlacedAt

\* What a statement leaves in hand.
Adds(w) ==
    /\ UNCHANGED <<planned, backend, committed>>
    /\ running'.conn.rows = running.conn.rows \cup {w}
    /\ DOMAIN running' = Fields /\ DOMAIN running'.conn = ConnectionFields
    /\ running'.conn.status = running.conn.status /\ running'.conn.made = running.conn.made
    /\ running'.conn.pinned = running.conn.pinned
    /\ running'.outcome = running.outcome /\ running'.doubt = running.doubt
    /\ running'.read = running.read

LEMMA AddsKeepsPlaces ==
    ASSUME FacadeInv, running.pc \in {"run", "record"}, NEW w, Adds(w), w.at = w.meant,
           w.at = Facade!PlacedAt(running.conn, running.conn.made)
    PROVE  PlacesOK' /\ RowsInHand' = RowsInHand \cup {w.row}
<1>1. Scoped' <=> Scoped
    BY PlanStays DEF Adds
<1>2. committed' \cup running'.conn.rows = (committed \cup running.conn.rows) \cup {w}
    BY DEF Adds
<1>3. \A r \in committed' \cup running'.conn.rows : r.at = r.meant
    BY <1>2 DEF FacadeInv, PlacesOK
<1>4. Facade!PlacedAt(running.conn, running.conn.made)' =
          Facade!PlacedAt(running.conn, running.conn.made)
    BY DEF Facade!PlacedAt, Adds
<1>5. Scoped => committed = {} /\ \A r \in running.conn.rows : r.at = w.at
    BY DEF FacadeInv, PlacesOK, StoredOK
<1>6. Scoped => \A r \in committed' \cup running'.conn.rows : r.at = w.at
    BY <1>2, <1>5
<1>7. PlacesOK'
    BY <1>1, <1>3, <1>4, <1>6 DEF PlacesOK
<1>8. RowsInHand' = RowsInHand \cup {w.row}
    BY DEF RowsInHand, Adds
<1> QED BY <1>7, <1>8

LEMMA RunStatementKeeps ==
    ASSUME FacadeInv, Facade!RunStatement PROVE FacadeInv'
<1>1. /\ running.pc = "run" /\ UNCHANGED <<planned, backend, committed>>
      /\ running.at \in 1 .. Len(Calls) /\ running.row \in 1 .. Calls[running.at].rows
      /\ Facade!IsOpen /\ running.conn.pinned /\ running.conn.made = running.read
      /\ Len(Calls) \in Nat /\ Calls[running.at].rows \in Nat
    BY DEF Facade!RunStatement, Facade!At, Facade!Untouched, FacadeInv, ConnectionOK, OperationOK,
           PlanOK
<1>2. CASE Facade!Fail
    BY <1>1, <1>2, FailKeeps DEF Facade!Fail, Early
<1>3. ASSUME NEW w, w.row = <<running.at, running.row>>, w.at = w.meant,
             w.at = Facade!PlacedAt(running.conn, running.conn.made),
             running.row < Calls[running.at].rows,
             running' = [running EXCEPT !.conn.rows = @ \cup {w}, !.row = @ + 1]
      PROVE  FacadeInv'
    <2>1. /\ running'.pc = "run" /\ running'.at = running.at /\ running'.row = running.row + 1
          /\ Adds(w)
        BY <1>1, <1>3 DEF Adds, FacadeInv, OperationOK, Fields, ConnectionFields
    <2>2. PlacesOK' /\ RowsInHand' = RowsInHand \cup {<<running.at, running.row>>}
        BY <1>1, <1>3, <2>1, AddsKeepsPlaces
    <2>3. OperationOK'
        BY <1>1, <1>3, <2>1 DEF Adds, FacadeInv, OperationOK, PlanOK, Calls, Fields,
            ConnectionFields
    <2>4. OutcomeOK' /\ ConnectionOK'
        BY <1>1, <2>1, PlanStays DEF Adds, FacadeInv, OutcomeOK, ConnectionOK, Facade!IsOpen
    <2>5. HandOK'
        <3>1. RowsInHand = Before \cup ({running.at} \X (1 .. running.row - 1))
            BY <1>1 DEF FacadeInv, HandOK
        <3>2. ({running.at} \X (1 .. running.row - 1)) \cup {<<running.at, running.row>>}
                = {running.at} \X (1 .. running.row)
            BY <1>1
        <3>3. Before' = Before
            BY <1>1, <2>1, RowsStay DEF Before
        <3>4. RowsInHand' = Before' \cup ({running'.at} \X (1 .. running'.row - 1))
            BY <1>1, <2>1, <2>2, <3>1, <3>2, <3>3
        <3> QED BY <2>1, <3>4 DEF HandOK
    <2>6. StoredOK'
        <3>1. Facade!StoredRows' = Facade!StoredRows
            BY <1>1, RowsStay
        <3>2. Done' = Done
            BY <1>1, <2>1, DoneStays DEF Done
        <3> QED BY <1>1, <2>1, <3>1, <3>2, WholeStays, PlanStays
                DEF Adds, FacadeInv, StoredOK, OutcomeOK
    <2> QED BY <1>1, <2>2, <2>3, <2>4, <2>5, <2>6, PlanStays DEF FacadeInv
<1>4. ASSUME NEW w, w.row = <<running.at, running.row>>, w.at = w.meant,
             w.at = Facade!PlacedAt(running.conn, running.conn.made),
             ~(running.row < Calls[running.at].rows),
             running' = [running EXCEPT !.conn.rows = @ \cup {w}, !.row = @ + 1, !.at = @ + 1,
                                        !.pc = IF Scoped THEN "next" ELSE "commit"]
      PROVE  FacadeInv'
    <2>1. /\ running'.pc = IF Scoped THEN "next" ELSE "commit"
          /\ running'.at = running.at + 1 /\ Adds(w)
        BY <1>1, <1>4 DEF Adds, FacadeInv, OperationOK, Fields, ConnectionFields
    <2>2. PlacesOK' /\ RowsInHand' = RowsInHand \cup {<<running.at, running.row>>}
        BY <1>1, <1>4, <2>1, AddsKeepsPlaces
    <2>3. Scoped' <=> Scoped
        BY <1>1, PlanStays
    <2>4. OperationOK'
        BY <1>1, <2>1, <2>3 DEF Adds, FacadeInv, OperationOK, PlanOK, Calls, Fields,
            ConnectionFields
    <2>5. OutcomeOK' /\ ConnectionOK'
        BY <1>1, <2>1, <2>3 DEF Adds, FacadeInv, OutcomeOK, ConnectionOK, Facade!IsOpen
    <2>6. RowsBelow(running.at) = RowsBelow(running.at - 1) \cup Facade!RowsOfCall(running.at)
        <3>1. running.at - 1 \in Nat /\ (running.at - 1) + 1 = running.at
            BY <1>1
        <3> QED BY <3>1, RowsBelowNext
    <2>7. HandOK'
        <3>1. RowsInHand = Before \cup ({running.at} \X (1 .. running.row - 1))
            BY <1>1 DEF FacadeInv, HandOK
        <3>2. ({running.at} \X (1 .. running.row - 1)) \cup {<<running.at, running.row>>}
                = Facade!RowsOfCall(running.at)
            BY <1>1, <1>4 DEF Facade!RowsOfCall, Calls
        <3>3. RowsInHand' = Before \cup Facade!RowsOfCall(running.at)
            BY <2>2, <3>1, <3>2
        <3>4. CASE Scoped
            <4>1. Before' = RowsBelow(running.at)
                BY <1>1, <2>1, <3>4, RowsStay
            <4> QED BY <2>1, <2>6, <3>3, <3>4, <4>1 DEF HandOK, Before
        <3>5. CASE ~Scoped
            <4>1. Unit' = Facade!RowsOfCall(running.at)
                BY <1>1, <2>1, <3>5, RowsStay
            <4> QED BY <2>1, <3>3, <3>5, <4>1 DEF HandOK, Before
        <3> QED BY <3>4, <3>5
    <2>8. StoredOK'
        <3>1. Facade!StoredRows' = Facade!StoredRows
            BY <1>1, RowsStay
        <3>2. ~Scoped => Done' = Done
            BY <1>1, <2>1, DoneStays DEF Done
        <3> QED BY <1>1, <2>1, <2>3, <3>1, <3>2, WholeStays
                DEF Adds, FacadeInv, StoredOK, OutcomeOK
    <2> QED BY <1>1, <2>2, <2>4, <2>5, <2>7, <2>8, PlanStays DEF FacadeInv
<1>5. CASE ~Facade!Fail
    <2> DEFINE place == Facade!PlacedAt(running.conn, running.read)
               w == [row |-> <<running.at, running.row>>, at |-> place,
                     meant |-> [place EXCEPT !.database = running.read.database]]
    <2>1. /\ w.row = <<running.at, running.row>> /\ w.at = w.meant
          /\ w.at = Facade!PlacedAt(running.conn, running.conn.made)
        BY <1>1, StatementPlaced
    <2>2. running' = IF running.row < Calls[running.at].rows
                     THEN [running EXCEPT !.conn.rows = @ \cup {w}, !.row = @ + 1]
                     ELSE [running EXCEPT !.conn.rows = @ \cup {w}, !.row = @ + 1, !.at = @ + 1,
                                          !.pc = IF Scoped THEN "next" ELSE "commit"]
        BY <1>5 DEF Facade!RunStatement, Facade!Call, Calls, Facade!AfterCall, Facade!Scoped,
            Scoped, FacadeInv, OperationOK
    <2> HIDE DEF w
    <2> QED BY <1>3, <1>4, <2>1, <2>2
<1> QED BY <1>2, <1>5

-----------------------------------------------------------------------------
(* The end of a scope *)

LEMMA EndCallsKeeps ==
    ASSUME FacadeInv, Facade!EndCalls PROVE FacadeInv'
<1>1. /\ running.pc = "next" /\ running.at = Len(Calls) + 1 /\ Len(Calls) \in Nat
      /\ UNCHANGED <<planned, backend, committed>>
    BY DEF Facade!EndCalls, Facade!At, Facade!Untouched, Calls, FacadeInv, OperationOK, PlanOK
<1>2. RowsInHand = Before /\ running.outcome = "none"
    BY <1>1 DEF FacadeInv, HandOK, OutcomeOK
<1>3. Scoped' <=> Scoped
    BY <1>1, PlanStays
<1>4. CASE Facade!Audited /\ running' = [running EXCEPT !.pc = "audit"]
    <2>1. /\ DOMAIN running' = Fields /\ running'.pc = "audit"
          /\ running'.at = running.at /\ running'.conn = running.conn
          /\ running'.outcome = running.outcome /\ running'.doubt = running.doubt
        BY <1>4 DEF FacadeInv, OperationOK, Fields
    <2>2. Quiet
        BY <1>1, <2>1 DEF Quiet, Early, FacadeInv, OperationOK, ConnectionFields
    <2>3. OperationOK'
        BY <1>1, <1>4, <2>1, PlanStays DEF FacadeInv, OperationOK, Calls, Fields
    <2>4. ConnectionOK' /\ HandOK'
        BY <1>2, <2>1, <2>2, QuietStep DEF FacadeInv, ConnectionOK, Facade!IsOpen, HandOK
    <2>5. PlacesOK'
        BY <1>1, <1>3, <2>1, <2>2, QuietStep DEF FacadeInv, PlacesOK, Facade!PlacedAt
    <2> QED BY <2>2, <2>3, <2>4, <2>5, QuietStep DEF FacadeInv
<1>5. CASE ~Facade!Audited /\ Facade!IsOpen /\ running' = [running EXCEPT !.pc = "commit"]
    <2>1. /\ DOMAIN running' = Fields /\ running'.pc = "commit"
          /\ running'.at = running.at /\ running'.conn = running.conn
          /\ running'.outcome = running.outcome /\ running'.doubt = running.doubt
        BY <1>5 DEF FacadeInv, OperationOK, Fields
    <2>2. Scoped
        BY <1>1, <1>5 DEF FacadeInv, ConnectionOK
    <2>3. OperationOK' /\ OutcomeOK' /\ ConnectionOK'
        BY <1>1, <1>2, <1>3, <1>5, <2>1, <2>2 DEF FacadeInv, OperationOK, OutcomeOK, ConnectionOK,
            Facade!IsOpen, Calls, Fields
    <2>4. HandOK'
        <3>1. RowsInHand' = RowsInHand
            BY <2>1 DEF RowsInHand
        <3>2. Unit' = Facade!RowsOfPlan
            BY <1>1, <2>2, RowsStay
        <3>3. Before = RowsBelow(Len(Calls))
            BY <1>1, <2>2 DEF Before
        <3> QED BY <1>2, <1>5, <2>1, <3>1, <3>2, <3>3, RowsBelowAll DEF HandOK, FacadeInv
    <2>5. StoredOK'
        BY <1>1, <1>2, <1>3, <2>1, <2>2, WholeStays, RowsStay DEF FacadeInv, StoredOK
    <2>6. PlacesOK'
        BY <1>1, <1>3, <2>1 DEF FacadeInv, PlacesOK
    <2> QED BY <1>1, <2>3, <2>4, <2>5, <2>6, PlanStays DEF FacadeInv
<1>6. CASE /\ ~Facade!Audited /\ ~Facade!IsOpen
           /\ running' = [running EXCEPT !.pc = "done", !.outcome = "ok"]
    <2>1. /\ DOMAIN running' = Fields /\ running'.pc = "done" /\ running'.outcome = "ok"
          /\ running'.at = running.at /\ running'.conn = running.conn
          /\ running'.doubt = running.doubt
        BY <1>6 DEF FacadeInv, OperationOK, Fields
    <2>2. OperationOK' /\ OutcomeOK' /\ ConnectionOK'
        BY <1>1, <1>2, <1>3, <1>6, <2>1 DEF FacadeInv, OperationOK, OutcomeOK, ConnectionOK,
            Facade!IsOpen, Calls, Fields
    <2>3. HandOK'
        BY <2>1 DEF HandOK
    <2>4. Facade!StoredRows' = Facade!StoredRows
        BY <1>1, RowsStay
    <2>5. StoredOK'
        <3>1. CASE Scoped
            <4>1. Len(Calls) = 0
                BY <1>1, <1>6, <3>1 DEF FacadeInv, ConnectionOK
            <4>2. Facade!RowsOfPlan = {}
                BY <1>6, <4>1, RowsBelowAll, RowsBelowNone DEF FacadeInv
            <4>3. committed = {}
                BY <1>1, <3>1 DEF FacadeInv, StoredOK
            <4>4. Facade!StoredRows = {}
                BY <4>3 DEF Facade!StoredRows
            <4>5. Facade!RowsOfPlan' = {}
                BY <1>1, <4>2, PlanStays
            <4> QED BY <1>1, <1>3, <2>1, <2>4, <3>1, <4>4, <4>5, WholeStays
                    DEF FacadeInv, StoredOK
        <3>2. CASE ~Scoped
            <4>1. Done' = Done
                BY <1>1, <2>1, DoneStays DEF Done
            <4>2. Len(Calls)' = Len(Calls)
                BY <1>1 DEF Calls
            <4> QED BY <1>1, <1>2, <1>3, <2>1, <2>4, <3>2, <4>1, <4>2, WholeStays
                    DEF FacadeInv, StoredOK
        <3> QED BY <3>1, <3>2
    <2>6. PlacesOK'
        BY <1>1, <1>3, <2>1 DEF FacadeInv, PlacesOK
    <2> QED BY <1>1, <2>2, <2>3, <2>5, <2>6, PlanStays DEF FacadeInv
<1>7. \/ Facade!Audited /\ running' = [running EXCEPT !.pc = "audit"]
      \/ ~Facade!Audited /\ Facade!IsOpen /\ running' = [running EXCEPT !.pc = "commit"]
      \/ /\ ~Facade!Audited /\ ~Facade!IsOpen
         /\ running' = [running EXCEPT !.pc = "done", !.outcome = "ok"]
    BY DEF Facade!EndCalls
<1> QED BY <1>4, <1>5, <1>6, <1>7

LEMMA AuditConnectionKeeps ==
    ASSUME FacadeInv, Facade!AuditConnection PROVE FacadeInv'
<1>1. /\ running.pc = "audit" /\ UNCHANGED <<planned, backend, committed>>
    BY DEF Facade!AuditConnection, Facade!At, Facade!Untouched
<1>2. CASE Facade!Fail
    BY <1>1, <1>2, FailKeeps DEF Facade!Fail, Early
<1>3. ASSUME NEW conn, running' = [running EXCEPT !.pc = "record", !.conn = conn],
             DOMAIN conn = ConnectionFields, conn.status = "open",
             \/ conn = running.conn
             \/ conn.rows = {} /\ ~Facade!IsOpen
      PROVE  FacadeInv'
    <2>1. /\ DOMAIN running' = Fields /\ running'.pc = "record"
          /\ running'.at = running.at /\ running'.conn = conn
          /\ running'.outcome = running.outcome /\ running'.doubt = running.doubt
        BY <1>3 DEF FacadeInv, OperationOK, Fields
    <2>2. conn.rows = running.conn.rows
        BY <1>3 DEF FacadeInv, ConnectionOK
    <2>3. Quiet
        BY <1>1, <1>3, <2>1, <2>2 DEF Quiet, Early
    <2>4. OperationOK'
        BY <1>1, <1>3, <2>1, PlanStays DEF FacadeInv, OperationOK, Calls, Fields, ConnectionFields
    <2>5. ConnectionOK' /\ HandOK'
        BY <1>1, <1>3, <2>1, <2>3, QuietStep
        DEF FacadeInv, ConnectionOK, Facade!IsOpen, HandOK
    <2>6. PlacesOK'
        <3>1. CASE conn = running.conn
            BY <1>1, <2>1, <2>3, <3>1, QuietStep, PlanStays DEF FacadeInv, PlacesOK, Facade!PlacedAt
        <3>2. CASE conn.rows = {}
            BY <2>1, <2>3, <3>2, QuietStep DEF PlacesOK
        <3> QED BY <1>3, <3>1, <3>2
    <2> QED BY <2>3, <2>4, <2>5, <2>6, QuietStep DEF FacadeInv
<1>4. CASE Facade!IsOpen /\ running' = [running EXCEPT !.pc = "record"]
    <2>1. running' = [running EXCEPT !.pc = "record", !.conn = running.conn]
        BY <1>4 DEF FacadeInv, OperationOK
    <2>2. DOMAIN running.conn = ConnectionFields /\ running.conn.status = "open"
        BY <1>4 DEF FacadeInv, OperationOK, ConnectionFields, Facade!IsOpen
    <2> QED BY <1>3, <2>1, <2>2
<1>5. ASSUME NEW profile, NEW made, ~Facade!IsOpen,
             running' = [running EXCEPT !.pc = "record",
               !.conn = [status |-> "open", profile |-> profile, made |-> made,
                         pinned |-> FALSE, rows |-> {}]]
      PROVE  FacadeInv'
    <2> DEFINE conn == [status |-> "open", profile |-> profile, made |-> made,
                        pinned |-> FALSE, rows |-> {}]
    <2>1. DOMAIN conn = ConnectionFields /\ conn.status = "open" /\ conn.rows = {}
        BY DEF ConnectionFields
    <2>2. running' = [running EXCEPT !.pc = "record", !.conn = conn]
        BY <1>5
    <2> HIDE DEF conn
    <2> QED BY <1>3, <1>5, <2>1, <2>2
<1> QED BY <1>2, <1>4, <1>5 DEF Facade!AuditConnection

LEMMA RecordAuditKeeps ==
    ASSUME FacadeInv, Facade!RecordAudit PROVE FacadeInv'
<1> DEFINE c == profileNow[AuditProfile]
           place == Facade!PlacedAt(running.conn, c)
           record == [row |-> <<0, 0>>, at |-> place, meant |-> place]
<1>1. /\ running.pc = "record" /\ UNCHANGED <<planned, backend, committed>>
      /\ Facade!Audited /\ Scoped /\ running.at = Len(Calls) + 1 /\ Len(Calls) \in Nat
      /\ Facade!IsOpen
    BY DEF Facade!RecordAudit, Facade!At, Facade!Untouched, FacadeInv, OperationOK, PlanOK,
           ConnectionOK, Facade!Audited, Scoped
<1>2. CASE Facade!Fail
    BY <1>1, <1>2, FailKeeps DEF Facade!Fail, Early
<1>3. ASSUME NEW w, w.row = <<0, 0>>, w.at = w.meant,
             w.at = Facade!PlacedAt(running.conn, running.conn.made),
             running' = [running EXCEPT !.pc = "commit", !.conn.rows = @ \cup {w}]
      PROVE  FacadeInv'
    <2>1. running'.pc = "commit" /\ running'.at = running.at /\ Adds(w)
        BY <1>1, <1>3 DEF Adds, FacadeInv, OperationOK, Fields, ConnectionFields
    <2>2. PlacesOK' /\ RowsInHand' = RowsInHand \cup {<<0, 0>>}
        BY <1>1, <1>3, <2>1, AddsKeepsPlaces
    <2>3. Scoped'
        BY <1>1, PlanStays
    <2>4. OperationOK' /\ OutcomeOK' /\ ConnectionOK'
        BY <1>1, <2>1, <2>3 DEF Adds, FacadeInv, OperationOK, OutcomeOK, ConnectionOK,
            Facade!IsOpen, Calls, Fields, ConnectionFields
    <2>5. HandOK'
        <3>1. RowsInHand = RowsBelow(Len(Calls))
            BY <1>1 DEF FacadeInv, HandOK, Before
        <3>2. Unit' = Facade!RowsOfPlan
            BY <1>1, RowsStay
        <3>3. RowsInHand' = Facade!RowsOfPlan
            BY <1>1, <2>2, <3>1, RowsBelowAll DEF FacadeInv
        <3> QED BY <2>1, <3>2, <3>3 DEF HandOK
    <2>6. StoredOK'
        BY <1>1, <2>1, <2>3, WholeStays, RowsStay DEF Adds, FacadeInv, StoredOK, OutcomeOK
    <2> QED BY <1>1, <2>2, <2>4, <2>5, <2>6, PlanStays DEF FacadeInv
<1>4. CASE ~Facade!Fail
    <2>1. /\ Facade!SessionFits(running.conn, c)
          /\ running' = [running EXCEPT !.pc = "commit", !.conn.rows = @ \cup {record}]
        BY <1>4 DEF Facade!RecordAudit
    <2>2. place = Facade!PlacedAt(running.conn, running.conn.made)
        BY <2>1 DEF Facade!SessionFits, Facade!PlacedAt
    <2>3. record.row = <<0, 0>> /\ record.at = place /\ record.meant = place
        OBVIOUS
    <2> HIDE DEF record, place
    <2> QED BY <1>3, <2>1, <2>2, <2>3
<1> QED BY <1>2, <1>4

-----------------------------------------------------------------------------
(* Commit, rollback, close *)

Committing ==
    /\ running.pc \in {"commit", "again"}
    /\ UNCHANGED <<planned, backend>>
    /\ DOMAIN running' = Fields /\ DOMAIN running'.conn = ConnectionFields
    /\ running'.at = running.at
    /\ running'.conn.status = running.conn.status

\* What a connection commits is a unit, if anything.
LEMMA HandIsUnit ==
    ASSUME FacadeInv, running.pc \in {"commit", "again"}
    PROVE  /\ Unit \in Facade!Units
           /\ RowsInHand \in {{}, Unit}
           /\ running.outcome = "none" /\ Facade!IsOpen
<1>1. RowsInHand \in {{}, Unit}
    BY DEF FacadeInv, HandOK, RowsInHand
<1>2. Scoped \/ running.at - 1 \in DOMAIN Calls
    BY DEF FacadeInv, OperationOK, PlanOK
<1> QED BY <1>1, <1>2, UnitIsUnit DEF FacadeInv, OutcomeOK, ConnectionOK

\* Whether a commit is done or not, what is stored is whole and in place.
LEMMA CommitFates ==
    ASSUME FacadeInv, Committing,
           committed' \in {committed, committed \cup running.conn.rows},
           running'.conn.rows \subseteq running.conn.rows, running'.pc \notin Early
    PROVE  PlanOK' /\ PlacesOK' /\ Facade!StoredWhole' /\ (Scoped' <=> Scoped)
<1>1. PlanOK' /\ (Scoped' <=> Scoped)
    BY PlanStays DEF Committing, FacadeInv
<1>2. committed' \cup running'.conn.rows \subseteq committed \cup running.conn.rows
    OBVIOUS
<1>3. PlacesOK'
    BY <1>1, <1>2 DEF FacadeInv, PlacesOK, Early
<1>4. committed' = committed => Facade!StoredWhole'
    <2>1. committed' = committed => UNCHANGED <<planned, committed>>
        BY DEF Committing
    <2> QED BY <2>1, WholeStays DEF FacadeInv, StoredOK
<1>5. ASSUME committed' = committed \cup running.conn.rows PROVE Facade!StoredWhole'
    <2>1. Facade!StoredRows' = Facade!StoredRows \cup RowsInHand
        BY <1>5 DEF Facade!StoredRows, RowsInHand
    <2>2. CASE RowsInHand = {}
        <3>1. committed' = committed
            BY <1>5, <2>2 DEF RowsInHand
        <3> QED BY <1>4, <3>1
    <2>3. CASE RowsInHand = Unit
        <3>1. planned' = planned /\ Unit \in Facade!Units /\ Facade!StoredWhole
            BY HandIsUnit DEF Committing, FacadeInv, StoredOK
        <3>2. PICK U \in Facade!Units : U = Unit
            BY <3>1
        <3>3. Facade!StoredRows' = Facade!StoredRows \cup U
            BY <2>1, <2>3, <3>2
        <3> QED BY <3>1, <3>3, WholeGrows
    <2> QED BY <2>2, <2>3, HandIsUnit DEF Committing
<1> QED BY <1>1, <1>3, <1>4, <1>5

LEMMA CommitSucceedsKeeps ==
    ASSUME FacadeInv, running.pc \in {"commit", "again"}, UNCHANGED <<planned, backend>>,
           Facade!CommitSucceeds
    PROVE  FacadeInv'
<1>1. /\ committed' = committed \cup running.conn.rows
      /\ running'.conn.rows = {} /\ running'.pc = "close" /\ Committing
      /\ running'.outcome = running.outcome /\ running'.doubt = running.doubt
    BY DEF Facade!CommitSucceeds, Committing, FacadeInv, OperationOK, Fields, ConnectionFields
<1>2. /\ Unit \in Facade!Units /\ RowsInHand \in {{}, Unit}
      /\ running.outcome = "none" /\ Facade!IsOpen
    BY HandIsUnit
<1>3. PlanOK' /\ PlacesOK' /\ Facade!StoredWhole' /\ (Scoped' <=> Scoped)
    BY <1>1, CommitFates DEF Early
<1>4. OperationOK'
    BY <1>1, <1>2, <1>3 DEF Committing, FacadeInv, OperationOK, Calls, Fields, ConnectionFields
<1>5. OutcomeOK' /\ ConnectionOK' /\ HandOK'
    BY <1>1, <1>2, <1>3 DEF Committing, FacadeInv, OutcomeOK, ConnectionOK, Facade!IsOpen, HandOK
<1>6. Facade!StoredRows' = Facade!StoredRows \cup RowsInHand
    BY <1>1 DEF Facade!StoredRows, RowsInHand
<1>7. ASSUME ~running.doubt
      PROVE  Facade!StoredRows' = IF Scoped THEN Facade!RowsOfPlan ELSE RowsBelow(running.at - 1)
    <2>1. running.pc = "commit" /\ RowsInHand = Unit
        BY <1>7 DEF FacadeInv, StoredOK, HandOK
    <2>2. CASE Scoped
        <3>1. Facade!StoredRows = {}
            BY <2>1, <2>2 DEF FacadeInv, StoredOK, Facade!StoredRows
        <3> QED BY <1>6, <2>1, <2>2, <3>1 DEF Unit
    <2>3. CASE ~Scoped
        <3>1. Facade!StoredRows = RowsBelow(running.at - 2)
            BY <1>2, <1>7, <2>1, <2>3 DEF FacadeInv, StoredOK, Done
        <3>2. running.at - 2 \in Nat /\ (running.at - 2) + 1 = running.at - 1
            BY <2>1, <2>3 DEF FacadeInv, OperationOK, PlanOK
        <3>3. RowsBelow(running.at - 1)
                = RowsBelow(running.at - 2) \cup Facade!RowsOfCall(running.at - 1)
            BY <3>2, RowsBelowNext
        <3> QED BY <1>6, <2>1, <2>3, <3>1, <3>3 DEF Unit
    <2> QED BY <2>2, <2>3
<1>8. StoredOK'
    <2>1. Facade!RowsOfPlan' = Facade!RowsOfPlan
        BY <1>1, PlanStays DEF Committing
    <2>2. Done' = RowsBelow(running.at - 1)
        BY <1>1, DoneStays DEF Committing
    <2> QED BY <1>1, <1>2, <1>3, <1>7, <2>1, <2>2 DEF StoredOK, FacadeInv, OutcomeOK
<1> QED BY <1>3, <1>4, <1>5, <1>8 DEF FacadeInv

LEMMA CommitRaisesKeeps ==
    ASSUME FacadeInv, running.pc \in {"commit", "again"}, UNCHANGED <<planned, backend>>,
           NEW next \in {"again", "raise"}, Facade!CommitRaises(next)
    PROVE  FacadeInv'
<1>1. PICK rows \in {{}, running.conn.rows} :
        /\ committed' \in {committed, committed \cup running.conn.rows}
        /\ LET o == [running EXCEPT !.doubt = TRUE, !.conn.rows = rows] IN
           running' = IF next = "again" THEN [o EXCEPT !.pc = "again"] ELSE Facade!Failed(o)
    BY DEF Facade!CommitRaises
<1>2. /\ Unit \in Facade!Units /\ RowsInHand \in {{}, Unit}
      /\ running.outcome = "none" /\ Facade!IsOpen
    BY HandIsUnit
<1>3. /\ running'.conn.rows = rows /\ running'.doubt = TRUE /\ Committing
      /\ \/ running'.pc = "again" /\ running'.outcome = "none"
         \/ running'.pc = "roll_back" /\ running'.outcome = "error"
    BY <1>1, <1>2 DEF Facade!Failed, Committing, FacadeInv, OperationOK, Fields,
        ConnectionFields, Facade!IsOpen
<1>4. PlanOK' /\ PlacesOK' /\ Facade!StoredWhole' /\ (Scoped' <=> Scoped)
    BY <1>1, <1>3, CommitFates DEF Early
<1>5. OperationOK'
    BY <1>1, <1>3, <1>4 DEF Committing, FacadeInv, OperationOK, Calls, Fields, ConnectionFields
<1>6. OutcomeOK' /\ ConnectionOK'
    BY <1>2, <1>3 DEF Committing, FacadeInv, OutcomeOK, ConnectionOK, Facade!IsOpen
<1>7. HandOK'
    <2>1. Unit' = Unit
        BY <1>3, RowsStay DEF Committing, Unit
    <2>2. rows = {} \/ RowsInHand' = RowsInHand
        BY <1>1, <1>3 DEF RowsInHand
    <2>3. rows = {} \/ RowsInHand' = Unit
        <3>1. CASE RowsInHand = {}
            <4>1. running.conn.rows = {}
                BY <3>1 DEF RowsInHand
            <4> QED BY <1>1, <4>1
        <3>2. CASE RowsInHand = Unit
            BY <2>2, <3>2
        <3> QED BY <1>2, <3>1, <3>2
    <2> QED BY <1>3, <2>1, <2>3 DEF HandOK
<1>8. StoredOK'
    BY <1>3, <1>4 DEF StoredOK
<1> QED BY <1>4, <1>5, <1>6, <1>7, <1>8 DEF FacadeInv

LEMMA CommitKeeps ==
    ASSUME FacadeInv, Facade!CommitIfNeeded \/ Facade!CommitAgain PROVE FacadeInv'
<1>1. running.pc \in {"commit", "again"} /\ UNCHANGED <<planned, backend>>
    BY DEF Facade!CommitIfNeeded, Facade!CommitAgain, Facade!At, Facade!Untouched
<1>2. \/ Facade!CommitSucceeds
      \/ Facade!CommitRaises("again") \/ Facade!CommitRaises("raise")
    BY DEF Facade!CommitIfNeeded, Facade!CommitAgain
<1> QED BY <1>1, <1>2, CommitSucceedsKeeps, CommitRaisesKeeps

LEMMA RollbackKeeps ==
    ASSUME FacadeInv, Facade!RollbackIfNeeded PROVE FacadeInv'
<1>1. /\ running.pc = "roll_back" /\ UNCHANGED <<planned, backend, committed>>
    BY DEF Facade!RollbackIfNeeded, Facade!At, Facade!Untouched
<1>2. PICK rows \in {{}, running.conn.rows} :
        running' = [running EXCEPT !.conn.rows = rows, !.pc = "close"]
    BY DEF Facade!RollbackIfNeeded
<1>3. /\ DOMAIN running' = Fields /\ DOMAIN running'.conn = ConnectionFields
      /\ running'.pc = "close" /\ running'.at = running.at /\ running'.conn.rows = rows
      /\ running'.conn.status = running.conn.status /\ running'.doubt = running.doubt
      /\ running'.outcome = "error" /\ running.outcome = "error"
    BY <1>1, <1>2 DEF FacadeInv, OperationOK, OutcomeOK, Fields, ConnectionFields
<1>4. PlanOK' /\ (Scoped' <=> Scoped)
    BY <1>1, PlanStays DEF FacadeInv
<1>5. OperationOK'
    BY <1>1, <1>3, <1>4 DEF FacadeInv, OperationOK, Calls, Fields, ConnectionFields
<1>6. OutcomeOK' /\ ConnectionOK' /\ HandOK'
    BY <1>1, <1>3 DEF FacadeInv, OutcomeOK, ConnectionOK, Facade!IsOpen, HandOK
<1>7. StoredOK'
    BY <1>1, <1>3, <1>4, WholeStays DEF FacadeInv, StoredOK
<1>8. PlacesOK'
    BY <1>1, <1>2, <1>3, <1>4 DEF FacadeInv, PlacesOK
<1> QED BY <1>4, <1>5, <1>6, <1>7, <1>8 DEF FacadeInv

LEMMA CloseKeeps ==
    ASSUME FacadeInv, Facade!Close \/ Facade!CloseFails PROVE FacadeInv'
<1>1. /\ running.pc = "close" /\ UNCHANGED <<planned, backend, committed>>
      /\ running.outcome \in {"none", "error"} /\ Len(Calls) \in Nat
    BY DEF Facade!Close, Facade!CloseFails, Facade!At, Facade!Untouched, FacadeInv, OutcomeOK,
           PlanOK
<1>2. /\ DOMAIN Facade!Closed = Fields /\ Facade!Closed.at = running.at
      /\ DOMAIN Facade!Closed.conn = ConnectionFields
      /\ Facade!Closed.conn.status = "closed" /\ Facade!Closed.conn.rows = {}
      /\ Facade!Closed.outcome = running.outcome /\ Facade!Closed.doubt = running.doubt
    BY DEF Facade!Closed, Facade!NoConnection, FacadeInv, OperationOK, Fields, ConnectionFields
<1>3. PlanOK' /\ (Scoped' <=> Scoped)
    BY <1>1, PlanStays DEF FacadeInv
<1>4. ASSUME DOMAIN running' = Fields, running'.at = running.at,
             DOMAIN running'.conn = ConnectionFields,
             running'.conn.status = "closed", running'.conn.rows = {},
             \/ /\ running'.pc = "done" /\ running'.outcome = "error"
                /\ \/ running.outcome = "error" /\ running'.doubt = running.doubt
                   \/ running'.doubt = TRUE
             \/ /\ running'.pc = "next" /\ running'.outcome = "none"
                /\ running.outcome = "none"
                /\ ~Scoped /\ running.at <= Len(Calls) /\ running'.doubt = running.doubt
             \/ /\ running'.pc = "done" /\ running'.outcome = "ok"
                /\ running.outcome = "none"
                /\ Scoped \/ running.at > Len(Calls)
                /\ running'.doubt = running.doubt
      PROVE  FacadeInv'
    <2>1. OperationOK'
        BY <1>1, <1>4 DEF FacadeInv, OperationOK, Calls, Fields, ConnectionFields
    <2>2. OutcomeOK' /\ ConnectionOK'
        BY <1>3, <1>4 DEF FacadeInv, OutcomeOK, ConnectionOK, Facade!IsOpen
    <2>3. RowsInHand' = {}
        BY <1>4 DEF RowsInHand
    <2>4. ~Scoped => Before' = {}
        BY <1>1, RowsStay
    <2>5. HandOK'
        BY <1>4, <2>3, <2>4 DEF HandOK
    <2>6. Facade!StoredRows' = Facade!StoredRows /\ Facade!StoredWhole'
        BY <1>1, RowsStay, WholeStays DEF FacadeInv, StoredOK
    <2>7. Facade!RowsOfPlan' = Facade!RowsOfPlan /\ Len(Calls)' = Len(Calls)
        BY <1>1, PlanStays DEF Calls
    <2>8. Done' = RowsBelow(running.at - 1) /\ Done = RowsBelow(running.at - 1)
        BY <1>1, <1>4, DoneStays DEF Done
    <2>9. running.at \in 1 .. Len(Calls) + 1
        BY DEF FacadeInv, OperationOK
    <2>10. StoredOK'
        BY <1>1, <1>3, <1>4, <2>6, <2>7, <2>8, <2>9 DEF FacadeInv, StoredOK
    <2>11. PlacesOK'
        BY <1>1, <1>3, <1>4 DEF FacadeInv, PlacesOK
    <2> QED BY <1>3, <2>1, <2>2, <2>5, <2>10, <2>11 DEF FacadeInv
<1>5. CASE Facade!CloseFails
    <2>1. running' = [Facade!Closed EXCEPT !.pc = "done", !.outcome = "error", !.doubt = TRUE]
        BY <1>5 DEF Facade!CloseFails
    <2> QED BY <1>2, <1>4, <2>1 DEF Fields
<1>6. CASE Facade!Close
    <2>1. \/ running.outcome = "error" /\ running' = [Facade!Closed EXCEPT !.pc = "done"]
          \/ /\ running.outcome = "none" /\ ~Scoped /\ running.at <= Len(Calls)
             /\ running' = [Facade!Closed EXCEPT !.pc = "next"]
          \/ /\ running.outcome = "none" /\ (Scoped \/ ~(running.at <= Len(Calls)))
             /\ running' = [Facade!Closed EXCEPT !.pc = "done", !.outcome = "ok"]
        BY <1>1, <1>6 DEF Facade!Close, Scoped, Facade!Scoped, Calls
    <2>2. running.at \in 1 .. Len(Calls) + 1
        BY DEF FacadeInv, OperationOK
    <2>3. /\ DOMAIN running' = Fields /\ running'.at = running.at
          /\ running'.conn = Facade!Closed.conn /\ running'.doubt = running.doubt
        BY <1>2, <2>1 DEF Fields
    <2>4. CASE running.outcome = "error" /\ running' = [Facade!Closed EXCEPT !.pc = "done"]
        BY <1>2, <1>4, <2>3, <2>4 DEF Fields
    <2>5. CASE /\ running.outcome = "none" /\ ~Scoped /\ running.at <= Len(Calls)
               /\ running' = [Facade!Closed EXCEPT !.pc = "next"]
        BY <1>2, <1>4, <2>3, <2>5 DEF Fields
    <2>6. CASE /\ running.outcome = "none" /\ (Scoped \/ ~(running.at <= Len(Calls)))
               /\ running' = [Facade!Closed EXCEPT !.pc = "done", !.outcome = "ok"]
        <3>1. Scoped \/ running.at > Len(Calls)
            BY <1>1, <2>2, <2>6
        <3>2. running'.pc = "done" /\ running'.outcome = "ok" /\ running.outcome = "none"
            BY <1>2, <2>6 DEF Fields
        <3> QED BY <1>2, <1>4, <2>3, <3>1, <3>2
    <2> QED BY <2>1, <2>4, <2>5, <2>6
<1> QED BY <1>5, <1>6

-----------------------------------------------------------------------------
(* The specification *)

\* Nothing of the facade changes where it is not the area, or while it is edited.
LEMMA FacadeStays ==
    ASSUME FacadeInv, UNCHANGED <<backend, planned, running, committed>>
    PROVE  FacadeInv'
<1>1. PlanOK' /\ (Scoped' <=> Scoped)
    BY PlanStays DEF FacadeInv
<1>2. Before' = Before /\ Unit' = Unit /\ RowsInHand' = RowsInHand /\ Done' = Done
    BY RowsStay, DoneStays DEF Before, Unit, RowsInHand, Done
<1>3. OperationOK' /\ OutcomeOK' /\ ConnectionOK' /\ HandOK'
    BY <1>1, <1>2, PlanStays DEF FacadeInv, OperationOK, Calls, OutcomeOK, ConnectionOK,
        Facade!IsOpen, HandOK
<1>4. StoredOK'
    BY <1>1, <1>2, WholeStays, RowsStay, PlanStays DEF FacadeInv, StoredOK, Calls
<1>5. PlacesOK'
    BY <1>1 DEF FacadeInv, PlacesOK, Facade!PlacedAt
<1> QED BY <1>1, <1>3, <1>4, <1>5 DEF FacadeInv

LEMMA FacadeBegins == Init => FacadeInv
<1> SUFFICES ASSUME Init PROVE FacadeInv
    OBVIOUS
<1>1. running = Facade!NotStarted /\ committed = {}
    BY DEF Init, Facade!FacadeInit, NoOperation
<1>2. PlanOK
    <2>1. CASE planned \in Plans
        <3> DEFINE S == [profile : Profiles, path : {"core", "raw"}, rows : Nat \ {0},
                        nested : BOOLEAN]
        <3>1. Calls \in Seq(S)
            BY <2>1, PlansAssumption DEF Calls
        <3>2. \A c \in S : /\ c.profile \in Profiles /\ c.path \in {"core", "raw"}
                           /\ c.rows \in Nat \ {0} /\ c.nested \in BOOLEAN
            OBVIOUS
        <3> HIDE DEF S
        <3>3. Len(Calls) \in Nat /\ DOMAIN Calls = 1 .. Len(Calls)
            BY <3>1
        <3>4. ASSUME NEW k \in 1 .. Len(Calls) PROVE Calls[k] \in S
            BY <3>1, ElementOfSeq
        <3> QED BY <3>2, <3>3, <3>4 DEF PlanOK
    <2>2. CASE planned = [scope |-> "none", calls |-> <<>>]
        BY <2>2 DEF PlanOK, Calls
    <2> QED BY <2>1, <2>2 DEF Init, Facade!FacadeInit, NoOperation
<1>3. /\ running.pc = "next" /\ running.at = 1 /\ running.outcome = "none" /\ ~running.doubt
      /\ DOMAIN running = Fields /\ DOMAIN running.conn = ConnectionFields
      /\ running.conn.status = "none" /\ running.conn.rows = {}
      /\ running.doubt \in BOOLEAN
    BY <1>1 DEF Facade!NotStarted, Facade!NoConnection, Fields, ConnectionFields
<1>4. OperationOK /\ OutcomeOK /\ ConnectionOK
    BY <1>2, <1>3 DEF OperationOK, OutcomeOK, ConnectionOK, Facade!IsOpen, PlanOK, Fields,
        ConnectionFields
<1>5. HandOK
    BY <1>3, RowsBelowNone DEF HandOK, RowsInHand, Before
<1>6. Facade!StoredRows = {} /\ Facade!StoredWhole
    BY <1>1 DEF Facade!StoredRows, Facade!StoredWhole
<1>7. StoredOK
    BY <1>1, <1>3, <1>6, RowsBelowNone DEF StoredOK, Done
<1>8. PlacesOK
    BY <1>1, <1>3 DEF PlacesOK
<1> QED BY <1>2, <1>4, <1>5, <1>7, <1>8 DEF FacadeInv

LEMMA FacadeGoesOn == FacadeInv /\ [Next]_vars => FacadeInv'
<1> SUFFICES ASSUME FacadeInv, [Next]_vars PROVE FacadeInv'
    OBVIOUS
<1>1. CASE UNCHANGED vars \/ UNCHANGED facadeState
    BY <1>1, FacadeStays DEF vars, facadeState
<1>2. CASE Facade!FacadeStep
    <2>1. CASE Facade!EditConfig
        BY <2>1, FacadeStays DEF Facade!EditConfig
    <2> QED BY <1>2, <2>1, GetDbProfileKeeps, RefuseNestedKeeps, ConnectKeeps,
               ConnectionForKeeps, ValidateKeeps, RunStatementKeeps, EndCallsKeeps,
               AuditConnectionKeeps, RecordAuditKeeps, CommitKeeps, RollbackKeeps, CloseKeeps
            DEF Facade!FacadeStep
<1> QED BY <1>1, <1>2 DEF Next

\* Rows in hand are the unit under way, and rows stored are the units that ended.
THEOREM FacadeInvariant == Spec => []FacadeInv
BY FacadeBegins, FacadeGoesOn, PTL DEF Spec

\* A scope with its audit record, or a call without one, is stored whole or not at all,
\* in the place its profile named, and the outcome says which, whatever fails.
THEOREM EveryOperationIsWhole == Spec => []OperationsAreWhole
<1>1. FacadeInv => OperationsAreWhole
    <2> SUFFICES ASSUME FacadeInv PROVE OperationsAreWhole
        OBVIOUS
    <2>1. Facade!StoredWhole
        BY DEF FacadeInv, StoredOK
    <2>2. Facade!StoredWhereMeant
        BY DEF FacadeInv, PlacesOK, Facade!StoredWhereMeant, Facade!Scoped, Scoped
    <2>3. running.outcome = "ok" /\ ~running.doubt => Facade!StoredRows = Facade!RowsOfPlan
        <3>1. CASE ~Scoped /\ running.outcome = "ok" /\ ~running.doubt
            <4>1. running.pc \in {"close", "done"} /\ running.at = Len(Calls) + 1
                BY <3>1 DEF FacadeInv, OutcomeOK, StoredOK
            <4>2. Facade!StoredRows = RowsBelow(Len(Calls))
                BY <3>1, <4>1 DEF FacadeInv, StoredOK, Done, PlanOK
            <4>3. ~Facade!Audited
                BY <3>1 DEF Scoped, Facade!Audited
            <4> QED BY <4>2, <4>3, RowsBelowAll DEF FacadeInv
        <3> QED BY <3>1 DEF FacadeInv, StoredOK
    <2>4. Facade!OutcomeIsTrue
        BY <2>3 DEF FacadeInv, StoredOK, ConnectionOK, Facade!OutcomeIsTrue, Facade!Scoped,
            Scoped, Facade!At
    <2> QED BY <2>1, <2>2, <2>4 DEF OperationsAreWhole, Facade!OperationsAreWhole
<1> QED BY <1>1, FacadeInvariant, PTL

-----------------------------------------------------------------------------
(* Accounts: one administrator at a time                                    *)

CallFields == {"op", "pc", "name", "newName", "role", "status", "id"}
RowFields == {"name", "role", "status"}

\* A name is of one account at most.
NamesAreUnique ==
    /\ \A id \in DOMAIN users : DOMAIN users[id] = RowFields
    /\ \A i, j \in DOMAIN users : users[i].name = users[j].name => i = j

\* What is about to be written is of an account that is there; another active
\* administrator remains, unless the write takes none away.
WriteInPlace(s) ==
    /\ DOMAIN call[s] = CallFields
    /\ call[s].pc = "count" => call[s].op # "create"
    /\ call[s].pc \in {"count", "write"} /\ call[s].op # "create" =>
          call[s].id \in DOMAIN users /\ users[call[s].id].name = call[s].name
    /\ call[s].pc = "write" /\ call[s].op # "create" =>
          \/ ~Accounts!TakesAway(call[s].op, users[call[s].id], call[s])
          \/ Accounts!ActiveAdmins \ Accounts!IdsOf(call[s].name) # {}

AccountsInv ==
    /\ DOMAIN call = Administrators
    /\ NamesAreUnique
    /\ \A s \in Administrators : WriteInPlace(s)

accounts == <<users, roles, call>>

LEMMA OthersLeaveAccounts ==
    [Next]_vars => Accounts!Next \/ UNCHANGED accounts
BY DEF Next, vars, adminVars, RegisterStep, AdministrationStep, AccountStep, MenuStep,
    StatisticStep, DictionaryStep, accounts

\* Only the last step of a call writes.
LEMMA LookingLeavesUsers ==
    ASSUME NEW s \in Administrators,
           \/ Accounts!Call(s) \/ Accounts!CheckAssignable(s) \/ Accounts!FindUser(s)
           \/ Accounts!FindNoUser(s) \/ Accounts!EnsureAdministratorRemains(s)
           \/ Accounts!FindRole(s) \/ Accounts!RoleIsRefused(s)
    PROVE  UNCHANGED <<users, roles>>
BY DEF Accounts!Call, Accounts!CallUser, Accounts!CallRole, Accounts!CheckAssignable,
    Accounts!FindUser, Accounts!FindNoUser, Accounts!EnsureAdministratorRemains,
    Accounts!FindRole, Accounts!RoleIsRefused

LEMMA AccountsBegin == Init => AccountsInv
BY DEF Init, AdministrationInit, Accounts!Init, Accounts!Idle, AccountsInv, NamesAreUnique,
    WriteInPlace, RowFields, CallFields

LEMMA AdminStays ==
    ASSUME NEW a \in Accounts!ActiveAdmins, a \in DOMAIN users', users'[a] = users[a]
    PROVE  a \in Accounts!ActiveAdmins'
BY DEF Accounts!ActiveAdmins
\* A step that writes nothing: what it has found, it will find when it writes.
LEMMA LookingKeepsAccounts ==
    ASSUME NEW s \in Administrators, Administrators = {s}, AccountsInv,
           UNCHANGED <<users, roles>>,
           \/ Accounts!Call(s) \/ Accounts!CheckAssignable(s) \/ Accounts!FindUser(s)
           \/ Accounts!FindNoUser(s) \/ Accounts!EnsureAdministratorRemains(s)
           \/ Accounts!FindRole(s) \/ Accounts!RoleIsRefused(s)
    PROVE  AccountsInv'
<1>1. /\ DOMAIN call = Administrators /\ DOMAIN call[s] = CallFields
      /\ WriteInPlace(s) /\ NamesAreUnique
    BY DEF AccountsInv, WriteInPlace
<1>2. NamesAreUnique'
    BY <1>1 DEF NamesAreUnique
<1>3. DOMAIN call' = Administrators /\ WriteInPlace(s)'
    <2>1. CASE Accounts!Call(s)
        <3>1. ASSUME NEW op, NEW name, NEW newName, NEW role, NEW status,
                     Accounts!CallUser(s, op, name, newName, role, status)
              PROVE  DOMAIN call' = Administrators /\ WriteInPlace(s)'
            <4> DEFINE pc == IF op \in {"create", "edit", "role"} THEN "assignable" ELSE "find"
            <4>1. call'[s] = [Accounts!Idle EXCEPT !.op = op, !.name = name, !.newName = newName,
                                !.role = role, !.status = status, !.pc = pc]
                BY <1>1, <3>1 DEF Accounts!CallUser
            <4>2. DOMAIN call'[s] = CallFields /\ call'[s].pc \in {"assignable", "find"}
                BY <4>1 DEF Accounts!Idle, CallFields
            <4>3. DOMAIN call' = Administrators
                BY <1>1, <3>1 DEF Accounts!CallUser
            <4> QED BY <4>2, <4>3 DEF WriteInPlace
        <3>2. ASSUME NEW op, NEW role, Accounts!CallRole(s, op, role)
              PROVE  DOMAIN call' = Administrators /\ WriteInPlace(s)'
            BY <1>1, <3>2 DEF Accounts!CallRole, Accounts!Idle, WriteInPlace, CallFields
        <3> QED BY <2>1, <3>1, <3>2 DEF Accounts!Call
    <2>2. CASE Accounts!CheckAssignable(s)
        BY <1>1, <2>2 DEF Accounts!CheckAssignable, Accounts!Goto, Accounts!End, Accounts!Idle,
            Accounts!At, WriteInPlace, CallFields
    <2>3. CASE Accounts!FindUser(s)
        <3>1. CASE call' = [call EXCEPT ![s] = Accounts!Idle]
            BY <1>1, <3>1 DEF Accounts!Idle, WriteInPlace, CallFields
        <3>2. ASSUME NEW id \in Accounts!IdsOf(call[s].name),
                     call' = [call EXCEPT ![s].id = id,
                                ![s].pc = IF Accounts!TakesAway(call[s].op, users[id], call[s])
                                          THEN "count" ELSE "write"],
                     call[s].op # "create"
              PROVE  DOMAIN call' = Administrators /\ WriteInPlace(s)'
            <4> DEFINE c == [[call[s] EXCEPT !.id = id] EXCEPT
                                !.pc = IF Accounts!TakesAway(call[s].op, users[id], call[s])
                                       THEN "count" ELSE "write"]
            <4>1. DOMAIN call' = Administrators /\ call'[s] = c
                BY <1>1, <3>2
            <4>2. /\ DOMAIN c = CallFields /\ c.op = call[s].op /\ c.name = call[s].name
                  /\ c.role = call[s].role /\ c.status = call[s].status /\ c.id = id
                  /\ c.pc = IF Accounts!TakesAway(call[s].op, users[id], call[s])
                            THEN "count" ELSE "write"
                BY <1>1 DEF CallFields
            <4>3. id \in DOMAIN users /\ users[id].name = call[s].name
                BY DEF Accounts!IdsOf
            <4>4. Accounts!TakesAway(c.op, users[id], c)
                    <=> Accounts!TakesAway(call[s].op, users[id], call[s])
                BY <4>2 DEF Accounts!TakesAway
            <4> HIDE DEF c
            <4> QED BY <3>2, <4>1, <4>2, <4>3, <4>4 DEF WriteInPlace, Accounts!TakesAway
        <3> QED BY <2>3, <3>1, <3>2 DEF Accounts!FindUser, Accounts!End
    <2>4. CASE Accounts!FindNoUser(s)
        BY <1>1, <2>4 DEF Accounts!FindNoUser, Accounts!End, Accounts!Idle, Accounts!At,
            WriteInPlace, CallFields
    <2>5. CASE Accounts!EnsureAdministratorRemains(s)
        <3>1. CASE call' = [call EXCEPT ![s] = Accounts!Idle]
            BY <1>1, <3>1 DEF Accounts!Idle, WriteInPlace, CallFields
        <3>2. CASE /\ Accounts!ActiveAdmins \ Accounts!IdsOf(call[s].name) # {}
                   /\ call' = [call EXCEPT ![s].pc = "write"] /\ call[s].pc = "count"
            <4>1. /\ Accounts!ActiveAdmins' = Accounts!ActiveAdmins
                  /\ \A name : Accounts!IdsOf(name)' = Accounts!IdsOf(name)
                BY DEF Accounts!ActiveAdmins, Accounts!IdsOf
            <4> DEFINE c == [call[s] EXCEPT !.pc = "write"]
            <4>2. DOMAIN call' = Administrators /\ call'[s] = c
                BY <1>1, <3>2
            <4>3. /\ DOMAIN c = CallFields /\ c.op = call[s].op /\ c.name = call[s].name
                  /\ c.id = call[s].id /\ c.pc = "write"
                BY <1>1 DEF CallFields
            <4> HIDE DEF c
            <4>4. call[s].op # "create" /\ call[s].id \in DOMAIN users
                  /\ users[call[s].id].name = call[s].name
                BY <1>1, <3>2 DEF WriteInPlace
            <4> QED BY <3>2, <4>1, <4>2, <4>3, <4>4 DEF WriteInPlace
        <3> QED BY <2>5, <3>1, <3>2 DEF Accounts!EnsureAdministratorRemains, Accounts!Goto,
                    Accounts!End, Accounts!At
    <2>6. CASE Accounts!FindRole(s) \/ Accounts!RoleIsRefused(s)
        BY <1>1, <2>6 DEF Accounts!FindRole, Accounts!RoleIsRefused, Accounts!Goto, Accounts!End,
            Accounts!Idle, Accounts!At, WriteInPlace, CallFields
    <2> QED BY <2>1, <2>2, <2>3, <2>4, <2>5, <2>6
<1> QED BY <1>2, <1>3 DEF AccountsInv
\* A step that writes, and is over.
LEMMA WritingKeepsAccounts ==
    ASSUME NEW s \in Administrators, Administrators = {s}, AccountsInv, Accounts!Write(s)
    PROVE  AccountsInv'
<1>1. DOMAIN call = Administrators /\ WriteInPlace(s) /\ NamesAreUnique
    BY DEF AccountsInv
<1>2. call' = [call EXCEPT ![s] = Accounts!Idle]
    BY DEF Accounts!Write, Accounts!Insert, Accounts!WriteRole, Accounts!WriteEdit,
        Accounts!WriteStatus, Accounts!Delete, Accounts!WriteRoleRow, Accounts!DeleteRole,
        Accounts!UpdateById, Accounts!End
<1>3. DOMAIN call' = Administrators /\ WriteInPlace(s)'
    BY <1>1, <1>2 DEF Accounts!Idle, WriteInPlace, CallFields
<1>4. NamesAreUnique'
    <2>1. CASE UNCHANGED users
        BY <1>1, <2>1 DEF NamesAreUnique
    <2>2. CASE Accounts!Insert(s)
        BY <1>1, <2>2 DEF Accounts!Insert, Accounts!IdsOf, NamesAreUnique, RowFields
    <2>3. CASE Accounts!WriteRole(s)
        BY <1>1, <2>3 DEF Accounts!WriteRole, Accounts!UpdateById, NamesAreUnique, RowFields
    <2>4. CASE Accounts!WriteEdit(s)
        BY <1>1, <2>4 DEF Accounts!WriteEdit, Accounts!UpdateById, Accounts!IdsOf,
            NamesAreUnique, RowFields
    <2>5. CASE Accounts!WriteStatus(s)
        BY <1>1, <2>5 DEF Accounts!WriteStatus, NamesAreUnique, RowFields
    <2>6. CASE Accounts!Delete(s)
        BY <1>1, <2>6 DEF Accounts!Delete, NamesAreUnique
    <2> QED BY <2>1, <2>2, <2>3, <2>4, <2>5, <2>6 DEF Accounts!Write, Accounts!WriteRoleRow,
                Accounts!DeleteRole
<1> QED BY <1>3, <1>4 DEF AccountsInv

\* A role, a status or a deletion leaves another administrator, an insert takes none away.
LEMMA OneRemains ==
    ASSUME NEW s \in Administrators, AccountsInv, Accounts!ActiveAdmins # {},
           Accounts!Write(s), ~Accounts!WriteEdit(s)
    PROVE  Accounts!ActiveAdmins' # {}
<1>1. WriteInPlace(s) /\ NamesAreUnique
    BY DEF AccountsInv
<1> DEFINE c == call[s]
           row == users[c.id]
<1>2. PICK a \in Accounts!ActiveAdmins : TRUE
    OBVIOUS
<1>3. CASE UNCHANGED users
    BY <1>2, <1>3, AdminStays DEF Accounts!ActiveAdmins
<1>4. CASE Accounts!Insert(s)
    BY <1>2, <1>4, AdminStays DEF Accounts!Insert, Accounts!ActiveAdmins
<1>5. CASE Accounts!WriteRole(s) \/ Accounts!WriteStatus(s) \/ Accounts!Delete(s)
    <2>1. c.op \in {"role", "status", "delete"} /\ c.pc = "write"
        BY <1>5 DEF Accounts!WriteRole, Accounts!WriteStatus, Accounts!Delete, Accounts!At
    <2>2. c.id \in DOMAIN users /\ row.name = c.name /\ DOMAIN row = RowFields
        BY <1>1, <2>1 DEF WriteInPlace, NamesAreUnique
    <2>3. ASSUME NEW b \in Accounts!ActiveAdmins, b # c.id
          PROVE  b \in Accounts!ActiveAdmins'
        <3>1. b \in DOMAIN users /\ users[b].name # c.name
            BY <1>1, <2>2, <2>3 DEF NamesAreUnique, Accounts!ActiveAdmins
        <3>2. b \in DOMAIN users' /\ users'[b] = users[b]
            BY <1>5, <2>3, <3>1 DEF Accounts!WriteRole, Accounts!UpdateById,
                Accounts!WriteStatus, Accounts!Delete
        <3> QED BY <2>3, <3>2, AdminStays
    <2>4. CASE Accounts!ActiveAdmins \ Accounts!IdsOf(c.name) # {}
        BY <2>2, <2>3, <2>4 DEF Accounts!IdsOf
    <2>5. CASE ~Accounts!TakesAway(c.op, row, c)
        <3>1. CASE row.role # Admin
            BY <1>2, <2>3, <3>1 DEF Accounts!ActiveAdmins
        <3>2. CASE row.role = Admin /\ c.op = "role" /\ c.role = Admin
            <4>1. users' = [users EXCEPT ![c.id] = [row EXCEPT !.role = c.role]]
                BY <1>5, <2>2, <3>2 DEF Accounts!WriteRole, Accounts!UpdateById,
                    Accounts!WriteStatus, Accounts!Delete
            <4>2. [row EXCEPT !.role = c.role].role = Admin
                  /\ [row EXCEPT !.role = c.role].status = row.status
                BY <2>2, <3>2 DEF RowFields
            <4>3. a = c.id => a \in Accounts!ActiveAdmins'
                BY <1>2, <4>1, <4>2, <2>2 DEF Accounts!ActiveAdmins
            <4> QED BY <1>2, <2>3, <4>3
        <3>3. CASE row.role = Admin /\ c.op = "status" /\ c.status = "ACTIVE"
            <4>1. users' = [id \in DOMAIN users |->
                              IF users[id].name = c.name
                              THEN [users[id] EXCEPT !.status = c.status] ELSE users[id]]
                BY <1>5, <3>3 DEF Accounts!WriteRole, Accounts!WriteStatus, Accounts!Delete
            <4>2. [row EXCEPT !.status = c.status].role = Admin
                  /\ [row EXCEPT !.status = c.status].status = "ACTIVE"
                BY <2>2, <3>3 DEF RowFields
            <4>3. c.id \in Accounts!ActiveAdmins'
                BY <2>2, <4>1, <4>2 DEF Accounts!ActiveAdmins
            <4> QED BY <4>3
        <3> QED BY <2>1, <2>5, <3>1, <3>2, <3>3 DEF Accounts!TakesAway
    <2> QED BY <1>1, <2>1, <2>4, <2>5 DEF WriteInPlace
<1> QED BY <1>3, <1>4, <1>5 DEF Accounts!Write, Accounts!WriteRoleRow, Accounts!DeleteRole

\* What administrators do one after another, for any accounts and names: no sequence of
\* role changes, switches and deletions takes the last active administrator away.
THEOREM OnlyEditsLockOut ==
    ASSUME NEW one \in Administrators, Administrators = {one}
    PROVE  Spec => OnlyEditLocksOut
<1>1. AccountsInv /\ [Next]_vars => AccountsInv'
    <2> SUFFICES ASSUME AccountsInv, [Next]_vars PROVE AccountsInv'
        OBVIOUS
    <2>1. CASE UNCHANGED accounts
        BY <2>1 DEF accounts, AccountsInv, NamesAreUnique, WriteInPlace, Accounts!ActiveAdmins,
            Accounts!IdsOf
    <2>2. CASE Accounts!Write(one)
        BY <2>2, WritingKeepsAccounts
    <2>3. CASE \/ Accounts!Call(one) \/ Accounts!CheckAssignable(one) \/ Accounts!FindUser(one)
               \/ Accounts!FindNoUser(one) \/ Accounts!EnsureAdministratorRemains(one)
               \/ Accounts!FindRole(one) \/ Accounts!RoleIsRefused(one)
        BY <2>3, LookingLeavesUsers, LookingKeepsAccounts
    <2> QED BY <2>1, <2>2, <2>3, OthersLeaveAccounts DEF Accounts!Next
<1> DEFINE Edited == Accounts!ActiveAdmins # {} /\ Accounts!ActiveAdmins' = {}
                        => \E s \in Administrators : Accounts!WriteEdit(s)
<1>2. AccountsInv /\ [Next]_vars => [Edited]_<<users, roles, call>>
    <2> SUFFICES ASSUME AccountsInv, [Next]_vars, Accounts!ActiveAdmins # {},
                        Accounts!ActiveAdmins' = {}
                 PROVE  Accounts!WriteEdit(one)
        OBVIOUS
    <2>1. users' # users
        BY AdminStays DEF Accounts!ActiveAdmins
    <2>2. Accounts!Write(one)
        BY <2>1, OthersLeaveAccounts, LookingLeavesUsers DEF accounts, Accounts!Next
    <2> QED BY <2>2, OneRemains
<1>3. Spec => [][Edited]_<<users, roles, call>>
    <2> HIDE DEF Edited
    <2> QED BY <1>1, <1>2, AccountsBegin, PTL DEF Spec
<1> QED BY <1>3, PTL DEF OnlyEditLocksOut

-----------------------------------------------------------------------------
(* The cache of the portal's statistics                                     *)

ThreadPlaces == {"idle", "check", "copy", "count", "store_items", "store_expiry",
                 "store_signature", "answer"}

\* One thread: it stores what it has counted; while it is alone nobody else stores, and
\* what it has found in the cache stays there.
ThreadInPlace(r) ==
    /\ DOMAIN thread[r] = {"pc", "signature", "items", "alone"}
    /\ thread[r].pc \in ThreadPlaces
    /\ thread[r].pc \in {"store_items", "store_expiry", "store_signature"} =>
          thread[r].items = thread[r].signature
    /\ thread[r].pc # "idle" /\ thread[r].alone =>
          ~mixed /\ \A other \in Threads \ {r} : ~Storing(other)
    /\ thread[r].pc = "copy" /\ thread[r].alone => stats.signature = thread[r].signature
    /\ thread[r].pc = "answer" /\ thread[r].alone => thread[r].items = thread[r].signature

\* Unless two threads were storing at once, the cache is of one request, or one thread
\* is about to make it so.
StatsAreOfOne ==
    ~mixed =>
        /\ \A r \in Threads : Storing(r) =>
              stats.items = thread[r].items /\ \A other \in Threads \ {r} : ~Storing(other)
        /\ (\A r \in Threads : ~Storing(r)) => stats.items = stats.signature

StatsInv ==
    /\ DOMAIN thread = Threads /\ mixed \in BOOLEAN
    /\ DOMAIN stats = {"items", "signature", "fresh"}
    /\ \A r \in Threads : ThreadInPlace(r)
    /\ StatsAreOfOne

LEMMA StatsBegin == Init => StatsInv
<1> SUFFICES ASSUME Init PROVE StatsInv
    OBVIOUS
<1>1. /\ stats = [items |-> {}, signature |-> {}, fresh |-> FALSE]
      /\ thread = [r \in Threads |-> IdleThread] /\ mixed = FALSE
    BY DEF Init, AdministrationInit, StatsInit
<1>2. \A r \in Threads : /\ thread[r].pc = "idle"
                         /\ DOMAIN thread[r] = {"pc", "signature", "items", "alone"}
    BY <1>1 DEF IdleThread
<1> QED BY <1>1, <1>2 DEF StatsInv, ThreadInPlace, ThreadPlaces, StatsAreOfOne, Storing

\* A step of thread r that leaves the cache alone.
LEMMA LookingKeepsStats ==
    ASSUME NEW r \in Threads, StatsInv, UNCHANGED <<stats, mixed>>,
           DOMAIN thread' = Threads, \A other \in Threads \ {r} : thread'[other] = thread[other],
           ThreadInPlace(r)', ~Storing(r), ~Storing(r)'
    PROVE  StatsInv'
<1>1. \A other \in Threads : Storing(other)' <=> Storing(other)
    BY DEF Storing
<1>2. ASSUME NEW other \in Threads \ {r} PROVE ThreadInPlace(other)'
    BY <1>1, <1>2 DEF StatsInv, ThreadInPlace
<1>3. StatsAreOfOne'
    BY <1>1 DEF StatsInv, StatsAreOfOne, Storing
<1> QED BY <1>2, <1>3 DEF StatsInv

LEMMA ReadMenusKeeps ==
    ASSUME NEW r \in Threads, StatsInv, ReadMenus(r)
    PROVE  StatsInv'
<1> DEFINE d == [IdleThread EXCEPT !.pc = "check", !.signature = VisibleStats,
                    !.alone = ~mixed /\ \A other \in Threads : ~Storing(other)]
<1>1. thread[r].pc = "idle" /\ UNCHANGED <<stats, mixed>> /\ DOMAIN thread = Threads
    BY DEF ReadMenus, Pc, StatsInv
<1>2. thread' = [thread EXCEPT ![r] = d]
    BY DEF ReadMenus
<1>3. /\ DOMAIN d = {"pc", "signature", "items", "alone"} /\ d.pc = "check"
      /\ d.alone = (~mixed /\ \A other \in Threads : ~Storing(other))
    BY DEF IdleThread
<1> HIDE DEF d
<1>4. /\ thread'[r] = d /\ DOMAIN thread' = Threads
      /\ \A other \in Threads \ {r} : thread'[other] = thread[other]
    BY <1>1, <1>2
<1>5. ~Storing(r) /\ ~Storing(r)'
    BY <1>1, <1>3, <1>4 DEF Storing
<1>6. \A other \in Threads \ {r} : Storing(other)' <=> Storing(other)
    BY <1>4 DEF Storing
<1>7. ThreadInPlace(r)'
    BY <1>1, <1>3, <1>4, <1>6 DEF ThreadInPlace, ThreadPlaces
<1> QED BY <1>1, <1>4, <1>5, <1>7, LookingKeepsStats

LEMMA OneFieldKeeps ==
    ASSUME NEW r \in Threads, StatsInv,
           CheckCache(r) \/ CopyItems(r) \/ Count(r) \/ CountFails(r) \/ Answer(r)
    PROVE  StatsInv'
<1>1. /\ ThreadInPlace(r) /\ DOMAIN thread = Threads /\ StatsAreOfOne
      /\ DOMAIN thread[r] = {"pc", "signature", "items", "alone"}
    BY DEF StatsInv, ThreadInPlace
<1>2. UNCHANGED <<stats, mixed>>
    BY DEF CheckCache, CopyItems, Count, CountFails, Answer
<1>3. /\ DOMAIN thread' = Threads
      /\ \A other \in Threads \ {r} : thread'[other] = thread[other]
    BY <1>1 DEF CheckCache, CopyItems, Count, CountFails, Answer
<1>4. ~Storing(r) /\ ~Storing(r)'
    BY <1>1 DEF CheckCache, CopyItems, Count, CountFails, Answer, Pc, Storing, IdleThread
<1>5. \A other \in Threads \ {r} : Storing(other)' <=> Storing(other)
    BY <1>3 DEF Storing
<1>6. ThreadInPlace(r)'
    <2>1. CASE CheckCache(r)
        BY <1>1, <1>2, <1>5, <2>1 DEF CheckCache, Pc, Hits, ThreadInPlace, ThreadPlaces
    <2>2. CASE CopyItems(r)
        <3>1. thread[r].alone => stats.items = stats.signature
            BY <1>1, <1>4, <2>2 DEF CopyItems, Pc, ThreadInPlace, StatsAreOfOne
        <3> QED BY <1>1, <1>2, <1>5, <2>2, <3>1 DEF CopyItems, Pc, ThreadInPlace, ThreadPlaces
    <2>3. CASE Count(r)
        BY <1>1, <1>2, <1>5, <2>3 DEF Count, Pc, ThreadInPlace, ThreadPlaces
    <2>4. CASE CountFails(r) \/ Answer(r)
        BY <1>1, <1>2, <2>4 DEF CountFails, Answer, IdleThread, ThreadInPlace, ThreadPlaces
    <2> QED BY <2>1, <2>2, <2>3, <2>4
<1> QED BY <1>2, <1>3, <1>4, <1>6, LookingKeepsStats
LEMMA StoreItemsKeeps ==
    ASSUME NEW r \in Threads, StatsInv, StoreItems(r)
    PROVE  StatsInv'
<1>1. \A q \in Threads : ThreadInPlace(q) /\ DOMAIN thread[q] = {"pc", "signature", "items", "alone"}
    BY DEF StatsInv, ThreadInPlace
<1>2. /\ thread[r].pc = "store_items" /\ thread[r].items = thread[r].signature
      /\ ~Storing(r)
    BY <1>1 DEF StoreItems, Pc, ThreadInPlace, Storing
<1>3. /\ DOMAIN thread' = Threads /\ thread'[r] = [thread[r] EXCEPT !.pc = "store_expiry"]
      /\ \A other \in Threads \ {r} : thread'[other] = [thread[other] EXCEPT !.alone = FALSE]
      /\ mixed' = \E other \in Threads \ {r} : Storing(other)
      /\ stats' = [stats EXCEPT !.items = thread[r].items]
    BY DEF StoreItems
<1>4. /\ Storing(r)' /\ thread'[r].pc = "store_expiry" /\ thread'[r].alone = thread[r].alone
      /\ thread'[r].items = thread[r].items /\ thread'[r].signature = thread[r].signature
      /\ DOMAIN thread'[r] = {"pc", "signature", "items", "alone"}
    BY <1>1, <1>3 DEF Storing
<1>5. \A other \in Threads \ {r} :
         /\ thread'[other].pc = thread[other].pc /\ ~thread'[other].alone
         /\ thread'[other].items = thread[other].items
         /\ thread'[other].signature = thread[other].signature
         /\ DOMAIN thread'[other] = {"pc", "signature", "items", "alone"}
    BY <1>1, <1>3
<1>6. \A other \in Threads \ {r} : Storing(other)' <=> Storing(other)
    BY <1>5 DEF Storing
<1>7. ThreadInPlace(r)'
    BY <1>1, <1>2, <1>3, <1>4, <1>6 DEF ThreadInPlace, ThreadPlaces
<1>8. ASSUME NEW other \in Threads \ {r} PROVE ThreadInPlace(other)'
    BY <1>1, <1>5 DEF ThreadInPlace
<1>9. stats'.items = thread'[r].items /\ DOMAIN stats' = {"items", "signature", "fresh"}
    BY <1>3, <1>4 DEF StatsInv
<1>10. StatsAreOfOne'
    BY <1>3, <1>4, <1>6, <1>9 DEF StatsAreOfOne
<1>11. mixed' \in BOOLEAN
    BY <1>3
<1> QED BY <1>3, <1>7, <1>8, <1>9, <1>10, <1>11 DEF StatsInv

LEMMA StoreRestKeeps ==
    ASSUME NEW r \in Threads, StatsInv, StoreExpiry(r) \/ StoreSignature(r)
    PROVE  StatsInv'
<1>1. /\ ThreadInPlace(r) /\ DOMAIN thread = Threads /\ StatsAreOfOne
      /\ DOMAIN thread[r] = {"pc", "signature", "items", "alone"}
      /\ DOMAIN stats = {"items", "signature", "fresh"}
    BY DEF StatsInv, ThreadInPlace
<1>2. Storing(r) /\ thread[r].items = thread[r].signature
    BY <1>1 DEF StoreExpiry, StoreSignature, Pc, Storing, ThreadInPlace
<1> DEFINE place == IF thread[r].pc = "store_expiry" THEN "store_signature" ELSE "answer"
<1>3. /\ thread' = [thread EXCEPT ![r].pc = place] /\ UNCHANGED mixed
      /\ \/ stats' = [stats EXCEPT !.fresh = TRUE] /\ place = "store_signature"
         \/ stats' = [stats EXCEPT !.signature = thread[r].signature] /\ place = "answer"
    <2>1. CASE StoreExpiry(r)
        BY <2>1 DEF StoreExpiry, Pc
    <2>2. CASE StoreSignature(r)
        BY <2>2 DEF StoreSignature, Pc
    <2> QED BY <2>1, <2>2
<1> HIDE DEF place
<1>4. /\ DOMAIN thread' = Threads
      /\ thread'[r].pc = place /\ thread'[r].alone = thread[r].alone
      /\ thread'[r].items = thread[r].items /\ thread'[r].signature = thread[r].signature
      /\ DOMAIN thread'[r] = {"pc", "signature", "items", "alone"}
      /\ \A other \in Threads \ {r} : thread'[other] = thread[other]
    BY <1>1, <1>3
<1>5. \A other \in Threads \ {r} : Storing(other)' <=> Storing(other)
    BY <1>4 DEF Storing
<1>6. ThreadInPlace(r)'
    BY <1>1, <1>2, <1>3, <1>4, <1>5 DEF ThreadInPlace, ThreadPlaces, Storing
<1>7. ASSUME NEW other \in Threads \ {r} PROVE ThreadInPlace(other)'
    <2>1. ThreadInPlace(other) /\ thread'[other] = thread[other]
        BY <1>4 DEF StatsInv
    <2>2. thread[other].pc # "idle" => ~thread[other].alone
        BY <1>2, <2>1 DEF ThreadInPlace
    <2> QED BY <2>1, <2>2 DEF ThreadInPlace
<1>8. StatsAreOfOne'
    <2>1. SUFFICES ASSUME ~mixed PROVE StatsAreOfOne'
        BY <1>3 DEF StatsAreOfOne
    <2>2. stats.items = thread[r].items /\ \A other \in Threads \ {r} : ~Storing(other)
        BY <1>1, <1>2, <2>1 DEF StatsAreOfOne
    <2>3. CASE stats' = [stats EXCEPT !.fresh = TRUE] /\ place = "store_signature"
        <3>1. stats'.items = stats.items /\ Storing(r)'
            BY <1>1, <1>4, <2>3 DEF Storing
        <3> QED BY <1>4, <1>5, <2>2, <3>1 DEF StatsAreOfOne
    <2>4. CASE stats' = [stats EXCEPT !.signature = thread[r].signature] /\ place = "answer"
        <3>1. stats'.items = stats.items /\ stats'.signature = thread[r].signature
              /\ ~Storing(r)'
            BY <1>1, <1>4, <2>4 DEF Storing
        <3> QED BY <1>2, <1>5, <2>2, <3>1 DEF StatsAreOfOne
    <2> QED BY <1>3, <2>3, <2>4
<1>9. DOMAIN stats' = {"items", "signature", "fresh"}
    BY <1>1, <1>3
<1> QED BY <1>3, <1>4, <1>6, <1>7, <1>8, <1>9 DEF StatsInv

LEMMA StatsGoOn == StatsInv /\ [Next]_vars => StatsInv'
<1> SUFFICES ASSUME StatsInv, [Next]_vars PROVE StatsInv'
    OBVIOUS
<1>1. CASE UNCHANGED statsVars
    <2>1. \A r \in Threads : Storing(r)' <=> Storing(r)
        BY <1>1 DEF statsVars, Storing
    <2> QED BY <1>1, <2>1 DEF statsVars, StatsInv, ThreadInPlace, StatsAreOfOne
<1>2. CASE Expire
    <2>1. \A r \in Threads : Storing(r)' <=> Storing(r)
        BY <1>2 DEF Expire, Storing
    <2>2. /\ stats'.items = stats.items /\ stats'.signature = stats.signature
          /\ DOMAIN stats' = {"items", "signature", "fresh"}
        BY <1>2 DEF Expire, StatsInv
    <2>3. UNCHANGED <<thread, mixed>>
        BY <1>2 DEF Expire
    <2>4. \A r \in Threads : ThreadInPlace(r)'
        BY <2>1, <2>2, <2>3 DEF StatsInv, ThreadInPlace
    <2>5. StatsAreOfOne'
        BY <2>1, <2>2, <2>3 DEF StatsInv, StatsAreOfOne
    <2> QED BY <2>2, <2>3, <2>4, <2>5 DEF StatsInv
<1>3. CASE StatsStep
    BY <1>2, <1>3, ReadMenusKeeps, OneFieldKeeps, StoreItemsKeeps, StoreRestKeeps DEF StatsStep
<1> QED BY <1>1, <1>3 DEF Next, vars, adminVars, RegisterStep, AdministrationStep, AccountStep,
            MenuStep, StatisticStep, DictionaryStep, statsVars

-----------------------------------------------------------------------------
(* The statements of a write                                                *)

\* A set that holds 0 and with each number the next one holds them all.
LEMMA SetInduction ==
    ASSUME NEW S, 0 \in S, \A n \in Nat : n \in S => n + 1 \in S
    PROVE  Nat \subseteq S
<1> DEFINE R == OpToRel(<, Nat)
           T == Nat \ S
<1>1. R = {ss \in Nat \X Nat : ss[1] < ss[2]}
    BY DEF OpToRel
<1>2. IsWellFoundedOn(R, Nat)
    BY NatLessThanWellFounded
<1> HIDE DEF R
<1>3. ASSUME T # {} PROVE FALSE
    <2>1. T \subseteq Nat
        OBVIOUS
    <2> HIDE DEF T
    <2>2. PICK x \in T : \A y \in T : ~ (<<y, x>> \in R)
        BY <1>2, <1>3, <2>1, WFMin
    <2> USE DEF T
    <2>3. x # 0 /\ x \in Nat
        OBVIOUS
    <2>4. x - 1 \in Nat /\ x - 1 \in T
        BY <2>3
    <2>5. <<x - 1, x>> \in R
        BY <1>1, <2>3, <2>4
    <2> QED BY <2>2, <2>4, <2>5
<1> QED BY <1>3

\* A statement.
Run(s, result, i) == Execute(session[s].base, result, session[s].statements[i])

Start == [db |-> db, ok |-> TRUE]

IsRun(s, f, n) ==
  f = [t \in SUBSET (1 .. n) |->
         IF t = {} THEN Start ELSE Run(s, f[t \ {Max(t)}], Max(t))]

LEMMA MaxOf ==
    ASSUME NEW n \in Nat, NEW t \in SUBSET (1 .. n + 1), n + 1 \in t
    PROVE  Max(t) = n + 1
<1>1. n + 1 \in t /\ \A y \in t : n + 1 >= y
    OBVIOUS
<1>2. \A x \in t : (\A y \in t : x >= y) => x = n + 1
    OBVIOUS
<1> QED BY <1>1, <1>2 DEF Max

LEMMA RunExists ==
    ASSUME NEW s, NEW n \in Nat
    PROVE  \E f : IsRun(s, f, n)
<1> DEFINE T == {m \in Nat : \E f : IsRun(s, f, m)}
<1>1. 0 \in T
    <2> DEFINE f == [t \in SUBSET (1 .. 0) |-> Start]
    <2>1. \A t \in SUBSET (1 .. 0) : t = {}
        OBVIOUS
    <2>2. f = [t \in SUBSET (1 .. 0) |->
                 IF t = {} THEN Start ELSE Run(s, f[t \ {Max(t)}], Max(t))]
        BY <2>1
    <2> HIDE DEF f
    <2>3. IsRun(s, f, 0)
        BY <2>2 DEF IsRun
    <2> QED BY <2>3
<1>2. ASSUME NEW m \in Nat, m \in T PROVE m + 1 \in T
    <2>1. PICK f : IsRun(s, f, m)
        BY <1>2
    <2> DEFINE g == [t \in SUBSET (1 .. m + 1) |->
                       IF m + 1 \in t THEN Run(s, f[t \ {m + 1}], m + 1) ELSE f[t]]
               h == [t \in SUBSET (1 .. m + 1) |->
                       IF t = {} THEN Start ELSE Run(s, g[t \ {Max(t)}], Max(t))]
    <2>2. ASSUME NEW t \in SUBSET (1 .. m + 1) PROVE g[t] = h[t]
        <3>1. CASE m + 1 \in t
            <4>1. Max(t) = m + 1 /\ t # {}
                BY <3>1, MaxOf
            <4>2. t \ {m + 1} \in SUBSET (1 .. m + 1) /\ m + 1 \notin t \ {m + 1}
                OBVIOUS
            <4>3. g[t \ {m + 1}] = f[t \ {m + 1}]
                BY <4>2
            <4>4. g[t] = Run(s, f[t \ {m + 1}], m + 1)
                BY <3>1
            <4>5. h[t] = Run(s, g[t \ {m + 1}], m + 1)
                BY <4>1
            <4> QED BY <4>3, <4>4, <4>5
        <3>2. CASE m + 1 \notin t
            <4>1. t \in SUBSET (1 .. m) /\ g[t] = f[t]
                BY <3>2
            <4>2. f[t] = IF t = {} THEN Start ELSE Run(s, f[t \ {Max(t)}], Max(t))
                BY <2>1, <4>1 DEF IsRun
            <4>3. t # {} => g[t \ {Max(t)}] = f[t \ {Max(t)}]
                BY <3>2
            <4> QED BY <4>1, <4>2, <4>3
        <3> QED BY <3>1, <3>2
    <2>3. g = h
        BY <2>2
    <2>4. IsRun(s, g, m + 1)
        <3> HIDE DEF g
        <3> QED BY <2>3 DEF IsRun
    <2> HIDE DEF g
    <2> QED BY <2>4
<1> HIDE DEF T
<1>3. n \in T
    BY <1>1, <1>2, SetInduction
<1> QED BY <1>3 DEF T

LEMMA RunIs ==
    ASSUME NEW s, NEW n \in Nat, DOMAIN session[s].statements = 1 .. n
    PROVE  \E f : IsRun(s, f, n) /\ RunAll(s) = f[1 .. n]
<1> DEFINE G == CHOOSE iter : iter = [t \in SUBSET (1 .. n) |->
              IF t = {} THEN Start
              ELSE LET x == Max(t) IN Execute(session[s].base, iter[t \ {x}], session[s].statements[x])]
<1>1. RunAll(s) = G[1 .. n]
    BY DEF RunAll, FoldLeft, MapThenFoldSet, Start
<1>2. IsRun(s, G, n)
    BY RunExists DEF IsRun, Run
<1> HIDE DEF G
<1> QED BY <1>1, <1>2

LEMMA RunsOne ==
    ASSUME NEW s, NEW st, session[s].statements = <<st>>
    PROVE  RunAll(s) = Execute(session[s].base, Start, st)
<1>1. DOMAIN session[s].statements = 1 .. 1 /\ session[s].statements[1] = st
    OBVIOUS
<1>2. PICK f : IsRun(s, f, 1) /\ RunAll(s) = f[1 .. 1]
    BY <1>1, RunIs
<1>3. 1 .. 1 = {1} /\ Max({1}) = 1 /\ {1} \ {1} = {}
    BY DEF Max
<1>4. f[{}] = Start
    BY <1>2 DEF IsRun
<1>5. f[1 .. 1] = Run(s, f[{}], 1)
    BY <1>2, <1>3 DEF IsRun
<1> QED BY <1>1, <1>2, <1>4, <1>5 DEF Run

-----------------------------------------------------------------------------
(* The cache of the codes                                                   *)

ItemFields == {"item_id", "category_code", "item_code", "value", "is_active"}
CategoryFields == {"category_id", "category_code", "is_active"}
SessionFields == {"at", "request", "statements", "found", "base", "late"}
ReaderFields == {"pc", "keys", "missing", "loaded", "took", "overlap", "got"}
EntryFields == {"value", "stale", "left", "overlap"}

CodeTablesOK ==
    /\ ~foreignKeys /\ DOMAIN db = Tables
    /\ \A row \in db["code_item"] : DOMAIN row = ItemFields
    /\ \A row \in db["code_category"] : DOMAIN row = CategoryFields
    /\ \A a, b \in db["code_item"] : a.item_id = b.item_id => a = b
    /\ \A a, b \in db["code_category"] : a.category_id = b.category_id => a = b

\* What a session has planned of a row.
PlansInsert(s) == \E payload \in Dictionaries :
    /\ session[s].request = <<"item", {payload.category}>>
    /\ session[s].statements = <<Insert("code_item", NewItem(payload))>>

PlansUpdate(s, row) == \E payload \in Dictionaries :
    /\ session[s].request = <<"item", CategoriesOf(row, payload)>>
    /\ session[s].statements = <<Update("code_item", ById(row.item_id), ItemColumns(payload))>>

PlansStatus(s, row) == \E active \in BOOLEAN :
    /\ session[s].request = <<"status", row.item_id>>
    /\ session[s].statements = <<Update("code_item", ById(row.item_id), [is_active |-> active])>>

PlansDelete(s, row) ==
    /\ session[s].request = <<"item", {row.category_code}>>
    /\ session[s].statements = <<Delete("code_item", ById(row.item_id))>>

PlansCategory(s, row) == \E active \in BOOLEAN :
    /\ session[s].request = <<"item", {row.category_code}>>
    /\ session[s].statements =
         <<Update("code_category", [category_id |-> {row.category_id}], [is_active |-> active])>>

PlansConfig(s) == \E id, config :
    /\ session[s].request = <<"rag">>
    /\ session[s].statements =
         <<Update("code_item", [item_id |-> {id}, category_code |-> {Reserved},
                     item_code |-> {DefaultCode}, is_active |-> {FALSE}], [value |-> config])>>

\* The row is there while no other session has committed.
PlanInPlace(s) ==
    \/ PlansInsert(s) \/ PlansConfig(s)
    \/ \E row : /\ session[s].late \/ row \in db["code_item"]
                /\ PlansUpdate(s, row) \/ PlansStatus(s, row) \/ PlansDelete(s, row)
    \/ \E row : /\ session[s].late \/ row \in db["code_category"]
                /\ PlansCategory(s, row)

SessionsOK ==
    /\ DOMAIN session = Sessions
    /\ \A s \in Sessions : DOMAIN session[s] = SessionFields /\ session[s].late \in BOOLEAN
    /\ \A s \in Sessions : session[s].at # "idle" => PlanInPlace(s)

\* What a write is about to change is not in the cache, or was put there by a reader
\* that knows of the overlap.
AnnouncedOK ==
    /\ \A s \in announced : /\ s \in Sessions
                            /\ session[s].at = "numbered" /\ session[s].request[1] # "rag"
    /\ \A s \in announced : ~session[s].late =>
          \A k \in (ChangedCategories(s) \cup {List}) \cap DOMAIN cache : cache[k].overlap

\* Answers are of entries that were good, and what is loaded is what is stored, unless
\* writes overlap.
ReaderOK(r) ==
    /\ DOMAIN reader[r] = ReaderFields
    /\ reader[r].pc \in {"idle", "look_up", "store"}
    /\ reader[r].keys \in Seq(STRING) /\ reader[r].missing \in Seq(STRING)
    /\ reader[r].took \in 0 .. MaxLoad /\ reader[r].overlap \in BOOLEAN
    /\ reader[r].pc # "store" => reader[r].took = 0
    /\ reader[r].pc = "store" =>
          /\ ToSet(reader[r].missing) \subseteq DOMAIN reader[r].loaded
          /\ announced # {} => reader[r].overlap
          /\ \A k \in DOMAIN reader[r].loaded :
                /\ DOMAIN reader[r].loaded[k] = {"value", "stale"}
                /\ reader[r].loaded[k].stale \in 0 .. reader[r].took
                /\ raced \/ reader[r].overlap \/ reader[r].loaded[k].value = Stored(k)
    /\ \A got \in reader[r].got : got.stale < Lifetime + MaxLoad

EntryOK(k) ==
    /\ DOMAIN cache[k] = EntryFields
    /\ cache[k].stale \in Nat /\ cache[k].left \in 0 .. Lifetime /\ cache[k].overlap \in BOOLEAN
    /\ cache[k].left > 0 => cache[k].stale + cache[k].left <= Lifetime + MaxLoad
    /\ raced \/ cache[k].overlap \/ cache[k].value = Stored(k)

CodesOK ==
    /\ CodeTablesOK /\ SessionsOK /\ AnnouncedOK
    /\ raced \in BOOLEAN /\ DOMAIN reader = Readers
    /\ \A k \in DOMAIN cache : EntryOK(k)
    /\ \A r \in Readers : ReaderOK(r)

\* In the other areas nobody asks for codes.
CodesInv ==
    IF area = "codes" THEN CodesOK
    ELSE cache = <<>> /\ reader = [r \in Readers |-> IdleReader]

-----------------------------------------------------------------------------
(* What a write changes of what is stored                                   *)

LEMMA ActiveIs ==
    ASSUME NEW k, NEW row
    PROVE  row \in ActiveItems(k) <=>
             row \in db["code_item"] /\ row.category_code = k /\ row.is_active = TRUE
<1> DEFINE selector == [category_code |-> {k}, is_active |-> {TRUE}]
<1>1. /\ DOMAIN selector = {"category_code", "is_active"}
      /\ selector["category_code"] = {k} /\ selector["is_active"] = {TRUE}
    OBVIOUS
<1>2. ActiveItems(k) = Matching(db["code_item"], selector)
    BY DEF ActiveItems, Select
<1> HIDE DEF selector
<1>3. row \in ActiveItems(k)
        <=> row \in db["code_item"] /\ \A c \in DOMAIN selector : row[c] \in selector[c]
    BY <1>2 DEF Matching
<1> QED BY <1>1, <1>3

\* Entries of other categories do not depend on a category or its items.
LEMMA StoredIs ==
    ASSUME NEW k, k # List, ActiveItems(k)' = ActiveItems(k),
           k \in ActiveCategories' <=> k \in ActiveCategories
    PROVE  Stored(k)' = Stored(k)
<1>1. GetItems(k)' = GetItems(k)
    BY DEF GetItems
<1> QED BY <1>1 DEF Stored

\* No statement but one of categories changes these.
LEMMA CategoriesStay ==
    ASSUME db'["code_category"] = db["code_category"]
    PROVE  ActiveCategories' = ActiveCategories
BY DEF ActiveCategories, Select, Matching
LEMMA HitById ==
    ASSUME NEW rows, NEW id, NEW row
    PROVE  row \in Matching(rows, ById(id)) <=> row \in rows /\ row.item_id = id
<1>1. DOMAIN ById(id) = {"item_id"} /\ ById(id)["item_id"] = {id}
    BY DEF ById
<1>2. row \in Matching(rows, ById(id))
        <=> row \in rows /\ \A c \in DOMAIN ById(id) : row[c] \in ById(id)[c]
    BY DEF Matching
<1> QED BY <1>1, <1>2

LEMMA ColumnsAreSet ==
    ASSUME NEW row, NEW set
    PROVE  /\ DOMAIN SetColumns(row, set) = DOMAIN row
           /\ \A c \in DOMAIN row :
                 SetColumns(row, set)[c] = IF c \in DOMAIN set THEN set[c] ELSE row[c]
BY DEF SetColumns

\* Keys are unique after a statement that succeeded, rows have their columns.
LEMMA ItemsStayOK ==
    ASSUME CodeTablesOK, UNCHANGED foreignKeys, NEW rows,
           db' = [db EXCEPT !["code_item"] = rows], ConstraintsHold(db', "code_item"),
           \A row \in rows : DOMAIN row = ItemFields
    PROVE  CodeTablesOK'
<1>1. "code_item" \in Tables /\ "code_category" \in Tables
    BY DEF Tables, Key
<1>2. /\ DOMAIN db' = Tables /\ db'["code_item"] = rows
      /\ db'["code_category"] = db["code_category"]
    BY <1>1 DEF CodeTablesOK
<1>3. Key["code_item"] = "item_id"
    BY DEF Key
<1>4. \A a, b \in rows : a # b => a["item_id"] # b["item_id"]
    BY <1>2, <1>3 DEF ConstraintsHold
<1> QED BY <1>2, <1>4 DEF CodeTablesOK

LEMMA CategoriesStayOK ==
    ASSUME CodeTablesOK, UNCHANGED foreignKeys, NEW rows,
           db' = [db EXCEPT !["code_category"] = rows], ConstraintsHold(db', "code_category"),
           \A row \in rows : DOMAIN row = CategoryFields
    PROVE  CodeTablesOK'
<1>1. "code_item" \in Tables /\ "code_category" \in Tables
    BY DEF Tables, Key
<1>2. /\ DOMAIN db' = Tables /\ db'["code_category"] = rows
      /\ db'["code_item"] = db["code_item"]
    BY <1>1 DEF CodeTablesOK
<1>3. Key["code_category"] = "category_id"
    BY DEF Key
<1>4. \A a, b \in rows : a # b => a["category_id"] # b["category_id"]
    BY <1>2, <1>3 DEF ConstraintsHold
<1> QED BY <1>2, <1>4 DEF CodeTablesOK

\* A statement of each kind, run alone.
LEMMA ExecutesInsert ==
    ASSUME NEW base, NEW result, NEW st, st.do = "insert"
    PROVE  LET next == [result.db EXCEPT ![st.table] = result.db[st.table]
                                            \cup {Numbered(st.table, st.row, base)}]
           IN  /\ Execute(base, result, st).db = next
               /\ Execute(base, result, st).ok => ConstraintsHold(next, st.table)
<1> DEFINE next == [result.db EXCEPT ![st.table] = result.db[st.table]
                                            \cup {Numbered(st.table, st.row, base)}]
<1>1. Execute(base, result, st) =
        [db |-> next,
         ok |-> /\ result.ok /\ ConstraintsHold(next, st.table)
                /\ Numbered(st.table, st.row, base) \notin result.db[st.table]]
    BY DEF Execute
<1> HIDE DEF next
<1>2. Execute(base, result, st).db = next
    BY <1>1
<1>3. Execute(base, result, st).ok => ConstraintsHold(next, st.table)
    BY <1>1
<1> QED BY <1>2, <1>3 DEF next

LEMMA ExecutesUpdate ==
    ASSUME NEW base, NEW result, NEW st, st.do = "update"
    PROVE  LET rows == result.db[st.table]
               hit  == Matching(rows, st.where)
               next == [result.db EXCEPT ![st.table] =
                          (rows \ hit) \cup {SetColumns(r, st.set) : r \in hit}]
           IN  /\ Execute(base, result, st).db = next
               /\ Execute(base, result, st).ok => ConstraintsHold(next, st.table)
<1> DEFINE rows == result.db[st.table]
           hit  == Matching(rows, st.where)
           next == [result.db EXCEPT ![st.table] =
                          (rows \ hit) \cup {SetColumns(r, st.set) : r \in hit}]
<1>1. Execute(base, result, st) =
        [db |-> next, ok |-> result.ok /\ ConstraintsHold(next, st.table)]
    BY DEF Execute
<1> HIDE DEF next
<1>2. Execute(base, result, st).db = next
    BY <1>1
<1>3. Execute(base, result, st).ok = (result.ok /\ ConstraintsHold(next, st.table))
    BY <1>1
<1>4. Execute(base, result, st).ok => ConstraintsHold(next, st.table)
    BY <1>3, Zenon
<1> QED BY <1>2, <1>4 DEF next

LEMMA ExecutesDelete ==
    ASSUME NEW base, NEW result, NEW st, st.do = "delete", ~foreignKeys
    PROVE  LET rows == result.db[st.table]
               next == [result.db EXCEPT ![st.table] = rows \ Matching(rows, st.where)]
           IN  /\ Execute(base, result, st).db = next
               /\ Execute(base, result, st).ok => ConstraintsHold(next, st.table)
<1> DEFINE rows == result.db[st.table]
           next == [result.db EXCEPT ![st.table] = rows \ Matching(rows, st.where)]
<1>1. Execute(base, result, st) =
        [db |-> next, ok |-> result.ok /\ ConstraintsHold(next, st.table)]
    BY DEF Execute, Cascade
<1> HIDE DEF next
<1>2. Execute(base, result, st).db = next
    BY <1>1
<1>3. Execute(base, result, st).ok = (result.ok /\ ConstraintsHold(next, st.table))
    BY <1>1
<1>4. Execute(base, result, st).ok => ConstraintsHold(next, st.table)
    BY <1>3, Zenon
<1> QED BY <1>2, <1>4 DEF next

\* A write of one statement.
LEMMA CommitsInsert ==
    ASSUME NEW s \in Sessions, Commit(s), NEW t, NEW row,
           session[s].statements = <<Insert(t, row)>>
    PROVE  /\ db' = [db EXCEPT ![t] = @ \cup {Numbered(t, row, session[s].base)}]
           /\ ConstraintsHold(db', t)
<1> DEFINE st == Insert(t, row)
<1>1. st.do = "insert" /\ st.table = t /\ st.row = row
    BY DEF Insert
<1>2. RunAll(s) = Execute(session[s].base, Start, st)
    BY RunsOne
<1> HIDE DEF st
<1>3. RunAll(s).ok /\ db' = RunAll(s).db
    BY DEF Commit, Answered
<1>4. Start.db = db
    BY DEF Start
<1> HIDE DEF Start
<1> QED BY <1>1, <1>2, <1>3, <1>4, ExecutesInsert

LEMMA CommitsUpdate ==
    ASSUME NEW s \in Sessions, Commit(s), NEW t, NEW where, NEW set,
           session[s].statements = <<Update(t, where, set)>>
    PROVE  /\ db' = [db EXCEPT ![t] = (@ \ Matching(@, where))
                          \cup {SetColumns(r, set) : r \in Matching(@, where)}]
           /\ ConstraintsHold(db', t)
<1> DEFINE st == Update(t, where, set)
<1>1. st.do = "update" /\ st.table = t /\ st.where = where /\ st.set = set
    BY DEF Update
<1>2. RunAll(s) = Execute(session[s].base, Start, st)
    BY RunsOne
<1> HIDE DEF st
<1>3. RunAll(s).ok /\ db' = RunAll(s).db
    BY DEF Commit, Answered
<1>4. Start.db = db
    BY DEF Start
<1> HIDE DEF Start
<1> DEFINE rows == db[t]
           hit  == Matching(rows, where)
           moved == {SetColumns(r, st.set) : r \in Matching(rows, st.where)}
<1>5. moved = {SetColumns(r, set) : r \in hit}
    BY <1>1
<1>6. /\ db' = [db EXCEPT ![t] = (rows \ hit) \cup moved]
      /\ ConstraintsHold([db EXCEPT ![t] = (rows \ hit) \cup moved], t)
    BY <1>1, <1>2, <1>3, <1>4, ExecutesUpdate
<1> HIDE DEF moved
<1>7. ConstraintsHold(db', t)
    BY <1>6
<1> QED BY <1>5, <1>6, <1>7

LEMMA CommitsDelete ==
    ASSUME NEW s \in Sessions, Commit(s), NEW t, NEW where, ~foreignKeys,
           session[s].statements = <<Delete(t, where)>>
    PROVE  /\ db' = [db EXCEPT ![t] = @ \ Matching(@, where)]
           /\ ConstraintsHold(db', t)
<1> DEFINE st == Delete(t, where)
<1>1. st.do = "delete" /\ st.table = t /\ st.where = where
    BY DEF Delete
<1>2. RunAll(s) = Execute(session[s].base, Start, st)
    BY RunsOne
<1> HIDE DEF st
<1>3. RunAll(s).ok /\ db' = RunAll(s).db
    BY DEF Commit, Answered
<1>4. Start.db = db
    BY DEF Start
<1> HIDE DEF Start
<1> QED BY <1>1, <1>2, <1>3, <1>4, ExecutesDelete

-----------------------------------------------------------------------------
(* Steps that leave the tables as they are                                  *)

LEMMA SameTables ==
    ASSUME UNCHANGED <<db, foreignKeys>>
    PROVE  /\ \A k : Stored(k)' = Stored(k)
           /\ CodeTablesOK' <=> CodeTablesOK
<1>1. \A k : ActiveItems(k)' = ActiveItems(k)
    BY DEF ActiveItems, Select
<1>2. ActiveCategories' = ActiveCategories
    BY DEF ActiveCategories, Select
<1>3. GetCategories' = GetCategories /\ \A k : GetItems(k)' = GetItems(k)
    BY <1>1, <1>2 DEF GetCategories, GetItems
<1>4. \A k : Stored(k)' = Stored(k)
    BY <1>3 DEF Stored
<1>5. CodeTablesOK' <=> CodeTablesOK
    BY DEF CodeTablesOK
<1> QED BY <1>4, <1>5

LEMMA SameChange ==
    ASSUME NEW r, db' = db, session'[r].request = session[r].request
    PROVE  ChangedCategories(r)' = ChangedCategories(r)
BY DEF ChangedCategories, Select

LEMMA SamePlan ==
    ASSUME NEW r, session'[r].request = session[r].request,
           session'[r].statements = session[r].statements, PlanInPlace(r),
           session'[r].late \/ (session'[r].late = session[r].late /\ db' = db)
    PROVE  PlanInPlace(r)'
<1>1. /\ PlansInsert(r) => PlansInsert(r)'
      /\ PlansConfig(r) => PlansConfig(r)'
      /\ \A row : /\ PlansUpdate(r, row) => PlansUpdate(r, row)'
                  /\ PlansStatus(r, row) => PlansStatus(r, row)'
                  /\ PlansDelete(r, row) => PlansDelete(r, row)'
                  /\ PlansCategory(r, row) => PlansCategory(r, row)'
    BY DEF PlansInsert, PlansConfig, PlansUpdate, PlansStatus, PlansDelete, PlansCategory
<1> QED BY <1>1 DEF PlanInPlace

\* A session that begins a write, chooses its keys or rolls back.
LEMMA PlanningKeepsCodes ==
    ASSUME CodesOK, NEW s \in Sessions, UNCHANGED <<db, foreignKeys, raced, cache, reader>>,
           announced' = announced \ {s}, DOMAIN session' = Sessions,
           \A r \in Sessions \ {s} : session'[r] = session[r],
           DOMAIN session'[s] = SessionFields, session'[s].late \in BOOLEAN,
           session'[s].at # "idle" => PlanInPlace(s)'
    PROVE  CodesOK'
<1>1. CodeTablesOK /\ SessionsOK /\ AnnouncedOK /\ raced \in BOOLEAN
    BY DEF CodesOK
<1>2. (\A k : Stored(k)' = Stored(k)) /\ CodeTablesOK'
    BY <1>1, SameTables
<1>3. SessionsOK'
    <2>1. ASSUME NEW r \in Sessions \ {s} PROVE session'[r].at # "idle" => PlanInPlace(r)'
        BY <1>1, <2>1, SamePlan DEF SessionsOK
    <2> QED BY <1>1, <2>1 DEF SessionsOK
<1>4. AnnouncedOK'
    <2>1. \A r \in announced' : r \in announced /\ r \in Sessions \ {s}
        BY <1>1 DEF AnnouncedOK
    <2>2. \A r \in announced' : ChangedCategories(r)' = ChangedCategories(r)
        BY <2>1, SameChange
    <2> QED BY <1>1, <2>1, <2>2 DEF AnnouncedOK
<1>5. \A k \in DOMAIN cache' : EntryOK(k)'
    BY <1>2 DEF CodesOK, EntryOK
<1>6. \A r \in Readers : ReaderOK(r)'
    BY <1>2 DEF CodesOK, ReaderOK
<1>7. DOMAIN reader' = Readers /\ raced' \in BOOLEAN
    BY DEF CodesOK
<1> QED BY <1>2, <1>3, <1>4, <1>5, <1>6, <1>7 DEF CodesOK

LEMMA DictionaryOperationKeeps ==
    ASSUME CodesOK, NEW s \in Sessions, DictionaryOperation(s), UNCHANGED codeVars
    PROVE  CodesOK'
<1>1. PICK request, statements, found : Begin(s, request, statements, found)
    BY DEF DictionaryOperation, CreateParamDict, UpdateParamDict, UpdateParamDictStatus,
           DeleteParamDict, UpdateParamCategoryStatus, UpdateRagSearchConfig
<1>2. DOMAIN session = Sessions /\ session[s].at = "idle" /\ s \notin announced
    BY <1>1 DEF Begin, CodesOK, SessionsOK, AnnouncedOK
<1>3. ASSUME NEW q, NEW w, NEW f, Begin(s, q, w, f)
      PROVE  /\ session'[s].request = q /\ session'[s].statements = w
             /\ DOMAIN session' = Sessions /\ DOMAIN session'[s] = SessionFields
             /\ session'[s].late = FALSE
             /\ \A r \in Sessions \ {s} : session'[r] = session[r]
    <2> DEFINE d == [Idle EXCEPT !.at = "checked", !.request = q, !.statements = w, !.found = f]
    <2>1. /\ d.request = q /\ d.statements = w /\ d.late = FALSE /\ DOMAIN d = SessionFields
        BY DEF Idle, SessionFields
    <2>2. session' = [session EXCEPT ![s] = d]
        BY <1>3 DEF Begin
    <2> HIDE DEF d
    <2> QED BY <1>2, <2>1, <2>2
<1>4. UNCHANGED <<db, foreignKeys, raced, cache, reader, announced>>
    BY <1>1 DEF Begin, codeVars
<1>5. PlanInPlace(s)'
    <2>1. CASE CreateParamDict(s)
        <3>1. PlansInsert(s)'
            BY <1>3, <2>1 DEF CreateParamDict, PlansInsert
        <3> QED BY <3>1 DEF PlanInPlace
    <2>2. CASE UpdateParamDict(s)
        <3>1. PICK row \in db["code_item"], payload \in Dictionaries :
                Begin(s, <<"item", CategoriesOf(row, payload)>>,
                  <<Update("code_item", ById(row.item_id), ItemColumns(payload))>>, {})
            BY <2>2 DEF UpdateParamDict
        <3>2. PlansUpdate(s, row)'
            BY <1>3, <3>1 DEF PlansUpdate
        <3> QED BY <1>4, <3>2 DEF PlanInPlace
    <2>3. CASE UpdateParamDictStatus(s)
        <3>1. PICK row \in db["code_item"], active \in BOOLEAN :
                Begin(s, <<"status", row.item_id>>,
                  <<Update("code_item", ById(row.item_id), [is_active |-> active])>>,
                  {[table |-> "code_item", where |-> ById(row.item_id)]})
            BY <2>3 DEF UpdateParamDictStatus
        <3>2. PlansStatus(s, row)'
            BY <1>3, <3>1 DEF PlansStatus
        <3> QED BY <1>4, <3>2 DEF PlanInPlace
    <2>4. CASE DeleteParamDict(s)
        <3>1. PICK row \in db["code_item"] :
                Begin(s, <<"item", {row.category_code}>>,
                      <<Delete("code_item", ById(row.item_id))>>, {})
            BY <2>4 DEF DeleteParamDict
        <3>2. PlansDelete(s, row)'
            BY <1>3, <3>1 DEF PlansDelete
        <3> QED BY <1>4, <3>2 DEF PlanInPlace
    <2>5. CASE UpdateParamCategoryStatus(s)
        <3>1. PICK row \in db["code_category"], active \in BOOLEAN :
                Begin(s, <<"item", {row.category_code}>>,
                  <<Update("code_category", [category_id |-> {row.category_id}],
                           [is_active |-> active])>>, {})
            BY <2>5 DEF UpdateParamCategoryStatus
        <3>2. PlansCategory(s, row)'
            BY <1>3, <3>1 DEF PlansCategory
        <3> QED BY <1>4, <3>2 DEF PlanInPlace
    <2>6. CASE UpdateRagSearchConfig(s)
        <3>1. PlansConfig(s)'
            BY <1>3, <2>6 DEF UpdateRagSearchConfig, PlansConfig
        <3> QED BY <3>1 DEF PlanInPlace
    <2> QED BY <2>1, <2>2, <2>3, <2>4, <2>5, <2>6 DEF DictionaryOperation
<1>6. announced' = announced \ {s}
    BY <1>2, <1>4
<1>7. /\ DOMAIN session' = Sessions /\ DOMAIN session'[s] = SessionFields
      /\ session'[s].late \in BOOLEAN
      /\ \A r \in Sessions \ {s} : session'[r] = session[r]
    BY <1>1, <1>3
<1> QED BY <1>4, <1>5, <1>6, <1>7, PlanningKeepsCodes

LEMMA ChooseKeysKeeps ==
    ASSUME CodesOK, NEW s \in Sessions, ChooseKeys(s), UNCHANGED codeVars
    PROVE  CodesOK'
<1> DEFINE into == {session[s].statements[i].table : i \in
                      {j \in DOMAIN session[s].statements : session[s].statements[j].do = "insert"}}
           base == [t \in into |-> NextKey(t)]
<1>1. session' = [session EXCEPT ![s].at = "numbered", ![s].base = base]
    BY DEF ChooseKeys
<1> HIDE DEF base
<1>2. /\ DOMAIN session = Sessions /\ DOMAIN session[s] = SessionFields
      /\ session[s].late \in BOOLEAN /\ session[s].at = "checked" /\ PlanInPlace(s)
      /\ s \notin announced
    BY DEF ChooseKeys, CodesOK, SessionsOK, AnnouncedOK
<1>3. /\ DOMAIN session' = Sessions /\ DOMAIN session'[s] = SessionFields
      /\ session'[s].late = session[s].late /\ session'[s].request = session[s].request
      /\ session'[s].statements = session[s].statements
      /\ \A r \in Sessions \ {s} : session'[r] = session[r]
    BY <1>1, <1>2 DEF SessionFields
<1>4. UNCHANGED <<db, foreignKeys, raced, cache, reader, announced>>
    BY DEF ChooseKeys, codeVars
<1>5. PlanInPlace(s)'
    BY <1>2, <1>3, <1>4, SamePlan
<1> QED BY <1>2, <1>3, <1>4, <1>5, PlanningKeepsCodes

LEMMA RollBackKeeps ==
    ASSUME CodesOK, NEW s \in Sessions, RollBackCodes(s)
    PROVE  CodesOK'
<1>1. /\ DOMAIN session' = Sessions /\ session'[s] = Idle
      /\ \A r \in Sessions \ {s} : session'[r] = session[r]
      /\ UNCHANGED <<db, foreignKeys, raced, cache, reader>> /\ announced' = announced \ {s}
    BY DEF RollBackCodes, RollBack, CodesOK, SessionsOK
<1>2. DOMAIN Idle = SessionFields /\ Idle.late = FALSE /\ Idle.at = "idle"
    BY DEF Idle, SessionFields
<1> QED BY <1>1, <1>2, PlanningKeepsCodes

-----------------------------------------------------------------------------
(* The commit of a write                                                    *)

\* Nothing of a category is changed if its items and its own row stay.
LEMMA ItemsChange ==
    ASSUME CodeTablesOK, NEW k, k # List, NEW rows, db' = [db EXCEPT !["code_item"] = rows],
           \A row : row.category_code = k => (row \in rows <=> row \in db["code_item"])
    PROVE  Stored(k)' = Stored(k)
<1>1. db'["code_item"] = rows /\ db'["code_category"] = db["code_category"]
    BY DEF CodeTablesOK, Tables, Key
<1>2. \A row : row \in ActiveItems(k)' <=>
                  row \in rows /\ row.category_code = k /\ row.is_active = TRUE
    <2> DEFINE selector == [category_code |-> {k}, is_active |-> {TRUE}]
    <2>1. /\ DOMAIN selector = {"category_code", "is_active"}
          /\ selector["category_code"] = {k} /\ selector["is_active"] = {TRUE}
        OBVIOUS
    <2>2. ActiveItems(k)' = Matching(rows, selector)
        BY <1>1 DEF ActiveItems, Select, Matching
    <2> HIDE DEF selector
    <2> QED BY <2>1, <2>2 DEF Matching
<1>3. ActiveItems(k)' = ActiveItems(k)
    <2>1. \A row : row \in ActiveItems(k)' <=> row \in ActiveItems(k)
        BY <1>2, ActiveIs
    <2> QED BY <2>1
<1>4. ActiveCategories' = ActiveCategories
    BY <1>1, CategoriesStay
<1> QED BY <1>3, <1>4, StoredIs

LEMMA CategoriesChange ==
    ASSUME CodeTablesOK, NEW k, k # List, NEW rows, db' = [db EXCEPT !["code_category"] = rows],
           \A row : row.category_code = k => (row \in rows <=> row \in db["code_category"])
    PROVE  Stored(k)' = Stored(k)
<1>1. db'["code_category"] = rows /\ db'["code_item"] = db["code_item"]
    BY DEF CodeTablesOK, Tables, Key
<1>2. ActiveItems(k)' = ActiveItems(k)
    BY <1>1 DEF ActiveItems, Select, Matching
<1> DEFINE selector == [is_active |-> {TRUE}]
<1>3. DOMAIN selector = {"is_active"} /\ selector["is_active"] = {TRUE}
    OBVIOUS
<1>4. /\ ActiveCategories = {row.category_code : row \in Matching(db["code_category"], selector)}
      /\ ActiveCategories' = {row.category_code : row \in Matching(rows, selector)}
    BY <1>1 DEF ActiveCategories, Select, Matching
<1> HIDE DEF selector
<1>5. \A all, row : row \in Matching(all, selector) <=> row \in all /\ row.is_active = TRUE
    BY <1>3 DEF Matching
<1>6. k \in ActiveCategories' <=> k \in ActiveCategories
    BY <1>4, <1>5
<1> QED BY <1>2, <1>6, StoredIs

LEMMA NumberedColumns ==
    ASSUME NEW base, NEW payload
    PROVE  /\ DOMAIN Numbered("code_item", NewItem(payload), base) = ItemFields
           /\ Numbered("code_item", NewItem(payload), base).category_code = payload.category
<1> DEFINE row == NewItem(payload)
<1>1. DOMAIN row = ItemFields /\ row.category_code = payload.category
    BY DEF NewItem, ItemFields
<1>2. Holds("code_item", "category_code") = ""
    BY DEF Holds, Key, References, LogicalReferences
<1> HIDE DEF row
<1> QED BY <1>1, <1>2 DEF Numbered, row, ItemFields

\* Each write leaves the tables in order, and of a category it does not announce
\* it leaves all as it was.
StaysBut(s) == \A k : k \notin ChangedCategories(s) \cup {List} => Stored(k)' = Stored(k)

LEMMA InsertCommitted ==
    ASSUME NEW s \in Sessions, Commit(s), CodeTablesOK, PlansInsert(s)
    PROVE  CodeTablesOK' /\ StaysBut(s)
<1>1. PICK payload \in Dictionaries :
        /\ session[s].request = <<"item", {payload.category}>>
        /\ session[s].statements = <<Insert("code_item", NewItem(payload))>>
    BY DEF PlansInsert
<1> DEFINE row == Numbered("code_item", NewItem(payload), session[s].base)
           rows == db["code_item"] \cup {row}
<1>2. DOMAIN row = ItemFields /\ row.category_code = payload.category
    BY NumberedColumns
<1> HIDE DEF row
<1>3. db' = [db EXCEPT !["code_item"] = rows] /\ ConstraintsHold(db', "code_item")
    BY <1>1, CommitsInsert DEF row
<1>4. UNCHANGED foreignKeys
    BY DEF Commit
<1>5. CodeTablesOK'
    <2>1. \A r \in rows : DOMAIN r = ItemFields
        BY <1>2 DEF CodeTablesOK
    <2> HIDE DEF rows
    <2> QED BY <1>3, <1>4, <2>1, ItemsStayOK
<1>6. ChangedCategories(s) = {payload.category}
    BY <1>1 DEF ChangedCategories
<1>7. ASSUME NEW k, k # List, k # payload.category PROVE Stored(k)' = Stored(k)
    <2>1. \A r : r.category_code = k => (r \in rows <=> r \in db["code_item"])
        BY <1>2, <1>7
    <2> HIDE DEF rows
    <2> QED BY <1>3, <1>7, <2>1, ItemsChange
<1> QED BY <1>5, <1>6, <1>7 DEF StaysBut

\* The statements that update items: an item by its number, or the configuration.
LEMMA UpdateCommitted ==
    ASSUME NEW s \in Sessions, Commit(s), CodeTablesOK, NEW where, NEW set,
           session[s].statements = <<Update("code_item", where, set)>>
    PROVE  /\ CodeTablesOK'
           /\ \A k : k # List /\ (\A row \in Matching(db["code_item"], where) :
                        row.category_code # k /\ SetColumns(row, set).category_code # k)
                     => Stored(k)' = Stored(k)
<1> DEFINE hit == Matching(db["code_item"], where)
           moved == {SetColumns(r, set) : r \in hit}
           rows == (db["code_item"] \ hit) \cup moved
<1>1. db' = [db EXCEPT !["code_item"] = rows] /\ ConstraintsHold(db', "code_item")
    BY CommitsUpdate
<1>2. hit \subseteq db["code_item"]
    BY DEF Matching
<1>3. \A r \in hit : DOMAIN SetColumns(r, set) = ItemFields
    BY <1>2, ColumnsAreSet DEF CodeTablesOK
<1>4. \A r \in rows : DOMAIN r = ItemFields
    BY <1>2, <1>3 DEF CodeTablesOK
<1>5. CodeTablesOK'
    <2> HIDE DEF rows
    <2> QED BY <1>1, <1>4, ItemsStayOK DEF Commit
<1>6. ASSUME NEW k, k # List,
             \A row \in hit : row.category_code # k /\ SetColumns(row, set).category_code # k
      PROVE  Stored(k)' = Stored(k)
    <2>1. \A r : r.category_code = k => (r \in rows <=> r \in db["code_item"])
        BY <1>2, <1>6
    <2> HIDE DEF rows
    <2> QED BY <1>1, <1>6, <2>1, ItemsChange
<1> QED BY <1>5, <1>6

LEMMA ItemCommitted ==
    ASSUME NEW s \in Sessions, Commit(s), CodeTablesOK, NEW row,
           session[s].late \/ row \in db["code_item"], PlansUpdate(s, row) \/ PlansStatus(s, row)
    PROVE  CodeTablesOK' /\ (~session[s].late => StaysBut(s))
<1> DEFINE id == row.item_id
<1>1. PICK set : session[s].statements = <<Update("code_item", ById(id), set)>>
    BY DEF PlansUpdate, PlansStatus
<1>2. CodeTablesOK'
    BY <1>1, UpdateCommitted
<1>3. ASSUME ~session[s].late, NEW k, k \notin ChangedCategories(s), k # List
      PROVE  Stored(k)' = Stored(k)
    <2>1. /\ row \in db["code_item"] /\ DOMAIN row = ItemFields
          /\ \A r \in Matching(db["code_item"], ById(id)) : r = row
        BY <1>3, HitById DEF CodeTablesOK
    <2>2. CASE PlansUpdate(s, row)
        <3>1. PICK payload \in Dictionaries :
                /\ session[s].request = <<"item", CategoriesOf(row, payload)>>
                /\ session[s].statements = <<Update("code_item", ById(id), ItemColumns(payload))>>
            BY <2>2 DEF PlansUpdate
        <3>2. k # row.category_code /\ k # payload.category
            BY <1>3, <3>1 DEF ChangedCategories, CategoriesOf
        <3>3. /\ "category_code" \in DOMAIN ItemColumns(payload)
              /\ ItemColumns(payload).category_code = payload.category
            BY DEF ItemColumns
        <3>4. SetColumns(row, ItemColumns(payload)).category_code = payload.category
            BY <2>1, <3>3, ColumnsAreSet DEF ItemFields
        <3> QED BY <1>3, <2>1, <3>1, <3>2, <3>4, UpdateCommitted
    <2>3. CASE PlansStatus(s, row)
        <3>1. PICK active \in BOOLEAN :
                /\ session[s].request = <<"status", id>>
                /\ session[s].statements = <<Update("code_item", ById(id), [is_active |-> active])>>
            BY <2>3 DEF PlansStatus
        <3>2. ChangedCategories(s) = {r.category_code : r \in Select("code_item", ById(id))}
            BY <3>1 DEF ChangedCategories
        <3>3. row \in Select("code_item", ById(id))
            BY <2>1, HitById DEF Select
        <3>4. k # row.category_code
            BY <1>3, <3>2, <3>3
        <3>5. SetColumns(row, [is_active |-> active]).category_code = row.category_code
            BY <2>1, ColumnsAreSet DEF ItemFields
        <3> QED BY <1>3, <2>1, <3>1, <3>4, <3>5, UpdateCommitted
    <2> QED BY <2>2, <2>3
<1> QED BY <1>2, <1>3 DEF StaysBut

LEMMA DeleteCommitted ==
    ASSUME NEW s \in Sessions, Commit(s), CodeTablesOK, NEW row,
           session[s].late \/ row \in db["code_item"], PlansDelete(s, row)
    PROVE  CodeTablesOK' /\ (~session[s].late => StaysBut(s))
<1> DEFINE hit == Matching(db["code_item"], ById(row.item_id))
           rows == db["code_item"] \ hit
<1>1. /\ session[s].request = <<"item", {row.category_code}>>
      /\ session[s].statements = <<Delete("code_item", ById(row.item_id))>>
    BY DEF PlansDelete
<1>2. db' = [db EXCEPT !["code_item"] = rows] /\ ConstraintsHold(db', "code_item")
    BY <1>1, CommitsDelete DEF CodeTablesOK
<1>3. \A r \in rows : DOMAIN r = ItemFields
    BY DEF CodeTablesOK
<1>4. CodeTablesOK'
    <2> HIDE DEF rows
    <2> QED BY <1>2, <1>3, ItemsStayOK DEF Commit
<1>5. ASSUME ~session[s].late, NEW k, k \notin ChangedCategories(s), k # List
      PROVE  Stored(k)' = Stored(k)
    <2>1. \A r \in hit : r = row
        BY <1>5, HitById DEF CodeTablesOK
    <2>2. k # row.category_code
        BY <1>1, <1>5 DEF ChangedCategories
    <2>3. \A r : r.category_code = k => (r \in rows <=> r \in db["code_item"])
        BY <2>1, <2>2
    <2> HIDE DEF rows
    <2> QED BY <1>2, <1>5, <2>3, ItemsChange
<1> QED BY <1>4, <1>5 DEF StaysBut

LEMMA CategoryCommitted ==
    ASSUME NEW s \in Sessions, Commit(s), CodeTablesOK, NEW row,
           session[s].late \/ row \in db["code_category"], PlansCategory(s, row)
    PROVE  CodeTablesOK' /\ (~session[s].late => StaysBut(s))
<1>1. PICK active \in BOOLEAN :
        /\ session[s].request = <<"item", {row.category_code}>>
        /\ session[s].statements =
             <<Update("code_category", [category_id |-> {row.category_id}], [is_active |-> active])>>
    BY DEF PlansCategory
<1> DEFINE where == [category_id |-> {row.category_id}]
           set == [is_active |-> active]
           hit == Matching(db["code_category"], where)
           moved == {SetColumns(r, set) : r \in hit}
           rows == (db["code_category"] \ hit) \cup moved
<1>2. db' = [db EXCEPT !["code_category"] = rows] /\ ConstraintsHold(db', "code_category")
    BY <1>1, CommitsUpdate
<1>3. \A r : r \in hit <=> r \in db["code_category"] /\ r.category_id = row.category_id
    <2>1. DOMAIN where = {"category_id"} /\ where["category_id"] = {row.category_id}
        OBVIOUS
    <2> HIDE DEF where
    <2> QED BY <2>1 DEF Matching
<1> HIDE DEF hit
<1>4. \A r \in hit : /\ DOMAIN SetColumns(r, set) = CategoryFields
                     /\ SetColumns(r, set).category_code = r.category_code
    BY <1>3, ColumnsAreSet DEF CodeTablesOK, CategoryFields
<1> HIDE DEF set
<1>5. \A r \in rows : DOMAIN r = CategoryFields
    BY <1>3, <1>4 DEF CodeTablesOK
<1>6. CodeTablesOK'
    <2> HIDE DEF rows
    <2> QED BY <1>2, <1>5, CategoriesStayOK DEF Commit
<1>7. ASSUME ~session[s].late, NEW k, k \notin ChangedCategories(s), k # List
      PROVE  Stored(k)' = Stored(k)
    <2>1. \A r \in hit : r = row
        BY <1>3, <1>7 DEF CodeTablesOK
    <2>2. k # row.category_code
        BY <1>1, <1>7 DEF ChangedCategories
    <2>3. \A r : r.category_code = k => (r \in rows <=> r \in db["code_category"])
        BY <1>4, <2>1, <2>2
    <2> HIDE DEF rows
    <2> QED BY <1>2, <1>7, <2>3, CategoriesChange
<1> QED BY <1>6, <1>7 DEF StaysBut

\* The row of the configuration is never active: nothing that is cached changes.
LEMMA ConfigCommitted ==
    ASSUME NEW s \in Sessions, Commit(s), CodeTablesOK, PlansConfig(s)
    PROVE  CodeTablesOK' /\ \A k : Stored(k)' = Stored(k)
<1>1. PICK id, config :
        session[s].statements =
          <<Update("code_item", [item_id |-> {id}, category_code |-> {Reserved},
                     item_code |-> {DefaultCode}, is_active |-> {FALSE}], [value |-> config])>>
    BY DEF PlansConfig
<1> DEFINE where == [item_id |-> {id}, category_code |-> {Reserved},
                     item_code |-> {DefaultCode}, is_active |-> {FALSE}]
           set == [value |-> config]
           hit == Matching(db["code_item"], where)
           moved == {SetColumns(r, set) : r \in hit}
           rows == (db["code_item"] \ hit) \cup moved
<1>1a. session[s].statements = <<Update("code_item", where, set)>>
    BY <1>1
<1> HIDE DEF where, set
<1>2. db' = [db EXCEPT !["code_item"] = rows]
    BY <1>1a, CommitsUpdate
<1>3. CodeTablesOK'
    BY <1>1a, UpdateCommitted
<1>4. \A r \in hit : r \in db["code_item"] /\ r.is_active = FALSE
    <2>1. "is_active" \in DOMAIN where /\ where["is_active"] = {FALSE}
        BY DEF where
    <2> QED BY <2>1 DEF Matching
<1>5. \A r \in hit : SetColumns(r, set).is_active = FALSE
    <2>1. "is_active" \notin DOMAIN set
        BY DEF set
    <2> QED BY <1>4, <2>1, ColumnsAreSet DEF CodeTablesOK, ItemFields
<1>6. \A r : r.is_active = TRUE => (r \in rows <=> r \in db["code_item"])
    BY <1>4, <1>5
<1> HIDE DEF rows
<1>7. db'["code_item"] = rows /\ db'["code_category"] = db["code_category"]
    BY <1>2 DEF CodeTablesOK, Tables, Key
<1>8. \A k : ActiveItems(k)' = ActiveItems(k)
    <2> TAKE k
    <2> DEFINE selector == [category_code |-> {k}, is_active |-> {TRUE}]
    <2>1. "is_active" \in DOMAIN selector /\ selector["is_active"] = {TRUE}
        OBVIOUS
    <2>2. /\ ActiveItems(k)' = Matching(rows, selector)
          /\ ActiveItems(k) = Matching(db["code_item"], selector)
        BY <1>7 DEF ActiveItems, Select, Matching
    <2> HIDE DEF selector
    <2>3. \A r : r \in Matching(rows, selector) <=> r \in Matching(db["code_item"], selector)
        BY <1>6, <2>1 DEF Matching
    <2> QED BY <2>2, <2>3
<1>9. ActiveCategories' = ActiveCategories
    BY <1>7, CategoriesStay
<1>10. GetCategories' = GetCategories /\ \A k : GetItems(k)' = GetItems(k)
    BY <1>8, <1>9 DEF GetCategories, GetItems
<1>11. \A k : Stored(k)' = Stored(k)
    BY <1>10 DEF Stored
<1> QED BY <1>3, <1>11

LEMMA PlanCommitted ==
    ASSUME NEW s \in Sessions, Commit(s), CodeTablesOK, PlanInPlace(s)
    PROVE  /\ CodeTablesOK'
           /\ session[s].request[1] = "rag" => \A k : Stored(k)' = Stored(k)
           /\ session[s].request[1] # "rag" /\ ~session[s].late => StaysBut(s)
<1>1. CASE PlansConfig(s)
    <2>1. session[s].request[1] = "rag"
        BY <1>1 DEF PlansConfig
    <2> QED BY <1>1, <2>1, ConfigCommitted
<1>2. CASE PlansInsert(s)
    <2>1. session[s].request[1] # "rag"
        BY <1>2 DEF PlansInsert
    <2> QED BY <1>2, <2>1, InsertCommitted
<1>3. ASSUME NEW row, session[s].late \/ row \in db["code_item"],
             PlansUpdate(s, row) \/ PlansStatus(s, row) \/ PlansDelete(s, row)
      PROVE  /\ CodeTablesOK' /\ session[s].request[1] # "rag"
             /\ ~session[s].late => StaysBut(s)
    <2>1. CASE PlansUpdate(s, row)
        <3>1. session[s].request[1] # "rag"
            BY <2>1 DEF PlansUpdate
        <3> QED BY <1>3, <2>1, <3>1, ItemCommitted
    <2>2. CASE PlansStatus(s, row)
        <3>1. session[s].request[1] # "rag"
            BY <2>2 DEF PlansStatus
        <3> QED BY <1>3, <2>2, <3>1, ItemCommitted
    <2>3. CASE PlansDelete(s, row)
        <3>1. session[s].request[1] # "rag"
            BY <2>3 DEF PlansDelete
        <3> QED BY <1>3, <2>3, <3>1, DeleteCommitted
    <2> QED BY <1>3, <2>1, <2>2, <2>3
<1>4. ASSUME NEW row, session[s].late \/ row \in db["code_category"], PlansCategory(s, row)
      PROVE  /\ CodeTablesOK' /\ session[s].request[1] # "rag"
             /\ ~session[s].late => StaysBut(s)
    <2>1. session[s].request[1] # "rag"
        BY <1>4 DEF PlansCategory
    <2> QED BY <1>4, <2>1, CategoryCommitted
<1> QED BY <1>1, <1>2, <1>3, <1>4 DEF PlanInPlace

LEMMA CommitKeepsCodes ==
    ASSUME CodesOK, NEW s \in Sessions, CommitCodes(s)
    PROVE  CodesOK'
<1>1. CodeTablesOK /\ SessionsOK /\ AnnouncedOK /\ raced \in BOOLEAN /\ DOMAIN reader = Readers
    BY DEF CodesOK
<1>2. Commit(s) /\ session[s].at = "numbered" /\ PlanInPlace(s) /\ session[s].late \in BOOLEAN
    BY <1>1 DEF CommitCodes, Commit, SessionsOK
<1>3. /\ CodeTablesOK'
      /\ session[s].request[1] = "rag" => \A k : Stored(k)' = Stored(k)
      /\ session[s].request[1] # "rag" /\ ~session[s].late => StaysBut(s)
    BY <1>1, <1>2, PlanCommitted
<1>4. /\ raced' = (raced \/ session[s].late)
      /\ session' = [r \in Sessions |->
           IF r = s THEN Idle
           ELSE IF session[r].at = "idle" THEN session[r] ELSE [session[r] EXCEPT !.late = TRUE]]
      /\ announced' = announced \ {s} /\ reader' = reader
      /\ session[s].request[1] = "rag" \/ s \in announced
      /\ \A k \in DOMAIN cache' : k \in DOMAIN cache /\ cache'[k] = cache[k]
    BY <1>2 DEF CommitCodes, Commit, Without
<1>5. /\ DOMAIN session' = Sessions
      /\ session'[s].at = "idle" /\ session'[s].late = FALSE /\ DOMAIN session'[s] = SessionFields
    BY <1>4 DEF Idle, SessionFields
<1>6. \A r \in Sessions \ {s} :
         /\ DOMAIN session'[r] = SessionFields /\ session'[r].at = session[r].at
         /\ session'[r].request = session[r].request
         /\ session'[r].statements = session[r].statements
         /\ session'[r].late \in BOOLEAN
         /\ session[r].at # "idle" => session'[r].late
    <2>1. ASSUME NEW r \in Sessions \ {s}, session[r].at = "idle" PROVE session'[r] = session[r]
        BY <1>4, <2>1
    <2>2. ASSUME NEW r \in Sessions \ {s}, session[r].at # "idle"
          PROVE  session'[r] = [session[r] EXCEPT !.late = TRUE]
        BY <1>4, <2>2
    <2> TAKE r \in Sessions \ {s}
    <2>3. /\ DOMAIN session[r] = SessionFields /\ session[r].late \in BOOLEAN
          /\ {"at", "request", "statements", "late"} \subseteq SessionFields
        BY <1>1 DEF SessionsOK, SessionFields
    <2>4. CASE session[r].at = "idle"
        BY <2>1, <2>3, <2>4
    <2>5. CASE session[r].at # "idle"
        BY <2>2, <2>3, <2>5
    <2> QED BY <2>4, <2>5
<1>7. SessionsOK'
    <2>1. ASSUME NEW r \in Sessions \ {s}, session'[r].at # "idle" PROVE PlanInPlace(r)'
        BY <1>1, <1>6, <2>1, SamePlan DEF SessionsOK
    <2> QED BY <1>5, <1>6, <2>1 DEF SessionsOK
<1>8. AnnouncedOK'
    BY <1>1, <1>4, <1>6 DEF AnnouncedOK
<1>9. ASSUME NEW k \in DOMAIN cache' PROVE EntryOK(k)'
    <2>1. EntryOK(k) /\ cache'[k] = cache[k] /\ k \in DOMAIN cache
        BY <1>4 DEF CodesOK
    <2>2. raced' \/ cache[k].overlap \/ Stored(k)' = Stored(k)
        <3>1. SUFFICES ASSUME ~raced', ~cache[k].overlap, session[s].request[1] # "rag"
                       PROVE  Stored(k)' = Stored(k)
            BY <1>3, <2>1 DEF EntryOK
        <3>2. s \in announced /\ ~session[s].late
            BY <1>4, <3>1
        <3>3. k \notin ChangedCategories(s) \cup {List}
            BY <1>1, <2>1, <3>1, <3>2 DEF AnnouncedOK
        <3> QED BY <1>3, <3>1, <3>2, <3>3 DEF StaysBut
    <2>3. raced => raced'
        BY <1>4
    <2> QED BY <2>1, <2>2, <2>3 DEF EntryOK
<1>10. ASSUME NEW r \in Readers PROVE ReaderOK(r)'
    <2>1. ReaderOK(r) /\ reader'[r] = reader[r]
        BY <1>4 DEF CodesOK
    <2>2. announced' # {} => announced # {}
        BY <1>4
    <2>3. reader[r].pc = "store" => \A k : reader[r].overlap \/ Stored(k)' = Stored(k)
        BY <1>3, <1>4, <2>1 DEF ReaderOK
    <2>4. raced => raced'
        BY <1>4
    <2> QED BY <2>1, <2>2, <2>3, <2>4 DEF ReaderOK
<1>11. raced' \in BOOLEAN /\ DOMAIN reader' = Readers
    BY <1>1, <1>4
<1> QED BY <1>3, <1>7, <1>8, <1>9, <1>10, <1>11 DEF CodesOK

LEMMA InvalidateKeeps ==
    ASSUME CodesOK, NEW s \in Sessions, Invalidate(s)
    PROVE  CodesOK'
<1>1. CodeTablesOK /\ SessionsOK /\ AnnouncedOK /\ raced \in BOOLEAN /\ DOMAIN reader = Readers
    BY DEF CodesOK
<1>2. /\ UNCHANGED <<db, foreignKeys, session, raced>>
      /\ session[s].at = "numbered" /\ session[s].request[1] # "rag"
      /\ announced' = announced \cup {s}
      /\ \A k \in DOMAIN cache' : /\ k \in DOMAIN cache /\ cache'[k] = cache[k]
                                  /\ k \notin ChangedCategories(s) \cup {List}
    BY DEF Invalidate, storeVars, Without
<1>3. (\A k : Stored(k)' = Stored(k)) /\ CodeTablesOK'
    BY <1>1, <1>2, SameTables
<1>4. SessionsOK'
    BY <1>1, <1>2, SamePlan DEF SessionsOK
<1>5. AnnouncedOK'
    <2>1. \A r : ChangedCategories(r)' = ChangedCategories(r)
        BY <1>2, SameChange
    <2> QED BY <1>1, <1>2, <2>1 DEF AnnouncedOK
<1>6. \A k \in DOMAIN cache' : EntryOK(k)'
    BY <1>2, <1>3 DEF CodesOK, EntryOK
<1>7. ASSUME NEW r \in Readers PROVE ReaderOK(r)'
    <2>1. ReaderOK(r)
        BY DEF CodesOK
    <2>2. reader'[r] = IF reader[r].pc = "store" THEN [reader[r] EXCEPT !.overlap = TRUE]
                       ELSE reader[r]
        BY DEF Invalidate, Overlapped
    <2>3. CASE reader[r].pc = "store"
        <3>1. /\ DOMAIN reader'[r] = ReaderFields /\ reader'[r].overlap = TRUE
              /\ reader'[r].pc = "store" /\ reader'[r].keys = reader[r].keys
              /\ reader'[r].missing = reader[r].missing /\ reader'[r].loaded = reader[r].loaded
              /\ reader'[r].took = reader[r].took /\ reader'[r].got = reader[r].got
            BY <2>1, <2>2, <2>3 DEF ReaderOK, ReaderFields
        <3> QED BY <1>2, <2>1, <2>3, <3>1 DEF ReaderOK
    <2>4. CASE reader[r].pc # "store"
        BY <2>1, <2>2, <2>4 DEF ReaderOK
    <2> QED BY <2>3, <2>4
<1>8. DOMAIN reader' = Readers /\ raced' \in BOOLEAN
    BY <1>1, <1>2 DEF Invalidate, Overlapped
<1> QED BY <1>3, <1>4, <1>5, <1>6, <1>7, <1>8 DEF CodesOK

-----------------------------------------------------------------------------
(* The readers and the clock                                                *)

\* A reader's step: other readers, and the database, stay.
LEMMA ReadingKeepsCodes ==
    ASSUME CodesOK, NEW r \in Readers, UNCHANGED <<storeVars, announced>>,
           DOMAIN reader' = Readers, \A q \in Readers \ {r} : reader'[q] = reader[q],
           ReaderOK(r)',
           \A k \in DOMAIN cache' :
              \/ k \in DOMAIN cache /\ cache'[k] = cache[k]
              \/ EntryOK(k)' /\ (announced # {} => cache'[k].overlap)
    PROVE  CodesOK'
<1>1. CodeTablesOK /\ SessionsOK /\ AnnouncedOK /\ raced \in BOOLEAN /\ DOMAIN reader = Readers
    BY DEF CodesOK
<1>2. UNCHANGED <<db, foreignKeys, session, raced>>
    BY DEF storeVars
<1>3. (\A k : Stored(k)' = Stored(k)) /\ CodeTablesOK'
    BY <1>1, <1>2, SameTables
<1>4. SessionsOK'
    BY <1>1, <1>2, SamePlan DEF SessionsOK
<1>5. AnnouncedOK'
    <2>1. \A q : ChangedCategories(q)' = ChangedCategories(q)
        BY <1>2, SameChange
    <2> QED BY <1>1, <1>2, <2>1 DEF AnnouncedOK
<1>6. ASSUME NEW k \in DOMAIN cache' PROVE EntryOK(k)'
    <2>1. CASE k \in DOMAIN cache /\ cache'[k] = cache[k]
        BY <1>2, <1>3, <2>1 DEF CodesOK, EntryOK
    <2> QED BY <2>1
<1>7. ASSUME NEW q \in Readers \ {r} PROVE ReaderOK(q)'
    <2>1. ReaderOK(q) /\ reader'[q] = reader[q]
        BY DEF CodesOK
    <2> QED BY <1>2, <1>3, <2>1 DEF ReaderOK
<1> QED BY <1>1, <1>2, <1>3, <1>4, <1>5, <1>6, <1>7 DEF CodesOK

\* What a sequence of keys loses and gains.
LEMMA Popped ==
    ASSUME NEW keys \in Seq(STRING), keys # <<>>
    PROVE  /\ Head(keys) \in STRING /\ Tail(keys) \in Seq(STRING)
           /\ Head(keys) \in ToSet(keys) /\ ToSet(Tail(keys)) \subseteq ToSet(keys)
<1>1. Len(keys) \in Nat \ {0} /\ Head(keys) = keys[1] /\ keys[1] \in STRING
    BY EmptySeq, HeadTailProperties
<1>2. Tail(keys) \in Seq(STRING)
    BY HeadTailProperties
<1>3. 1 \in DOMAIN keys /\ DOMAIN keys = 1 .. Len(keys)
    BY <1>1
<1>4. \A i \in DOMAIN Tail(keys) : i + 1 \in DOMAIN keys /\ Tail(keys)[i] = keys[i + 1]
    BY <1>1, HeadTailProperties
<1> QED BY <1>1, <1>2, <1>3, <1>4 DEF ToSet

\* A reader that has nothing to store.
LEMMA ReaderBefore ==
    ASSUME NEW r, NEW d, reader'[r] = d, DOMAIN d = ReaderFields, d.pc \in {"idle", "look_up"},
           d.keys \in Seq(STRING), d.missing \in Seq(STRING), d.took = 0, d.overlap \in BOOLEAN,
           \A got \in d.got : got.stale < Lifetime + MaxLoad
    PROVE  ReaderOK(r)'
<1>1. 0 \in 0 .. MaxLoad
    BY CodesAssumption
<1>2. d.pc # "store"
    OBVIOUS
<1> QED BY <1>1, <1>2 DEF ReaderOK

LEMMA AskCodesKeeps ==
    ASSUME CodesOK, NEW r \in Readers, AskCodes(r), UNCHANGED storeVars
    PROVE  CodesOK'
<1>1. PICK batch \in Batches :
        reader' = [reader EXCEPT ![r] = [IdleReader EXCEPT !.pc = "look_up", !.keys = batch]]
    BY DEF AskCodes
<1> DEFINE d == [IdleReader EXCEPT !.pc = "look_up", !.keys = batch]
<1>2. /\ DOMAIN d = ReaderFields /\ d.pc = "look_up" /\ d.keys = batch /\ d.missing = <<>>
      /\ d.took = 0 /\ d.overlap = FALSE /\ d.got = {}
    BY DEF IdleReader, ReaderFields
<1> HIDE DEF d
<1>3. reader' = [reader EXCEPT ![r] = d] /\ DOMAIN reader = Readers
    BY <1>1 DEF d, CodesOK
<1>4. /\ reader'[r] = d /\ DOMAIN reader' = Readers
      /\ \A q \in Readers \ {r} : reader'[q] = reader[q]
    BY <1>3
<1>5. batch \in Seq(STRING) /\ <<>> \in Seq(STRING) /\ MaxLoad \in Nat
    BY CodesAssumption
<1>6. ReaderOK(r)'
    BY <1>2, <1>4, <1>5, ReaderBefore
<1>7. UNCHANGED <<cache, announced>>
    BY DEF AskCodes
<1> QED BY <1>4, <1>6, <1>7, ReadingKeepsCodes

LEMMA AnswerCodesKeeps ==
    ASSUME CodesOK, NEW r \in Readers, AnswerCodes(r), UNCHANGED storeVars
    PROVE  CodesOK'
<1>1. /\ DOMAIN IdleReader = ReaderFields /\ IdleReader.pc = "idle" /\ IdleReader.keys = <<>>
      /\ IdleReader.missing = <<>> /\ IdleReader.took = 0 /\ IdleReader.overlap = FALSE
      /\ IdleReader.got = {}
    BY DEF IdleReader, ReaderFields
<1>2. /\ reader'[r] = IdleReader /\ DOMAIN reader' = Readers
      /\ \A q \in Readers \ {r} : reader'[q] = reader[q]
      /\ UNCHANGED <<cache, announced>>
    BY DEF AnswerCodes, CodesOK
<1>3. <<>> \in Seq(STRING) /\ MaxLoad \in Nat
    BY CodesAssumption
<1>4. ReaderOK(r)'
    BY <1>1, <1>2, <1>3, ReaderBefore
<1> QED BY <1>2, <1>4, ReadingKeepsCodes

LEMMA GetCachedItemsKeeps ==
    ASSUME CodesOK, NEW r \in Readers, GetCachedItems(r), UNCHANGED storeVars
    PROVE  CodesOK'
<1> DEFINE key == Head(reader[r].keys)
<1>1. /\ ReaderOK(r) /\ DOMAIN reader = Readers /\ reader[r].pc = "look_up"
      /\ reader[r].keys # <<>> /\ reader[r].keys \in Seq(STRING)
      /\ reader[r].missing \in Seq(STRING) /\ DOMAIN reader[r] = ReaderFields
      /\ UNCHANGED announced
    BY DEF GetCachedItems, CodesOK, ReaderOK
<1>2. key \in STRING /\ Tail(reader[r].keys) \in Seq(STRING)
    BY <1>1, Popped
<1>3. CASE IsCached(key)
    <2> DEFINE d == [[reader[r] EXCEPT !.keys = Tail(@)] EXCEPT
                       !.got = @ \cup {GotFrom(cache[key], key)}]
    <2>1. reader' = [reader EXCEPT ![r] = d] /\ UNCHANGED cache
        BY <1>3 DEF GetCachedItems
    <2>2. /\ DOMAIN d = ReaderFields /\ d.pc = "look_up" /\ d.keys = Tail(reader[r].keys)
          /\ d.missing = reader[r].missing /\ d.took = reader[r].took
          /\ d.overlap = reader[r].overlap
          /\ d.got = reader[r].got \cup {GotFrom(cache[key], key)}
        BY <1>1 DEF ReaderFields
    <2> HIDE DEF d
    <2>3. /\ reader'[r] = d /\ DOMAIN reader' = Readers
          /\ \A q \in Readers \ {r} : reader'[q] = reader[q]
        BY <1>1, <2>1
    <2>4. cache[key].stale \in Nat /\ cache[key].stale < Lifetime + MaxLoad
        <3>1. EntryOK(key) /\ cache[key].left > 0
            BY <1>3 DEF CodesOK, IsCached
        <3> QED BY <3>1, CodesAssumption DEF EntryOK
    <2>5. \A got \in d.got : got.stale < Lifetime + MaxLoad
        BY <1>1, <2>2, <2>4 DEF ReaderOK, GotFrom
    <2>6. ReaderOK(r)'
        BY <1>1, <1>2, <2>2, <2>3, <2>5 DEF ReaderOK
    <2> QED BY <1>1, <2>1, <2>3, <2>6, ReadingKeepsCodes
<1>4. CASE ~IsCached(key)
    <2> DEFINE d == [[reader[r] EXCEPT !.keys = Tail(@)] EXCEPT !.missing = Append(@, key)]
    <2>1. reader' = [reader EXCEPT ![r] = d] /\ cache' = Without({key})
        BY <1>4 DEF GetCachedItems
    <2>2. /\ DOMAIN d = ReaderFields /\ d.pc = "look_up" /\ d.keys = Tail(reader[r].keys)
          /\ d.missing = Append(reader[r].missing, key) /\ d.took = reader[r].took
          /\ d.overlap = reader[r].overlap /\ d.got = reader[r].got
        BY <1>1 DEF ReaderFields
    <2> HIDE DEF d
    <2>3. /\ reader'[r] = d /\ DOMAIN reader' = Readers
          /\ \A q \in Readers \ {r} : reader'[q] = reader[q]
        BY <1>1, <2>1
    <2>4. d.missing \in Seq(STRING)
        BY <1>1, <1>2, <2>2, AppendProperties
    <2>5. ReaderOK(r)'
        BY <1>1, <1>2, <2>2, <2>3, <2>4 DEF ReaderOK
    <2>6. \A k \in DOMAIN cache' : k \in DOMAIN cache /\ cache'[k] = cache[k]
        BY <2>1 DEF Without
    <2> QED BY <1>1, <2>3, <2>5, <2>6, ReadingKeepsCodes
<1> QED BY <1>3, <1>4

LEMMA FetchRowsKeeps ==
    ASSUME CodesOK, NEW r \in Readers, FetchRows(r), UNCHANGED storeVars
    PROVE  CodesOK'
<1>1. /\ ReaderOK(r) /\ DOMAIN reader = Readers /\ reader[r].pc = "look_up"
      /\ DOMAIN reader[r] = ReaderFields /\ UNCHANGED <<cache, announced>>
    BY DEF FetchRows, CodesOK, ReaderOK
<1>2. UNCHANGED <<db, foreignKeys, session, raced>>
    BY DEF storeVars
<1>3. \A k : Stored(k)' = Stored(k)
    BY <1>2, SameTables
<1> DEFINE rows == [k \in ToSet(reader[r].missing) |-> [value |-> Stored(k), stale |-> 0]]
           d == [reader[r] EXCEPT !.pc = "store", !.overlap = (announced # {}), !.loaded = rows]
<1>4. reader' = [reader EXCEPT ![r] = d]
    BY <1>1 DEF FetchRows
<1>5. /\ DOMAIN rows = ToSet(reader[r].missing)
      /\ \A k \in DOMAIN rows : /\ DOMAIN rows[k] = {"value", "stale"}
                                /\ rows[k].value = Stored(k) /\ rows[k].stale = 0
    OBVIOUS
<1> HIDE DEF rows
<1>6. /\ DOMAIN d = ReaderFields /\ d.pc = "store" /\ d.keys = reader[r].keys
      /\ d.missing = reader[r].missing /\ d.took = 0 /\ d.loaded = rows
      /\ d.overlap = (announced # {}) /\ d.got = reader[r].got
    BY <1>1 DEF ReaderFields, ReaderOK
<1> HIDE DEF d
<1>7. /\ reader'[r] = d /\ DOMAIN reader' = Readers
      /\ \A q \in Readers \ {r} : reader'[q] = reader[q]
    BY <1>1, <1>4
<1>8. MaxLoad \in Nat
    BY CodesAssumption
<1>9. ReaderOK(r)'
    <2>1. 0 \in 0 .. MaxLoad /\ d.overlap \in BOOLEAN /\ (announced # {} => d.overlap)
        <3>1. CASE announced = {}
            BY <1>6, <1>8, <3>1
        <3>2. CASE announced # {}
            <4>1. d.overlap = TRUE
                BY <1>6, <3>2
            <4>2. d.overlap
                BY <4>1
            <4> QED BY <1>8, <3>2, <4>1, <4>2
        <3> QED BY <3>1, <3>2
    <2>2. /\ d.pc \in {"idle", "look_up", "store"}
          /\ d.keys \in Seq(STRING) /\ d.missing \in Seq(STRING)
          /\ \A got \in d.got : got.stale < Lifetime + MaxLoad
        BY <1>1, <1>6 DEF ReaderOK
    <2>3. /\ ToSet(d.missing) \subseteq DOMAIN d.loaded
          /\ \A k \in DOMAIN d.loaded : /\ DOMAIN d.loaded[k] = {"value", "stale"}
                                        /\ d.loaded[k].stale \in 0 .. d.took
                                        /\ d.loaded[k].value = Stored(k)'
        BY <1>3, <1>5, <1>6
    <2> QED BY <1>1, <1>6, <1>7, <2>1, <2>2, <2>3 DEF ReaderOK
<1> QED BY <1>1, <1>7, <1>9, ReadingKeepsCodes

LEMMA SetCachedItemsKeeps ==
    ASSUME CodesOK, NEW r \in Readers, SetCachedItems(r), UNCHANGED storeVars
    PROVE  CodesOK'
<1>0. PICK key : key = Head(reader[r].missing)
    OBVIOUS
<1> DEFINE entry == reader[r].loaded[key]
           new == [value |-> entry.value, stale |-> entry.stale, left |-> Lifetime,
                   overlap |-> reader[r].overlap]
           d == [reader[r] EXCEPT !.missing = Tail(@), !.got = @ \cup {GotFrom(entry, key)}]
<1>1. /\ ReaderOK(r) /\ DOMAIN reader = Readers /\ reader[r].pc = "store"
      /\ reader[r].missing # <<>> /\ reader[r].missing \in Seq(STRING)
      /\ DOMAIN reader[r] = ReaderFields /\ UNCHANGED announced
    BY DEF SetCachedItems, CodesOK, ReaderOK
<1>2. UNCHANGED <<db, foreignKeys, session, raced>>
    BY DEF storeVars
<1>3. \A k : Stored(k)' = Stored(k)
    BY <1>2, SameTables
<1>4. /\ key \in DOMAIN reader[r].loaded /\ Tail(reader[r].missing) \in Seq(STRING)
      /\ ToSet(Tail(reader[r].missing)) \subseteq ToSet(reader[r].missing)
      /\ ToSet(reader[r].missing) \subseteq DOMAIN reader[r].loaded
    BY <1>0, <1>1, Popped DEF ReaderOK
<1>5. /\ entry.stale \in 0 .. reader[r].took /\ reader[r].took \in 0 .. MaxLoad
      /\ raced \/ reader[r].overlap \/ entry.value = Stored(key)
      /\ reader[r].overlap \in BOOLEAN
      /\ announced # {} => reader[r].overlap
    BY <1>1, <1>4 DEF ReaderOK
<1>6. /\ entry.stale \in Nat /\ entry.stale < Lifetime + MaxLoad
      /\ entry.stale + Lifetime <= Lifetime + MaxLoad /\ Lifetime \in 0 .. Lifetime
    <2> HIDE DEF entry
    <2> QED BY <1>5, CodesAssumption
<1>7. /\ reader' = [reader EXCEPT ![r] = d]
      /\ cache' = [k \in DOMAIN cache \cup {key} |-> IF k = key THEN new ELSE cache[k]]
    BY <1>0 DEF SetCachedItems
<1>8. /\ DOMAIN new = EntryFields /\ new.value = entry.value /\ new.stale = entry.stale
      /\ new.left = Lifetime /\ new.overlap = reader[r].overlap
    BY DEF EntryFields
<1>9. /\ DOMAIN d = ReaderFields /\ d.pc = "store" /\ d.keys = reader[r].keys
      /\ d.missing = Tail(reader[r].missing) /\ d.took = reader[r].took
      /\ d.loaded = reader[r].loaded /\ d.overlap = reader[r].overlap
      /\ d.got = reader[r].got \cup {GotFrom(entry, key)}
    BY <1>1 DEF ReaderFields
<1>10. GotFrom(entry, key).stale = entry.stale
    BY DEF GotFrom
<1> HIDE DEF new, d, entry
<1>11. /\ reader'[r] = d /\ DOMAIN reader' = Readers
       /\ \A q \in Readers \ {r} : reader'[q] = reader[q]
    BY <1>1, <1>7
<1>12. \A got \in d.got : got.stale < Lifetime + MaxLoad
    BY <1>1, <1>6, <1>9, <1>10 DEF ReaderOK
<1>13. ReaderOK(r)'
    BY <1>1, <1>2, <1>3, <1>4, <1>9, <1>11, <1>12 DEF ReaderOK
<1>14. cache'[key] = new /\ \A k \in DOMAIN cache' \ {key} : k \in DOMAIN cache /\ cache'[k] = cache[k]
    BY <1>7
<1>15. EntryOK(key)' /\ (announced # {} => cache'[key].overlap)
    <2>1. announced # {} => cache'[key].overlap
        BY <1>5, <1>8, <1>14
    <2>2. EntryOK(key)'
        BY <1>2, <1>3, <1>5, <1>6, <1>8, <1>14 DEF EntryOK
    <2> QED BY <2>1, <2>2
<1> QED BY <1>1, <1>11, <1>13, <1>14, <1>15, ReadingKeepsCodes

LEMMA AgedIs ==
    ASSUME NEW entry, NEW k, "stale" \in DOMAIN entry, entry.stale \in Nat
    PROVE  /\ DOMAIN Aged(entry, k) = DOMAIN entry
           /\ Aged(entry, k).stale \in 0 .. entry.stale + 1
           /\ \A c \in DOMAIN entry \ {"stale"} : Aged(entry, k)[c] = entry[c]
<1>1. Lifetime \in Nat /\ MaxLoad \in Nat
    BY CodesAssumption
<1>2. CASE entry.value = Stored(k)
    BY <1>2 DEF Aged
<1>3. CASE entry.value # Stored(k)
    <2> DEFINE n == IF entry.stale < Lifetime + MaxLoad THEN entry.stale + 1 ELSE entry.stale
    <2>1. n \in 0 .. entry.stale + 1
        BY <1>1
    <2>2. Aged(entry, k) = [entry EXCEPT !.stale = n]
        BY <1>3 DEF Aged
    <2> HIDE DEF n
    <2> QED BY <2>1, <2>2
<1> QED BY <1>2, <1>3

LEMMA TickKeeps ==
    ASSUME CodesOK, Tick, UNCHANGED storeVars
    PROVE  CodesOK'
<1>1. CodeTablesOK /\ SessionsOK /\ AnnouncedOK /\ raced \in BOOLEAN /\ DOMAIN reader = Readers
    BY DEF CodesOK
<1>2. UNCHANGED <<db, foreignKeys, session, raced, announced>>
    BY DEF storeVars, Tick
<1>3. (\A k : Stored(k)' = Stored(k)) /\ CodeTablesOK'
    BY <1>1, <1>2, SameTables
<1>4. SessionsOK'
    BY <1>1, <1>2, SamePlan DEF SessionsOK
<1>5. Lifetime \in Nat /\ MaxLoad \in Nat
    BY CodesAssumption
<1>6. /\ DOMAIN cache' = DOMAIN cache
      /\ \A k \in DOMAIN cache :
           cache'[k] = [Aged(cache[k], k) EXCEPT !.left = IF @ > 0 THEN @ - 1 ELSE 0]
    BY DEF Tick
<1>7. ASSUME NEW k \in DOMAIN cache
      PROVE  EntryOK(k)' /\ cache'[k].overlap = cache[k].overlap
    <2> DEFINE old == Aged(cache[k], k)
    <2>1. EntryOK(k)
        BY DEF CodesOK
    <2>2. /\ DOMAIN old = EntryFields /\ old.stale \in 0 .. cache[k].stale + 1
          /\ old.left = cache[k].left /\ old.value = cache[k].value
          /\ old.overlap = cache[k].overlap
        BY <2>1, AgedIs DEF EntryOK, EntryFields
    <2>3. cache'[k] = [old EXCEPT !.left = IF old.left > 0 THEN old.left - 1 ELSE 0]
        BY <1>6
    <2> HIDE DEF old
    <2>4. /\ DOMAIN cache'[k] = EntryFields /\ cache'[k].stale = old.stale
          /\ cache'[k].left = IF old.left > 0 THEN old.left - 1 ELSE 0
          /\ cache'[k].value = cache[k].value /\ cache'[k].overlap = cache[k].overlap
        BY <2>2, <2>3 DEF EntryFields
    <2>5. /\ cache[k].stale \in Nat /\ cache[k].left \in 0 .. Lifetime
          /\ cache[k].left > 0 => cache[k].stale + cache[k].left <= Lifetime + MaxLoad
        BY <2>1 DEF EntryOK
    <2>6. /\ cache'[k].stale \in Nat /\ cache'[k].left \in 0 .. Lifetime
          /\ cache'[k].left > 0 => cache'[k].stale + cache'[k].left <= Lifetime + MaxLoad
        BY <1>5, <2>2, <2>4, <2>5
    <2> QED BY <1>2, <1>3, <2>1, <2>4, <2>6 DEF EntryOK
<1>8. AnnouncedOK'
    <2>1. \A q : ChangedCategories(q)' = ChangedCategories(q)
        BY <1>2, SameChange
    <2> QED BY <1>1, <1>2, <1>6, <1>7, <2>1 DEF AnnouncedOK
<1>9. ASSUME NEW r \in Readers PROVE ReaderOK(r)'
    <2>1. ReaderOK(r)
        BY DEF CodesOK
    <2>2. CASE reader[r].pc # "store"
        <3>1. reader'[r] = reader[r]
            BY <2>2 DEF Tick
        <3> QED BY <1>2, <2>1, <2>2, <3>1 DEF ReaderOK
    <2>3. CASE reader[r].pc = "store"
        <3> DEFINE rows == [k \in DOMAIN reader[r].loaded |-> Aged(reader[r].loaded[k], k)]
                   d == [reader[r] EXCEPT !.took = @ + 1, !.loaded = rows]
        <3>1. DOMAIN reader[r] = ReaderFields /\ reader[r].took \in 0 .. MaxLoad
            BY <2>1 DEF ReaderOK
        <3>2. reader'[r] = d /\ reader[r].took < MaxLoad
            BY <2>3 DEF Tick
        <3>3. \A k \in DOMAIN reader[r].loaded :
                 /\ DOMAIN rows[k] = {"value", "stale"}
                 /\ rows[k].stale \in 0 .. reader[r].loaded[k].stale + 1
                 /\ rows[k].value = reader[r].loaded[k].value
            BY <2>1, <2>3, <3>1, AgedIs DEF ReaderOK
        <3>4. DOMAIN rows = DOMAIN reader[r].loaded
            OBVIOUS
        <3> HIDE DEF rows
        <3>5. /\ DOMAIN d = ReaderFields /\ d.pc = "store" /\ d.keys = reader[r].keys
              /\ d.missing = reader[r].missing /\ d.took = reader[r].took + 1
              /\ d.loaded = rows /\ d.overlap = reader[r].overlap /\ d.got = reader[r].got
            BY <2>3, <3>1 DEF ReaderFields
        <3> HIDE DEF d
        <3>6. d.took \in 0 .. MaxLoad
            BY <1>5, <3>1, <3>2, <3>5
        <3>7. \A k \in DOMAIN rows : rows[k].stale \in 0 .. d.took
            <4> TAKE k \in DOMAIN rows
            <4>1. reader[r].loaded[k].stale \in 0 .. reader[r].took
                BY <2>1, <2>3, <3>4 DEF ReaderOK
            <4> QED BY <3>1, <3>3, <3>4, <3>5, <4>1
        <3> QED BY <1>2, <1>3, <2>1, <2>3, <3>2, <3>3, <3>4, <3>5, <3>6, <3>7 DEF ReaderOK
    <2> QED BY <2>2, <2>3
<1>10. DOMAIN reader' = Readers
    BY DEF Tick
<1> QED BY <1>1, <1>2, <1>3, <1>4, <1>6, <1>7, <1>8, <1>9, <1>10 DEF CodesOK

LEMMA CodesBegin == Init => CodesInv
<1> SUFFICES ASSUME Init PROVE CodesInv
    OBVIOUS
<1>1. /\ area \in Areas /\ db = Seed(area) /\ cache = <<>> /\ announced = {} /\ raced = FALSE
      /\ reader = [r \in Readers |-> IdleReader]
      /\ session = [s \in Sessions |-> Idle]
      /\ foreignKeys \in IF area \in Registered THEN BOOLEAN ELSE {FALSE}
    BY DEF Init, AdministrationInit, CodesInit
<1>2. ASSUME area = "codes" PROVE CodesOK
    <2>1. ~foreignKeys
        BY <1>1, <1>2 DEF Registered
    <2>2. /\ DOMAIN db = Tables
          /\ \A t \in Tables : \A a, b \in db[t] : a[Key[t]] = b[Key[t]] => a = b
          /\ \A row \in db["code_item"] : DOMAIN row = ItemFields
          /\ \A row \in db["code_category"] : DOMAIN row = CategoryFields
        BY <1>1, SeedAssumption DEF ItemFields, CategoryFields
    <2>3. /\ "code_item" \in Tables /\ "code_category" \in Tables
          /\ Key["code_item"] = "item_id" /\ Key["code_category"] = "category_id"
        BY DEF Tables, Key
    <2>4. CodeTablesOK
        BY <2>1, <2>2, <2>3 DEF CodeTablesOK
    <2>5. DOMAIN Idle = SessionFields /\ Idle.late = FALSE /\ Idle.at = "idle"
        BY DEF Idle, SessionFields
    <2>6. SessionsOK
        BY <1>1, <2>5 DEF SessionsOK
    <2>7. /\ DOMAIN IdleReader = ReaderFields /\ IdleReader.pc = "idle" /\ IdleReader.keys = <<>>
          /\ IdleReader.missing = <<>> /\ IdleReader.took = 0 /\ IdleReader.overlap = FALSE
          /\ IdleReader.got = {}
        BY DEF IdleReader, ReaderFields
    <2>8. 0 \in 0 .. MaxLoad /\ <<>> \in Seq(STRING)
        BY CodesAssumption
    <2>9. \A r \in Readers : ReaderOK(r)
        BY <1>1, <2>7, <2>8 DEF ReaderOK
    <2>10. DOMAIN cache = {}
        BY <1>1
    <2>11. AnnouncedOK
        BY <1>1 DEF AnnouncedOK
    <2> QED BY <1>1, <2>4, <2>6, <2>9, <2>10, <2>11 DEF CodesOK
<1> QED BY <1>1, <1>2 DEF CodesInv

LEMMA CodesGoOn == CodesInv /\ [Next]_vars => CodesInv'
<1> SUFFICES ASSUME CodesInv, [Next]_vars PROVE CodesInv'
    OBVIOUS
<1>1. area' = area
    BY DEF Next, vars
<1>2. CASE area # "codes"
    <2>1. UNCHANGED codeVars
        BY <1>2 DEF Next, vars, adminVars, RegisterStep, AdministrationStep, AccountStep,
                    MenuStep, StatisticStep
    <2> QED BY <1>1, <1>2, <2>1 DEF CodesInv, codeVars
<1>3. CASE area = "codes"
    <2>1. CodesOK
        BY <1>3 DEF CodesInv
    <2>2. DictionaryStep \/ UNCHANGED <<storeVars, codeVars>>
        BY <1>3 DEF Next, vars, adminVars, AdministrationStep, Registered
    <2>3. CASE UNCHANGED <<storeVars, codeVars>>
        <3>1. UNCHANGED <<db, foreignKeys, session, raced, cache, reader, announced>>
            BY <2>3 DEF storeVars, codeVars
        <3>2. (\A k : Stored(k)' = Stored(k)) /\ CodeTablesOK'
            BY <2>1, <3>1, SameTables DEF CodesOK
        <3>3. SessionsOK'
            BY <2>1, <3>1, SamePlan DEF CodesOK, SessionsOK
        <3>4. AnnouncedOK'
            <4>1. \A q : ChangedCategories(q)' = ChangedCategories(q)
                BY <3>1, SameChange
            <4> QED BY <2>1, <3>1, <4>1 DEF CodesOK, AnnouncedOK
        <3>5. \A k \in DOMAIN cache : EntryOK(k)'
            BY <2>1, <3>1, <3>2 DEF CodesOK, EntryOK
        <3>6. \A r \in Readers : ReaderOK(r)'
            BY <2>1, <3>1, <3>2 DEF CodesOK, ReaderOK
        <3>7. CodesOK'
            BY <2>1, <3>1, <3>2, <3>3, <3>4, <3>5, <3>6 DEF CodesOK
        <3> QED BY <1>1, <1>3, <3>7 DEF CodesInv
    <2>4. CASE DictionaryStep
        <3>1. CASE CodeStep /\ UNCHANGED storeVars
            <4>1. CodesOK'
                BY <2>1, <3>1, TickKeeps, AskCodesKeeps, GetCachedItemsKeeps, FetchRowsKeeps,
                   SetCachedItemsKeeps, AnswerCodesKeeps DEF CodeStep
            <4> QED BY <1>1, <1>3, <4>1 DEF CodesInv
        <3>2. CASE \E s \in Sessions : (DictionaryOperation(s) \/ ChooseKeys(s))
                                         /\ UNCHANGED codeVars
            <4>1. CodesOK'
                BY <2>1, <3>2, DictionaryOperationKeeps, ChooseKeysKeeps
            <4> QED BY <1>1, <1>3, <4>1 DEF CodesInv
        <3>3. CASE \E s \in Sessions : Invalidate(s) \/ CommitCodes(s) \/ RollBackCodes(s)
            <4>1. CodesOK'
                BY <2>1, <3>3, InvalidateKeeps, CommitKeepsCodes, RollBackKeeps
            <4> QED BY <1>1, <1>3, <4>1 DEF CodesInv
        <3> QED BY <2>4, <3>1, <3>2, <3>3 DEF DictionaryStep
    <2> QED BY <2>2, <2>3, <2>4
<1> QED BY <1>2, <1>3

\* Both caches answer with what was stored: the statistics shown are those of the
\* menus that the request saw, unless another request filled the cache meanwhile;
\* and a code is served for no longer than the lifetime of an entry, and the time
\* a query takes, after it was replaced, and without overlap of a query and a write
\* the cache never differs from the database (menu_statistics and CommonCodeService).
THEOREM CachesStayRecent == Spec => []CachesAreRecent
<1>1. StatsInv => StatsMatchMenus
    BY DEF StatsInv, ThreadInPlace, StatsMatchMenus, Pc
<1>2. CodesInv => CodesAreRecent
    <2>1. CASE area = "codes"
        BY <2>1 DEF CodesInv, CodesOK, EntryOK, ReaderOK, CodesAreRecent
    <2>2. CASE area # "codes"
        <3> SUFFICES ASSUME CodesInv PROVE CodesAreRecent
            OBVIOUS
        <3>1. DOMAIN cache = {} /\ \A r \in Readers : reader[r].got = {}
            BY <2>2 DEF CodesInv, IdleReader
        <3> QED BY <3>1 DEF CodesAreRecent
    <2> QED BY <2>1, <2>2
<1>3. StatsInv /\ CodesInv => CachesAreRecent
    BY <1>1, <1>2 DEF CachesAreRecent
<1> QED BY <1>3, StatsBegin, StatsGoOn, CodesBegin, CodesGoOn, PTL DEF Spec

-----------------------------------------------------------------------------
(* Lists of statements                                                      *)

LEMMA ListIs ==
    ASSUME NEW seq, IsList(seq)
    PROVE  /\ Len(seq) \in Nat /\ DOMAIN seq = 1 .. Len(seq)
           /\ seq \in Seq(ToSet(seq))
           /\ \A x : x \in ToSet(seq) <=> \E i \in 1 .. Len(seq) : x = seq[i]
<1>1. Len(seq) \in Nat /\ DOMAIN seq = 1 .. Len(seq)
    BY LenProperties DEF IsList
<1> QED BY <1>1 DEF IsList, ToSet

LEMMA ListOf ==
    ASSUME NEW n \in Nat, NEW f, f = [i \in 1 .. n |-> f[i]]
    PROVE  /\ IsList(f) /\ Len(f) = n /\ DOMAIN f = 1 .. n
           /\ \A x : x \in ToSet(f) <=> \E i \in 1 .. n : x = f[i]
<1>1. DOMAIN f = 1 .. n
    OBVIOUS
<1>2. \A x : x \in ToSet(f) <=> \E i \in 1 .. n : x = f[i]
    BY <1>1 DEF ToSet
<1> DEFINE S == ToSet(f)
<1>3. \A i \in 1 .. n : f[i] \in S
    BY <1>2
<1> HIDE DEF S
<1>4. f \in [1 .. n -> S]
    BY <1>3
<1>5. f \in Seq(S)
    BY <1>4, SeqDef
<1>6. Len(f) = n
    BY <1>1, <1>5, LenProperties
<1> QED BY <1>1, <1>2, <1>5, <1>6 DEF IsList, S

LEMMA ListOfAny ==
    ASSUME NEW S, NEW seq \in Seq(S)
    PROVE  IsList(seq) /\ ToSet(seq) \subseteq S
<1>1. /\ Len(seq) \in Nat /\ seq \in [1 .. Len(seq) -> S]
    BY LenProperties
<1>2. seq = [i \in 1 .. Len(seq) |-> seq[i]]
    BY <1>1
<1>3. IsList(seq) /\ \A x : x \in ToSet(seq) <=> \E i \in 1 .. Len(seq) : x = seq[i]
    BY <1>1, <1>2, ListOf
<1> QED BY <1>1, <1>3

LEMMA NoList == IsList(<<>>) /\ ToSet(<<>>) = {}
BY DEF IsList, ToSet

LEMMA Lists ==
    ASSUME NEW x, NEW y, NEW z
    PROVE  /\ IsList(<<x>>) /\ ToSet(<<x>>) = {x}
           /\ IsList(<<x, y>>) /\ ToSet(<<x, y>>) = {x, y}
           /\ IsList(<<x, y, z>>) /\ ToSet(<<x, y, z>>) = {x, y, z}
<1>1. /\ ToSet(<<x>>) = {x} /\ ToSet(<<x, y>>) = {x, y} /\ ToSet(<<x, y, z>>) = {x, y, z}
    BY DEF ToSet
<1> QED BY <1>1 DEF IsList

LEMMA ListOfThree ==
    ASSUME NEW x, NEW y, NEW z, NEW list, list = <<x, y, z>>
    PROVE  IsList(list) /\ ToSet(list) = {x, y, z}
<1>1. ToSet(<<x, y, z>>) = {x, y, z}
    BY DEF ToSet
<1>2. IsList(<<x, y, z>>)
    BY <1>1 DEF IsList
<1> QED BY <1>1, <1>2

LEMMA Joins ==
    ASSUME NEW a, NEW b, IsList(a), IsList(b)
    PROVE  IsList(a \o b) /\ ToSet(a \o b) = ToSet(a) \cup ToSet(b)
<1> DEFINE S == ToSet(a) \cup ToSet(b)
           c == a \o b
<1>1. ToSet(a) \subseteq S /\ ToSet(b) \subseteq S
    OBVIOUS
<1>2. /\ Len(a) \in Nat /\ \A x : x \in ToSet(a) <=> \E i \in 1 .. Len(a) : x = a[i]
      /\ Len(b) \in Nat /\ \A x : x \in ToSet(b) <=> \E i \in 1 .. Len(b) : x = b[i]
    BY ListIs
<1> HIDE DEF S
<1>3. a \in Seq(S) /\ b \in Seq(S)
    BY <1>1, SeqMonotonic DEF IsList
<1>4. /\ c \in Seq(S) /\ Len(c) = Len(a) + Len(b)
      /\ \A i \in 1 .. Len(a) + Len(b) :
            c[i] = IF i <= Len(a) THEN a[i] ELSE b[i - Len(a)]
    BY <1>3, ConcatProperties
<1> HIDE DEF c
<1>5. IsList(c) /\ ToSet(c) \subseteq S
    BY <1>4, ListOfAny
<1>6. \A x : x \in ToSet(c) <=> \E i \in 1 .. Len(c) : x = c[i]
    BY <1>5, ListIs
<1>7. ASSUME NEW i \in 1 .. Len(a) PROVE a[i] \in ToSet(c)
    <2>1. i \in 1 .. Len(c) /\ c[i] = a[i]
        BY <1>2, <1>4
    <2> QED BY <1>6, <2>1
<1>8. ASSUME NEW i \in 1 .. Len(b) PROVE b[i] \in ToSet(c)
    <2> DEFINE k == i + Len(a)
    <2>1. k \in 1 .. Len(a) + Len(b) /\ ~(k <= Len(a)) /\ k - Len(a) = i
        BY <1>2
    <2> HIDE DEF k
    <2>2. k \in 1 .. Len(c) /\ c[k] = b[k - Len(a)]
        BY <1>4, <2>1
    <2>3. c[k] = b[i]
        BY <2>1, <2>2
    <2> QED BY <1>6, <2>2, <2>3
<1>9. ToSet(a) \subseteq ToSet(c) /\ ToSet(b) \subseteq ToSet(c)
    BY <1>2, <1>7, <1>8
<1> QED BY <1>5, <1>9 DEF S, c

LEMMA ElementsOf ==
    ASSUME NEW S, IsFiniteSet(S)
    PROVE  IsList(SetToSeq(S)) /\ ToSet(SetToSeq(S)) \subseteq S
<1> DEFINE n == Cardinality(S)
           f == SetToSeq(S)
<1>1. n \in Nat /\ \E g \in [1 .. n -> S] : IsInjective(g)
    BY FS_CardinalityType DEF ExistsBijection, Bijection, Injection
<1>2. f \in [1 .. n -> S]
    BY <1>1 DEF SetToSeq
<1> HIDE DEF n, f
<1>3. f \in Seq(S)
    BY <1>1, <1>2, SeqDef
<1>4. IsList(f) /\ ToSet(f) \subseteq S
    BY <1>3, ListOfAny
<1> QED BY <1>4 DEF f

\* Lists joined one after the other.
IsFlat(f, seqs, n) ==
    f = [i \in 1 .. n |-> IF i = 1 THEN seqs[i] ELSE f[i - 1] \o seqs[i]]

LEMMA FlatExists ==
    ASSUME NEW seqs, NEW n \in Nat
    PROVE  \E f : IsFlat(f, seqs, n)
<1> DEFINE T == {m \in Nat : \E f : IsFlat(f, seqs, m)}
<1>1. 0 \in T
    <2> DEFINE f == [i \in 1 .. 0 |-> seqs[i]]
    <2>1. f = [i \in 1 .. 0 |-> IF i = 1 THEN seqs[i] ELSE f[i - 1] \o seqs[i]]
        OBVIOUS
    <2> HIDE DEF f
    <2>2. IsFlat(f, seqs, 0)
        BY <2>1 DEF IsFlat
    <2> QED BY <2>2
<1>2. ASSUME NEW m \in Nat, m \in T PROVE m + 1 \in T
    <2>1. PICK f : IsFlat(f, seqs, m)
        BY <1>2
    <2> DEFINE next == IF m = 0 THEN seqs[1] ELSE f[m] \o seqs[m + 1]
               g == [i \in 1 .. m + 1 |-> IF i = m + 1 THEN next ELSE f[i]]
               h == [i \in 1 .. m + 1 |-> IF i = 1 THEN seqs[i] ELSE g[i - 1] \o seqs[i]]
    <2>2. ASSUME NEW i \in 1 .. m + 1 PROVE g[i] = h[i]
        <3>1. CASE i = m + 1 /\ m = 0
            BY <3>1
        <3>2. CASE i = m + 1 /\ m # 0
            <4>1. i # 1 /\ i - 1 = m /\ m \in 1 .. m + 1 /\ m # m + 1
                BY <3>2
            <4>2. g[i - 1] = f[m] /\ g[i] = f[m] \o seqs[i]
                BY <3>2, <4>1
            <4>3. h[i] = g[i - 1] \o seqs[i]
                BY <4>1
            <4> QED BY <4>2, <4>3
        <3>3. CASE i # m + 1
            <4>1. i \in 1 .. m /\ g[i] = f[i]
                BY <3>3
            <4>2. f[i] = IF i = 1 THEN seqs[i] ELSE f[i - 1] \o seqs[i]
                BY <2>1, <4>1 DEF IsFlat
            <4>3. i # 1 => g[i - 1] = f[i - 1]
                BY <4>1
            <4> QED BY <4>1, <4>2, <4>3
        <3> QED BY <3>1, <3>2, <3>3
    <2>3. g = h
        BY <2>2
    <2>4. IsFlat(g, seqs, m + 1)
        <3> HIDE DEF g
        <3> QED BY <2>3 DEF IsFlat
    <2> HIDE DEF g
    <2> QED BY <2>4
<1> HIDE DEF T
<1>3. n \in T
    BY <1>1, <1>2, SetInduction
<1> QED BY <1>3 DEF T

LEMMA Flattens ==
    ASSUME NEW seqs, IsList(seqs), \A i \in DOMAIN seqs : IsList(seqs[i])
    PROVE  /\ IsList(FlattenSeq(seqs))
           /\ \A x : x \in ToSet(FlattenSeq(seqs)) <=> \E i \in DOMAIN seqs : x \in ToSet(seqs[i])
<1> DEFINE n == Len(seqs)
<1>1. n \in Nat /\ DOMAIN seqs = 1 .. n
    BY ListIs
<1>2. CASE n = 0
    <2>1. FlattenSeq(seqs) = seqs
        BY <1>2 DEF FlattenSeq
    <2>2. DOMAIN seqs = {}
        BY <1>1, <1>2
    <2>3. ToSet(seqs) = {}
        BY <2>2 DEF ToSet
    <2> QED BY <2>1, <2>2, <2>3
<1>3. CASE n # 0
    <2> DEFINE G == CHOOSE flatten : flatten = [i \in 1 .. n |->
                      IF i = 1 THEN seqs[i] ELSE flatten[i - 1] \o seqs[i]]
    <2>1. FlattenSeq(seqs) = G[n]
        BY <1>3 DEF FlattenSeq
    <2>2. IsFlat(G, seqs, n)
        BY <1>1, FlatExists DEF IsFlat
    <2> HIDE DEF G, n
    <2> DEFINE Good(m) == /\ IsList(G[m])
                          /\ \A x : x \in ToSet(G[m]) <=> \E i \in 1 .. m : x \in ToSet(seqs[i])
               T == {m \in Nat : m + 1 \in 1 .. n => Good(m + 1)}
    <2>3. 0 \in T
        <3> SUFFICES ASSUME 0 + 1 \in 1 .. n PROVE Good(1)
            OBVIOUS
        <3>1. G[1] = seqs[1] /\ 1 \in DOMAIN seqs
            BY <1>1, <2>2 DEF IsFlat
        <3>2. 1 .. 1 = {1}
            OBVIOUS
        <3> QED BY <3>1, <3>2
    <2>4. ASSUME NEW m \in Nat, m \in T PROVE m + 1 \in T
        <3> SUFFICES ASSUME m + 2 \in 1 .. n PROVE Good(m + 2)
            OBVIOUS
        <3>1. Good(m + 1)
            BY <1>1, <2>4
        <3>2. m + 2 # 1 /\ m + 2 - 1 = m + 1 /\ m + 2 \in DOMAIN seqs
            BY <1>1
        <3>3. G[m + 2] = G[m + 1] \o seqs[m + 2]
            <4>1. \A i \in 1 .. n : G[i] = IF i = 1 THEN seqs[i] ELSE G[i - 1] \o seqs[i]
                BY <2>2 DEF IsFlat
            <4>2. G[m + 2] = IF m + 2 = 1 THEN seqs[m + 2] ELSE G[m + 2 - 1] \o seqs[m + 2]
                BY <4>1
            <4> QED BY <3>2, <4>2
        <3>4. IsList(G[m + 2]) /\ ToSet(G[m + 2]) = ToSet(G[m + 1]) \cup ToSet(seqs[m + 2])
            BY <3>1, <3>2, <3>3, Joins
        <3>5. 1 .. m + 2 = (1 .. m + 1) \cup {m + 2}
            OBVIOUS
        <3> QED BY <3>1, <3>4, <3>5
    <2> HIDE DEF T
    <2>5. n - 1 \in Nat /\ n - 1 + 1 = n /\ n \in 1 .. n
        BY <1>1, <1>3
    <2>6. n - 1 \in T
        BY <2>3, <2>4, <2>5, SetInduction
    <2>7. Good(n)
        BY <2>5, <2>6 DEF T
    <2> QED BY <1>1, <2>1, <2>7
<1> QED BY <1>2, <1>3

IsWithin(f, seq, S, n) ==
    f = [t \in SUBSET (1 .. n) |->
           IF t = {} THEN <<>>
           ELSE IF seq[Max(t)] \in S THEN Append(f[t \ {Max(t)}], seq[Max(t)])
           ELSE f[t \ {Max(t)}]]

LEMMA WithinExists ==
    ASSUME NEW seq, NEW S, NEW n \in Nat
    PROVE  \E f : IsWithin(f, seq, S, n)
<1> DEFINE T == {m \in Nat : \E f : IsWithin(f, seq, S, m)}
           Step(kept, i) == IF seq[i] \in S THEN Append(kept, seq[i]) ELSE kept
<1>1. 0 \in T
    <2> DEFINE f == [t \in SUBSET (1 .. 0) |-> <<>>]
    <2>1. \A t \in SUBSET (1 .. 0) : t = {}
        OBVIOUS
    <2>2. f = [t \in SUBSET (1 .. 0) |-> IF t = {} THEN <<>> ELSE Step(f[t \ {Max(t)}], Max(t))]
        BY <2>1
    <2> HIDE DEF f
    <2>3. IsWithin(f, seq, S, 0)
        BY <2>2 DEF IsWithin
    <2> QED BY <2>3
<1>2. ASSUME NEW m \in Nat, m \in T PROVE m + 1 \in T
    <2>1. PICK f : IsWithin(f, seq, S, m)
        BY <1>2
    <2> DEFINE g == [t \in SUBSET (1 .. m + 1) |->
                       IF m + 1 \in t THEN Step(f[t \ {m + 1}], m + 1) ELSE f[t]]
               h == [t \in SUBSET (1 .. m + 1) |->
                       IF t = {} THEN <<>> ELSE Step(g[t \ {Max(t)}], Max(t))]
    <2>2. f = [t \in SUBSET (1 .. m) |-> IF t = {} THEN <<>> ELSE Step(f[t \ {Max(t)}], Max(t))]
        BY <2>1 DEF IsWithin
    <2>3. ASSUME NEW t \in SUBSET (1 .. m + 1) PROVE g[t] = h[t]
        <3> HIDE DEF Step
        <3>1. CASE m + 1 \in t
            <4>1. Max(t) = m + 1 /\ t # {}
                BY <3>1, MaxOf
            <4>2. t \ {m + 1} \in SUBSET (1 .. m + 1) /\ m + 1 \notin t \ {m + 1}
                OBVIOUS
            <4>3. g[t \ {m + 1}] = f[t \ {m + 1}]
                BY <4>2
            <4>4. g[t] = Step(f[t \ {m + 1}], m + 1)
                BY <3>1
            <4>5. h[t] = Step(g[t \ {m + 1}], m + 1)
                BY <4>1
            <4> QED BY <4>3, <4>4, <4>5
        <3>2. CASE m + 1 \notin t
            <4>1. t \in SUBSET (1 .. m) /\ g[t] = f[t]
                BY <3>2
            <4>2. f[t] = IF t = {} THEN <<>> ELSE Step(f[t \ {Max(t)}], Max(t))
                BY <2>2, <4>1
            <4>3. t # {} => g[t \ {Max(t)}] = f[t \ {Max(t)}]
                BY <3>2
            <4> QED BY <4>1, <4>2, <4>3
        <3> QED BY <3>1, <3>2
    <2>4. g = h
        BY <2>3
    <2>5. IsWithin(g, seq, S, m + 1)
        <3> HIDE DEF g
        <3> QED BY <2>4 DEF IsWithin
    <2> HIDE DEF g
    <2> QED BY <2>5
<1> HIDE DEF T
<1>3. n \in T
    BY <1>1, <1>2, SetInduction
<1> QED BY <1>3 DEF T

\* What the folds over the first elements are.
LEMMA UpTo ==
    ASSUME NEW m \in Nat
    PROVE  /\ 1 .. m + 1 # {} /\ Max(1 .. m + 1) = m + 1
           /\ (1 .. m + 1) \ {m + 1} = 1 .. m
<1>1. m + 1 \in 1 .. m + 1
    OBVIOUS
<1>2. Max(1 .. m + 1) = m + 1
    BY <1>1, MaxOf
<1>3. \A x : x \in (1 .. m + 1) \ {m + 1} <=> x \in 1 .. m
    OBVIOUS
<1>4. (1 .. m + 1) \ {m + 1} = 1 .. m
    BY <1>3
<1> QED BY <1>1, <1>2, <1>4

LEMMA WithinIs ==
    ASSUME NEW seq, NEW S, IsList(seq)
    PROVE  IsList(Within(seq, S)) /\ ToSet(Within(seq, S)) \subseteq ToSet(seq) \cap S
<1> DEFINE n == Len(seq)
           R == ToSet(seq) \cap S
           G == CHOOSE iter : iter = [t \in SUBSET (1 .. n) |->
              IF t = {} THEN <<>>
              ELSE LET x == Max(t)
                   IN  IF seq[x] \in S THEN Append(iter[t \ {x}], seq[x]) ELSE iter[t \ {x}]]
<1>1. n \in Nat /\ DOMAIN seq = 1 .. n
    BY ListIs
<1> HIDE DEF n
<1>2. Within(seq, S) = G[1 .. n]
    BY <1>1 DEF Within, FoldLeft, MapThenFoldSet
<1> DEFINE Fits(iter) == iter = [t \in SUBSET (1 .. n) |->
              IF t = {} THEN <<>>
              ELSE LET x == Max(t)
                   IN  IF seq[x] \in S THEN Append(iter[t \ {x}], seq[x]) ELSE iter[t \ {x}]]
<1>3. \A f : IsWithin(f, seq, S, n) <=> Fits(f)
    BY DEF IsWithin
<1>4. \E f : Fits(f)
    BY <1>1, <1>3, WithinExists
<1>5. G = CHOOSE iter : Fits(iter)
    OBVIOUS
<1> HIDE DEF Fits, G
<1>6. IsWithin(G, seq, S, n)
    BY <1>3, <1>4, <1>5
<1>7. \A i \in 1 .. n : seq[i] \in ToSet(seq)
    BY <1>1, ListIs
<1> HIDE DEF G, R
<1>8. /\ G[{}] = <<>>
      /\ \A t \in SUBSET (1 .. n) : t # {} =>
           G[t] = IF seq[Max(t)] \in S THEN Append(G[t \ {Max(t)}], seq[Max(t)])
                  ELSE G[t \ {Max(t)}]
    BY <1>6 DEF IsWithin
<1> DEFINE T == {m \in Nat : m \in 0 .. n => G[1 .. m] \in Seq(R)}
<1>9. 0 \in T
    <2>1. 1 .. 0 = {} /\ 0 \in Nat /\ <<>> \in Seq(R)
        OBVIOUS
    <2> QED BY <1>8, <2>1
<1>10. ASSUME NEW m \in Nat, m \in T PROVE m + 1 \in T
    <2> SUFFICES ASSUME m + 1 \in 0 .. n PROVE G[1 .. m + 1] \in Seq(R)
        OBVIOUS
    <2>1. G[1 .. m] \in Seq(R)
        BY <1>1, <1>10
    <2>2. 1 .. m + 1 \in SUBSET (1 .. n)
        BY <1>1
    <2>3. G[1 .. m + 1] = IF seq[m + 1] \in S THEN Append(G[1 .. m], seq[m + 1]) ELSE G[1 .. m]
        BY <1>8, <2>2, UpTo
    <2>4. seq[m + 1] \in S => seq[m + 1] \in R
        BY <1>1, <1>7 DEF R
    <2> QED BY <2>1, <2>3, <2>4
<1> HIDE DEF T
<1>11. n \in T
    BY <1>1, <1>9, <1>10, SetInduction
<1>12. G[1 .. n] \in Seq(R)
    BY <1>1, <1>11 DEF T
<1>13. IsList(Within(seq, S)) /\ ToSet(Within(seq, S)) \subseteq R
    BY <1>2, <1>12, ListOfAny
<1> QED BY <1>13 DEF R

\* What a transaction makes of the tables, statement by statement.
IsRunOf(s, r) ==
    LET n == Len(session[s].statements) IN
    /\ r[0] = Start /\ RunAll(s) = r[n]
    /\ \A i \in 0 .. n - 1 :
          r[i + 1] = Execute(session[s].base, r[i], session[s].statements[i + 1])

LEMMA RunSteps ==
    ASSUME NEW s, IsList(session[s].statements)
    PROVE  \E r : IsRunOf(s, r)
<1> DEFINE n == Len(session[s].statements)
<1>1. n \in Nat /\ DOMAIN session[s].statements = 1 .. n
    BY ListIs
<1>2. PICK f : IsRun(s, f, n) /\ RunAll(s) = f[1 .. n]
    BY <1>1, RunIs
<1> HIDE DEF n
<1>3. /\ f[{}] = Start
      /\ \A t \in SUBSET (1 .. n) : t # {} => f[t] = Run(s, f[t \ {Max(t)}], Max(t))
    BY <1>2 DEF IsRun
<1> DEFINE r == [i \in 0 .. n |-> f[1 .. i]]
<1>4. r[0] = Start
    <2>1. 1 .. 0 = {} /\ 0 \in 0 .. n
        BY <1>1
    <2> QED BY <1>3, <2>1
<1>5. r[n] = RunAll(s)
    BY <1>1, <1>2
<1>6. ASSUME NEW i \in 0 .. n - 1
      PROVE  r[i + 1] = Execute(session[s].base, r[i], session[s].statements[i + 1])
    <2>1. i \in Nat /\ 1 .. i + 1 \in SUBSET (1 .. n) /\ i \in 0 .. n /\ i + 1 \in 0 .. n
        BY <1>1
    <2>2. f[1 .. i + 1] = Run(s, f[1 .. i], i + 1)
        BY <1>3, <2>1, UpTo
    <2> QED BY <2>1, <2>2 DEF Run
<1> HIDE DEF r
<1>7. IsRunOf(s, r)
    BY <1>4, <1>5, <1>6 DEF IsRunOf, n
<1> QED BY <1>7

-----------------------------------------------------------------------------
(* Finite tables                                                            *)

AssetTables == {"asset_table", "asset_field"}

TablesOK(d) == DOMAIN d = Tables /\ \A t \in Tables : IsFiniteSet(d[t])

SameAssets(d, e) == \A t \in AssetTables : e[t] = d[t]

LEMMA AssetTablesAre ==
    /\ "asset_table" \in Tables /\ "asset_field" \in Tables
    /\ AssetTables \subseteq Tables /\ \A t \in AssetTables : t \notin Cascading
    /\ Key["asset_table"] = "asset_id" /\ Key["asset_field"] = "field_id"
<1>1. /\ "asset_table" \in Tables /\ "asset_field" \in Tables
      /\ Key["asset_table"] = "asset_id" /\ Key["asset_field"] = "field_id"
    BY DEF Tables, Key
<1>2. "asset_table" \notin Cascading /\ "asset_field" \notin Cascading
    BY DEF Cascading
<1>3. \A t : t \in AssetTables => t = "asset_table" \/ t = "asset_field"
    BY DEF AssetTables
<1> QED BY <1>1, <1>2, <1>3

LEMMA FiniteImage ==
    ASSUME NEW S, IsFiniteSet(S), NEW f, f = [x \in S |-> f[x]]
    PROVE  IsFiniteSet({f[x] : x \in S})
<1> DEFINE T == {f[x] : x \in S}
<1>1. DOMAIN f = S
    OBVIOUS
<1>2. \A x \in S : f[x] \in T
    OBVIOUS
<1>3. \A y \in T : \E x \in S : f[x] = y
    OBVIOUS
<1> HIDE DEF T
<1>4. f \in [S -> T]
    BY <1>2
<1>5. f \in Surjection(S, T)
    BY <1>3, <1>4 DEF Surjection
<1>6. IsFiniteSet(T)
    BY <1>5, FS_Surjection
<1> QED BY <1>6 DEF T

LEMMA FinitePart ==
    ASSUME NEW S, IsFiniteSet(S), NEW T, T \subseteq S
    PROVE  IsFiniteSet(T)
BY FS_Subset

LEMMA FiniteBoth ==
    ASSUME NEW S, IsFiniteSet(S), NEW T, IsFiniteSet(T)
    PROVE  IsFiniteSet(S \cup T)
BY FS_Union

LEMMA OneTableChanged ==
    ASSUME NEW d, TablesOK(d), NEW t, NEW rows, t \in Tables => IsFiniteSet(rows)
    PROVE  /\ TablesOK([d EXCEPT ![t] = rows])
           /\ t \notin AssetTables => SameAssets(d, [d EXCEPT ![t] = rows])
           /\ \A u \in Tables : [d EXCEPT ![t] = rows][u] = IF u = t THEN rows ELSE d[u]
<1> DEFINE e == [d EXCEPT ![t] = rows]
<1>1. DOMAIN e = Tables
    BY DEF TablesOK
<1>2. ASSUME NEW u \in Tables PROVE e[u] = IF u = t THEN rows ELSE d[u]
    BY DEF TablesOK
<1> HIDE DEF e
<1>3. \A u \in Tables : IsFiniteSet(e[u])
    BY <1>2 DEF TablesOK
<1>4. t \notin AssetTables => SameAssets(d, e)
    BY <1>2, AssetTablesAre DEF SameAssets
<1>5. TablesOK(e)
    BY <1>1, <1>3 DEF TablesOK
<1> QED BY <1>2, <1>4, <1>5 DEF e

LEMMA CascadeKeeps ==
    ASSUME NEW d, TablesOK(d)
    PROVE  TablesOK(Cascade(d)) /\ SameAssets(d, Cascade(d))
<1> DEFINE Once(e) == [t \in Tables |->
        IF t \in Cascading THEN {r \in e[t] : ParentExists(e, t, r)} ELSE e[t]]
<1>1. ASSUME NEW e, TablesOK(e) PROVE TablesOK(Once(e)) /\ SameAssets(e, Once(e))
    <2>1. \A t \in Tables : Once(e)[t] \subseteq e[t]
        OBVIOUS
    <2>2. \A t \in Tables : IsFiniteSet(Once(e)[t])
        <3> HIDE DEF Once
        <3> QED BY <1>1, <2>1, FinitePart DEF TablesOK
    <2>3. DOMAIN Once(e) = Tables
        OBVIOUS
    <2>4. \A t \in AssetTables : Once(e)[t] = e[t]
        BY AssetTablesAre
    <2> HIDE DEF Once
    <2> QED BY <2>2, <2>3, <2>4 DEF TablesOK, SameAssets
<1>2. Cascade(d) = IF foreignKeys THEN Once(Once(d)) ELSE d
    BY DEF Cascade
<1> HIDE DEF Once
<1>3. TablesOK(Once(d)) /\ SameAssets(d, Once(d))
    BY <1>1
<1>4. TablesOK(Once(Once(d))) /\ SameAssets(Once(d), Once(Once(d)))
    BY <1>1, <1>3
<1> QED BY <1>2, <1>3, <1>4 DEF SameAssets

\* A statement of any kind.
LEMMA ExecuteKeepsTables ==
    ASSUME NEW base, NEW result, NEW st, TablesOK(result.db)
    PROVE  /\ TablesOK(Execute(base, result, st).db)
           /\ st.table \notin AssetTables => SameAssets(result.db, Execute(base, result, st).db)
<1> DEFINE d == result.db
           t == st.table
           next == Execute(base, result, st).db
<1>1. t \in Tables => IsFiniteSet(d[t])
    BY DEF TablesOK
<1>2. CASE st.do = "insert"
    <2> DEFINE rows == d[t] \cup {Numbered(t, st.row, base)}
    <2>1. next = [d EXCEPT ![t] = rows]
        BY <1>2, ExecutesInsert
    <2>2. t \in Tables => IsFiniteSet(rows)
        BY <1>1, FS_AddElement
    <2> HIDE DEF rows, next, d, t
    <2>3. TablesOK(d)
        BY DEF d
    <2>4. TablesOK(next) /\ (t \notin AssetTables => SameAssets(d, next))
        BY <2>1, <2>2, <2>3, OneTableChanged
    <2> QED BY <2>4 DEF next, d, t
<1>3. CASE st.do = "update"
    <2> DEFINE hit == Matching(d[t], st.where)
               f == [r \in hit |-> SetColumns(r, st.set)]
               moved == {SetColumns(r, st.set) : r \in hit}
               rows == (d[t] \ hit) \cup moved
    <2>1. next = [d EXCEPT ![t] = rows]
        BY <1>3, ExecutesUpdate
    <2>2. hit \subseteq d[t]
        BY DEF Matching
    <2>3. moved = {f[r] : r \in hit} /\ f = [r \in hit |-> f[r]]
        OBVIOUS
    <2> HIDE DEF hit, f, moved
    <2>4. ASSUME t \in Tables PROVE IsFiniteSet(rows)
        <3>1. IsFiniteSet(hit) /\ IsFiniteSet(d[t] \ hit)
            BY <1>1, <2>2, <2>4, FinitePart
        <3>2. IsFiniteSet(moved)
            BY <2>3, <3>1, FiniteImage
        <3> QED BY <3>1, <3>2, FiniteBoth
    <2> HIDE DEF rows, next, d, t
    <2>5. TablesOK(d)
        BY DEF d
    <2>6. TablesOK(next) /\ (t \notin AssetTables => SameAssets(d, next))
        BY <2>1, <2>4, <2>5, OneTableChanged
    <2> QED BY <2>6 DEF next, d, t
<1>4. CASE st.do = "delete"
    <2> DEFINE rows == d[t] \ Matching(d[t], st.where)
               e == [d EXCEPT ![t] = rows]
    <2>1. Execute(base, result, st) =
            [db |-> Cascade(e), ok |-> result.ok /\ ConstraintsHold(Cascade(e), t)]
        BY <1>4 DEF Execute
    <2>2. next = Cascade(e)
        <3> HIDE DEF e
        <3> QED BY <2>1
    <2>3. t \in Tables => IsFiniteSet(rows)
        BY <1>1, FinitePart
    <2> HIDE DEF rows, next, d, t
    <2>4. TablesOK(d)
        BY DEF d
    <2>5. TablesOK(e) /\ (t \notin AssetTables => SameAssets(d, e))
        BY <2>3, <2>4, OneTableChanged
    <2> HIDE DEF e
    <2>6. TablesOK(Cascade(e)) /\ SameAssets(e, Cascade(e))
        BY <2>5, CascadeKeeps
    <2>7. TablesOK(next) /\ (t \notin AssetTables => SameAssets(d, next))
        BY <2>2, <2>5, <2>6 DEF SameAssets
    <2> QED BY <2>7 DEF next, d, t
<1>5. CASE st.do \notin {"insert", "update", "delete"}
    <2> DEFINE Counted(r) ==
                 IF r.system_id = st.system
                 THEN [r EXCEPT !.job_count =
                         Cardinality(Matching(d["push_job"], [system_id |-> {r.system_id}]))]
                 ELSE r
               f == [r \in d[t] |-> Counted(r)]
               rows == {Counted(r) : r \in d[t]}
               e == [d EXCEPT ![t] = rows]
    <2>1. Execute(base, result, st) = [db |-> e, ok |-> result.ok /\ ConstraintsHold(e, t)]
        BY <1>5 DEF Execute
    <2>2. next = e
        <3> HIDE DEF e
        <3> QED BY <2>1
    <2> HIDE DEF Counted
    <2>3. rows = {f[r] : r \in d[t]} /\ f = [r \in d[t] |-> f[r]]
        OBVIOUS
    <2> HIDE DEF f, rows
    <2>4. t \in Tables => IsFiniteSet(rows)
        BY <1>1, <2>3, FiniteImage
    <2> HIDE DEF next, d, t
    <2>5. TablesOK(d)
        BY DEF d
    <2>6. TablesOK(e) /\ (t \notin AssetTables => SameAssets(d, e))
        BY <2>4, <2>5, OneTableChanged
    <2> QED BY <2>2, <2>6 DEF next, d, t
<1> QED BY <1>2, <1>3, <1>4, <1>5

LEMMA RunKeepsTables ==
    ASSUME NEW s, NEW r, IsRunOf(s, r), IsList(session[s].statements), TablesOK(db)
    PROVE  \A i \in 0 .. Len(session[s].statements) : TablesOK(r[i].db)
<1> DEFINE n == Len(session[s].statements)
           T == {i \in Nat : i \in 0 .. n => TablesOK(r[i].db)}
<1>1. n \in Nat
    BY ListIs
<1> HIDE DEF n
<1>2. 0 \in T
    BY DEF IsRunOf, Start
<1>3. ASSUME NEW i \in Nat, i \in T PROVE i + 1 \in T
    <2> SUFFICES ASSUME i + 1 \in 0 .. n PROVE TablesOK(r[i + 1].db)
        OBVIOUS
    <2>1. i \in 0 .. n /\ i \in 0 .. n - 1
        BY <1>1
    <2>2. r[i + 1] = Execute(session[s].base, r[i], session[s].statements[i + 1])
        BY <2>1 DEF IsRunOf, n
    <2> QED BY <1>3, <2>1, <2>2, ExecuteKeepsTables
<1> HIDE DEF T
<1>4. Nat \subseteq T
    BY <1>2, <1>3, SetInduction
<1> QED BY <1>1, <1>4 DEF T, n

\* A transaction that succeeds has succeeded at each statement.
LEMMA RunWasOk ==
    ASSUME NEW s, NEW r, IsRunOf(s, r), IsList(session[s].statements), RunAll(s).ok
    PROVE  \A i \in 0 .. Len(session[s].statements) : r[i].ok
<1> DEFINE n == Len(session[s].statements)
           T == {k \in Nat : k \in 0 .. n => r[n - k].ok}
<1>1. n \in Nat
    BY ListIs
<1>2. ASSUME NEW base, NEW result, NEW st, Execute(base, result, st).ok PROVE result.ok
    <2>1. \E next, held : Execute(base, result, st) = [db |-> next, ok |-> result.ok /\ held]
        BY DEF Execute
    <2>2. PICK next, held : Execute(base, result, st) = [db |-> next, ok |-> result.ok /\ held]
        BY <2>1
    <2>3. Execute(base, result, st).ok = (result.ok /\ held)
        BY <2>2
    <2> QED BY <1>2, <2>3, Zenon
<1>3. RunAll(s) = r[n]
    BY DEF IsRunOf
<1>4. \A i \in 0 .. n - 1 :
          r[i + 1] = Execute(session[s].base, r[i], session[s].statements[i + 1])
    BY DEF IsRunOf
<1> HIDE DEF n
<1>5. 0 \in T
    <2>1. n - 0 = n
        BY <1>1
    <2> QED BY <1>3, <2>1
<1>6. ASSUME NEW k \in Nat, k \in T PROVE k + 1 \in T
    <2> SUFFICES ASSUME k + 1 \in 0 .. n PROVE r[n - (k + 1)].ok
        OBVIOUS
    <2>1. PICK i : i = n - (k + 1)
        OBVIOUS
    <2>2. i \in 0 .. n - 1 /\ i + 1 = n - k /\ k \in 0 .. n
        BY <1>1, <2>1
    <2>3. r[i + 1].ok
        BY <1>6, <2>2
    <2> QED BY <1>2, <1>4, <2>1, <2>2, <2>3
<1> HIDE DEF T
<1>7. Nat \subseteq T
    BY <1>5, <1>6, SetInduction
<1>8. ASSUME NEW i \in 0 .. n PROVE r[i].ok
    <2>1. n - i \in Nat /\ n - i \in 0 .. n /\ n - (n - i) = i
        BY <1>1
    <2>2. n - i \in T
        BY <1>7, <2>1
    <2> QED BY <2>1, <2>2 DEF T
<1> QED BY <1>8 DEF n

-----------------------------------------------------------------------------
(* Ids in the asset catalogue                                               *)

AssetColumns == {"asset_id", "source_key", "external_id", "owner_name", "field_count",
                 "is_deleted", "table_name", "table_desc"}
FieldColumns == {"field_id", "asset_id", "is_deleted", "field_cn_name", "field_name",
                 "data_type", "nullable", "field_order", "field_desc"}

CatalogueOK(d) ==
    /\ TablesOK(d)
    /\ \A row \in d["asset_table"] : DOMAIN row = AssetColumns /\ row.asset_id \in Nat
    /\ \A row \in d["asset_field"] : DOMAIN row = FieldColumns
    /\ \A a, b \in d["asset_table"] : a.asset_id = b.asset_id => a = b
    /\ \A a, b \in d["asset_field"] : a.field_id = b.field_id => a = b

SameAsset(row, now) ==
    /\ now.asset_id = row.asset_id
    /\ now.source_key = row.source_key /\ now.external_id = row.external_id

SameField(row, now) ==
    /\ now.field_id = row.field_id /\ now.asset_id = row.asset_id
    /\ FieldKey(now.field_name) = FieldKey(row.field_name)
    /\ row.is_deleted => now.is_deleted

IdsKept(d, e) ==
    /\ \A row \in d["asset_table"] : \E now \in e["asset_table"] : SameAsset(row, now)
    /\ \A row \in d["asset_field"] : \E now \in e["asset_field"] : SameField(row, now)

\* A natural key is written to the asset that has it.
WritesOwnKey(st, d) ==
    /\ {"source_key", "external_id"} \subseteq DOMAIN st.set
    /\ "asset_id" \in DOMAIN st.where
    /\ \A id \in st.where.asset_id : \E row \in d["asset_table"] :
         /\ row.asset_id = id
         /\ row.source_key = st.set.source_key /\ row.external_id = st.set.external_id

\* A statement on the catalogue adds a row, or it changes columns that are no id.
KeepsIds(st, d) ==
    /\ st.do \in {"insert", "update"}
    /\ st.do = "insert" /\ st.table = "asset_table" =>
         DOMAIN st.row = AssetColumns /\ st.row.asset_id \in Int /\ st.row.asset_id < 0
    /\ st.do = "insert" /\ st.table = "asset_field" => DOMAIN st.row = FieldColumns
    /\ st.do = "update" /\ st.table = "asset_table" =>
         /\ "asset_id" \notin DOMAIN st.set
         /\ DOMAIN st.set \cap {"source_key", "external_id"} = {} \/ WritesOwnKey(st, d)
    /\ st.do = "update" /\ st.table = "asset_field" =>
         /\ DOMAIN st.set \cap {"field_id", "asset_id"} = {}
         /\ "is_deleted" \in DOMAIN st.set => st.set.is_deleted
         /\ "field_name" \in DOMAIN st.set =>
              /\ "field_id" \in DOMAIN st.where
              /\ \A id \in st.where.field_id : \E row \in d["asset_field"] :
                   row.field_id = id /\ FieldKey(row.field_name) = FieldKey(st.set.field_name)

LEMMA IdsStay ==
    ASSUME NEW d, NEW e, SameAssets(d, e)
    PROVE  IdsKept(d, e)
<1>1. e["asset_table"] = d["asset_table"] /\ e["asset_field"] = d["asset_field"]
    BY DEF SameAssets, AssetTables
<1> QED BY <1>1 DEF IdsKept, SameAsset, SameField

LEMMA IdsOnAndOn ==
    ASSUME NEW c, NEW d, NEW e, IdsKept(c, d), IdsKept(d, e)
    PROVE  IdsKept(c, e)
<1>1. ASSUME NEW row \in c["asset_table"]
      PROVE  \E now \in e["asset_table"] : SameAsset(row, now)
    <2>1. PICK mid \in d["asset_table"] : SameAsset(row, mid)
        BY DEF IdsKept
    <2>2. PICK now \in e["asset_table"] : SameAsset(mid, now)
        BY DEF IdsKept
    <2> QED BY <2>1, <2>2 DEF SameAsset
<1>2. ASSUME NEW row \in c["asset_field"]
      PROVE  \E now \in e["asset_field"] : SameField(row, now)
    <2>1. PICK mid \in d["asset_field"] : SameField(row, mid)
        BY DEF IdsKept
    <2>2. PICK now \in e["asset_field"] : SameField(mid, now)
        BY DEF IdsKept
    <2> QED BY <2>1, <2>2 DEF SameField
<1> QED BY <1>1, <1>2 DEF IdsKept

LEMMA KeepsIdsStays ==
    ASSUME NEW d, NEW e, IdsKept(d, e), NEW st, KeepsIds(st, d)
    PROVE  KeepsIds(st, e)
<1>1. ASSUME NEW id, NEW row \in d["asset_field"],
             row.field_id = id, FieldKey(row.field_name) = FieldKey(st.set.field_name)
      PROVE  \E now \in e["asset_field"] :
                now.field_id = id /\ FieldKey(now.field_name) = FieldKey(st.set.field_name)
    BY <1>1 DEF IdsKept, SameField
<1>2. WritesOwnKey(st, d) => WritesOwnKey(st, e)
    <2>1. ASSUME NEW id, NEW row \in d["asset_table"], row.asset_id = id,
                 row.source_key = st.set.source_key, row.external_id = st.set.external_id
          PROVE  \E now \in e["asset_table"] :
                   /\ now.asset_id = id
                   /\ now.source_key = st.set.source_key /\ now.external_id = st.set.external_id
        BY <2>1 DEF IdsKept, SameAsset
    <2> QED BY <2>1 DEF WritesOwnKey
<1>3. /\ st.do \in {"insert", "update"}
      /\ st.do = "insert" /\ st.table = "asset_table" =>
           DOMAIN st.row = AssetColumns /\ st.row.asset_id \in Int /\ st.row.asset_id < 0
      /\ st.do = "insert" /\ st.table = "asset_field" => DOMAIN st.row = FieldColumns
      /\ st.do = "update" /\ st.table = "asset_table" =>
           /\ "asset_id" \notin DOMAIN st.set
           /\ DOMAIN st.set \cap {"source_key", "external_id"} = {} \/ WritesOwnKey(st, e)
    BY <1>2 DEF KeepsIds
<1>4. st.do = "update" /\ st.table = "asset_field" =>
        /\ DOMAIN st.set \cap {"field_id", "asset_id"} = {}
        /\ "is_deleted" \in DOMAIN st.set => st.set.is_deleted
        /\ "field_name" \in DOMAIN st.set =>
             /\ "field_id" \in DOMAIN st.where
             /\ \A id \in st.where.field_id : \E row \in e["asset_field"] :
                  row.field_id = id /\ FieldKey(row.field_name) = FieldKey(st.set.field_name)
    BY <1>1 DEF KeepsIds
<1> QED BY <1>3, <1>4 DEF KeepsIds

\* What an update makes of a row.
Became(row, now, hit, set) ==
    /\ DOMAIN now = DOMAIN row
    /\ \A c \in DOMAIN row : now[c] = IF row \in hit /\ c \in DOMAIN set THEN set[c] ELSE row[c]

LEMMA UpdateMoves ==
    ASSUME NEW rows, NEW where, NEW set
    PROVE  LET hit   == Matching(rows, where)
               after == (rows \ hit) \cup {SetColumns(r, set) : r \in hit}
           IN  /\ \A row \in rows : \E now \in after : Became(row, now, hit, set)
               /\ \A now \in after : \E row \in rows : Became(row, now, hit, set)
<1> DEFINE hit   == Matching(rows, where)
           after == (rows \ hit) \cup {SetColumns(r, set) : r \in hit}
<1>1. hit \subseteq rows
    BY DEF Matching
<1> HIDE DEF hit
<1>2. \A row : row \notin hit => Became(row, row, hit, set)
    BY DEF Became
<1>3. \A row : row \in hit => Became(row, SetColumns(row, set), hit, set)
    BY DEF Became, SetColumns
<1>4. \A row \in rows : \E now \in after : Became(row, now, hit, set)
    BY <1>1, <1>2, <1>3
<1>5. \A now \in after : \E row \in rows : Became(row, now, hit, set)
    BY <1>1, <1>2, <1>3
<1> QED BY <1>4, <1>5 DEF hit

\* An asset stays the one it is.
LEMMA UpdateKeepsAsset ==
    ASSUME NEW d, CatalogueOK(d), NEW st, st.do = "update", st.table = "asset_table",
           KeepsIds(st, d), NEW row \in d["asset_table"], NEW now,
           NEW hit, hit = Matching(d["asset_table"], st.where), Became(row, now, hit, st.set)
    PROVE  SameAsset(row, now) /\ DOMAIN now = AssetColumns /\ now.asset_id \in Nat
<1>1. DOMAIN row = AssetColumns /\ row.asset_id \in Nat
    BY DEF CatalogueOK
<1>2. /\ "asset_id" \in DOMAIN row /\ "source_key" \in DOMAIN row
      /\ "external_id" \in DOMAIN row
    BY <1>1 DEF AssetColumns
<1>3. /\ "asset_id" \notin DOMAIN st.set
      /\ DOMAIN st.set \cap {"source_key", "external_id"} = {} \/ WritesOwnKey(st, d)
    BY DEF KeepsIds
<1>4. now["asset_id"] = row["asset_id"] /\ DOMAIN now = DOMAIN row
    BY <1>2, <1>3 DEF Became
<1>5. row \in hit => \A c \in DOMAIN st.where : row[c] \in st.where[c]
    BY DEF Matching
<1>6. now["source_key"] = row["source_key"] /\ now["external_id"] = row["external_id"]
    <2>1. CASE row \in hit /\ WritesOwnKey(st, d)
        <3>1. /\ "source_key" \in DOMAIN st.set /\ "external_id" \in DOMAIN st.set
              /\ row["asset_id"] \in st.where["asset_id"]
            BY <1>5, <2>1 DEF WritesOwnKey
        <3>2. PICK other \in d["asset_table"] :
                 /\ other.asset_id = row.asset_id
                 /\ other.source_key = st.set.source_key
                 /\ other.external_id = st.set.external_id
            BY <2>1, <3>1 DEF WritesOwnKey
        <3>3. other = row
            BY <3>2 DEF CatalogueOK
        <3>4. /\ now["source_key"] = st.set["source_key"]
              /\ now["external_id"] = st.set["external_id"]
            BY <1>2, <2>1, <3>1 DEF Became
        <3> QED BY <3>2, <3>3, <3>4
    <2>2. CASE row \notin hit
        BY <1>2, <2>2 DEF Became
    <2>3. CASE DOMAIN st.set \cap {"source_key", "external_id"} = {}
        BY <1>2, <2>3 DEF Became
    <2> QED BY <1>3, <2>1, <2>2, <2>3
<1> QED BY <1>1, <1>4, <1>6 DEF SameAsset

\* A column that refers to a row.
Refers(t, c) == Holds(t, c) # ""

LEMMA NumberedIs ==
    ASSUME NEW t, NEW row, NEW base
    PROVE  Numbered(t, row, base) =
             [c \in DOMAIN row |-> IF Refers(t, c) /\ row[c] < 0
                                   THEN base[Holds(t, c)] - row[c] - 1 ELSE row[c]]
BY Zenon DEF Numbered, Refers

LEMMA NumberedRow ==
    ASSUME NEW t, NEW row, NEW base, NEW new, new = Numbered(t, row, base)
    PROVE  /\ DOMAIN new = DOMAIN row
           /\ \A c \in DOMAIN row :
                /\ ~Refers(t, c) \/ row[c] \in Nat => new[c] = row[c]
                /\ Refers(t, c) /\ row[c] \in Int /\ row[c] < 0 /\ base[Holds(t, c)] \in Int =>
                     new[c] = base[Holds(t, c)] - row[c] - 1
BY NumberedIs

LEMMA HoldsAsset ==
    /\ Holds("asset_table", "asset_id") = "asset_table"
    /\ Holds("asset_field", "asset_id") = "asset_table"
    /\ Refers("asset_table", "asset_id") /\ Refers("asset_field", "asset_id")
<1>1. Key["asset_table"] = "asset_id" /\ Key["asset_field"] = "field_id"
    BY AssetTablesAre
<1>2. "asset_field" \notin DOMAIN References
    BY DEF References
<1>3. /\ "asset_field" \in DOMAIN LogicalReferences
      /\ "asset_id" \in DOMAIN LogicalReferences["asset_field"]
      /\ LogicalReferences["asset_field"]["asset_id"] = "asset_table"
    BY DEF LogicalReferences
<1>4. Holds("asset_table", "asset_id") = "asset_table"
    BY <1>1 DEF Holds
<1>5. Holds("asset_field", "asset_id") = "asset_table"
    BY <1>1, <1>2, <1>3 DEF Holds
<1>6. Refers("asset_table", "asset_id") /\ Refers("asset_field", "asset_id")
    BY <1>4, <1>5, Zenon DEF Refers
<1> QED BY <1>4, <1>5, <1>6

\* Keys are unique after a statement that succeeded.
LEMMA KeysAreUnique ==
    ASSUME NEW d, NEW t, ConstraintsHold(d, t)
    PROVE  \A a, b \in d[t] : a[Key[t]] = b[Key[t]] => a = b
BY DEF ConstraintsHold

\* What a statement on a table of the catalogue makes of it.
LEMMA ExecuteMoves ==
    ASSUME NEW base, NEW result, NEW st, TablesOK(result.db),
           st.table \in AssetTables, st.do \in {"insert", "update"},
           NEW t, t = st.table, NEW d, d = result.db, NEW e, e = Execute(base, result, st).db
    PROVE  /\ TablesOK(e) /\ \A u \in AssetTables : u # t => e[u] = d[u]
           /\ Execute(base, result, st).ok => \A a, b \in e[t] : a[Key[t]] = b[Key[t]] => a = b
           /\ st.do = "insert" => e[t] = d[t] \cup {Numbered(t, st.row, base)}
           /\ st.do = "update" =>
                LET hit == Matching(d[t], st.where) IN
                /\ \A row \in d[t] : \E now \in e[t] : Became(row, now, hit, st.set)
                /\ \A now \in e[t] : \E row \in d[t] : Became(row, now, hit, st.set)
<1>1. TablesOK(d) /\ TablesOK(e) /\ t \in Tables
    BY ExecuteKeepsTables, AssetTablesAre
<1>2. ASSUME NEW rows, e = [d EXCEPT ![t] = rows]
      PROVE  e[t] = rows /\ \A u \in AssetTables : u # t => e[u] = d[u]
    BY <1>1, <1>2, AssetTablesAre DEF TablesOK
<1>3. CASE st.do = "insert"
    <2> DEFINE rows == d[t] \cup {Numbered(t, st.row, base)}
    <2>1. e = [d EXCEPT ![t] = rows] /\ (Execute(base, result, st).ok => ConstraintsHold(e, t))
        BY <1>3, ExecutesInsert
    <2> HIDE DEF rows
    <2>2. e[t] = rows /\ \A u \in AssetTables : u # t => e[u] = d[u]
        BY <1>2, <2>1
    <2>3. e[t] = d[t] \cup {Numbered(t, st.row, base)}
        BY <2>2 DEF rows
    <2>4. Execute(base, result, st).ok => \A a, b \in e[t] : a[Key[t]] = b[Key[t]] => a = b
        BY <2>1, KeysAreUnique
    <2> QED BY <1>1, <1>3, <2>2, <2>3, <2>4
<1>4. CASE st.do = "update"
    <2> DEFINE hit  == Matching(d[t], st.where)
               rows == (d[t] \ hit) \cup {SetColumns(r, st.set) : r \in hit}
    <2>1. e = [d EXCEPT ![t] = rows] /\ (Execute(base, result, st).ok => ConstraintsHold(e, t))
        BY <1>4, ExecutesUpdate
    <2>2. /\ \A row \in d[t] : \E now \in rows : Became(row, now, hit, st.set)
          /\ \A now \in rows : \E row \in d[t] : Became(row, now, hit, st.set)
        BY UpdateMoves
    <2> HIDE DEF rows, hit
    <2>3. e[t] = rows /\ \A u \in AssetTables : u # t => e[u] = d[u]
        BY <1>2, <2>1
    <2>4. Execute(base, result, st).ok => \A a, b \in e[t] : a[Key[t]] = b[Key[t]] => a = b
        BY <2>1, KeysAreUnique
    <2>5. /\ \A row \in d[t] : \E now \in e[t] : Became(row, now, hit, st.set)
          /\ \A now \in e[t] : \E row \in d[t] : Became(row, now, hit, st.set)
        BY <2>2, <2>3
    <2> QED BY <1>1, <1>4, <2>3, <2>4, <2>5 DEF hit
<1> QED BY <1>3, <1>4

LEMMA AssetStatementKeepsIds ==
    ASSUME NEW base, NEW result, NEW st, CatalogueOK(result.db), Execute(base, result, st).ok,
           st.table = "asset_table", KeepsIds(st, result.db),
           st.do = "insert" => base["asset_table"] \in Nat
    PROVE  /\ CatalogueOK(Execute(base, result, st).db)
           /\ IdsKept(result.db, Execute(base, result, st).db)
<1>1. PICK d, e : d = result.db /\ e = Execute(base, result, st).db
    OBVIOUS
<1> DEFINE rows == d["asset_table"]
           hit  == Matching(rows, st.where)
<1>2. /\ TablesOK(e) /\ e["asset_field"] = d["asset_field"]
      /\ \A a, b \in e["asset_table"] : a["asset_id"] = b["asset_id"] => a = b
      /\ st.do = "insert" =>
           e["asset_table"] = rows \cup {Numbered("asset_table", st.row, base)}
      /\ st.do = "update" =>
           /\ \A row \in rows : \E now \in e["asset_table"] : Became(row, now, hit, st.set)
           /\ \A now \in e["asset_table"] : \E row \in rows : Became(row, now, hit, st.set)
    <2>1. TablesOK(d) /\ st.do \in {"insert", "update"}
        BY <1>1 DEF CatalogueOK, KeepsIds
    <2>2. /\ "asset_table" \in AssetTables /\ "asset_field" \in AssetTables
          /\ Key["asset_table"] = "asset_id"
        BY AssetTablesAre DEF AssetTables
    <2>3. PICK t : t = "asset_table"
        OBVIOUS
    <2>4. /\ TablesOK(e) /\ \A u \in AssetTables : u # t => e[u] = d[u]
          /\ \A a, b \in e[t] : a[Key[t]] = b[Key[t]] => a = b
          /\ st.do = "insert" => e[t] = d[t] \cup {Numbered(t, st.row, base)}
          /\ st.do = "update" =>
               /\ \A row \in d[t] : \E now \in e[t] :
                     Became(row, now, Matching(d[t], st.where), st.set)
               /\ \A now \in e[t] : \E row \in d[t] :
                     Became(row, now, Matching(d[t], st.where), st.set)
        BY <1>1, <2>1, <2>2, <2>3, ExecuteMoves
    <2> QED BY <2>2, <2>3, <2>4
<1> HIDE DEF hit
<1>3. CASE st.do = "insert"
    <2>1. PICK row : row = Numbered("asset_table", st.row, base)
        OBVIOUS
    <2>2. DOMAIN st.row = AssetColumns /\ st.row.asset_id \in Int /\ st.row.asset_id < 0
        BY <1>3 DEF KeepsIds
    <2>3. "asset_id" \in DOMAIN st.row
        BY <2>2 DEF AssetColumns
    <2>4. DOMAIN row = AssetColumns /\ row["asset_id"] = base["asset_table"] - st.row["asset_id"] - 1
        BY <1>3, <2>1, <2>2, <2>3, HoldsAsset, NumberedRow
    <2>5. row.asset_id \in Nat
        BY <1>3, <2>2, <2>4
    <2>6. CatalogueOK(e)
        BY <1>1, <1>2, <1>3, <2>1, <2>4, <2>5 DEF CatalogueOK
    <2>7. IdsKept(d, e)
        BY <1>2, <1>3, <2>1 DEF IdsKept, SameAsset, SameField
    <2> QED BY <1>1, <2>6, <2>7
<1>4. CASE st.do = "update"
    <2>1. ASSUME NEW row \in rows, NEW now, Became(row, now, hit, st.set)
          PROVE  SameAsset(row, now) /\ DOMAIN now = AssetColumns /\ now.asset_id \in Nat
        BY <1>1, <1>4, <2>1, UpdateKeepsAsset DEF hit
    <2>2. CatalogueOK(e)
        BY <1>1, <1>2, <1>4, <2>1 DEF CatalogueOK
    <2>3. \A row \in rows : \E now \in e["asset_table"] : SameAsset(row, now)
        BY <1>2, <1>4, <2>1
    <2>4. IdsKept(d, e)
        BY <1>2, <2>3 DEF IdsKept, SameField
    <2> QED BY <1>1, <2>2, <2>4
<1> QED BY <1>3, <1>4 DEF KeepsIds

LEMMA FieldStatementKeepsIds ==
    ASSUME NEW base, NEW result, NEW st, CatalogueOK(result.db), Execute(base, result, st).ok,
           st.table = "asset_field", KeepsIds(st, result.db)
    PROVE  /\ CatalogueOK(Execute(base, result, st).db)
           /\ IdsKept(result.db, Execute(base, result, st).db)
<1>1. PICK d, e : d = result.db /\ e = Execute(base, result, st).db
    OBVIOUS
<1> DEFINE rows == d["asset_field"]
           hit  == Matching(rows, st.where)
<1>2. /\ TablesOK(e) /\ e["asset_table"] = d["asset_table"]
      /\ \A a, b \in e["asset_field"] : a["field_id"] = b["field_id"] => a = b
      /\ st.do = "insert" =>
           e["asset_field"] = rows \cup {Numbered("asset_field", st.row, base)}
      /\ st.do = "update" =>
           /\ \A row \in rows : \E now \in e["asset_field"] : Became(row, now, hit, st.set)
           /\ \A now \in e["asset_field"] : \E row \in rows : Became(row, now, hit, st.set)
    <2>1. TablesOK(d) /\ st.do \in {"insert", "update"}
        BY <1>1 DEF CatalogueOK, KeepsIds
    <2>2. /\ "asset_table" \in AssetTables /\ "asset_field" \in AssetTables
          /\ Key["asset_field"] = "field_id"
        BY AssetTablesAre DEF AssetTables
    <2>3. PICK t : t = "asset_field"
        OBVIOUS
    <2>4. /\ TablesOK(e) /\ \A u \in AssetTables : u # t => e[u] = d[u]
          /\ \A a, b \in e[t] : a[Key[t]] = b[Key[t]] => a = b
          /\ st.do = "insert" => e[t] = d[t] \cup {Numbered(t, st.row, base)}
          /\ st.do = "update" =>
               /\ \A row \in d[t] : \E now \in e[t] :
                     Became(row, now, Matching(d[t], st.where), st.set)
               /\ \A now \in e[t] : \E row \in d[t] :
                     Became(row, now, Matching(d[t], st.where), st.set)
        BY <1>1, <2>1, <2>2, <2>3, ExecuteMoves
    <2> QED BY <2>2, <2>3, <2>4
<1>3. \A row \in hit : row \in rows /\ \A c \in DOMAIN st.where : row[c] \in st.where[c]
    BY DEF Matching
<1> HIDE DEF hit
<1>4. CASE st.do = "insert"
    <2>1. PICK row : row = Numbered("asset_field", st.row, base)
        OBVIOUS
    <2>2. DOMAIN st.row = FieldColumns
        BY <1>4 DEF KeepsIds
    <2>3. DOMAIN row = FieldColumns
        BY <2>1, <2>2, NumberedRow
    <2>4. CatalogueOK(e)
        BY <1>1, <1>2, <1>4, <2>1, <2>3 DEF CatalogueOK
    <2>5. IdsKept(d, e)
        BY <1>2, <1>4, <2>1 DEF IdsKept, SameAsset, SameField
    <2> QED BY <1>1, <2>4, <2>5
<1>5. CASE st.do = "update"
    <2>1. /\ DOMAIN st.set \cap {"field_id", "asset_id"} = {}
          /\ "is_deleted" \in DOMAIN st.set => st.set.is_deleted
          /\ "field_name" \in DOMAIN st.set =>
                /\ "field_id" \in DOMAIN st.where
                /\ \A id \in st.where.field_id : \E row \in rows :
                     row.field_id = id /\ FieldKey(row.field_name) = FieldKey(st.set.field_name)
        BY <1>1, <1>5 DEF KeepsIds
    <2>2. ASSUME NEW row \in rows, NEW now, Became(row, now, hit, st.set)
          PROVE  SameField(row, now) /\ DOMAIN now = FieldColumns
        <3>1. DOMAIN row = FieldColumns
            BY <1>1 DEF CatalogueOK
        <3>2. /\ "field_id" \in DOMAIN row /\ "asset_id" \in DOMAIN row
              /\ "field_name" \in DOMAIN row /\ "is_deleted" \in DOMAIN row
            BY <3>1 DEF FieldColumns
        <3>3. /\ now["field_id"] = row["field_id"] /\ now["asset_id"] = row["asset_id"]
              /\ DOMAIN now = DOMAIN row
            BY <2>1, <2>2, <3>2 DEF Became
        <3>4. now["is_deleted"] = row["is_deleted"] \/ (now["is_deleted"] = st.set["is_deleted"]
                                                        /\ "is_deleted" \in DOMAIN st.set)
            BY <2>2, <3>2 DEF Became
        <3>5. row.is_deleted => now.is_deleted
            BY <2>1, <3>4
        <3>6. CASE row \in hit /\ "field_name" \in DOMAIN st.set
            <4>1. now["field_name"] = st.set["field_name"]
                BY <2>2, <3>2, <3>6 DEF Became
            <4>2. row["field_id"] \in st.where["field_id"]
                BY <1>3, <2>1, <3>6
            <4>3. PICK other \in rows :
                     /\ other.field_id = row.field_id
                     /\ FieldKey(other.field_name) = FieldKey(st.set.field_name)
                BY <2>1, <3>6, <4>2
            <4>4. other = row
                BY <1>1, <4>3 DEF CatalogueOK
            <4> QED BY <3>1, <3>3, <3>5, <4>1, <4>3, <4>4 DEF SameField
        <3>7. CASE ~(row \in hit /\ "field_name" \in DOMAIN st.set)
            <4>1. now["field_name"] = row["field_name"]
                BY <2>2, <3>2, <3>7 DEF Became
            <4> QED BY <3>1, <3>3, <3>5, <4>1 DEF SameField
        <3> QED BY <3>6, <3>7
    <2>3. CatalogueOK(e)
        BY <1>1, <1>2, <1>5, <2>2 DEF CatalogueOK
    <2>4. \A row \in rows : \E now \in e["asset_field"] : SameField(row, now)
        BY <1>2, <1>5, <2>2
    <2>5. IdsKept(d, e)
        BY <1>2, <2>4 DEF IdsKept, SameAsset
    <2> QED BY <1>1, <2>3, <2>5
<1> QED BY <1>4, <1>5 DEF KeepsIds

LEMMA ExecuteKeepsIds ==
    ASSUME NEW base, NEW result, NEW st, CatalogueOK(result.db), Execute(base, result, st).ok,
           st.table \in AssetTables => KeepsIds(st, result.db),
           st.do = "insert" /\ st.table = "asset_table" => base["asset_table"] \in Nat
    PROVE  /\ CatalogueOK(Execute(base, result, st).db)
           /\ IdsKept(result.db, Execute(base, result, st).db)
<1>1. CASE st.table \notin AssetTables
    <2>1. PICK d, e : d = result.db /\ e = Execute(base, result, st).db
        OBVIOUS
    <2>2. TablesOK(e) /\ SameAssets(d, e)
        BY <1>1, <2>1, ExecuteKeepsTables DEF CatalogueOK
    <2>3. IdsKept(d, e)
        BY <2>2, IdsStay
    <2>4. e["asset_table"] = d["asset_table"] /\ e["asset_field"] = d["asset_field"]
        BY <2>2 DEF SameAssets, AssetTables
    <2>5. CatalogueOK(e)
        BY <2>1, <2>2, <2>4 DEF CatalogueOK
    <2> QED BY <2>1, <2>3, <2>5
<1> QED BY <1>1, AssetStatementKeepsIds, FieldStatementKeepsIds DEF AssetTables

\* The statements of a session keep the ids of the catalogue.
PlanKeepsIds(s) ==
    \A st \in ToSet(session[s].statements) : st.table \in AssetTables =>
        /\ KeepsIds(st, db)
        /\ st.do = "insert" /\ st.table = "asset_table" => session[s].base["asset_table"] \in Nat

LEMMA RunKeepsIds ==
    ASSUME NEW s, NEW r, IsRunOf(s, r), IsList(session[s].statements), CatalogueOK(db),
           PlanKeepsIds(s), RunAll(s).ok
    PROVE  \A i \in 0 .. Len(session[s].statements) :
              CatalogueOK(r[i].db) /\ IdsKept(db, r[i].db)
<1> DEFINE n == Len(session[s].statements)
           T == {i \in Nat : i \in 0 .. n => CatalogueOK(r[i].db) /\ IdsKept(db, r[i].db)}
<1>1. /\ n \in Nat
      /\ \A x : x \in ToSet(session[s].statements) <=> \E i \in 1 .. n : x = session[s].statements[i]
    BY ListIs
<1>2. \A i \in 0 .. n : r[i].ok
    BY RunWasOk
<1> HIDE DEF n
<1>3. 0 \in T
    <2>1. r[0].db = db
        BY DEF IsRunOf, Start
    <2>2. SameAssets(db, db)
        BY DEF SameAssets
    <2> QED BY <2>1, <2>2, IdsStay
<1>4. ASSUME NEW i \in Nat, i \in T PROVE i + 1 \in T
    <2> SUFFICES ASSUME i + 1 \in 0 .. n PROVE CatalogueOK(r[i + 1].db) /\ IdsKept(db, r[i + 1].db)
        OBVIOUS
    <2>1. i \in 0 .. n /\ i \in 0 .. n - 1 /\ i + 1 \in 1 .. n
        BY <1>1
    <2>2. CatalogueOK(r[i].db) /\ IdsKept(db, r[i].db)
        BY <1>4, <2>1
    <2>3. PICK st : st = session[s].statements[i + 1]
        OBVIOUS
    <2>4. st \in ToSet(session[s].statements)
        BY <1>1, <2>1, <2>3
    <2>5. r[i + 1] = Execute(session[s].base, r[i], st) /\ r[i + 1].ok
        BY <1>2, <2>1, <2>3 DEF IsRunOf, n
    <2>6. /\ st.table \in AssetTables => KeepsIds(st, r[i].db)
          /\ st.do = "insert" /\ st.table = "asset_table" => session[s].base["asset_table"] \in Nat
        BY <2>2, <2>4, KeepsIdsStays, AssetTablesAre DEF PlanKeepsIds, AssetTables
    <2>7. CatalogueOK(r[i + 1].db) /\ IdsKept(r[i].db, r[i + 1].db)
        BY <2>2, <2>5, <2>6, ExecuteKeepsIds
    <2> QED BY <2>2, <2>7, IdsOnAndOn
<1> HIDE DEF T
<1>5. Nat \subseteq T
    BY <1>3, <1>4, SetInduction
<1> QED BY <1>1, <1>5 DEF T, n

-----------------------------------------------------------------------------
(* Columns in the asset catalogue                                           *)

\* Two tables of the catalogue around a statement on one of them.
LEMMA AssetsMove ==
    ASSUME NEW base, NEW result, NEW st, TablesOK(result.db),
           st.table = "asset_table", st.do \in {"insert", "update"},
           NEW d, d = result.db, NEW e, e = Execute(base, result, st).db
    PROVE  LET hit == Matching(d["asset_table"], st.where) IN
           /\ e["asset_field"] = d["asset_field"]
           /\ st.do = "insert" => d["asset_table"] \subseteq e["asset_table"]
           /\ st.do = "update" => \A row \in d["asset_table"] :
                \E now \in e["asset_table"] : Became(row, now, hit, st.set)
<1>1. /\ "asset_table" \in AssetTables /\ "asset_field" \in AssetTables
    BY DEF AssetTables
<1>2. PICK t : t = "asset_table"
    OBVIOUS
<1>3. /\ \A u \in AssetTables : u # t => e[u] = d[u]
      /\ st.do = "insert" => e[t] = d[t] \cup {Numbered(t, st.row, base)}
      /\ st.do = "update" => \A row \in d[t] : \E now \in e[t] :
                                Became(row, now, Matching(d[t], st.where), st.set)
    BY <1>1, <1>2, ExecuteMoves
<1> QED BY <1>1, <1>2, <1>3

LEMMA FieldsMove ==
    ASSUME NEW base, NEW result, NEW st, TablesOK(result.db),
           st.table = "asset_field", st.do \in {"insert", "update"},
           NEW d, d = result.db, NEW e, e = Execute(base, result, st).db
    PROVE  LET hit == Matching(d["asset_field"], st.where) IN
           /\ e["asset_table"] = d["asset_table"]
           /\ st.do = "insert" =>
                e["asset_field"] = d["asset_field"] \cup {Numbered("asset_field", st.row, base)}
           /\ st.do = "update" =>
                /\ \A row \in d["asset_field"] : \E now \in e["asset_field"] :
                      Became(row, now, hit, st.set)
                /\ \A now \in e["asset_field"] : \E row \in d["asset_field"] :
                      Became(row, now, hit, st.set)
<1>1. /\ "asset_table" \in AssetTables /\ "asset_field" \in AssetTables
    BY DEF AssetTables
<1>2. PICK t : t = "asset_field"
    OBVIOUS
<1>3. /\ \A u \in AssetTables : u # t => e[u] = d[u]
      /\ st.do = "insert" => e[t] = d[t] \cup {Numbered(t, st.row, base)}
      /\ st.do = "update" =>
           /\ \A row \in d[t] : \E now \in e[t] :
                 Became(row, now, Matching(d[t], st.where), st.set)
           /\ \A now \in e[t] : \E row \in d[t] :
                 Became(row, now, Matching(d[t], st.where), st.set)
    BY <1>1, <1>2, ExecuteMoves
<1> QED BY <1>1, <1>2, <1>3

SameOwner(row, now) == now.asset_id = row.asset_id /\ now.owner_name = row.owner_name
SameName(row, now)  == now.field_id = row.field_id /\ now.field_cn_name = row.field_cn_name

PortalKept(d, e) ==
    /\ \A row \in d["asset_table"] : \E now \in e["asset_table"] : SameOwner(row, now)
    /\ \A row \in d["asset_field"] : \E now \in e["asset_field"] : SameName(row, now)

KeepsPortal(st) ==
    st.do = "update" => DOMAIN st.set \cap {"owner_name", "field_cn_name"} = {}

LEMMA PortalStays ==
    ASSUME NEW d, NEW e, SameAssets(d, e)
    PROVE  PortalKept(d, e)
<1>1. e["asset_table"] = d["asset_table"] /\ e["asset_field"] = d["asset_field"]
    BY DEF SameAssets, AssetTables
<1> QED BY <1>1 DEF PortalKept, SameOwner, SameName

LEMMA PortalOnAndOn ==
    ASSUME NEW c, NEW d, NEW e, PortalKept(c, d), PortalKept(d, e)
    PROVE  PortalKept(c, e)
<1>1. ASSUME NEW row \in c["asset_table"]
      PROVE  \E now \in e["asset_table"] : SameOwner(row, now)
    BY DEF PortalKept, SameOwner
<1>2. ASSUME NEW row \in c["asset_field"]
      PROVE  \E now \in e["asset_field"] : SameName(row, now)
    BY DEF PortalKept, SameName
<1> QED BY <1>1, <1>2 DEF PortalKept

LEMMA ExecuteKeepsPortal ==
    ASSUME NEW base, NEW result, NEW st, CatalogueOK(result.db),
           st.table \in AssetTables => KeepsIds(st, result.db) /\ KeepsPortal(st)
    PROVE  PortalKept(result.db, Execute(base, result, st).db)
<1>1. PICK d, e : d = result.db /\ e = Execute(base, result, st).db
    OBVIOUS
<1>2. TablesOK(d)
    BY <1>1 DEF CatalogueOK
<1>3. CASE st.table \notin AssetTables
    BY <1>1, <1>2, <1>3, ExecuteKeepsTables, PortalStays
<1>4. CASE st.table = "asset_table"
    <2>1. KeepsIds(st, d) /\ KeepsPortal(st) /\ st.do \in {"insert", "update"}
        BY <1>1, <1>4, AssetTablesAre DEF AssetTables, KeepsIds
    <2> DEFINE hit == Matching(d["asset_table"], st.where)
    <2>2. /\ e["asset_field"] = d["asset_field"]
          /\ st.do = "insert" => d["asset_table"] \subseteq e["asset_table"]
          /\ st.do = "update" => \A row \in d["asset_table"] :
               \E now \in e["asset_table"] : Became(row, now, hit, st.set)
        BY <1>1, <1>2, <1>4, <2>1, AssetsMove
    <2> HIDE DEF hit
    <2>3. ASSUME st.do = "update", NEW row \in d["asset_table"], NEW now,
                 Became(row, now, hit, st.set)
          PROVE  SameOwner(row, now)
        <3>1. "asset_id" \notin DOMAIN st.set /\ "owner_name" \notin DOMAIN st.set
            BY <1>4, <2>1, <2>3 DEF KeepsIds, KeepsPortal
        <3>2. "asset_id" \in DOMAIN row /\ "owner_name" \in DOMAIN row
            BY <1>1 DEF CatalogueOK, AssetColumns
        <3>3. now["asset_id"] = row["asset_id"] /\ now["owner_name"] = row["owner_name"]
            BY <2>3, <3>1, <3>2 DEF Became
        <3> QED BY <3>3 DEF SameOwner
    <2>4. \A row \in d["asset_table"] : \E now \in e["asset_table"] : SameOwner(row, now)
        <3>1. CASE st.do = "insert"
            BY <2>2, <3>1 DEF SameOwner
        <3>2. CASE st.do = "update"
            BY <2>2, <2>3, <3>2
        <3> QED BY <2>1, <3>1, <3>2
    <2>5. PortalKept(d, e)
        BY <2>2, <2>4 DEF PortalKept, SameName
    <2> QED BY <1>1, <2>5
<1>5. CASE st.table = "asset_field"
    <2>1. KeepsIds(st, d) /\ KeepsPortal(st) /\ st.do \in {"insert", "update"}
        BY <1>1, <1>5, AssetTablesAre DEF AssetTables, KeepsIds
    <2> DEFINE hit == Matching(d["asset_field"], st.where)
    <2>2. /\ e["asset_table"] = d["asset_table"]
          /\ st.do = "insert" => d["asset_field"] \subseteq e["asset_field"]
          /\ st.do = "update" => \A row \in d["asset_field"] :
               \E now \in e["asset_field"] : Became(row, now, hit, st.set)
        BY <1>1, <1>2, <1>5, <2>1, FieldsMove
    <2> HIDE DEF hit
    <2>3. ASSUME st.do = "update", NEW row \in d["asset_field"], NEW now,
                 Became(row, now, hit, st.set)
          PROVE  SameName(row, now)
        <3>1. "field_id" \notin DOMAIN st.set /\ "field_cn_name" \notin DOMAIN st.set
            BY <1>5, <2>1, <2>3 DEF KeepsIds, KeepsPortal
        <3>2. "field_id" \in DOMAIN row /\ "field_cn_name" \in DOMAIN row
            BY <1>1 DEF CatalogueOK, FieldColumns
        <3>3. now["field_id"] = row["field_id"] /\ now["field_cn_name"] = row["field_cn_name"]
            BY <2>3, <3>1, <3>2 DEF Became
        <3> QED BY <3>3 DEF SameName
    <2>4. \A row \in d["asset_field"] : \E now \in e["asset_field"] : SameName(row, now)
        <3>1. CASE st.do = "insert"
            BY <2>2, <3>1 DEF SameName
        <3>2. CASE st.do = "update"
            BY <2>2, <2>3, <3>2
        <3> QED BY <2>1, <3>1, <3>2
    <2>5. PortalKept(d, e)
        BY <2>2, <2>4 DEF PortalKept, SameOwner
    <2> QED BY <1>1, <2>5
<1> QED BY <1>3, <1>4, <1>5 DEF AssetTables

\* The statements of a session leave the portal's columns alone.
PlanKeepsPortal(s) ==
    \A st \in ToSet(session[s].statements) : st.table \in AssetTables => KeepsPortal(st)

LEMMA RunKeepsPortal ==
    ASSUME NEW s, IsList(session[s].statements), CatalogueOK(db),
           PlanKeepsIds(s), PlanKeepsPortal(s), RunAll(s).ok
    PROVE  PortalKept(db, RunAll(s).db)
<1> DEFINE n == Len(session[s].statements)
<1>1. PICK r : IsRunOf(s, r)
    BY RunSteps
<1>2. /\ n \in Nat
      /\ \A x : x \in ToSet(session[s].statements) <=> \E i \in 1 .. n : x = session[s].statements[i]
    BY ListIs
<1>3. \A i \in 0 .. n : CatalogueOK(r[i].db) /\ IdsKept(db, r[i].db)
    BY <1>1, RunKeepsIds
<1>4. /\ r[0] = Start /\ RunAll(s) = r[n]
      /\ \A i \in 0 .. n - 1 :
            r[i + 1] = Execute(session[s].base, r[i], session[s].statements[i + 1])
    BY <1>1 DEF IsRunOf
<1> HIDE DEF n
<1> DEFINE T == {i \in Nat : i \in 0 .. n => PortalKept(db, r[i].db)}
<1>5. 0 \in T
    <2>1. r[0].db = db
        BY <1>4 DEF Start
    <2>2. SameAssets(db, db)
        BY DEF SameAssets
    <2> QED BY <2>1, <2>2, PortalStays
<1>6. ASSUME NEW i \in Nat, i \in T PROVE i + 1 \in T
    <2> SUFFICES ASSUME i + 1 \in 0 .. n PROVE PortalKept(db, r[i + 1].db)
        OBVIOUS
    <2>1. i \in 0 .. n /\ i \in 0 .. n - 1 /\ i + 1 \in 1 .. n
        BY <1>2
    <2>2. PortalKept(db, r[i].db) /\ CatalogueOK(r[i].db) /\ IdsKept(db, r[i].db)
        BY <1>3, <1>6, <2>1
    <2>3. PICK st : st = session[s].statements[i + 1]
        OBVIOUS
    <2>4. st \in ToSet(session[s].statements)
        BY <1>2, <2>1, <2>3
    <2>5. st.table \in AssetTables => KeepsIds(st, r[i].db) /\ KeepsPortal(st)
        BY <2>2, <2>4, KeepsIdsStays DEF PlanKeepsIds, PlanKeepsPortal
    <2>6. PortalKept(r[i].db, r[i + 1].db)
        BY <1>4, <2>1, <2>2, <2>3, <2>5, ExecuteKeepsPortal
    <2> QED BY <2>2, <2>6, PortalOnAndOn
<1> HIDE DEF T
<1>7. n \in T
    BY <1>2, <1>5, <1>6, SetInduction
<1> QED BY <1>2, <1>4, <1>7 DEF T

-----------------------------------------------------------------------------
(* Columns a source maintains                                               *)

\* An asset the portal owns.
Unbound(d, id) == \E row \in d["asset_table"] : row.asset_id = id /\ ~SourceBound(row)

InsertsAsset(st) ==
    st.do = "insert" /\ st.table = "asset_table" /\ st.row.asset_id = New(0)

\* A statement of a plan that leaves alone what sources maintain.
KeepsSource(st, plan, d) ==
    /\ st.do = "insert" /\ st.table = "asset_table" => InsertsAsset(st)
    /\ st.do = "insert" /\ st.table = "asset_field" =>
         \/ st.row.asset_id = New(0) /\ \E other \in plan : InsertsAsset(other)
         \/ Unbound(d, st.row.asset_id)
    /\ st.do = "update" /\ st.table = "asset_table"
         /\ DOMAIN st.set \cap {"table_name", "table_desc"} # {} =>
         "asset_id" \in DOMAIN st.where /\ \A id \in st.where.asset_id : Unbound(d, id)
    /\ st.do = "update" /\ st.table = "asset_field" /\ DOMAIN st.set \cap SourceColumns # {} =>
         /\ "field_id" \in DOMAIN st.where
         /\ \A id \in st.where.field_id : \E row \in d["asset_field"] :
              row.field_id = id /\ Unbound(d, row.asset_id)

LEMMA UnboundStays ==
    ASSUME NEW d, NEW e, IdsKept(d, e), NEW id, Unbound(d, id)
    PROVE  Unbound(e, id)
<1>1. PICK row \in d["asset_table"] : row.asset_id = id /\ ~SourceBound(row)
    BY DEF Unbound
<1>2. PICK now \in e["asset_table"] : SameAsset(row, now)
    BY DEF IdsKept
<1>3. now.asset_id = id /\ ~SourceBound(now)
    BY <1>1, <1>2 DEF SameAsset, SourceBound
<1> QED BY <1>3 DEF Unbound

LEMMA KeepsSourceStays ==
    ASSUME NEW d, NEW e, IdsKept(d, e), NEW st, NEW plan, KeepsSource(st, plan, d)
    PROVE  KeepsSource(st, plan, e)
<1>1. \A id : Unbound(d, id) => Unbound(e, id)
    BY UnboundStays
<1>2. ASSUME NEW id, NEW row \in d["asset_field"], row.field_id = id, Unbound(d, row.asset_id)
      PROVE  \E now \in e["asset_field"] : now.field_id = id /\ Unbound(e, now.asset_id)
    BY <1>1, <1>2 DEF IdsKept, SameField
<1>3. /\ st.do = "insert" /\ st.table = "asset_field" =>
           \/ st.row.asset_id = New(0) /\ \E other \in plan : InsertsAsset(other)
           \/ Unbound(e, st.row.asset_id)
      /\ st.do = "update" /\ st.table = "asset_table"
           /\ DOMAIN st.set \cap {"table_name", "table_desc"} # {} =>
           "asset_id" \in DOMAIN st.where /\ \A id \in st.where.asset_id : Unbound(e, id)
    BY <1>1 DEF KeepsSource
<1>4. st.do = "update" /\ st.table = "asset_field" /\ DOMAIN st.set \cap SourceColumns # {} =>
        /\ "field_id" \in DOMAIN st.where
        /\ \A id \in st.where.field_id : \E row \in e["asset_field"] :
             row.field_id = id /\ Unbound(e, row.asset_id)
    BY <1>2 DEF KeepsSource
<1> QED BY <1>3, <1>4 DEF KeepsSource

\* The row of an asset as a source has described it.
Describes(row, now) ==
    /\ now.asset_id = row.asset_id /\ now.source_key = row.source_key
    /\ now.table_name = row.table_name /\ now.table_desc = row.table_desc

HasSource(row, d) == \E now \in d["asset_table"] : Describes(row, now)

\* Two rows of a field show the same.
Shows(f, g) ==
    /\ g.field_id = f.field_id /\ g.asset_id = f.asset_id /\ g.field_name = f.field_name
    /\ g.data_type = f.data_type /\ g.nullable = f.nullable
    /\ g.field_order = f.field_order /\ g.field_desc = f.field_desc

LEMMA ViewsAgree ==
    ASSUME NEW d, NEW e, NEW row,
           \A f \in d["asset_field"] : f.asset_id = row.asset_id =>
              \E g \in e["asset_field"] : Shows(f, g),
           \A g \in e["asset_field"] : g.asset_id = row.asset_id =>
              \E f \in d["asset_field"] : Shows(f, g)
    PROVE  SourceView(d, row) = SourceView(e, row)
<1> DEFINE Tuple(f) ==
             <<f.field_id, f.field_name, f.data_type, f.nullable, f.field_order, f.field_desc>>
           D == {f \in d["asset_field"] : f.asset_id = row.asset_id}
           E == {f \in e["asset_field"] : f.asset_id = row.asset_id}
<1>1. \A f, g : Shows(f, g) => Tuple(f) = Tuple(g) /\ g.asset_id = f.asset_id
    BY DEF Shows
<1>2. SourceView(d, row) = {Tuple(f) : f \in D} /\ SourceView(e, row) = {Tuple(f) : f \in E}
    BY DEF SourceView
<1> HIDE DEF Tuple
<1>3. \A f \in D : \E g \in E : Tuple(f) = Tuple(g)
    BY <1>1
<1>4. \A g \in E : \E f \in D : Tuple(f) = Tuple(g)
    BY <1>1
<1> HIDE DEF D, E
<1>5. {Tuple(f) : f \in D} = {Tuple(f) : f \in E}
    BY <1>3, <1>4
<1> QED BY <1>2, <1>5

\* The row that a source has described is the only one of its id.
LEMMA DescribedIsBound ==
    ASSUME NEW d, CatalogueOK(d), NEW row, SourceBound(row),
           NEW now \in d["asset_table"], Describes(row, now)
    PROVE  ~Unbound(d, row.asset_id)
<1>1. ASSUME NEW other \in d["asset_table"], other.asset_id = row.asset_id
      PROVE  SourceBound(other)
    <2>1. other = now
        BY <1>1 DEF CatalogueOK, Describes
    <2> QED BY <2>1 DEF Describes, SourceBound
<1> QED BY <1>1 DEF Unbound

LEMMA AssetStatementKeepsSource ==
    ASSUME NEW base, NEW result, NEW st, NEW plan, CatalogueOK(result.db),
           st.table = "asset_table", KeepsIds(st, result.db), KeepsSource(st, plan, result.db),
           NEW row, SourceBound(row), HasSource(row, result.db)
    PROVE  /\ HasSource(row, Execute(base, result, st).db)
           /\ SourceView(result.db, row) = SourceView(Execute(base, result, st).db, row)
<1>1. PICK d, e : d = result.db /\ e = Execute(base, result, st).db
    OBVIOUS
<1>2. TablesOK(d) /\ st.do \in {"insert", "update"}
    BY <1>1 DEF CatalogueOK, KeepsIds
<1> DEFINE hit == Matching(d["asset_table"], st.where)
<1>3. /\ e["asset_field"] = d["asset_field"]
      /\ st.do = "insert" => d["asset_table"] \subseteq e["asset_table"]
      /\ st.do = "update" => \A r \in d["asset_table"] :
           \E now \in e["asset_table"] : Became(r, now, hit, st.set)
    BY <1>1, <1>2, AssetsMove, SMTT(60)
<1>4. \A r \in hit : \A c \in DOMAIN st.where : r[c] \in st.where[c]
    BY DEF Matching
<1> HIDE DEF hit
<1>5. SourceView(d, row) = SourceView(e, row)
    BY <1>3 DEF SourceView
<1>6. PICK was \in d["asset_table"] : Describes(row, was)
    BY <1>1 DEF HasSource
<1>7. CASE st.do = "insert"
    BY <1>1, <1>3, <1>5, <1>6, <1>7 DEF HasSource
<1>8. CASE st.do = "update"
    <2>1. PICK now \in e["asset_table"] : Became(was, now, hit, st.set)
        BY <1>3, <1>6, <1>8
    <2>2. SameAsset(was, now)
        BY <1>1, <1>6, <1>8, <2>1, UpdateKeepsAsset DEF hit
    <2>3. was \notin hit \/ ("table_name" \notin DOMAIN st.set /\ "table_desc" \notin DOMAIN st.set)
        <3> SUFFICES ASSUME was \in hit, DOMAIN st.set \cap {"table_name", "table_desc"} # {}
                     PROVE  FALSE
            OBVIOUS
        <3>1. "asset_id" \in DOMAIN st.where /\ \A id \in st.where["asset_id"] : Unbound(d, id)
            BY <1>1, <1>8 DEF KeepsSource
        <3>2. was["asset_id"] \in st.where["asset_id"]
            BY <1>4, <3>1
        <3>3. Unbound(d, row.asset_id)
            BY <1>6, <3>1, <3>2 DEF Describes
        <3> QED BY <1>1, <1>6, <3>3, DescribedIsBound
    <2>4. "table_name" \in DOMAIN was /\ "table_desc" \in DOMAIN was
        BY <1>1, <1>6 DEF CatalogueOK, AssetColumns
    <2>5. now["table_name"] = was["table_name"] /\ now["table_desc"] = was["table_desc"]
        BY <2>1, <2>3, <2>4 DEF Became
    <2>6. Describes(row, now)
        BY <1>6, <2>2, <2>5 DEF Describes, SameAsset
    <2> QED BY <1>1, <1>5, <2>6 DEF HasSource
<1> QED BY <1>2, <1>7, <1>8

\* The id that a plan gives a new asset is another one.
IsFresh(row, plan, base) ==
    (\E other \in plan : InsertsAsset(other)) =>
       base["asset_table"] \in Nat /\ row.asset_id # base["asset_table"]

\* The id an inserted field points to is not the one of an asset a source maintains.
LEMMA NewFieldIsElsewhere ==
    ASSUME NEW base, NEW d, CatalogueOK(d), NEW st, NEW plan, KeepsSource(st, plan, d),
           KeepsIds(st, d), st.do = "insert", st.table = "asset_field",
           NEW row, SourceBound(row), HasSource(row, d),
           IsFresh(row, plan, base),
           NEW new, new = Numbered("asset_field", st.row, base)
    PROVE  new.asset_id # row.asset_id
<1>1. PICK was \in d["asset_table"] : Describes(row, was)
    BY DEF HasSource
<1>2. ~Unbound(d, row.asset_id)
    BY <1>1, DescribedIsBound
<1>3. "asset_id" \in DOMAIN st.row
    BY DEF KeepsIds, FieldColumns
<1>4. CASE st.row.asset_id = New(0) /\ \E other \in plan : InsertsAsset(other)
    <2>1. base["asset_table"] \in Int /\ row.asset_id # base["asset_table"]
        BY <1>4 DEF IsFresh
    <2>2. st.row["asset_id"] = -1
        BY <1>4 DEF New
    <2>3. new["asset_id"] = base["asset_table"] - st.row["asset_id"] - 1
        BY <1>3, <2>1, <2>2, HoldsAsset, NumberedRow
    <2> QED BY <2>1, <2>2, <2>3
<1>5. CASE Unbound(d, st.row.asset_id)
    <2>1. st.row["asset_id"] \in Nat
        BY <1>5 DEF Unbound, CatalogueOK
    <2>2. new["asset_id"] = st.row["asset_id"]
        BY <1>3, <2>1, NumberedRow
    <2> QED BY <1>2, <1>5, <2>2
<1> QED BY <1>4, <1>5 DEF KeepsSource

LEMMA FieldStatementKeepsSource ==
    ASSUME NEW base, NEW result, NEW st, NEW plan, CatalogueOK(result.db),
           st.table = "asset_field", KeepsIds(st, result.db), KeepsSource(st, plan, result.db),
           NEW row, SourceBound(row), HasSource(row, result.db),
           IsFresh(row, plan, base)
    PROVE  /\ HasSource(row, Execute(base, result, st).db)
           /\ SourceView(result.db, row) = SourceView(Execute(base, result, st).db, row)
<1>1. PICK d, e : d = result.db /\ e = Execute(base, result, st).db
    OBVIOUS
<1>2. TablesOK(d) /\ st.do \in {"insert", "update"}
    BY <1>1 DEF CatalogueOK, KeepsIds
<1> DEFINE hit == Matching(d["asset_field"], st.where)
<1>3. /\ e["asset_table"] = d["asset_table"]
      /\ st.do = "insert" =>
           e["asset_field"] = d["asset_field"] \cup {Numbered("asset_field", st.row, base)}
      /\ st.do = "update" =>
           /\ \A r \in d["asset_field"] : \E now \in e["asset_field"] : Became(r, now, hit, st.set)
           /\ \A now \in e["asset_field"] : \E r \in d["asset_field"] : Became(r, now, hit, st.set)
    BY <1>1, <1>2, FieldsMove
<1>4. \A r \in hit : r \in d["asset_field"] /\ \A c \in DOMAIN st.where : r[c] \in st.where[c]
    BY DEF Matching
<1> HIDE DEF hit
<1>5. HasSource(row, e)
    BY <1>1, <1>3 DEF HasSource
<1>6. PICK was \in d["asset_table"] : Describes(row, was)
    BY <1>1 DEF HasSource
<1>7. ~Unbound(d, row.asset_id)
    BY <1>1, <1>6, DescribedIsBound
<1>8. CASE st.do = "insert"
    <2>1. PICK new : new = Numbered("asset_field", st.row, base)
        OBVIOUS
    <2>2. new.asset_id # row.asset_id
        BY <1>1, <1>8, <2>1, NewFieldIsElsewhere
    <2>3. SourceView(d, row) = SourceView(e, row)
        BY <1>3, <1>8, <2>1, <2>2 DEF SourceView
    <2> QED BY <1>1, <1>5, <2>3
<1>9. CASE st.do = "update"
    <2>1. "field_id" \notin DOMAIN st.set /\ "asset_id" \notin DOMAIN st.set
        BY <1>9 DEF KeepsIds
    <2>2. ASSUME NEW f \in d["asset_field"], f.asset_id = row.asset_id
          PROVE  f \notin hit \/ DOMAIN st.set \cap SourceColumns = {}
        <3> SUFFICES ASSUME f \in hit, DOMAIN st.set \cap SourceColumns # {} PROVE FALSE
            OBVIOUS
        <3>1. /\ "field_id" \in DOMAIN st.where
              /\ \A id \in st.where["field_id"] : \E r \in d["asset_field"] :
                   r.field_id = id /\ Unbound(d, r.asset_id)
            BY <1>1, <1>9 DEF KeepsSource
        <3>2. f["field_id"] \in st.where["field_id"]
            BY <1>4, <3>1
        <3>3. PICK r \in d["asset_field"] : r.field_id = f.field_id /\ Unbound(d, r.asset_id)
            BY <3>1, <3>2
        <3>4. r = f
            BY <1>1, <3>3 DEF CatalogueOK
        <3> QED BY <1>7, <2>2, <3>3, <3>4
    <2>3. ASSUME NEW f \in d["asset_field"], NEW now, Became(f, now, hit, st.set),
                 f.asset_id = row.asset_id
          PROVE  Shows(f, now)
        <3>1. f \notin hit \/ DOMAIN st.set \cap SourceColumns = {}
            BY <2>2, <2>3
        <3>2. DOMAIN f = FieldColumns
            BY <1>1 DEF CatalogueOK
        <3>3. \A c \in SourceColumns \cup {"field_id", "asset_id"} : c \in FieldColumns
            BY DEF SourceColumns, FieldColumns
        <3>4. \A c \in SourceColumns \cup {"field_id", "asset_id"} : now[c] = f[c]
            BY <2>1, <2>3, <3>1, <3>2, <3>3 DEF Became
        <3> QED BY <3>4 DEF Shows, SourceColumns
    <2>4. ASSUME NEW f \in d["asset_field"], NEW now, Became(f, now, hit, st.set)
          PROVE  now.asset_id = f.asset_id
        <3>1. "asset_id" \in DOMAIN f
            BY <1>1 DEF CatalogueOK, FieldColumns
        <3> QED BY <2>1, <2>4, <3>1 DEF Became
    <2>5. \A f \in d["asset_field"] : f.asset_id = row.asset_id =>
             \E now \in e["asset_field"] : Shows(f, now)
        BY <1>3, <1>9, <2>3
    <2>6. \A now \in e["asset_field"] : now.asset_id = row.asset_id =>
             \E f \in d["asset_field"] : Shows(f, now)
        BY <1>3, <1>9, <2>3, <2>4
    <2>7. SourceView(d, row) = SourceView(e, row)
        BY <2>5, <2>6, ViewsAgree
    <2> QED BY <1>1, <1>5, <2>7
<1> QED BY <1>2, <1>8, <1>9

LEMMA ExecuteKeepsSource ==
    ASSUME NEW base, NEW result, NEW st, NEW plan, CatalogueOK(result.db),
           st.table \in AssetTables => KeepsIds(st, result.db) /\ KeepsSource(st, plan, result.db),
           NEW row, SourceBound(row), HasSource(row, result.db),
           IsFresh(row, plan, base)
    PROVE  /\ HasSource(row, Execute(base, result, st).db)
           /\ SourceView(result.db, row) = SourceView(Execute(base, result, st).db, row)
<1>1. CASE st.table \notin AssetTables
    <2>1. PICK d, e : d = result.db /\ e = Execute(base, result, st).db
        OBVIOUS
    <2>2. SameAssets(d, e)
        BY <1>1, <2>1, ExecuteKeepsTables DEF CatalogueOK
    <2>3. e["asset_table"] = d["asset_table"] /\ e["asset_field"] = d["asset_field"]
        BY <2>2 DEF SameAssets, AssetTables
    <2> QED BY <2>1, <2>3 DEF HasSource, SourceView
<1>2. CASE st.table = "asset_table"
    <2>1. KeepsIds(st, result.db) /\ KeepsSource(st, plan, result.db)
        BY <1>2 DEF AssetTables
    <2> QED BY <1>2, <2>1, AssetStatementKeepsSource
<1>3. CASE st.table = "asset_field"
    <2>1. KeepsIds(st, result.db) /\ KeepsSource(st, plan, result.db)
        BY <1>3 DEF AssetTables
    <2> QED BY <1>3, <2>1, FieldStatementKeepsSource
<1> QED BY <1>1, <1>2, <1>3 DEF AssetTables

\* An id that is chosen for a new asset is nobody's.
LEMMA IdIsFresh ==
    ASSUME NEW s, IsList(session[s].statements), CatalogueOK(db), PlanKeepsIds(s),
           RunAll(s).ok, NEW st \in ToSet(session[s].statements), InsertsAsset(st),
           NEW row \in db["asset_table"]
    PROVE  /\ session[s].base["asset_table"] \in Nat
           /\ row.asset_id # session[s].base["asset_table"]
<1> DEFINE n == Len(session[s].statements)
           base == session[s].base
<1>1. PICK r : IsRunOf(s, r)
    BY RunSteps
<1>2. /\ n \in Nat
      /\ \A x : x \in ToSet(session[s].statements) <=> \E i \in 1 .. n : x = session[s].statements[i]
    BY ListIs
<1>3. /\ \A i \in 0 .. n : CatalogueOK(r[i].db) /\ IdsKept(db, r[i].db)
      /\ \A i \in 0 .. n : r[i].ok
    BY <1>1, RunKeepsIds, RunWasOk
<1>4. \A i \in 0 .. n - 1 : r[i + 1] = Execute(base, r[i], session[s].statements[i + 1])
    BY <1>1 DEF IsRunOf
<1>5. st.do = "insert" /\ st.table = "asset_table" /\ st.row.asset_id = New(0)
    BY DEF InsertsAsset
<1>6. base["asset_table"] \in Nat /\ KeepsIds(st, db)
    BY <1>5 DEF PlanKeepsIds, AssetTables
<1> HIDE DEF n, base
<1>7. PICK j \in 1 .. n : st = session[s].statements[j]
    BY <1>2
<1>8. PICK k : k = j - 1
    OBVIOUS
<1>9. k \in 0 .. n /\ k \in 0 .. n - 1 /\ k + 1 = j /\ j \in 0 .. n
    BY <1>2, <1>8
<1>10. PICK d, e : d = r[k].db /\ e = r[j].db
    OBVIOUS
<1>11. PICK new : new = Numbered("asset_table", st.row, base)
    OBVIOUS
<1>12. r[j] = Execute(base, r[k], st) /\ r[j].ok
    BY <1>3, <1>4, <1>7, <1>9
<1>13. new \notin d["asset_table"]
    <2>1. \E next, held : Execute(base, r[k], st) =
            [db |-> next, ok |-> held /\ new \notin d["asset_table"]]
        BY <1>5, <1>10, <1>11 DEF Execute
    <2>2. PICK next, held : Execute(base, r[k], st) =
            [db |-> next, ok |-> held /\ new \notin d["asset_table"]]
        BY <2>1
    <2>3. Execute(base, r[k], st).ok = (held /\ new \notin d["asset_table"])
        BY <2>2
    <2>4. Execute(base, r[k], st).ok
        BY <1>12
    <2> QED BY <2>3, <2>4, Zenon
<1>14. d["asset_table"] \subseteq e["asset_table"] /\ new \in e["asset_table"]
    <2>1. TablesOK(r[k].db) /\ KeepsIds(st, r[k].db)
        BY <1>3, <1>6, <1>9, KeepsIdsStays DEF CatalogueOK
    <2>2. PICK t : t = "asset_table"
        OBVIOUS
    <2>3. e[t] = d[t] \cup {Numbered(t, st.row, base)}
        BY <1>5, <1>10, <1>12, <2>1, <2>2, ExecuteMoves, AssetTablesAre DEF AssetTables
    <2> QED BY <1>11, <2>2, <2>3
<1>15. new["asset_id"] = base["asset_table"]
    <2>1. "asset_id" \in DOMAIN st.row
        BY <1>5, <1>6 DEF KeepsIds, AssetColumns
    <2>2. st.row["asset_id"] = -1
        BY <1>5 DEF New
    <2>3. new["asset_id"] = base["asset_table"] - st.row["asset_id"] - 1
        BY <1>6, <1>11, <2>1, <2>2, HoldsAsset, NumberedRow
    <2> QED BY <1>6, <2>2, <2>3
<1>16. row.asset_id # base["asset_table"]
    <2> SUFFICES ASSUME row.asset_id = base["asset_table"] PROVE FALSE
        OBVIOUS
    <2>1. PICK now \in d["asset_table"] : SameAsset(row, now)
        BY <1>3, <1>9, <1>10 DEF IdsKept
    <2>2. now = new
        BY <1>3, <1>9, <1>10, <1>14, <1>15, <2>1 DEF CatalogueOK, SameAsset
    <2> QED BY <1>13, <2>1, <2>2
<1> QED BY <1>6, <1>16 DEF base

\* The statements of a session leave alone what sources maintain.
PlanKeepsSource(s) ==
    LET plan == ToSet(session[s].statements) IN
    \A st \in plan : st.table \in AssetTables => KeepsSource(st, plan, db)

LEMMA RunKeepsSource ==
    ASSUME NEW s, IsList(session[s].statements), CatalogueOK(db),
           PlanKeepsIds(s), PlanKeepsSource(s), RunAll(s).ok,
           NEW row \in db["asset_table"], SourceBound(row)
    PROVE  /\ HasSource(row, RunAll(s).db)
           /\ SourceView(db, row) = SourceView(RunAll(s).db, row)
<1> DEFINE n == Len(session[s].statements)
           plan == ToSet(session[s].statements)
           base == session[s].base
<1>1. PICK r : IsRunOf(s, r)
    BY RunSteps
<1>2. /\ n \in Nat
      /\ \A x : x \in plan <=> \E i \in 1 .. n : x = session[s].statements[i]
    BY ListIs
<1>3. \A i \in 0 .. n : CatalogueOK(r[i].db) /\ IdsKept(db, r[i].db)
    BY <1>1, RunKeepsIds
<1>4. /\ r[0] = Start /\ RunAll(s) = r[n]
      /\ \A i \in 0 .. n - 1 : r[i + 1] = Execute(base, r[i], session[s].statements[i + 1])
    BY <1>1 DEF IsRunOf
<1>5. IsFresh(row, plan, base)
    BY IdIsFresh DEF IsFresh
<1>6. \A st \in plan : st.table \in AssetTables => KeepsIds(st, db) /\ KeepsSource(st, plan, db)
    BY DEF PlanKeepsIds, PlanKeepsSource
<1> HIDE DEF n, plan, base
<1> DEFINE T == {i \in Nat : i \in 0 .. n => /\ HasSource(row, r[i].db)
                                             /\ SourceView(db, row) = SourceView(r[i].db, row)}
<1>7. 0 \in T
    <2>1. r[0].db = db
        BY <1>4 DEF Start
    <2>2. HasSource(row, db)
        BY DEF HasSource, Describes
    <2> QED BY <2>1, <2>2
<1>8. ASSUME NEW i \in Nat, i \in T PROVE i + 1 \in T
    <2> SUFFICES ASSUME i + 1 \in 0 .. n
                 PROVE  /\ HasSource(row, r[i + 1].db)
                        /\ SourceView(db, row) = SourceView(r[i + 1].db, row)
        OBVIOUS
    <2>1. i \in 0 .. n /\ i \in 0 .. n - 1 /\ i + 1 \in 1 .. n
        BY <1>2
    <2>2. /\ HasSource(row, r[i].db) /\ SourceView(db, row) = SourceView(r[i].db, row)
          /\ CatalogueOK(r[i].db) /\ IdsKept(db, r[i].db)
        BY <1>3, <1>8, <2>1
    <2>3. PICK st : st = session[s].statements[i + 1]
        OBVIOUS
    <2>4. st \in plan
        BY <1>2, <2>1, <2>3
    <2>5. st.table \in AssetTables => KeepsIds(st, r[i].db) /\ KeepsSource(st, plan, r[i].db)
        BY <1>6, <2>2, <2>4, KeepsIdsStays, KeepsSourceStays
    <2>6. r[i + 1] = Execute(base, r[i], st)
        BY <1>4, <2>1, <2>3
    <2>7. /\ HasSource(row, Execute(base, r[i], st).db)
          /\ SourceView(r[i].db, row) = SourceView(Execute(base, r[i], st).db, row)
        <3>1. PICK now : now = r[i]
            OBVIOUS
        <3>2. /\ CatalogueOK(now.db) /\ HasSource(row, now.db)
              /\ st.table \in AssetTables => KeepsIds(st, now.db) /\ KeepsSource(st, plan, now.db)
            BY <2>2, <2>5, <3>1
        <3>3. /\ HasSource(row, Execute(base, now, st).db)
              /\ SourceView(now.db, row) = SourceView(Execute(base, now, st).db, row)
            BY <1>5, <3>2, ExecuteKeepsSource
        <3> QED BY <3>1, <3>3
    <2> QED BY <2>2, <2>6, <2>7
<1> HIDE DEF T
<1>9. n \in T
    BY <1>2, <1>7, <1>8, SetInduction
<1> QED BY <1>2, <1>4, <1>9 DEF T

-----------------------------------------------------------------------------
(* Transactions                                                             *)

LEMMA HighestExists ==
    ASSUME NEW S \in SUBSET Nat, IsFiniteSet(S), S # {}
    PROVE  \E x \in S : \A y \in S : x >= y
<1> DEFINE T == {m \in Nat : \A U \in SUBSET Nat : IsFiniteSet(U) /\ Cardinality(U) = m /\ U # {} =>
                    \E x \in U : \A y \in U : x >= y}
<1>1. 0 \in T
    BY FS_EmptySet
<1>2. ASSUME NEW m \in Nat, m \in T PROVE m + 1 \in T
    <2> SUFFICES ASSUME NEW U \in SUBSET Nat, IsFiniteSet(U), Cardinality(U) = m + 1
                 PROVE  \E x \in U : \A y \in U : x >= y
        OBVIOUS
    <2>1. PICK x : x \in U
        <3>1. U # {}
            BY FS_EmptySet
        <3> QED BY <3>1
    <2>2. IsFiniteSet(U \ {x}) /\ Cardinality(U \ {x}) = m
        <3>1. IsFiniteSet(U \ {x}) /\ Cardinality(U \ {x}) = Cardinality(U) - 1
            BY <2>1, FS_RemoveElement
        <3> QED BY <3>1
    <2>3. CASE U \ {x} = {}
        BY <2>1, <2>3
    <2>4. CASE U \ {x} # {}
        <3>1. PICK z \in U \ {x} : \A y \in U \ {x} : z >= y
            BY <1>2, <2>2, <2>4
        <3>2. x \in Nat /\ z \in Nat
            BY <2>1, <3>1
        <3>3. CASE x >= z
            <4>1. \A y \in U : x >= y
                BY <3>1, <3>2, <3>3
            <4> QED BY <2>1, <4>1
        <3>4. CASE ~(x >= z)
            <4>1. \A y \in U : z >= y
                BY <3>1, <3>2, <3>4
            <4> QED BY <3>1, <4>1
        <3> QED BY <3>3, <3>4
    <2> QED BY <2>3, <2>4
<1> HIDE DEF T
<1>3. Cardinality(S) \in Nat
    BY FS_CardinalityType
<1>4. Cardinality(S) \in T
    BY <1>1, <1>2, <1>3, SetInduction
<1> QED BY <1>4 DEF T

\* MAX+1 of the ids of the assets.
LEMMA NextAssetId ==
    ASSUME CatalogueOK(db)
    PROVE  NextKey("asset_table") \in Nat
<1> DEFINE rows == db["asset_table"]
           f == [row \in rows |-> row["asset_id"]]
           S == {row["asset_id"] : row \in rows}
<1>1. S \in SUBSET Nat
    BY DEF CatalogueOK
<1>2. IsFiniteSet(rows)
    BY AssetTablesAre DEF CatalogueOK, TablesOK
<1>3. f = [row \in rows |-> f[row]] /\ S = {f[row] : row \in rows}
    OBVIOUS
<1>4. NextKey("asset_table") = 1 + (IF rows = {} THEN 0 ELSE Max(S))
    BY AssetTablesAre DEF NextKey
<1>5. rows # {} => S # {}
    OBVIOUS
<1> HIDE DEF f, rows
<1>6. IsFiniteSet(S)
    <2> HIDE DEF S
    <2>1. IsFiniteSet({f[row] : row \in rows})
        BY <1>2, <1>3, FiniteImage
    <2> QED BY <1>3, <2>1
<1> HIDE DEF S
<1>7. S # {} => Max(S) \in Nat
    BY <1>1, <1>6, HighestExists DEF Max
<1> QED BY <1>4, <1>5, <1>7

\* A plan that fits the catalogue, whatever is committed before it runs.
PlanFits(request, statements, d) ==
    LET plan == ToSet(statements) IN
    /\ IsList(statements)
    /\ \A st \in plan : st.table \in AssetTables =>
         /\ KeepsIds(st, d)
         /\ request[1] = "ingest" => KeepsPortal(st)
         /\ request[1] # "ingest" => KeepsSource(st, plan, d)

KeyFits(statements, base) ==
    \A st \in ToSet(statements) :
        st.do = "insert" /\ st.table = "asset_table" => base["asset_table"] \in Nat

SessionFits(s) ==
    /\ DOMAIN session[s] = SessionFields
    /\ PlanFits(session[s].request, session[s].statements, db)
    /\ session[s].at = "numbered" => KeyFits(session[s].statements, session[s].base)

CatalogueInv ==
    /\ CatalogueOK(db)
    /\ DOMAIN session = Sessions
    /\ \A s \in Sessions : SessionFits(s)

LEMMA PlanFitsStays ==
    ASSUME NEW d, NEW e, IdsKept(d, e), NEW request, NEW statements,
           PlanFits(request, statements, d)
    PROVE  PlanFits(request, statements, e)
BY KeepsIdsStays, KeepsSourceStays DEF PlanFits

LEMMA NothingPlanned ==
    /\ DOMAIN Idle = SessionFields /\ Idle.at = "idle"
    /\ \A d : PlanFits(Idle.request, Idle.statements, d)
<1>1. DOMAIN Idle = SessionFields /\ Idle.at = "idle" /\ Idle.statements = <<>>
    BY DEF Idle, SessionFields
<1> QED BY <1>1, NoList DEF PlanFits

LEMMA IdsKeptBySelf == \A d : IdsKept(d, d)
BY IdsStay DEF SameAssets

LEMMA BeginKeepsCatalogue ==
    ASSUME CatalogueInv, NEW s \in Sessions, NEW request, NEW statements, NEW found,
           Begin(s, request, statements, found), PlanFits(request, statements, db)
    PROVE  CatalogueInv' /\ db' = db
<1> DEFINE d == [Idle EXCEPT !.at = "checked", !.request = request,
                             !.statements = statements, !.found = found]
<1>1. /\ d.at = "checked" /\ d.request = request /\ d.statements = statements
      /\ DOMAIN d = SessionFields
    BY DEF Idle, SessionFields
<1>2. session' = [session EXCEPT ![s] = d] /\ db' = db
    BY DEF Begin
<1> HIDE DEF d
<1>3. DOMAIN session' = Sessions /\ session'[s] = d
    BY <1>2 DEF CatalogueInv
<1>4. \A r \in Sessions \ {s} : session'[r] = session[r]
    BY <1>2 DEF CatalogueInv
<1>5. SessionFits(s)'
    BY <1>1, <1>2, <1>3 DEF SessionFits
<1>6. \A r \in Sessions \ {s} : SessionFits(r)'
    BY <1>2, <1>4 DEF CatalogueInv, SessionFits
<1> QED BY <1>2, <1>3, <1>5, <1>6 DEF CatalogueInv

LEMMA ChooseKeysKeepsCatalogue ==
    ASSUME CatalogueInv, NEW s \in Sessions, ChooseKeys(s)
    PROVE  CatalogueInv' /\ db' = db
<1> DEFINE into == {session[s].statements[i].table : i \in
                      {j \in DOMAIN session[s].statements : session[s].statements[j].do = "insert"}}
           base == [t \in into |-> NextKey(t)]
<1>1. session' = [session EXCEPT ![s].at = "numbered", ![s].base = base] /\ db' = db
    BY DEF ChooseKeys
<1>2. ASSUME NEW st \in ToSet(session[s].statements), st.do = "insert", st.table = "asset_table"
      PROVE  base["asset_table"] \in Nat
    <2>1. PICK i \in DOMAIN session[s].statements : session[s].statements[i] = st
        BY DEF ToSet
    <2>2. "asset_table" \in into
        BY <1>2, <2>1
    <2> HIDE DEF into
    <2>3. base["asset_table"] = NextKey("asset_table")
        BY <2>2
    <2> QED BY <2>3, NextAssetId DEF CatalogueInv
<1> HIDE DEF base
<1>3. /\ DOMAIN session = Sessions /\ DOMAIN session[s] = SessionFields
      /\ PlanFits(session[s].request, session[s].statements, db)
    BY DEF CatalogueInv, SessionFits
<1>4. /\ DOMAIN session' = Sessions /\ DOMAIN session'[s] = SessionFields
      /\ session'[s].request = session[s].request
      /\ session'[s].statements = session[s].statements /\ session'[s].base = base
      /\ \A r \in Sessions \ {s} : session'[r] = session[r]
    BY <1>1, <1>3 DEF SessionFields
<1>5. SessionFits(s)'
    BY <1>1, <1>2, <1>3, <1>4 DEF SessionFits, KeyFits
<1>6. \A r \in Sessions \ {s} : SessionFits(r)'
    BY <1>1, <1>4 DEF CatalogueInv, SessionFits
<1> QED BY <1>1, <1>4, <1>5, <1>6 DEF CatalogueInv

LEMMA RollBackKeepsCatalogue ==
    ASSUME CatalogueInv, NEW s \in Sessions, RollBack(s)
    PROVE  CatalogueInv' /\ db' = db
<1>1. session' = [session EXCEPT ![s] = Idle] /\ db' = db
    BY DEF RollBack
<1>2. /\ DOMAIN session' = Sessions /\ session'[s] = Idle
      /\ \A r \in Sessions \ {s} : session'[r] = session[r]
    BY <1>1 DEF CatalogueInv
<1>3. SessionFits(s)'
    BY <1>1, <1>2, NothingPlanned DEF SessionFits
<1>4. \A r \in Sessions \ {s} : SessionFits(r)'
    BY <1>1, <1>2 DEF CatalogueInv, SessionFits
<1> QED BY <1>1, <1>2, <1>3, <1>4 DEF CatalogueInv

\* What a session may rely on when it commits.
LEMMA CommitsPlan ==
    ASSUME CatalogueInv, NEW s \in Sessions, Commit(s)
    PROVE  /\ IsList(session[s].statements) /\ CatalogueOK(db)
           /\ PlanFits(session[s].request, session[s].statements, db)
           /\ PlanKeepsIds(s) /\ RunAll(s).ok /\ db' = RunAll(s).db
<1>1. /\ session[s].at = "numbered" /\ RunAll(s).ok /\ db' = RunAll(s).db
    BY DEF Commit, Answered
<1>2. SessionFits(s) /\ CatalogueOK(db)
    BY DEF CatalogueInv
<1> QED BY <1>1, <1>2 DEF SessionFits, PlanFits, KeyFits, PlanKeepsIds

LEMMA CommitKeepsCatalogue ==
    ASSUME CatalogueInv, NEW s \in Sessions, Commit(s)
    PROVE  CatalogueInv' /\ IdsKept(db, db')
<1>1. /\ IsList(session[s].statements) /\ CatalogueOK(db) /\ PlanKeepsIds(s)
      /\ RunAll(s).ok /\ db' = RunAll(s).db
    BY CommitsPlan
<1>2. CatalogueOK(db') /\ IdsKept(db, db')
    <2>1. PICK r : IsRunOf(s, r)
        BY <1>1, RunSteps
    <2>2. Len(session[s].statements) \in 0 .. Len(session[s].statements)
        BY <1>1, ListIs
    <2>3. RunAll(s) = r[Len(session[s].statements)]
        BY <2>1 DEF IsRunOf
    <2> QED BY <1>1, <2>1, <2>2, <2>3, RunKeepsIds
<1>3. session' = [r \in Sessions |->
         IF r = s THEN Idle
         ELSE IF session[r].at = "idle" THEN session[r] ELSE [session[r] EXCEPT !.late = TRUE]]
    BY DEF Commit
<1>4. SessionFits(s)'
    BY <1>3, NothingPlanned DEF SessionFits
<1>5. ASSUME NEW r \in Sessions, r # s PROVE SessionFits(r)'
    <2>1. /\ DOMAIN session[r] = SessionFields
          /\ PlanFits(session[r].request, session[r].statements, db')
          /\ session[r].at = "numbered" => KeyFits(session[r].statements, session[r].base)
        BY <1>2, PlanFitsStays DEF CatalogueInv, SessionFits
    <2>2. /\ DOMAIN session'[r] = DOMAIN session[r]
          /\ session'[r].request = session[r].request
          /\ session'[r].statements = session[r].statements
          /\ session'[r].at = session[r].at /\ session'[r].base = session[r].base
        <3>1. \/ session'[r] = session[r]
              \/ session'[r] = [session[r] EXCEPT !.late = TRUE]
            BY <1>3, <1>5
        <3> QED BY <2>1, <3>1 DEF SessionFields
    <2> QED BY <2>1, <2>2 DEF SessionFits
<1> QED BY <1>2, <1>3, <1>4, <1>5 DEF CatalogueInv, CatalogueOK, TablesOK

LEMMA StaysCatalogue ==
    ASSUME CatalogueInv, UNCHANGED storeVars
    PROVE  CatalogueInv' /\ db' = db
BY DEF CatalogueInv, SessionFits, storeVars

-----------------------------------------------------------------------------
(* The other registers write other tables                                   *)

Outside(st) == st.table \notin AssetTables

Elsewhere(statements) ==
    IsList(statements) /\ \A st \in ToSet(statements) : Outside(st)

BeginsElsewhere(s) ==
    \E request, statements, found : Begin(s, request, statements, found) /\ Elsewhere(statements)

LEMMA ElsewhereKeepsCatalogue ==
    ASSUME CatalogueInv, NEW s \in Sessions, BeginsElsewhere(s)
    PROVE  CatalogueInv' /\ db' = db
<1>1. PICK request, statements, found :
         Begin(s, request, statements, found) /\ Elsewhere(statements)
    BY DEF BeginsElsewhere
<1>2. PlanFits(request, statements, db)
    BY <1>1 DEF Elsewhere, Outside, PlanFits
<1> QED BY <1>1, <1>2, BeginKeepsCatalogue

LEMMA Outsiders ==
    /\ \A t, a, b : t \notin AssetTables =>
         Outside(Insert(t, a)) /\ Outside(Update(t, a, b)) /\ Outside(Delete(t, a))
    /\ \A a : Outside(Recount(a))
BY DEF Outside, Insert, Update, Delete, Recount, AssetTables

LEMMA TablesOutside ==
    \A t \in {"system", "push_system", "push_job", "push_job_field", "push_change_log", "api_asset",
              "api_param", "data_source", "upstream_system", "upstream_unload_time",
              "upstream_change_log", "mapping_table", "mapping_field", "api_response_field",
              "api_relation", "report_asset", "indicator_item", "indicator_change_log", "root_item",
              "root_change_log", "manual_code_table", "code_category", "code_item", "menu"} :
        t \notin AssetTables
BY DEF AssetTables

LEMMA NoneElsewhere == Elsewhere(<<>>)
BY NoList DEF Elsewhere

LEMMA FewElsewhere ==
    ASSUME NEW x, NEW y, NEW z
    PROVE  /\ Outside(x) => Elsewhere(<<x>>)
           /\ Outside(x) /\ Outside(y) => Elsewhere(<<x, y>>)
           /\ Outside(x) /\ Outside(y) /\ Outside(z) => Elsewhere(<<x, y, z>>)
<1>1. Outside(x) => Elsewhere(<<x>>)
    <2>1. IsList(<<x>>) /\ ToSet(<<x>>) = {x}
        BY Lists
    <2> QED BY <2>1 DEF Elsewhere
<1>2. Outside(x) /\ Outside(y) => Elsewhere(<<x, y>>)
    <2>1. IsList(<<x, y>>) /\ ToSet(<<x, y>>) = {x, y}
        BY Lists
    <2> QED BY <2>1 DEF Elsewhere
<1>3. Outside(x) /\ Outside(y) /\ Outside(z) => Elsewhere(<<x, y, z>>)
    <2>1. PICK list : list = <<x, y, z>>
        OBVIOUS
    <2>2. IsList(list) /\ ToSet(list) = {x, y, z}
        BY <2>1, ListOfThree
    <2> QED BY <2>1, <2>2 DEF Elsewhere
<1> QED BY <1>1, <1>2, <1>3

LEMMA BothElsewhere ==
    ASSUME NEW a, NEW b, Elsewhere(a), Elsewhere(b)
    PROVE  Elsewhere(a \o b)
BY Joins DEF Elsewhere

LEMMA ManyElsewhere ==
    ASSUME NEW n \in Nat, NEW f, f = [i \in 1 .. n |-> f[i]], \A i \in 1 .. n : Outside(f[i])
    PROVE  Elsewhere(f)
<1>1. IsList(f) /\ \A x : x \in ToSet(f) <=> \E i \in 1 .. n : x = f[i]
    BY ListOf
<1> QED BY <1>1 DEF Elsewhere

LEMMA FlatElsewhere ==
    ASSUME NEW n \in Nat, NEW f, f = [i \in 1 .. n |-> f[i]], \A i \in 1 .. n : Elsewhere(f[i])
    PROVE  Elsewhere(FlattenSeq(f))
<1>1. IsList(f) /\ DOMAIN f = 1 .. n
    BY ListOf
<1>2. \A i \in DOMAIN f : IsList(f[i])
    BY <1>1 DEF Elsewhere
<1>3. /\ IsList(FlattenSeq(f))
      /\ \A x : x \in ToSet(FlattenSeq(f)) <=> \E i \in DOMAIN f : x \in ToSet(f[i])
    BY <1>1, <1>2, Flattens
<1> QED BY <1>1, <1>3 DEF Elsewhere

\* A plan of one, two or three statements.
LEMMA OneBegins ==
    ASSUME NEW s, NEW q, NEW x, NEW f, Begin(s, q, <<x>>, f), Outside(x)
    PROVE  BeginsElsewhere(s)
BY FewElsewhere DEF BeginsElsewhere

LEMMA TwoBegin ==
    ASSUME NEW s, NEW q, NEW x, NEW y, NEW f, Begin(s, q, <<x, y>>, f), Outside(x), Outside(y)
    PROVE  BeginsElsewhere(s)
BY FewElsewhere DEF BeginsElsewhere

LEMMA ThreeBegin ==
    ASSUME NEW s, NEW q, NEW x, NEW y, NEW z, NEW f, Begin(s, q, <<x, y, z>>, f),
           Outside(x), Outside(y), Outside(z)
    PROVE  BeginsElsewhere(s)
BY FewElsewhere DEF BeginsElsewhere

-----------------------------------------------------------------------------
(* Upstream systems                                                         *)

LEMMA TimesElsewhere ==
    ASSUME NEW pk, NEW times, IsFiniteSet(times)
    PROVE  Elsewhere(InsertTimes(pk, times))
<1> DEFINE ordered == SetToSeq(times)
           Time(i) == [time_pk |-> New(i - 1), system_pk |-> pk, unload_time |-> ordered[i]]
           f == [i \in 1 .. Len(ordered) |-> Insert("upstream_unload_time", Time(i))]
<1>1. Len(ordered) \in Nat /\ DOMAIN ordered = 1 .. Len(ordered)
    BY ElementsOf, ListIs
<1>2. InsertTimes(pk, times) = f
    BY <1>1 DEF InsertTimes
<1> HIDE DEF Time, ordered
<1>3. \A i \in 1 .. Len(ordered) : Outside(f[i])
    BY Outsiders, TablesOutside
<1>4. f = [i \in 1 .. Len(ordered) |-> f[i]]
    OBVIOUS
<1> HIDE DEF f
<1> QED BY <1>1, <1>2, <1>3, <1>4, ManyElsewhere

LEMMA UpstreamElsewhere ==
    ASSUME NEW s, UpstreamOperation(s)
    PROVE  BeginsElsewhere(s)
<1>1. CASE CreateUpstream(s)
    <2>1. PICK payload, q, a, b, f :
             /\ payload \in UpstreamSystems
             /\ Begin(s, q, <<Insert("data_source", a), Insert("upstream_system", b)>>
                            \o InsertTimes(New(0), payload.times) \o <<UpstreamChange>>, f)
        BY <1>1 DEF CreateUpstream
    <2>2. Elsewhere(<<Insert("data_source", a), Insert("upstream_system", b)>>)
        BY Outsiders, TablesOutside, FewElsewhere
    <2>3. Elsewhere(InsertTimes(New(0), payload.times))
        BY <2>1, UpstreamAssumption, TimesElsewhere
    <2>4. Elsewhere(<<UpstreamChange>>)
        BY Outsiders, TablesOutside, FewElsewhere DEF UpstreamChange
    <2> QED BY <2>1, <2>2, <2>3, <2>4, BothElsewhere DEF BeginsElsewhere
<1>2. CASE UpdateUpstream(s)
    <2>1. PICK payload, pk, q, a, b, c, d, e, f :
             /\ payload \in UpstreamSystems
             /\ Begin(s, q, <<Update("data_source", a, b), Update("upstream_system", c, d),
                              Delete("upstream_unload_time", e)>>
                            \o InsertTimes(pk, payload.times) \o <<UpstreamChange>>, f)
        BY <1>2 DEF UpdateUpstream
    <2>2. Elsewhere(<<Update("data_source", a, b), Update("upstream_system", c, d),
                      Delete("upstream_unload_time", e)>>)
        BY Outsiders, TablesOutside, FewElsewhere
    <2>3. Elsewhere(InsertTimes(pk, payload.times))
        BY <2>1, UpstreamAssumption, TimesElsewhere
    <2>4. Elsewhere(<<UpstreamChange>>)
        BY Outsiders, TablesOutside, FewElsewhere DEF UpstreamChange
    <2> QED BY <2>1, <2>2, <2>3, <2>4, BothElsewhere DEF BeginsElsewhere
<1>3. CASE PatchStatus(s)
    <2>1. PICK q, a, b, c, d, f :
             Begin(s, q, <<Update("upstream_system", a, b), Update("data_source", c, d),
                           UpstreamChange>>, f)
        BY <1>3 DEF PatchStatus
    <2>2. /\ Outside(Update("upstream_system", a, b)) /\ Outside(Update("data_source", c, d))
          /\ Outside(UpstreamChange)
        BY Outsiders, TablesOutside DEF UpstreamChange
    <2> QED BY <2>1, <2>2, ThreeBegin
<1>4. CASE DeleteUpstream(s)
    <2>1. PICK q, a, b, f :
             Begin(s, q, <<Delete("upstream_unload_time", a), Delete("upstream_system", b),
                           UpstreamChange>>, f)
        BY <1>4 DEF DeleteUpstream
    <2>2. /\ Outside(Delete("upstream_unload_time", a)) /\ Outside(Delete("upstream_system", b))
          /\ Outside(UpstreamChange)
        BY Outsiders, TablesOutside DEF UpstreamChange
    <2> QED BY <2>1, <2>2, ThreeBegin
<1> QED BY <1>1, <1>2, <1>3, <1>4 DEF UpstreamOperation

-----------------------------------------------------------------------------
(* Push systems and jobs                                                    *)

LEMMA JobFieldsElsewhere ==
    ASSUME NEW jobId, NEW fields, IsList(fields)
    PROVE  Elsewhere(InsertJobFields(jobId, fields))
<1> DEFINE n == Len(fields)
           Field(i) == [field_id |-> New(i - 1), job_id |-> jobId, field_name |-> fields[i],
                        field_order |-> i]
           f == [i \in 1 .. n |-> Insert("push_job_field", Field(i))]
<1>1. n \in Nat /\ DOMAIN fields = 1 .. n
    BY ListIs
<1>2. InsertJobFields(jobId, fields) = f
    BY <1>1 DEF InsertJobFields
<1> HIDE DEF Field, n
<1>3. (\A i \in 1 .. n : Outside(f[i])) /\ f = [i \in 1 .. n |-> f[i]]
    BY Outsiders, TablesOutside
<1> HIDE DEF f
<1> QED BY <1>1, <1>2, <1>3, ManyElsewhere

LEMMA JobElsewhere ==
    ASSUME NEW jobId, NEW pk, NEW job, IsList(job.fields)
    PROVE  Elsewhere(InsertJob(jobId, pk, job))
<1>1. PICK row : InsertJob(jobId, pk, job) =
                   <<Insert("push_job", row)>> \o InsertJobFields(jobId, job.fields)
    BY DEF InsertJob
<1>2. Elsewhere(<<Insert("push_job", row)>>)
    BY Outsiders, TablesOutside, FewElsewhere
<1> QED BY <1>1, <1>2, JobFieldsElsewhere, BothElsewhere

LEMMA JobsElsewhere ==
    ASSUME NEW pk, NEW jobs, IsList(jobs), \A i \in DOMAIN jobs : IsList(jobs[i].fields)
    PROVE  Elsewhere(InsertJobs(pk, jobs))
<1> DEFINE n == Len(jobs)
           f == [i \in 1 .. n |-> InsertJob(New(i - 1), pk, jobs[i])]
<1>1. n \in Nat /\ DOMAIN jobs = 1 .. n
    BY ListIs
<1>2. InsertJobs(pk, jobs) = FlattenSeq(f)
    BY <1>1 DEF InsertJobs
<1> HIDE DEF n
<1>3. (\A i \in 1 .. n : Elsewhere(f[i])) /\ f = [i \in 1 .. n |-> f[i]]
    BY <1>1, JobElsewhere
<1> HIDE DEF f
<1> QED BY <1>1, <1>2, <1>3, FlatElsewhere

LEMMA DeletedJobsElsewhere ==
    ASSUME NEW pk
    PROVE  Elsewhere(DeleteJobs(pk))
<1>1. CASE LoadJobRows(pk) = {}
    BY <1>1, NoneElsewhere DEF DeleteJobs
<1>2. CASE LoadJobRows(pk) # {}
    <2>1. PICK a, b : DeleteJobs(pk) = <<Delete("push_job_field", a), Delete("push_job", b)>>
        BY <1>2 DEF DeleteJobs
    <2> QED BY <2>1, Outsiders, TablesOutside, FewElsewhere
<1> QED BY <1>1, <1>2

LEMMA StoredJobsAreLists ==
    ASSUME TablesOK(db), NEW pk
    PROVE  LET jobs == SetToSeq(StoredJobs(pk)) IN
           IsList(jobs) /\ \A i \in DOMAIN jobs : IsList(jobs[i].fields)
<1>1. ASSUME NEW t \in Tables, NEW selector PROVE IsFiniteSet(Select(t, selector))
    <2>1. Select(t, selector) \subseteq db[t]
        BY DEF Select, Matching
    <2> QED BY <2>1, FinitePart DEF TablesOK
<1>2. "push_job" \in Tables /\ "push_job_field" \in Tables
    BY DEF Tables, Key
<1>3. ASSUME NEW row PROVE IsList(ToJob(row).fields)
    <2> DEFINE rows == LoadFieldRows({row.job_id})
               fields == SetToSortSeq(rows, LAMBDA f, g : f.field_order < g.field_order)
               n == Cardinality(rows)
               f == [i \in 1 .. n |-> fields[i].field_name]
    <2>1. IsFiniteSet(rows)
        BY <1>1, <1>2 DEF LoadFieldRows
    <2>2. n \in Nat
        BY <2>1, FS_CardinalityType
    <2>3. ToJob(row).fields = f
        BY DEF ToJob
    <2> HIDE DEF fields, n
    <2>4. f = [i \in 1 .. n |-> f[i]]
        OBVIOUS
    <2> HIDE DEF f
    <2> QED BY <2>2, <2>3, <2>4, ListOf
<1> DEFINE rows == LoadJobRows(pk)
           f == [row \in rows |-> ToJob(row)]
           stored == StoredJobs(pk)
<1>4. IsFiniteSet(rows)
    BY <1>1, <1>2 DEF LoadJobRows
<1>5. f = [row \in rows |-> f[row]] /\ stored = {f[row] : row \in rows}
    BY DEF StoredJobs
<1>6. \A job \in stored : IsList(job.fields)
    BY <1>3 DEF StoredJobs
<1> HIDE DEF f, rows
<1>7. IsFiniteSet(stored)
    <2> HIDE DEF stored
    <2>1. IsFiniteSet({f[row] : row \in rows})
        BY <1>4, <1>5, FiniteImage
    <2> QED BY <1>5, <2>1
<1> HIDE DEF stored
<1> DEFINE jobs == SetToSeq(stored)
<1>8. IsList(jobs) /\ ToSet(jobs) \subseteq stored
    BY <1>7, ElementsOf
<1> HIDE DEF jobs
<1>9. \A i \in DOMAIN jobs : jobs[i] \in stored
    BY <1>8 DEF ToSet
<1> QED BY <1>6, <1>8, <1>9 DEF jobs, stored

LEMMA PushElsewhere ==
    ASSUME TablesOK(db), NEW s, PushOperation(s)
    PROVE  BeginsElsewhere(s)
<1>1. Elsewhere(<<PushChange>>) /\ Outside(PushChange)
    BY Outsiders, TablesOutside, FewElsewhere DEF PushChange
<1>2. ASSUME NEW payload \in PushSystems
      PROVE  IsList(payload.jobs) /\ \A i \in DOMAIN payload.jobs : IsList(payload.jobs[i].fields)
    BY PushAssumption
<1>3. CASE CreatePushSystem(s)
    <2>1. PICK payload, q, a, b, f :
             /\ payload \in PushSystems
             /\ Begin(s, q, <<Insert("system", a), Insert("push_system", b)>>
                            \o InsertJobs(New(0), payload.jobs) \o <<PushChange>>, f)
        BY <1>3 DEF CreatePushSystem
    <2>2. Elsewhere(<<Insert("system", a), Insert("push_system", b)>>)
        BY Outsiders, TablesOutside, FewElsewhere
    <2>3. Elsewhere(InsertJobs(New(0), payload.jobs))
        BY <1>2, <2>1, JobsElsewhere
    <2> QED BY <1>1, <2>1, <2>2, <2>3, BothElsewhere DEF BeginsElsewhere
<1>4. CASE UpdatePushSystem(s)
    <2>0. PICK row \in db["push_system"], payload \in PushSystems :
             Begin(s, <<"update_push_system">>,
                   <<Update("system", [system_id |-> {row.master_system_id}],
                            [system_code |-> payload.id, status |-> payload.status]),
                     Update("push_system", [system_id |-> {row.system_id}],
                            [system_code |-> payload.id, status |-> payload.status,
                             job_count |-> Len(IF payload.keeps
                                               THEN SetToSeq(StoredJobs(row.system_id))
                                               ELSE payload.jobs)])>>
                   \o DeleteJobs(row.system_id)
                   \o InsertJobs(row.system_id, IF payload.keeps
                                                THEN SetToSeq(StoredJobs(row.system_id))
                                                ELSE payload.jobs)
                   \o <<PushChange>>,
                   {[table |-> "push_system", where |-> [system_code |-> {payload.id}]]})
        BY <1>4, Zenon DEF UpdatePushSystem
    <2>1. PICK pk, jobs, q, a, b, c, d, f :
             /\ jobs = IF payload.keeps THEN SetToSeq(StoredJobs(pk)) ELSE payload.jobs
             /\ Begin(s, q, <<Update("system", a, b), Update("push_system", c, d)>>
                            \o DeleteJobs(pk) \o InsertJobs(pk, jobs) \o <<PushChange>>, f)
        BY <2>0, ZenonT(30)
    <2>2. Elsewhere(<<Update("system", a, b), Update("push_system", c, d)>>)
        BY Outsiders, TablesOutside, FewElsewhere
    <2>3. Elsewhere(InsertJobs(pk, jobs))
        BY <1>2, <2>1, StoredJobsAreLists, JobsElsewhere
    <2> QED BY <1>1, <2>1, <2>2, <2>3, DeletedJobsElsewhere, BothElsewhere DEF BeginsElsewhere
<1>5. CASE DeletePushSystem(s)
    <2>1. PICK pk, q, a, f :
             Begin(s, q, <<PushChange>> \o DeleteJobs(pk) \o <<Delete("push_system", a)>>, f)
        BY <1>5 DEF DeletePushSystem
    <2>2. Elsewhere(<<Delete("push_system", a)>>)
        BY Outsiders, TablesOutside, FewElsewhere
    <2> QED BY <1>1, <2>1, <2>2, DeletedJobsElsewhere, BothElsewhere DEF BeginsElsewhere
<1>6. CASE CreatePushJob(s)
    <2>1. PICK job, pk, q, f :
             /\ job \in PushJobs
             /\ Begin(s, q, InsertJob(New(0), pk, job) \o <<Recount(pk), PushChange>>, f)
        BY <1>6 DEF CreatePushJob
    <2>2. Elsewhere(<<Recount(pk), PushChange>>)
        BY <1>1, Outsiders, FewElsewhere
    <2>3. Elsewhere(InsertJob(New(0), pk, job))
        BY <2>1, PushAssumption, JobElsewhere
    <2> QED BY <2>1, <2>2, <2>3, BothElsewhere DEF BeginsElsewhere
<1>7. CASE UpdatePushJob(s)
    <2>1. PICK job, id, pk, q, a, b, c, f :
             /\ job \in PushJobs
             /\ Begin(s, q, <<Update("push_job", a, b), Delete("push_job_field", c)>>
                            \o InsertJobFields(id, job.fields) \o <<Recount(pk), PushChange>>, f)
        BY <1>7 DEF UpdatePushJob
    <2>2. Elsewhere(<<Recount(pk), PushChange>>)
        BY <1>1, Outsiders, FewElsewhere
    <2>3. Elsewhere(<<Update("push_job", a, b), Delete("push_job_field", c)>>)
        BY Outsiders, TablesOutside, FewElsewhere
    <2>4. Elsewhere(InsertJobFields(id, job.fields))
        BY <2>1, PushAssumption, JobFieldsElsewhere
    <2> QED BY <2>1, <2>2, <2>3, <2>4, BothElsewhere DEF BeginsElsewhere
<1>8. CASE DeletePushJob(s)
    <2>1. PICK pk, q, a, b, f :
             Begin(s, q, <<PushChange, Delete("push_job_field", a), Delete("push_job", b),
                           Recount(pk)>>, f)
        BY <1>8 DEF DeletePushJob
    <2>2. Elsewhere(<<PushChange, Delete("push_job_field", a), Delete("push_job", b), Recount(pk)>>)
        <3>1. PICK x, y, z, list :
                /\ x = Delete("push_job_field", a) /\ y = Delete("push_job", b)
                /\ z = Recount(pk) /\ list = <<PushChange, x, y, z>>
            OBVIOUS
        <3>2. IsList(list) /\ ToSet(list) = {PushChange, x, y, z}
            <4>1. list \in Seq({PushChange, x, y, z})
                BY <3>1
            <4>2. ToSet(list) = {PushChange, x, y, z}
                BY <3>1 DEF ToSet
            <4> QED BY <4>1, <4>2 DEF IsList
        <3>3. Outside(x) /\ Outside(y) /\ Outside(z)
            BY <3>1, Outsiders, TablesOutside
        <3> QED BY <1>1, <3>1, <3>2, <3>3 DEF Elsewhere
    <2> QED BY <2>1, <2>2 DEF BeginsElsewhere
<1> QED BY <1>3, <1>4, <1>5, <1>6, <1>7, <1>8 DEF PushOperation

-----------------------------------------------------------------------------
(* Mappings that are imported                                               *)

LEMMA MappedFieldsElsewhere ==
    ASSUME NEW prepared, NEW pk, IsList(prepared.actions)
    PROVE  Elsewhere(PersistFields(prepared, pk))
<1> DEFINE created == Within(prepared.actions, {a \in ToSet(prepared.actions) : a.do = "create"})
           updated == Within(prepared.actions, {a \in ToSet(prepared.actions) : a.do = "update"})
           m == Len(created)
           n == Len(updated)
           Row(i) == [field_pk |-> New(i - 1), table_pk |-> pk] @@ created[i].values
           Hit(i) == [field_pk |-> {f.field_pk : f \in updated[i].current}]
           Set(i) == updated[i].values
           a == [i \in 1 .. m |-> Insert("mapping_field", Row(i))]
           b == [i \in 1 .. n |-> Update("mapping_field", Hit(i), Set(i))]
<1>1. IsList(created) /\ IsList(updated)
    BY WithinIs
<1> HIDE DEF created, updated
<1>2. /\ m \in Nat /\ DOMAIN created = 1 .. m
      /\ n \in Nat /\ DOMAIN updated = 1 .. n
    BY <1>1, ListIs
<1>3. PersistFields(prepared, pk) = a \o b
    BY <1>2 DEF PersistFields, created, updated
<1> HIDE DEF Row, Hit, Set, m, n
<1>4. (\A i \in 1 .. m : Outside(a[i])) /\ a = [i \in 1 .. m |-> a[i]]
    BY Outsiders, TablesOutside
<1>5. (\A i \in 1 .. n : Outside(b[i])) /\ b = [i \in 1 .. n |-> b[i]]
    BY Outsiders, TablesOutside
<1> HIDE DEF a, b
<1>6. Elsewhere(a)
    BY <1>2, <1>4, ManyElsewhere
<1>7. Elsewhere(b)
    BY <1>2, <1>5, ManyElsewhere
<1> QED BY <1>3, <1>6, <1>7, BothElsewhere

LEMMA MappingElsewhere ==
    ASSUME NEW prepared, IsList(prepared.actions)
    PROVE  Elsewhere(PersistItem(prepared))
<1>1. CASE prepared.pk = NoKey
    <2>1. PICK a : PersistItem(prepared) =
                     <<Insert("mapping_table", a)>> \o PersistFields(prepared, New(0))
        BY <1>1 DEF PersistItem
    <2>2. Elsewhere(<<Insert("mapping_table", a)>>)
        BY Outsiders, TablesOutside, FewElsewhere
    <2> QED BY <2>1, <2>2, MappedFieldsElsewhere, BothElsewhere
<1>2. CASE prepared.pk # NoKey
    <2>1. PICK a, b, pk : PersistItem(prepared) =
                            <<Update("mapping_table", a, b)>> \o PersistFields(prepared, pk)
        BY <1>2 DEF PersistItem
    <2>2. Elsewhere(<<Update("mapping_table", a, b)>>)
        BY Outsiders, TablesOutside, FewElsewhere
    <2> QED BY <2>1, <2>2, MappedFieldsElsewhere, BothElsewhere
<1> QED BY <1>1, <1>2

\* One action for each field of the item.
LEMMA PreparedActions ==
    ASSUME NEW owner, NEW item \in MappingItems, NEW current
    PROVE  IsList(Prepared(owner, item, current).actions)
<1>1. PICK pk, values, changed :
         Prepared(owner, item, current) =
           [pk |-> pk, values |-> values, changed |-> changed,
            actions |-> [i \in DOMAIN item.fields |-> FieldAction(pk, item.fields[i])]]
    BY Zenon DEF Prepared
<1> DEFINE n == Len(item.fields)
           f == [i \in 1 .. n |-> FieldAction(pk, item.fields[i])]
<1>2. n \in Nat /\ DOMAIN item.fields = 1 .. n
    BY MappingAssumption, ListIs
<1>3. Prepared(owner, item, current).actions = f
    BY <1>1, <1>2
<1> HIDE DEF n
<1>4. f = [i \in 1 .. n |-> f[i]]
    OBVIOUS
<1> HIDE DEF f
<1> QED BY <1>2, <1>3, <1>4, ListOf

LEMMA ImportElsewhere ==
    ASSUME NEW s, ImportMapping(s)
    PROVE  BeginsElsewhere(s)
<1>1. PICK owner, item, current, q, f :
         /\ item \in MappingItems
         /\ Begin(s, q, PersistItem(Prepared(owner, item, current)), f)
    BY DEF ImportMapping
<1>2. Elsewhere(PersistItem(Prepared(owner, item, current)))
    BY <1>1, PreparedActions, MappingElsewhere
<1> QED BY <1>1, <1>2 DEF BeginsElsewhere

-----------------------------------------------------------------------------
(* APIs                                                                     *)

LEMMA ReplacedRowsElsewhere ==
    ASSUME NEW code, NEW kind \in RowKinds, NEW names, IsList(names)
    PROVE  Elsewhere(ReplaceRowsOf(code, kind, names))
<1> DEFINE n == Len(names)
           t == KindTable[kind]
           Row(i) == [c \in {Key[t], "api_code", "name"} |->
                        CASE c = "api_code" -> code [] c = "name" -> names[i] [] OTHER -> New(i - 1)]
           f == [i \in 1 .. n |-> Insert(t, Row(i))]
<1>1. n \in Nat /\ DOMAIN names = 1 .. n
    BY ListIs
<1>2. ReplaceRowsOf(code, kind, names) = <<Delete(t, [api_code |-> {code}])>> \o f
    BY <1>1 DEF ReplaceRowsOf
<1>3. t \notin AssetTables
    <2>1. \A k \in DOMAIN KindTable :
             KindTable[k] \in {"api_param", "api_response_field", "api_relation"}
        BY DEF KindTable
    <2> QED BY <2>1, ApiAssumption, TablesOutside
<1> HIDE DEF Row, t, n
<1>4. (\A i \in 1 .. n : Outside(f[i])) /\ f = [i \in 1 .. n |-> f[i]]
    BY <1>3, Outsiders
<1> HIDE DEF f
<1>5. Elsewhere(f)
    BY <1>1, <1>4, ManyElsewhere
<1>6. Elsewhere(<<Delete(t, [api_code |-> {code}])>>)
    BY <1>3, Outsiders, FewElsewhere
<1> QED BY <1>2, <1>5, <1>6, BothElsewhere

LEMMA CarriedRowsElsewhere ==
    ASSUME NEW code, NEW carried \in Carried
    PROVE  Elsewhere(RowsOf(code, carried))
<1>1. CASE carried = <<>>
    <2> DEFINE f == [i \in 1 .. 0 |-> ReplaceRowsOf(code, carried[i].kind, carried[i].names)]
    <2>1. RowsOf(code, carried) = FlattenSeq(f)
        BY <1>1 DEF RowsOf
    <2>2. (\A i \in 1 .. 0 : Elsewhere(f[i])) /\ f = [i \in 1 .. 0 |-> f[i]]
        OBVIOUS
    <2> HIDE DEF f
    <2> QED BY <2>1, <2>2, FlatElsewhere
<1>2. ASSUME NEW kind \in RowKinds, NEW names \in ApiRows,
             carried = <<[kind |-> kind, names |-> names]>>
      PROVE  Elsewhere(RowsOf(code, carried))
    <2> DEFINE f == [i \in 1 .. 1 |-> ReplaceRowsOf(code, carried[i].kind, carried[i].names)]
    <2>1. RowsOf(code, carried) = FlattenSeq(f)
        BY <1>2 DEF RowsOf
    <2>2. \A i \in 1 .. 1 : f[i] = ReplaceRowsOf(code, kind, names)
        BY <1>2
    <2>3. f = [i \in 1 .. 1 |-> f[i]]
        OBVIOUS
    <2> HIDE DEF f
    <2>4. IsList(names)
        BY ApiAssumption
    <2>5. \A i \in 1 .. 1 : Elsewhere(f[i])
        BY <2>2, <2>4, ReplacedRowsElsewhere
    <2> QED BY <2>1, <2>3, <2>5, FlatElsewhere
<1> QED BY <1>1, <1>2 DEF Carried

LEMMA ApiElsewhere ==
    ASSUME NEW s, ApiOperation(s)
    PROVE  BeginsElsewhere(s)
<1>1. CASE CreateApi(s)
    <2>1. PICK code, carried, q, a, f :
             /\ carried \in Carried
             /\ Begin(s, q, <<Insert("api_asset", a)>> \o RowsOf(code, carried), f)
        BY <1>1 DEF CreateApi, InsertApiAsset
    <2>2. Elsewhere(<<Insert("api_asset", a)>>)
        BY Outsiders, TablesOutside, FewElsewhere
    <2> QED BY <2>1, <2>2, CarriedRowsElsewhere, BothElsewhere DEF BeginsElsewhere
<1>2. CASE UpdateApi(s)
    <2>1. PICK code, carried, q, a, b, f :
             /\ carried \in Carried
             /\ Begin(s, q, <<Update("api_asset", a, b)>> \o RowsOf(code, carried), f)
        BY <1>2 DEF UpdateApi
    <2>2. Elsewhere(<<Update("api_asset", a, b)>>)
        BY Outsiders, TablesOutside, FewElsewhere
    <2> QED BY <2>1, <2>2, CarriedRowsElsewhere, BothElsewhere DEF BeginsElsewhere
<1>3. CASE UpdateApiStatus(s) \/ DeleteApi(s)
    <2>1. PICK q, a, b, f : Begin(s, q, <<Update("api_asset", a, b)>>, f)
        BY <1>3 DEF UpdateApiStatus, DeleteApi
    <2> QED BY <2>1, Outsiders, TablesOutside, OneBegins
<1>4. CASE ReplaceRows(s)
    <2>1. PICK code, kind, names, q, f :
             /\ kind \in RowKinds /\ names \in ApiRows
             /\ Begin(s, q, ReplaceRowsOf(code, kind, names), f)
        BY <1>4 DEF ReplaceRows
    <2>2. Elsewhere(ReplaceRowsOf(code, kind, names))
        BY <2>1, ApiAssumption, ReplacedRowsElsewhere
    <2> QED BY <2>1, <2>2 DEF BeginsElsewhere
<1> QED BY <1>1, <1>2, <1>3, <1>4 DEF ApiOperation

-----------------------------------------------------------------------------
(* Reports and indicators, roots and code tables                            *)

LEMMA MetricsElsewhere ==
    ASSUME NEW s, MetricOperation(s)
    PROVE  BeginsElsewhere(s)
<1>1. CASE CreateIndicator(s)
    <2>1. PICK q, a, f : Begin(s, q, <<Insert("indicator_item", a), IndicatorChange>>, f)
        BY <1>1 DEF CreateIndicator
    <2> QED BY <2>1, Outsiders, TablesOutside, TwoBegin DEF IndicatorChange
<1>2. CASE UpdateIndicator(s) \/ PatchIndicatorStatus(s) \/ DeleteIndicator(s)
    <2>1. PICK q, a, b, f : Begin(s, q, <<Update("indicator_item", a, b), IndicatorChange>>, f)
        BY <1>2 DEF UpdateIndicator, PatchIndicatorStatus, DeleteIndicator
    <2> QED BY <2>1, Outsiders, TablesOutside, TwoBegin DEF IndicatorChange
<1>3. CASE CreateReport(s)
    <2>1. PICK q, a, f : Begin(s, q, <<Insert("report_asset", a)>>, f)
        BY <1>3 DEF CreateReport
    <2> QED BY <2>1, Outsiders, TablesOutside, OneBegins
<1>4. CASE UpdateReport(s) \/ DeleteReport(s)
    <2>1. PICK q, a, b, f : Begin(s, q, <<Update("report_asset", a, b)>>, f)
        BY <1>4 DEF UpdateReport, DeleteReport
    <2> QED BY <2>1, Outsiders, TablesOutside, OneBegins
<1> QED BY <1>1, <1>2, <1>3, <1>4 DEF MetricOperation

LEMMA RootsElsewhere ==
    /\ \A item, k : Elsewhere(InsertRoot(item, k))
    /\ \A row, item : Elsewhere(UpdateRootRow(row, item))
    /\ \A k : Elsewhere(<<RootChange(k)>>) /\ Outside(RootChange(k))
<1>1. ASSUME NEW item, NEW k PROVE Elsewhere(InsertRoot(item, k))
    <2>1. PICK a : InsertRoot(item, k) = <<Insert("root_item", a)>>
        BY DEF InsertRoot
    <2> QED BY <2>1, Outsiders, TablesOutside, FewElsewhere
<1>2. ASSUME NEW row, NEW item PROVE Elsewhere(UpdateRootRow(row, item))
    <2>1. PICK a, b : UpdateRootRow(row, item) = <<Update("root_item", a, b)>>
        BY DEF UpdateRootRow
    <2> QED BY <2>1, Outsiders, TablesOutside, FewElsewhere
<1>3. ASSUME NEW k PROVE Elsewhere(<<RootChange(k)>>) /\ Outside(RootChange(k))
    BY Outsiders, TablesOutside, FewElsewhere DEF RootChange
<1> QED BY <1>1, <1>2, <1>3

LEMMA TermsElsewhere ==
    ASSUME NEW s, TermOperation(s)
    PROVE  BeginsElsewhere(s)
<1>1. CASE CreateRoot(s) \/ UpdateRoot(s)
    <2>1. PICK q, list, f : Begin(s, q, list \o <<RootChange(0)>>, f) /\ Elsewhere(list)
        BY <1>1, RootsElsewhere DEF CreateRoot, UpdateRoot
    <2> QED BY <2>1, RootsElsewhere, BothElsewhere DEF BeginsElsewhere
<1>2. CASE DeleteRoot(s)
    <2>1. PICK q, a, b, f : Begin(s, q, <<Update("root_item", a, b), RootChange(0)>>, f)
        BY <1>2 DEF DeleteRoot
    <2> QED BY <2>1, Outsiders, TablesOutside, RootsElsewhere, TwoBegin
<1>3. CASE ImportRoots(s)
    <2>1. PICK items \in RootBatches :
             LET before(i) == Cardinality({j \in NewRoots(items) : j < i})
                 write(i)  == IF i \in NewRoots(items) THEN InsertRoot(items[i], before(i))
                              ELSE UpdateRootRow(The(LiveRoot(items[i].abbr)), items[i])
             IN  Begin(s, <<"import_roots", items>>,
                       FlattenSeq([i \in DOMAIN items |-> write(i) \o <<RootChange(i - 1)>>]), {})
        BY <1>3 DEF ImportRoots
    <2> DEFINE before(i) == Cardinality({j \in NewRoots(items) : j < i})
               write(i)  == IF i \in NewRoots(items) THEN InsertRoot(items[i], before(i))
                            ELSE UpdateRootRow(The(LiveRoot(items[i].abbr)), items[i])
               n == Len(items)
               f == [i \in 1 .. n |-> write(i) \o <<RootChange(i - 1)>>]
    <2>2. n \in Nat /\ DOMAIN items = 1 .. n
        BY TermAssumption, ListIs
    <2>3. Begin(s, <<"import_roots", items>>, FlattenSeq(f), {})
        BY <2>1, <2>2
    <2> HIDE DEF before, n
    <2>4. \A i : Elsewhere(write(i))
        BY RootsElsewhere
    <2> HIDE DEF write
    <2>5. (\A i \in 1 .. n : Elsewhere(f[i])) /\ f = [i \in 1 .. n |-> f[i]]
        BY <2>4, RootsElsewhere, BothElsewhere
    <2> HIDE DEF f
    <2> QED BY <2>2, <2>3, <2>5, FlatElsewhere DEF BeginsElsewhere
<1>4. CASE CreateCodeTable(s)
    <2>1. PICK q, a, f : Begin(s, q, <<Insert("manual_code_table", a)>>, f)
        BY <1>4 DEF CreateCodeTable
    <2> QED BY <2>1, Outsiders, TablesOutside, OneBegins
<1>5. CASE UpdateCodeTable(s) \/ UpdateCodeTableStatus(s)
    <2>1. PICK q, a, b, f : Begin(s, q, <<Update("manual_code_table", a, b)>>, f)
        BY <1>5 DEF UpdateCodeTable, UpdateCodeTableStatus
    <2> QED BY <2>1, Outsiders, TablesOutside, OneBegins
<1>6. CASE DeleteCodeTable(s)
    <2>1. PICK q, a, f : Begin(s, q, <<Delete("manual_code_table", a)>>, f)
        BY <1>6 DEF DeleteCodeTable
    <2> QED BY <2>1, Outsiders, TablesOutside, OneBegins
<1> QED BY <1>1, <1>2, <1>3, <1>4, <1>5, <1>6 DEF TermOperation

-----------------------------------------------------------------------------
(* Menus and dictionaries                                                   *)

LEMMA MenusElsewhere ==
    ASSUME NEW s, MenuOperation(s) \/ UpdateMenuStatus(s)
    PROVE  BeginsElsewhere(s)
<1>1. \A id, columns : Outside(SetMenu(id, columns))
    BY Outsiders, TablesOutside DEF SetMenu
<1>2. CASE CreateMenu(s)
    <2>1. PICK q, a, f : Begin(s, q, <<Insert("menu", a)>>, f)
        BY <1>2 DEF CreateMenu
    <2> QED BY <2>1, Outsiders, TablesOutside, OneBegins
<1>3. CASE UpdateMenu(s) \/ UpdateMenuStatus(s)
    <2>1. PICK q, a, b, f : Begin(s, q, <<SetMenu(a, b)>>, f)
        BY <1>3 DEF UpdateMenu, UpdateMenuStatus
    <2> QED BY <1>1, <2>1, OneBegins
<1>4. CASE DeleteMenu(s)
    <2>1. PICK q, a, f : Begin(s, q, <<Delete("menu", a)>>, f)
        BY <1>4 DEF DeleteMenu
    <2> QED BY <2>1, Outsiders, TablesOutside, OneBegins
<1>5. CASE MoveMenu(s)
    <2>1. PICK q, a, b, c, d, f : Begin(s, q, <<SetMenu(a, b), SetMenu(c, d)>>, f)
        BY <1>5 DEF MoveMenu, Exchange
    <2> QED BY <1>1, <2>1, TwoBegin
<1> QED BY <1>2, <1>3, <1>4, <1>5 DEF MenuOperation

LEMMA CodesElsewhere ==
    ASSUME NEW s, DictionaryOperation(s)
    PROVE  BeginsElsewhere(s)
<1>1. CASE CreateParamDict(s)
    <2>1. PICK q, a, f : Begin(s, q, <<Insert("code_item", a)>>, f)
        BY <1>1 DEF CreateParamDict
    <2> QED BY <2>1, Outsiders, TablesOutside, OneBegins
<1>2. CASE UpdateParamDict(s) \/ UpdateParamDictStatus(s) \/ UpdateRagSearchConfig(s)
    <2>1. PICK q, a, b, f : Begin(s, q, <<Update("code_item", a, b)>>, f)
        BY <1>2 DEF UpdateParamDict, UpdateParamDictStatus, UpdateRagSearchConfig
    <2> QED BY <2>1, Outsiders, TablesOutside, OneBegins
<1>3. CASE DeleteParamDict(s)
    <2>1. PICK q, a, f : Begin(s, q, <<Delete("code_item", a)>>, f)
        BY <1>3 DEF DeleteParamDict
    <2> QED BY <2>1, Outsiders, TablesOutside, OneBegins
<1>4. CASE UpdateParamCategoryStatus(s)
    <2>1. PICK q, a, b, f : Begin(s, q, <<Update("code_category", a, b)>>, f)
        BY <1>4 DEF UpdateParamCategoryStatus
    <2> QED BY <2>1, Outsiders, TablesOutside, OneBegins
<1> QED BY <1>1, <1>2, <1>3, <1>4 DEF DictionaryOperation

-----------------------------------------------------------------------------
(* Plans of the catalogue                                                   *)

Fits(st, request, plan, d) ==
    st.table \in AssetTables =>
        /\ KeepsIds(st, d)
        /\ request[1] = "ingest" => KeepsPortal(st)
        /\ request[1] # "ingest" => KeepsSource(st, plan, d)

\* A part of a plan that fits.
PartFits(part, request, plan, d) ==
    IsList(part) /\ \A st \in ToSet(part) : Fits(st, request, plan, d)

LEMMA WholeFits ==
    ASSUME NEW request, NEW statements, NEW d,
           PartFits(statements, request, ToSet(statements), d)
    PROVE  PlanFits(request, statements, d)
BY DEF PartFits, Fits, PlanFits

LEMMA NothingFits ==
    ASSUME NEW request, NEW plan, NEW d
    PROVE  PartFits(<<>>, request, plan, d)
BY NoList DEF PartFits

LEMMA OneFits ==
    ASSUME NEW x, NEW request, NEW plan, NEW d, Fits(x, request, plan, d)
    PROVE  PartFits(<<x>>, request, plan, d)
<1>1. IsList(<<x>>) /\ ToSet(<<x>>) = {x}
    BY Lists
<1> QED BY <1>1 DEF PartFits

LEMMA TwoFit ==
    ASSUME NEW x, NEW y, NEW request, NEW plan, NEW d,
           Fits(x, request, plan, d), Fits(y, request, plan, d)
    PROVE  PartFits(<<x, y>>, request, plan, d)
<1>1. IsList(<<x, y>>) /\ ToSet(<<x, y>>) = {x, y}
    BY Lists
<1> QED BY <1>1 DEF PartFits

LEMMA BothFit ==
    ASSUME NEW a, NEW b, NEW request, NEW plan, NEW d,
           PartFits(a, request, plan, d), PartFits(b, request, plan, d)
    PROVE  PartFits(a \o b, request, plan, d)
BY Joins DEF PartFits

LEMMA ManyFit ==
    ASSUME NEW n \in Nat, NEW f, f = [i \in 1 .. n |-> f[i]], NEW request, NEW plan, NEW d,
           \A i \in 1 .. n : Fits(f[i], request, plan, d)
    PROVE  PartFits(f, request, plan, d)
<1>1. IsList(f) /\ \A x : x \in ToSet(f) <=> \E i \in 1 .. n : x = f[i]
    BY ListOf
<1> QED BY <1>1 DEF PartFits

LEMMA FlatFits ==
    ASSUME NEW n \in Nat, NEW f, f = [i \in 1 .. n |-> f[i]], NEW request, NEW plan, NEW d,
           \A i \in 1 .. n : PartFits(f[i], request, plan, d)
    PROVE  PartFits(FlattenSeq(f), request, plan, d)
<1>1. IsList(f) /\ DOMAIN f = 1 .. n
    BY ListOf
<1>2. \A i \in DOMAIN f : IsList(f[i])
    BY <1>1 DEF PartFits
<1>3. /\ IsList(FlattenSeq(f))
      /\ \A x : x \in ToSet(FlattenSeq(f)) <=> \E i \in DOMAIN f : x \in ToSet(f[i])
    BY <1>1, <1>2, Flattens
<1> QED BY <1>1, <1>3 DEF PartFits

-----------------------------------------------------------------------------
(* Statements on the catalogue                                              *)

LEMMA ChangeFits ==
    ASSUME NEW k, NEW request, NEW plan, NEW d
    PROVE  Fits(AssetChange(k), request, plan, d)
BY DEF Fits, AssetChange, Insert, AssetTables

LEMMA InsertIs ==
    ASSUME NEW t, NEW row, NEW st, st = Insert(t, row)
    PROVE  st.do = "insert" /\ st.table = t /\ st.row = row
BY DEF Insert

LEMMA UpdateIs ==
    ASSUME NEW t, NEW where, NEW set, NEW st, st = Update(t, where, set)
    PROVE  st.do = "update" /\ st.table = t /\ st.where = where /\ st.set = set
BY DEF Update

\* Fields are marked as deleted.
LEMMA MarkFits ==
    ASSUME NEW where, NEW request, NEW plan, NEW d
    PROVE  Fits(Update("asset_field", where, [is_deleted |-> TRUE]), request, plan, d)
<1>1. PICK st, set : set = [is_deleted |-> TRUE] /\ st = Update("asset_field", where, set)
    OBVIOUS
<1>2. st.do = "update" /\ st.table = "asset_field" /\ st.set = set
    BY <1>1, UpdateIs
<1>3. DOMAIN set = {"is_deleted"} /\ set.is_deleted
    BY <1>1
<1>4. KeepsIds(st, d)
    BY <1>2, <1>3 DEF KeepsIds
<1>5. KeepsPortal(st)
    BY <1>2, <1>3 DEF KeepsPortal
<1>6. KeepsSource(st, plan, d)
    <2>1. DOMAIN st.set \cap SourceColumns = {}
        BY <1>2, <1>3 DEF SourceColumns
    <2> QED BY <1>2, <2>1 DEF KeepsSource
<1>7. Fits(st, request, plan, d)
    BY <1>4, <1>5, <1>6 DEF Fits
<1> QED BY <1>1, <1>7

\* A field keeps its name in all but its case, and its other columns are written.
LEMMA FieldUpdateFits ==
    ASSUME NEW request, NEW plan, NEW d, NEW f \in d["asset_field"], NEW set,
           DOMAIN set \cap {"field_id", "asset_id", "is_deleted"} = {},
           "field_name" \in DOMAIN set => FieldKey(f.field_name) = FieldKey(set.field_name),
           request[1] = "ingest" => "owner_name" \notin DOMAIN set /\ "field_cn_name" \notin DOMAIN set,
           request[1] # "ingest" => DOMAIN set \cap SourceColumns = {} \/ Unbound(d, f.asset_id)
    PROVE  Fits(Update("asset_field", [field_id |-> {f.field_id}], set), request, plan, d)
<1>1. PICK st, where : where = [field_id |-> {f.field_id}] /\ st = Update("asset_field", where, set)
    OBVIOUS
<1>2. st.do = "update" /\ st.table = "asset_field" /\ st.where = where /\ st.set = set
    BY <1>1, UpdateIs
<1>3. "field_id" \in DOMAIN where /\ \A id : id \in where.field_id <=> id = f.field_id
    BY <1>1
<1>4. KeepsIds(st, d)
    BY <1>2, <1>3 DEF KeepsIds
<1>5. request[1] = "ingest" => KeepsPortal(st)
    BY <1>2 DEF KeepsPortal
<1>6. request[1] # "ingest" => KeepsSource(st, plan, d)
    BY <1>2, <1>3 DEF KeepsSource
<1>7. Fits(st, request, plan, d)
    BY <1>4, <1>5, <1>6 DEF Fits
<1> QED BY <1>1, <1>7

LEMMA FieldInsertFits ==
    ASSUME NEW request, NEW plan, NEW d, NEW row, DOMAIN row = FieldColumns,
           request[1] # "ingest" =>
             \/ row.asset_id = New(0) /\ \E other \in plan : InsertsAsset(other)
             \/ Unbound(d, row.asset_id)
    PROVE  Fits(Insert("asset_field", row), request, plan, d)
<1>1. PICK st : st = Insert("asset_field", row)
    OBVIOUS
<1>2. st.do = "insert" /\ st.table = "asset_field" /\ st.row = row
    BY <1>1, InsertIs
<1>3. KeepsIds(st, d) /\ KeepsPortal(st)
    BY <1>2 DEF KeepsIds, KeepsPortal
<1>4. request[1] # "ingest" => KeepsSource(st, plan, d)
    BY <1>2 DEF KeepsSource
<1>5. Fits(st, request, plan, d)
    BY <1>3, <1>4 DEF Fits
<1> QED BY <1>1, <1>5

LEMMA AssetUpdateFits ==
    ASSUME NEW request, NEW plan, NEW d, NEW id, NEW set,
           "asset_id" \notin DOMAIN set,
           \/ DOMAIN set \cap {"source_key", "external_id"} = {}
           \/ /\ {"source_key", "external_id"} \subseteq DOMAIN set
              /\ \E row \in d["asset_table"] :
                   /\ row.asset_id = id
                   /\ row.source_key = set.source_key /\ row.external_id = set.external_id,
           request[1] = "ingest" => "owner_name" \notin DOMAIN set /\ "field_cn_name" \notin DOMAIN set,
           request[1] # "ingest" =>
             DOMAIN set \cap {"table_name", "table_desc"} = {} \/ Unbound(d, id)
    PROVE  Fits(Update("asset_table", [asset_id |-> {id}], set), request, plan, d)
<1>1. PICK st, where : where = [asset_id |-> {id}] /\ st = Update("asset_table", where, set)
    OBVIOUS
<1>2. st.do = "update" /\ st.table = "asset_table" /\ st.where = where /\ st.set = set
    BY <1>1, UpdateIs
<1>3. "asset_id" \in DOMAIN where /\ \A x : x \in where.asset_id <=> x = id
    BY <1>1
<1>4. KeepsIds(st, d)
    BY <1>2, <1>3 DEF KeepsIds, WritesOwnKey
<1>5. request[1] = "ingest" => KeepsPortal(st)
    BY <1>2 DEF KeepsPortal
<1>6. request[1] # "ingest" => KeepsSource(st, plan, d)
    BY <1>2, <1>3 DEF KeepsSource
<1>7. Fits(st, request, plan, d)
    BY <1>4, <1>5, <1>6 DEF Fits
<1> QED BY <1>1, <1>7

LEMMA AssetInsertFits ==
    ASSUME NEW request, NEW plan, NEW d, NEW row, DOMAIN row = AssetColumns,
           row.asset_id \in Int, row.asset_id < 0,
           request[1] # "ingest" => row.asset_id = New(0)
    PROVE  Fits(Insert("asset_table", row), request, plan, d)
<1>1. PICK st : st = Insert("asset_table", row)
    OBVIOUS
<1>2. st.do = "insert" /\ st.table = "asset_table" /\ st.row = row
    BY <1>1, InsertIs
<1>3. KeepsIds(st, d) /\ KeepsPortal(st)
    BY <1>2 DEF KeepsIds, KeepsPortal
<1>4. request[1] # "ingest" => KeepsSource(st, plan, d)
    BY <1>2 DEF KeepsSource, InsertsAsset
<1>5. Fits(st, request, plan, d)
    BY <1>3, <1>4 DEF Fits
<1> QED BY <1>1, <1>5

-----------------------------------------------------------------------------
(* The merge of fields                                                      *)

LEMMA ListFinite ==
    ASSUME NEW seq, IsList(seq)
    PROVE  IsFiniteSet(ToSet(seq))
<1>1. PICK n : n = Len(seq)
    OBVIOUS
<1>2. /\ n \in Nat /\ DOMAIN seq = 1 .. n
      /\ \A x : x \in ToSet(seq) <=> \E i \in 1 .. n : x = seq[i]
    BY <1>1, ListIs
<1>3. seq = [i \in 1 .. n |-> seq[i]]
    BY <1>2 DEF IsList
<1>4. IsFiniteSet(1 .. n)
    BY <1>2, FS_Interval
<1>5. IsFiniteSet({seq[i] : i \in 1 .. n})
    BY <1>3, <1>4, FiniteImage
<1>6. ToSet(seq) = {seq[i] : i \in 1 .. n}
    BY <1>2
<1> QED BY <1>5, <1>6

LEMMA InsertedIs ==
    ASSUME NEW active, NEW incoming, IsList(incoming)
    PROVE  IsList(Inserted(active, incoming))
<1> DEFINE new == {field \in ToSet(incoming) : \A row \in active : ~SameKey(row, field)}
<1>1. Inserted(active, incoming) = Within(incoming, new)
    BY DEF Inserted, Within
<1> HIDE DEF new
<1>2. IsList(Within(incoming, new))
    BY WithinIs
<1> QED BY <1>1, <1>2

\* Pairs that match, in any order.
LEMMA MatchedIs ==
    ASSUME NEW active, IsFiniteSet(active), NEW incoming, IsList(incoming),
           NEW S \in SUBSET Matched(active, incoming)
    PROVE  /\ IsList(SetToSeq(S))
           /\ \A i \in DOMAIN SetToSeq(S) :
                /\ SetToSeq(S)[i][1] \in active
                /\ FieldKey(SetToSeq(S)[i][1].field_name) = FieldKey(SetToSeq(S)[i][2].name)
<1>1. IsFiniteSet(active \X ToSet(incoming))
    BY ListFinite, FS_Product
<1>2. S \subseteq active \X ToSet(incoming)
    BY DEF Matched
<1>3. IsFiniteSet(S)
    BY <1>1, <1>2, FinitePart
<1>4. PICK list : list = SetToSeq(S)
    OBVIOUS
<1>5. IsList(list) /\ ToSet(list) \subseteq S
    BY <1>3, <1>4, ElementsOf
<1>6. \A i \in DOMAIN list : list[i] \in S
    BY <1>5, ListIs
<1>7. \A pair \in S : pair[1] \in active /\ SameKey(pair[1], pair[2])
    BY <1>2 DEF Matched
<1> QED BY <1>4, <1>5, <1>6, <1>7 DEF SameKey

LEMMA AssetFieldsAre ==
    ASSUME TablesOK(db), NEW id
    PROVE  /\ AssetFields(id) \subseteq db["asset_field"] /\ IsFiniteSet(AssetFields(id))
           /\ \A f \in AssetFields(id) : f.asset_id = id
<1>1. AssetFields(id) \subseteq db["asset_field"] /\ \A f \in AssetFields(id) : f.asset_id = id
    BY DEF AssetFields, Live
<1>2. IsFiniteSet(db["asset_field"])
    BY AssetTablesAre DEF TablesOK
<1> QED BY <1>1, <1>2, FinitePart

LEMMA ActiveFieldsAre ==
    ASSUME TablesOK(db), NEW item
    PROVE  ActiveFields(item) \subseteq db["asset_field"] /\ IsFiniteSet(ActiveFields(item))
BY AssetFieldsAre, FS_EmptySet DEF ActiveFields

LEMMA JoinedIs ==
    ASSUME NEW row, NEW more
    PROVE  /\ DOMAIN Joined(row, more) = DOMAIN row \cup DOMAIN more
           /\ \A c \in DOMAIN row : Joined(row, more)[c] = row[c]
           /\ \A c \in DOMAIN more \ DOMAIN row : Joined(row, more)[c] = more[c]
BY DEF Joined

LEMMA GoneFits ==
    ASSUME NEW part, NEW where, NEW gone,
           part = IF gone = {} THEN <<>>
                  ELSE <<Update("asset_field", where, [is_deleted |-> TRUE])>>,
           NEW request, NEW plan, NEW d
    PROVE  PartFits(part, request, plan, d)
<1>1. PICK st : st = Update("asset_field", where, [is_deleted |-> TRUE])
    OBVIOUS
<1>2. Fits(st, request, plan, d)
    BY <1>1, MarkFits
<1>3. PartFits(<<st>>, request, plan, d) /\ PartFits(<<>>, request, plan, d)
    BY <1>2, OneFits, NothingFits
<1> QED BY <1>1, <1>3

\* The columns that the source writes of a field it knows.
LEMMA ResolvedIs ==
    ASSUME NEW row, NEW field
    PROVE  /\ DOMAIN ResolveSourceField(row, field) = SourceColumns
           /\ ResolveSourceField(row, field).field_name = field.name
BY DEF ResolveSourceField, SourceColumns

LEMMA MergeFits ==
    ASSUME CatalogueOK(db), NEW item, IsList(item.fields),
           NEW request, request[1] = "ingest", NEW plan
    PROVE  PartFits(FieldMergeStatements(item), request, plan, db)
<1> DEFINE active  == ActiveFields(item)
           gone    == Deleted(active, item.fields)
           S       == {pair \in Matched(active, item.fields) : SourceChanged(pair[1], pair[2])}
           changed == SetToSeq(S)
           first   == IF gone = {} THEN <<>>
                      ELSE <<Update("asset_field", [field_id |-> {row.field_id : row \in gone}],
                                    [is_deleted |-> TRUE])>>
           second  == [i \in DOMAIN changed |->
                         Update("asset_field", [field_id |-> {changed[i][1].field_id}],
                                ResolveSourceField(changed[i][1], changed[i][2]))]
<1>1. FieldMergeStatements(item) = first \o second
    BY DEF FieldMergeStatements
<1>2. PartFits(first, request, plan, db)
    BY GoneFits
<1>3. active \subseteq db["asset_field"] /\ IsFiniteSet(active)
    BY ActiveFieldsAre DEF CatalogueOK
<1>4. S \in SUBSET Matched(active, item.fields)
    OBVIOUS
<1> HIDE DEF S, active
<1>5. /\ IsList(changed)
      /\ \A i \in DOMAIN changed : /\ changed[i][1] \in active
           /\ FieldKey(changed[i][1].field_name) = FieldKey(changed[i][2].name)
    BY <1>3, <1>4, MatchedIs
<1> HIDE DEF changed, first
<1>6. PICK n \in Nat : DOMAIN changed = 1 .. n
    BY <1>5, ListIs
<1>7. ASSUME NEW i \in 1 .. n PROVE Fits(second[i], request, plan, db)
    <2>1. PICK f, field, set : f = changed[i][1] /\ field = changed[i][2]
                               /\ set = ResolveSourceField(f, field)
        OBVIOUS
    <2>2. f \in db["asset_field"] /\ FieldKey(f.field_name) = FieldKey(field.name)
        BY <1>3, <1>5, <1>6, <2>1
    <2>3. DOMAIN set = SourceColumns /\ set.field_name = field.name
        BY <2>1, ResolvedIs
    <2>4. /\ DOMAIN set \cap {"field_id", "asset_id", "is_deleted"} = {}
          /\ "owner_name" \notin DOMAIN set /\ "field_cn_name" \notin DOMAIN set
        BY <2>3 DEF SourceColumns
    <2>5. Fits(Update("asset_field", [field_id |-> {f.field_id}], set), request, plan, db)
        BY <2>2, <2>3, <2>4, FieldUpdateFits
    <2> QED BY <1>6, <2>1, <2>5
<1>8. second = [i \in 1 .. n |-> second[i]]
    BY <1>6
<1> HIDE DEF second
<1>9. PartFits(second, request, plan, db)
    BY <1>7, <1>8, ManyFit
<1> QED BY <1>1, <1>2, <1>9, BothFit

-----------------------------------------------------------------------------
(* The plan of an ingestion                                                 *)

LEMMA ContentIs ==
    ASSUME NEW item
    PROVE  DOMAIN AssetContent(item) = {"table_name", "table_desc"}
BY DEF AssetContent

LEMMA NewAssetFits ==
    ASSUME NEW item, NEW id \in Int, id < 0, NEW request, request[1] = "ingest", NEW plan, NEW d
    PROVE  Fits(InsertAsset(item, id), request, plan, d)
<1> DEFINE more == [asset_id |-> id, source_key |-> item.source, external_id |-> item.external,
                    owner_name |-> Null, field_count |-> Len(Inserts(item)), is_deleted |-> FALSE]
<1>1. PICK row : row = Joined(more, AssetContent(item))
    OBVIOUS
<1>2. InsertAsset(item, id) = Insert("asset_table", row)
    BY <1>1 DEF InsertAsset
<1>3. /\ DOMAIN more = {"asset_id", "source_key", "external_id", "owner_name", "field_count",
                        "is_deleted"}
      /\ more["asset_id"] = id
    OBVIOUS
<1> HIDE DEF more
<1>4. DOMAIN row = AssetColumns /\ row["asset_id"] = id
    <2>1. PICK told : told = AssetContent(item)
        OBVIOUS
    <2>2. DOMAIN told = {"table_name", "table_desc"}
        BY <2>1, ContentIs
    <2>3. PICK kept : kept = more
        OBVIOUS
    <2>4. row = Joined(kept, told)
        BY <1>1, <2>1, <2>3
    <2>5. DOMAIN row = DOMAIN kept \cup DOMAIN told /\ \A c \in DOMAIN kept : row[c] = kept[c]
        BY <2>4, JoinedIs
    <2>6. DOMAIN row = AssetColumns
        BY <1>3, <2>2, <2>3, <2>5 DEF AssetColumns
    <2>7. row["asset_id"] = id
        BY <1>3, <2>3, <2>5
    <2> QED BY <2>6, <2>7
<1>5. Fits(Insert("asset_table", row), request, plan, d)
    BY <1>4, AssetInsertFits
<1> QED BY <1>2, <1>5

LEMMA UpdatedAre ==
    ASSUME NEW item
    PROVE  /\ DOMAIN UpdatedColumns(item) \subseteq {"source_key", "external_id", "field_count",
                "is_deleted", "table_name", "table_desc"}
           /\ {"source_key", "external_id"} \subseteq DOMAIN UpdatedColumns(item)
           /\ UpdatedColumns(item).source_key = item.source
           /\ UpdatedColumns(item).external_id = item.external
<1> DEFINE counted == IF item.listed
                      THEN [field_count |-> CountAfter(ActiveFields(item), item.fields)] ELSE <<>>
           named   == [source_key |-> item.source, external_id |-> item.external,
                       is_deleted |-> FALSE]
<1>1. PICK count, name, told, rest :
         /\ count = counted /\ name = named /\ told = AssetContent(item)
         /\ rest = Joined(name, told)
    OBVIOUS
<1>2. UpdatedColumns(item) = Joined(count, rest)
    BY <1>1 DEF UpdatedColumns
<1>3. DOMAIN count \subseteq {"field_count"}
    <2>1. CASE item.listed
        BY <1>1, <2>1
    <2>2. CASE ~item.listed
        <3>1. DOMAIN <<>> = {}
            OBVIOUS
        <3> QED BY <1>1, <2>2, <3>1
    <2> QED BY <2>1, <2>2
<1>4. /\ DOMAIN name = {"source_key", "external_id", "is_deleted"}
      /\ name["source_key"] = item.source /\ name["external_id"] = item.external
    BY <1>1
<1>5. DOMAIN told = {"table_name", "table_desc"}
    BY <1>1, ContentIs
<1> HIDE DEF counted, named
<1>6. /\ DOMAIN rest = DOMAIN name \cup DOMAIN told
      /\ \A c \in DOMAIN name : rest[c] = name[c]
    BY <1>1 DEF Joined
<1>7. PICK set : set = Joined(count, rest)
    OBVIOUS
<1>8. /\ DOMAIN set = DOMAIN count \cup DOMAIN rest
      /\ \A c \in DOMAIN rest \ DOMAIN count : set[c] = rest[c]
    BY <1>7 DEF Joined
<1>9. set["source_key"] = item.source /\ set["external_id"] = item.external
    BY <1>3, <1>4, <1>6, <1>8
<1> QED BY <1>2, <1>3, <1>4, <1>5, <1>6, <1>7, <1>8, <1>9

LEMMA KnownAssetFits ==
    ASSUME NEW item, ~IsNew(item), NEW request, request[1] = "ingest", NEW plan
    PROVE  Fits(UpdateAsset(item), request, plan, db)
<1>1. PICK row, id, set :
         row = Current(item) /\ id = row.asset_id /\ set = UpdatedColumns(item)
    OBVIOUS
<1>2. UpdateAsset(item) = Update("asset_table", [asset_id |-> {id}], set)
    BY <1>1 DEF UpdateAsset
<1>3. row \in ExistingAssets(item)
    BY <1>1 DEF IsNew, Current, The
<1>4. row \in db["asset_table"] /\ row.source_key = item.source /\ row.external_id = item.external
    BY <1>3 DEF ExistingAssets
<1>5. /\ DOMAIN set \subseteq {"source_key", "external_id", "field_count", "is_deleted",
                             "table_name", "table_desc"}
      /\ {"source_key", "external_id"} \subseteq DOMAIN set
      /\ set.source_key = item.source /\ set.external_id = item.external
    BY <1>1, UpdatedAre
<1>6. /\ "asset_id" \notin DOMAIN set
      /\ "owner_name" \notin DOMAIN set /\ "field_cn_name" \notin DOMAIN set
    BY <1>5
<1>7. Fits(Update("asset_table", [asset_id |-> {id}], set), request, plan, db)
    BY <1>1, <1>4, <1>5, <1>6, AssetUpdateFits
<1> QED BY <1>2, <1>7

LEMMA AssetStatementsFit ==
    ASSUME CatalogueOK(db), NEW item, IsList(item.fields),
           NEW id, IsNew(item) => id \in Int /\ id < 0, NEW k,
           NEW request, request[1] = "ingest", NEW plan
    PROVE  PartFits(AssetStatements(item, id, k), request, plan, db)
<1>1. PICK last : last = AssetChange(k)
    OBVIOUS
<1>2. Fits(last, request, plan, db)
    BY <1>1, ChangeFits
<1>3. CASE IsNew(item)
    <2>1. PICK x : x = InsertAsset(item, id)
        OBVIOUS
    <2>2. Fits(x, request, plan, db)
        BY <1>3, <2>1, NewAssetFits
    <2>3. PartFits(<<x, last>>, request, plan, db)
        BY <1>2, <2>2, TwoFit
    <2>4. AssetStatements(item, id, k) = <<x, last>>
        BY <1>1, <1>3, <2>1 DEF AssetStatements
    <2> QED BY <2>3, <2>4
<1>4. CASE ~IsNew(item)
    <2>1. PICK x, part : /\ x = UpdateAsset(item)
                         /\ part = IF item.listed THEN FieldMergeStatements(item) ELSE <<>>
        OBVIOUS
    <2>2. Fits(x, request, plan, db)
        BY <1>4, <2>1, KnownAssetFits
    <2>3. PartFits(part, request, plan, db)
        <3>1. PartFits(FieldMergeStatements(item), request, plan, db)
            BY MergeFits
        <3>2. PartFits(<<>>, request, plan, db)
            BY NothingFits
        <3> QED BY <2>1, <3>1, <3>2
    <2>4. PartFits(<<x>>, request, plan, db) /\ PartFits(<<last>>, request, plan, db)
        BY <1>2, <2>2, OneFits
    <2>5. PartFits(<<x>> \o part, request, plan, db)
        BY <2>3, <2>4, BothFit
    <2>6. PartFits((<<x>> \o part) \o <<last>>, request, plan, db)
        BY <2>4, <2>5, BothFit
    <2>7. AssetStatements(item, id, k) = (<<x>> \o part) \o <<last>>
        BY <1>1, <1>4, <2>1 DEF AssetStatements
    <2> QED BY <2>6, <2>7
<1> QED BY <1>3, <1>4

LEMMA InsertsAre ==
    ASSUME NEW item, IsList(item.fields)
    PROVE  IsList(Inserts(item))
BY InsertedIs, NoList DEF Inserts

LEMMA FieldRowsFit ==
    ASSUME NEW item, IsList(item.fields), NEW id, NEW first,
           NEW request, request[1] = "ingest", NEW plan, NEW d
    PROVE  PartFits(FieldRows(item, id, first), request, plan, d)
<1>1. PICK inserted, orders : /\ inserted = Inserts(item)
                              /\ orders = InsertOrders(ActiveFields(item), inserted)
    OBVIOUS
<1>2. PICK n \in Nat : DOMAIN inserted = 1 .. n
    BY <1>1, InsertsAre, ListIs
<1> DEFINE Kept(i) == [field_id |-> New(first + i - 1), asset_id |-> id, is_deleted |-> FALSE,
                       field_cn_name |-> inserted[i].name]
           Told(i) == ResolveNewField(inserted[i], orders[i])
           rows == [i \in 1 .. n |-> Insert("asset_field", Joined(Kept(i), Told(i)))]
<1>3. FieldRows(item, id, first) = rows
    BY <1>1, <1>2 DEF FieldRows
<1>4. \A i : DOMAIN Kept(i) = {"field_id", "asset_id", "is_deleted", "field_cn_name"}
    OBVIOUS
<1>5. \A i : DOMAIN Told(i) = {"field_name", "data_type", "nullable", "field_order", "field_desc"}
    BY DEF ResolveNewField
<1> HIDE DEF Kept, Told
<1>6. ASSUME NEW i \in 1 .. n PROVE Fits(rows[i], request, plan, d)
    <2>1. PICK row : row = Joined(Kept(i), Told(i))
        OBVIOUS
    <2>2. DOMAIN row = DOMAIN Kept(i) \cup DOMAIN Told(i)
        BY <2>1, JoinedIs
    <2>3. DOMAIN row = FieldColumns
        BY <1>4, <1>5, <2>2 DEF FieldColumns
    <2>4. Fits(Insert("asset_field", row), request, plan, d)
        BY <2>3, FieldInsertFits
    <2> QED BY <2>1, <2>4
<1>7. rows = [i \in 1 .. n |-> rows[i]]
    OBVIOUS
<1> HIDE DEF rows
<1>8. PartFits(rows, request, plan, d)
    BY <1>6, <1>7, ManyFit
<1> QED BY <1>3, <1>8

LEMMA PersistFits ==
    ASSUME CatalogueOK(db), NEW actions, IsList(actions),
           \A i \in DOMAIN actions : IsList(actions[i].fields),
           NEW request, request[1] = "ingest", NEW plan
    PROVE  PartFits(PersistAssets(actions), request, plan, db)
<1> DEFINE new(k)   == {j \in 1 .. k - 1 : IsNew(actions[j])}
           id(k)    == IF IsNew(actions[k]) THEN New(Cardinality(new(k)))
                       ELSE Current(actions[k]).asset_id
           first(k) == Len(FlattenSeq([j \in 1 .. k - 1 |-> Inserts(actions[j])]))
           assets   == [k \in DOMAIN actions |-> AssetStatements(actions[k], id(k), k - 1)]
           fields   == [k \in DOMAIN actions |-> FieldRows(actions[k], id(k), first(k))]
<1>1. PersistAssets(actions) = FlattenSeq(assets) \o FlattenSeq(fields)
    BY DEF PersistAssets
<1>2. PICK n \in Nat : DOMAIN actions = 1 .. n
    BY ListIs
<1>3. ASSUME NEW k \in 1 .. n, IsNew(actions[k]) PROVE id(k) \in Int /\ id(k) < 0
    <2>1. new(k) \subseteq 1 .. k - 1 /\ k - 1 \in Int
        OBVIOUS
    <2>2. id(k) = New(Cardinality(new(k)))
        BY <1>3
    <2> HIDE DEF new, id
    <2>3. IsFiniteSet(1 .. k - 1)
        <3>1. PICK last \in Int : last = k - 1
            BY <2>1
        <3>2. IsFiniteSet(1 .. last)
            BY FS_Interval
        <3> QED BY <3>1, <3>2
    <2>4. Cardinality(new(k)) \in Nat
        BY <2>1, <2>3, FinitePart, FS_CardinalityType
    <2> QED BY <2>2, <2>4 DEF New
<1> HIDE DEF id, first
<1>4. ASSUME NEW k \in 1 .. n
      PROVE  /\ PartFits(assets[k], request, plan, db)
             /\ PartFits(fields[k], request, plan, db)
    <2>1. PICK item, here, from : item = actions[k] /\ here = id(k) /\ from = first(k)
        OBVIOUS
    <2>2. IsList(item.fields) /\ (IsNew(item) => here \in Int /\ here < 0)
        BY <1>2, <1>3, <2>1
    <2>3. PartFits(AssetStatements(item, here, k - 1), request, plan, db)
        BY <2>2, AssetStatementsFit
    <2>4. PartFits(FieldRows(item, here, from), request, plan, db)
        BY <2>2, FieldRowsFit
    <2> QED BY <1>2, <2>1, <2>3, <2>4
<1>5. assets = [k \in 1 .. n |-> assets[k]] /\ fields = [k \in 1 .. n |-> fields[k]]
    BY <1>2
<1> HIDE DEF assets, fields
<1>6. PartFits(FlattenSeq(assets), request, plan, db)
    BY <1>4, <1>5, FlatFits
<1>7. PartFits(FlattenSeq(fields), request, plan, db)
    BY <1>4, <1>5, FlatFits
<1> QED BY <1>1, <1>6, <1>7, BothFit

LEMMA IngestFits ==
    ASSUME CatalogueOK(db), NEW s, IngestAssets(s)
    PROVE  \E request, statements, found :
              Begin(s, request, statements, found) /\ PlanFits(request, statements, db)
<1>1. PICK payload \in IngestRequests :
         Begin(s, <<"ingest", payload>>, PersistAssets(ClassifyAssets(payload)), {})
    BY DEF IngestAssets
<1>2. IsList(payload) /\ \A i \in DOMAIN payload : IsList(payload[i].fields)
    BY <1>1, IngestAssumption
<1> DEFINE changed == {item \in ToSet(payload) : ~IsUnchanged(item)}
<1>3. PICK actions : actions = ClassifyAssets(payload)
    OBVIOUS
<1>4. actions = Within(payload, changed)
    BY <1>3 DEF ClassifyAssets
<1> HIDE DEF changed
<1>5. IsList(actions) /\ ToSet(actions) \subseteq ToSet(payload)
    BY <1>2, <1>4, WithinIs
<1>6. \A i \in DOMAIN actions : IsList(actions[i].fields)
    <2>1. \A item \in ToSet(payload) : IsList(item.fields)
        BY <1>2 DEF ToSet
    <2>2. \A i \in DOMAIN actions : actions[i] \in ToSet(actions)
        BY <1>5, ListIs
    <2> QED BY <1>5, <2>1, <2>2
<1>7. PICK request, statements : /\ request = <<"ingest", payload>>
                                 /\ statements = PersistAssets(actions)
    OBVIOUS
<1>8. request[1] = "ingest"
    BY <1>7
<1>9. PartFits(statements, request, ToSet(statements), db)
    BY <1>5, <1>6, <1>7, <1>8, PersistFits
<1>10. PlanFits(request, statements, db)
    BY <1>9, WholeFits
<1> QED BY <1>1, <1>3, <1>7, <1>10

-----------------------------------------------------------------------------
(* The plans of edits by hand                                               *)

\* A request has a plan, and the plan fits.
Fitting(s) ==
    \E request, statements, found :
        Begin(s, request, statements, found) /\ PlanFits(request, statements, db)

LEMMA InsertFieldsFit ==
    ASSUME NEW id, NEW fields, IsList(fields), NEW base, NEW request, NEW plan, NEW d,
           fields # <<>> => \/ id = New(0) /\ \E other \in plan : InsertsAsset(other)
                            \/ Unbound(d, id)
    PROVE  PartFits(InsertFields(id, fields, base), request, plan, d)
<1>1. PICK n \in Nat : DOMAIN fields = 1 .. n
    BY ListIs
<1> DEFINE Kept(i) == [field_id |-> New(i - 1), asset_id |-> id, is_deleted |-> FALSE]
           Typed(i) == FormField(fields[i], base + i)
           rows == [i \in 1 .. n |-> Insert("asset_field", Joined(Kept(i), Typed(i)))]
<1>2. InsertFields(id, fields, base) = rows
    BY <1>1 DEF InsertFields
<1>3. \A i : DOMAIN Kept(i) = {"field_id", "asset_id", "is_deleted"} /\ Kept(i)["asset_id"] = id
    OBVIOUS
<1>4. \A i : DOMAIN Typed(i) = {"field_name", "field_cn_name", "data_type", "nullable",
                                "field_order", "field_desc"}
    BY DEF FormField
<1> HIDE DEF Kept, Typed
<1>5. ASSUME NEW i \in 1 .. n PROVE Fits(rows[i], request, plan, d)
    <2>1. PICK given, typed, row : /\ given = Kept(i) /\ typed = Typed(i)
                                   /\ row = Joined(given, typed)
        OBVIOUS
    <2>2. DOMAIN row = DOMAIN given \cup DOMAIN typed /\ \A c \in DOMAIN given : row[c] = given[c]
        BY <2>1 DEF Joined
    <2>3. DOMAIN row = FieldColumns
        BY <1>3, <1>4, <2>1, <2>2 DEF FieldColumns
    <2>4. row["asset_id"] = id
        BY <1>3, <2>1, <2>2
    <2>5. fields # <<>>
        BY <1>1
    <2>6. Fits(Insert("asset_field", row), request, plan, d)
        BY <2>3, <2>4, <2>5, FieldInsertFits
    <2> QED BY <2>1, <2>6
<1>6. rows = [i \in 1 .. n |-> rows[i]]
    OBVIOUS
<1> HIDE DEF rows
<1>7. PartFits(rows, request, plan, d)
    BY <1>5, <1>6, ManyFit
<1> QED BY <1>2, <1>7

\* What a form writes of a field: of an asset a source maintains, the portal's column.
LEMMA FormUpdateIs ==
    ASSUME NEW row, NEW bound, NEW field
    PROVE  /\ DOMAIN FormUpdate(row, bound, field) \cap {"field_id", "asset_id", "is_deleted"} = {}
           /\ bound => DOMAIN FormUpdate(row, bound, field) = {"field_cn_name"}
           /\ ~bound => FormUpdate(row, bound, field).field_name = field.name
<1>1. CASE bound
    BY <1>1 DEF FormUpdate
<1>2. CASE ~bound
    BY <1>2 DEF FormUpdate, FormField
<1> QED BY <1>1, <1>2

LEMMA ReconcileFits ==
    ASSUME CatalogueOK(db), NEW asset \in db["asset_table"], NEW fields, IsList(fields),
           KeepsSourceFields(asset, fields),
           NEW request, request[1] # "ingest", NEW plan
    PROVE  PartFits(ReconcileFields(asset, fields), request, plan, db)
<1> DEFINE bound   == SourceBound(asset)
           active  == AssetFields(asset.asset_id)
           gone    == Deleted(active, fields)
           S       == {pair \in Matched(active, fields) : FormChanges(pair[1], bound, pair[2])}
           changed == SetToSeq(S)
           new     == Inserted(active, fields)
           first   == IF gone = {} THEN <<>>
                      ELSE <<Update("asset_field", [field_id |-> {row.field_id : row \in gone}],
                                    [is_deleted |-> TRUE])>>
           second  == [i \in DOMAIN changed |->
                         Update("asset_field", [field_id |-> {changed[i][1].field_id}],
                                FormUpdate(changed[i][1], bound, changed[i][2]))]
           third   == InsertFields(asset.asset_id, new, Highest({row.field_order : row \in active}))
<1>1. ReconcileFields(asset, fields) = (first \o second) \o third
    BY DEF ReconcileFields
<1>2. PartFits(first, request, plan, db)
    BY GoneFits
<1>3. /\ active \subseteq db["asset_field"] /\ IsFiniteSet(active)
      /\ \A f \in active : f.asset_id = asset.asset_id
    BY AssetFieldsAre DEF CatalogueOK
<1>4. S \in SUBSET Matched(active, fields)
    OBVIOUS
<1>5. bound => new = <<>>
    BY DEF KeepsSourceFields
<1>6. ~bound => Unbound(db, asset.asset_id)
    BY DEF Unbound
<1>7. IsList(new)
    BY InsertedIs
<1> HIDE DEF S, active, bound, gone, new
<1>8. /\ IsList(changed)
      /\ \A i \in DOMAIN changed : /\ changed[i][1] \in active
           /\ FieldKey(changed[i][1].field_name) = FieldKey(changed[i][2].name)
    BY <1>3, <1>4, MatchedIs
<1> HIDE DEF changed, first
<1>9. PICK n \in Nat : DOMAIN changed = 1 .. n
    BY <1>8, ListIs
<1>10. ASSUME NEW i \in 1 .. n PROVE Fits(second[i], request, plan, db)
    <2>1. PICK f, field, set : f = changed[i][1] /\ field = changed[i][2]
                               /\ set = FormUpdate(f, bound, field)
        OBVIOUS
    <2>2. /\ f \in db["asset_field"] /\ f.asset_id = asset.asset_id
          /\ FieldKey(f.field_name) = FieldKey(field.name)
        BY <1>3, <1>8, <1>9, <2>1
    <2>3. /\ DOMAIN set \cap {"field_id", "asset_id", "is_deleted"} = {}
          /\ bound => DOMAIN set = {"field_cn_name"}
          /\ ~bound => set.field_name = field.name
        BY <2>1, FormUpdateIs
    <2>4. DOMAIN set \cap SourceColumns = {} \/ Unbound(db, f.asset_id)
        <3>1. "field_cn_name" \notin SourceColumns
            BY DEF SourceColumns
        <3> QED BY <1>6, <2>2, <2>3, <3>1
    <2>5. "field_name" \in DOMAIN set => FieldKey(f.field_name) = FieldKey(set.field_name)
        BY <2>2, <2>3
    <2>6. Fits(Update("asset_field", [field_id |-> {f.field_id}], set), request, plan, db)
        BY <2>2, <2>3, <2>4, <2>5, FieldUpdateFits
    <2> QED BY <1>9, <2>1, <2>6
<1>11. second = [i \in 1 .. n |-> second[i]]
    BY <1>9
<1> HIDE DEF second
<1>12. PartFits(second, request, plan, db)
    BY <1>10, <1>11, ManyFit
<1>13. PartFits(third, request, plan, db)
    <2>1. PICK id, base : /\ id = asset.asset_id
                          /\ base = Highest({row.field_order : row \in active})
        OBVIOUS
    <2>2. PartFits(InsertFields(id, new, base), request, plan, db)
        BY <1>5, <1>6, <1>7, <2>1, InsertFieldsFit
    <2> QED BY <2>1, <2>2
<1> HIDE DEF third
<1>14. PartFits(first \o second, request, plan, db)
    BY <1>2, <1>12, BothFit
<1> QED BY <1>1, <1>13, <1>14, BothFit

LEMMA CreateFits ==
    ASSUME NEW s, CreateAssetTable(s)
    PROVE  Fitting(s)
<1> DEFINE Asset(form) == [asset_id |-> New(0), source_key |-> NoSource, external_id |-> Null,
              table_name |-> form.name, table_desc |-> Given(form.desc, Null),
              owner_name |-> form.owner, field_count |-> Len(form.fields), is_deleted |-> FALSE]
<1>1. PICK form \in AssetPayloads :
         Begin(s, <<"create">>, <<Insert("asset_table", Asset(form))>>
               \o InsertFields(New(0), form.fields, 0) \o <<AssetChange(0)>>, {})
    BY DEF CreateAssetTable
<1>2. PICK row, id : row = Asset(form) /\ id = New(0)
    OBVIOUS
<1>3. DOMAIN row = AssetColumns /\ row["asset_id"] = id
    BY <1>2 DEF AssetColumns
<1>4. id \in Int /\ id < 0
    BY <1>2 DEF New
<1>5. PICK x, rows, last, request, plan :
         /\ x = Insert("asset_table", row) /\ rows = InsertFields(id, form.fields, 0)
         /\ last = AssetChange(0) /\ request = <<"create">>
         /\ plan = ToSet((<<x>> \o rows) \o <<last>>)
    OBVIOUS
<1> HIDE DEF Asset
<1>6. request[1] # "ingest"
    BY <1>5
<1>7. IsList(form.fields)
    BY AssetAssumption
<1>8. Fits(x, request, plan, db) /\ Fits(last, request, plan, db)
    BY <1>2, <1>3, <1>4, <1>5, AssetInsertFits, ChangeFits
<1>9. PartFits(<<x>>, request, plan, db) /\ PartFits(<<last>>, request, plan, db)
    BY <1>8, OneFits
<1>10. IsList(rows)
    <2>1. PartFits(InsertFields(id, form.fields, 0), request, {x}, db)
        <3>1. InsertsAsset(x)
            BY <1>2, <1>3, <1>5, InsertIs DEF InsertsAsset
        <3> QED BY <1>2, <1>7, <3>1, InsertFieldsFit
    <2> QED BY <1>5, <2>1 DEF PartFits
<1>11. InsertsAsset(x) /\ x \in plan
    <2>1. InsertsAsset(x)
        BY <1>2, <1>3, <1>5, InsertIs DEF InsertsAsset
    <2>2. PICK a : a = <<x>> \o rows
        OBVIOUS
    <2>3. IsList(<<x>>) /\ x \in ToSet(<<x>>) /\ IsList(<<last>>)
        BY Lists
    <2>4. IsList(a) /\ x \in ToSet(a)
        BY <1>10, <2>2, <2>3, Joins
    <2>5. x \in ToSet(a \o <<last>>)
        BY <2>3, <2>4, Joins
    <2> QED BY <1>5, <2>1, <2>2, <2>5
<1>12. PartFits(rows, request, plan, db)
    BY <1>2, <1>5, <1>7, <1>11, InsertFieldsFit
<1>13. PartFits((<<x>> \o rows) \o <<last>>, request, plan, db)
    BY <1>9, <1>12, BothFit
<1>14. PlanFits(request, (<<x>> \o rows) \o <<last>>, db)
    BY <1>5, <1>13, WholeFits
<1> QED BY <1>1, <1>2, <1>5, <1>14 DEF Fitting

LEMMA ThreeFit ==
    ASSUME NEW x, NEW y, NEW z, NEW request, NEW plan, NEW d,
           Fits(x, request, plan, d), Fits(y, request, plan, d), Fits(z, request, plan, d)
    PROVE  PartFits(<<x, y, z>>, request, plan, d)
<1>1. PICK list : list = <<x, y, z>>
    OBVIOUS
<1>2. IsList(list) /\ ToSet(list) = {x, y, z}
    BY <1>1, ListOfThree
<1>3. PartFits(list, request, plan, d)
    BY <1>2 DEF PartFits
<1> QED BY <1>1, <1>3

\* The columns of an asset that a form writes.
FormColumns(row, form, active) ==
    Joined(IF SourceBound(row) THEN <<>>
           ELSE [table_name |-> form.name, table_desc |-> Given(form.desc, Null)],
           [owner_name |-> form.owner, field_count |-> CountAfter(active, form.fields)])

LEMMA FormColumnsAre ==
    ASSUME NEW row, NEW form, NEW active
    PROVE  /\ DOMAIN FormColumns(row, form, active)
                \subseteq {"table_name", "table_desc", "owner_name", "field_count"}
           /\ SourceBound(row) =>
                DOMAIN FormColumns(row, form, active) = {"owner_name", "field_count"}
<1> DEFINE a == IF SourceBound(row) THEN <<>>
                ELSE [table_name |-> form.name, table_desc |-> Given(form.desc, Null)]
           b == [owner_name |-> form.owner, field_count |-> CountAfter(active, form.fields)]
<1>1. PICK own, more : own = a /\ more = b
    OBVIOUS
<1>2. DOMAIN more = {"owner_name", "field_count"}
    BY <1>1
<1>3. SourceBound(row) => DOMAIN own = {}
    <2>1. DOMAIN <<>> = {}
        OBVIOUS
    <2> QED BY <1>1, <2>1
<1>4. ~SourceBound(row) => DOMAIN own = {"table_name", "table_desc"}
    BY <1>1
<1>5. FormColumns(row, form, active) = Joined(own, more)
    BY <1>1 DEF FormColumns
<1> HIDE DEF a, b
<1>6. DOMAIN Joined(own, more) = DOMAIN own \cup DOMAIN more
    BY JoinedIs
<1> QED BY <1>2, <1>3, <1>4, <1>5, <1>6

LEMMA FormUpdateFits ==
    ASSUME NEW row \in db["asset_table"], NEW form, NEW active,
           NEW request, request[1] # "ingest", NEW plan
    PROVE  Fits(Update("asset_table", [asset_id |-> {row.asset_id}],
                       FormColumns(row, form, active)), request, plan, db)
<1>1. PICK id, set : id = row.asset_id /\ set = FormColumns(row, form, active)
    OBVIOUS
<1>2. /\ DOMAIN set \subseteq {"table_name", "table_desc", "owner_name", "field_count"}
      /\ SourceBound(row) => DOMAIN set = {"owner_name", "field_count"}
    BY <1>1, FormColumnsAre
<1>3. ~SourceBound(row) => Unbound(db, id)
    BY <1>1 DEF Unbound
<1>4. /\ "asset_id" \notin DOMAIN set /\ DOMAIN set \cap {"source_key", "external_id"} = {}
      /\ DOMAIN set \cap {"table_name", "table_desc"} = {} \/ Unbound(db, id)
    BY <1>2, <1>3
<1>5. Fits(Update("asset_table", [asset_id |-> {id}], set), request, plan, db)
    BY <1>4, AssetUpdateFits
<1> QED BY <1>1, <1>5

LEMMA UpdateTableFits ==
    ASSUME CatalogueOK(db), NEW s, UpdateAssetTable(s)
    PROVE  Fitting(s)
<1>1. PICK row, form, found :
         /\ row \in Live("asset_table") /\ form \in AssetPayloads
         /\ KeepsSourceFields(row, form.fields)
         /\ Begin(s, <<"update", row.asset_id>>,
              <<Update("asset_table", [asset_id |-> {row.asset_id}],
                       FormColumns(row, form, AssetFields(row.asset_id)))>>
              \o ReconcileFields(row, form.fields) \o <<AssetChange(0)>>, found)
    BY DEF UpdateAssetTable, FormColumns
<1>2. row \in db["asset_table"] /\ IsList(form.fields)
    BY <1>1, AssetAssumption DEF Live
<1>3. PICK x, part, last, request, plan :
         /\ x = Update("asset_table", [asset_id |-> {row.asset_id}],
                       FormColumns(row, form, AssetFields(row.asset_id)))
         /\ part = ReconcileFields(row, form.fields) /\ last = AssetChange(0)
         /\ request = <<"update", row.asset_id>> /\ plan = ToSet((<<x>> \o part) \o <<last>>)
    OBVIOUS
<1>4. request[1] # "ingest"
    BY <1>3
<1>5. Fits(x, request, plan, db) /\ Fits(last, request, plan, db)
    BY <1>2, <1>3, <1>4, FormUpdateFits, ChangeFits
<1>6. PartFits(<<x>>, request, plan, db) /\ PartFits(<<last>>, request, plan, db)
    BY <1>5, OneFits
<1>7. PartFits(part, request, plan, db)
    BY <1>1, <1>2, <1>3, <1>4, ReconcileFits
<1>8. PartFits((<<x>> \o part) \o <<last>>, request, plan, db)
    BY <1>6, <1>7, BothFit
<1>9. PlanFits(request, (<<x>> \o part) \o <<last>>, db)
    BY <1>3, <1>8, WholeFits
<1> QED BY <1>1, <1>3, <1>9 DEF Fitting

\* The count, and the mark, of an asset.
LEMMA CountFits ==
    ASSUME NEW id, NEW set, DOMAIN set \subseteq {"field_count", "is_deleted"},
           NEW request, NEW plan, NEW d
    PROVE  Fits(Update("asset_table", [asset_id |-> {id}], set), request, plan, d)
<1>1. /\ "asset_id" \notin DOMAIN set /\ DOMAIN set \cap {"source_key", "external_id"} = {}
      /\ DOMAIN set \cap {"table_name", "table_desc"} = {}
      /\ "owner_name" \notin DOMAIN set /\ "field_cn_name" \notin DOMAIN set
    OBVIOUS
<1> QED BY <1>1, AssetUpdateFits

LEMMA UpdateFieldsFits ==
    ASSUME CatalogueOK(db), NEW s, UpdateAssetFields(s)
    PROVE  Fitting(s)
<1> DEFINE Counted(row, form) ==
             [field_count |-> CountAfter(AssetFields(row.asset_id), form.fields)]
<1>1. PICK row, form, found :
         /\ row \in Live("asset_table") /\ form \in AssetPayloads
         /\ KeepsSourceFields(row, form.fields)
         /\ Begin(s, <<"update", row.asset_id>>,
              ReconcileFields(row, form.fields)
              \o <<Update("asset_table", [asset_id |-> {row.asset_id}], Counted(row, form)),
                   AssetChange(0)>>, found)
    BY DEF UpdateAssetFields
<1>2. row \in db["asset_table"] /\ IsList(form.fields)
    BY <1>1, AssetAssumption DEF Live
<1>3. PICK id, set : id = row.asset_id /\ set = Counted(row, form)
    OBVIOUS
<1>4. DOMAIN set \subseteq {"field_count", "is_deleted"}
    BY <1>3
<1> HIDE DEF Counted
<1>5. PICK x, part, last, request, plan :
         /\ x = Update("asset_table", [asset_id |-> {id}], set)
         /\ part = ReconcileFields(row, form.fields) /\ last = AssetChange(0)
         /\ request = <<"update", row.asset_id>> /\ plan = ToSet(part \o <<x, last>>)
    OBVIOUS
<1>6. request[1] # "ingest"
    BY <1>5
<1>7. Fits(x, request, plan, db) /\ Fits(last, request, plan, db)
    BY <1>4, <1>5, CountFits, ChangeFits
<1>8. PartFits(part, request, plan, db)
    BY <1>1, <1>2, <1>5, <1>6, ReconcileFits
<1>9. PartFits(<<x, last>>, request, plan, db)
    BY <1>7, TwoFit
<1>10. PartFits(part \o <<x, last>>, request, plan, db)
    BY <1>8, <1>9, BothFit
<1>11. PlanFits(request, part \o <<x, last>>, db)
    BY <1>5, <1>10, WholeFits
<1> QED BY <1>1, <1>3, <1>5, <1>11 DEF Fitting

LEMMA DeleteFits ==
    ASSUME NEW s, DeleteAssetTable(s)
    PROVE  Fitting(s)
<1> DEFINE Marked == [field_count |-> 0, is_deleted |-> TRUE]
           FieldsOf(id) == [asset_id |-> {id}, is_deleted |-> {FALSE}]
<1>1. PICK row, found :
         Begin(s, <<"delete", row.asset_id>>,
           <<AssetChange(0),
             Update("asset_field", FieldsOf(row.asset_id), [is_deleted |-> TRUE]),
             Update("asset_table", [asset_id |-> {row.asset_id}], Marked)>>, found)
    BY DEF DeleteAssetTable
<1>2. PICK id, set, where : id = row.asset_id /\ set = Marked /\ where = FieldsOf(id)
    OBVIOUS
<1>3. DOMAIN set \subseteq {"field_count", "is_deleted"}
    BY <1>2
<1> HIDE DEF Marked, FieldsOf
<1>4. PICK x, y, z, request, plan :
         /\ x = AssetChange(0) /\ y = Update("asset_field", where, [is_deleted |-> TRUE])
         /\ z = Update("asset_table", [asset_id |-> {id}], set)
         /\ request = <<"delete", row.asset_id>> /\ plan = ToSet(<<x, y, z>>)
    OBVIOUS
<1>5. Fits(x, request, plan, db) /\ Fits(y, request, plan, db) /\ Fits(z, request, plan, db)
    BY <1>3, <1>4, ChangeFits, MarkFits, CountFits
<1>6. PartFits(<<x, y, z>>, request, plan, db)
    BY <1>5, ThreeFit
<1>7. PlanFits(request, <<x, y, z>>, db)
    BY <1>4, <1>6, WholeFits
<1> QED BY <1>1, <1>2, <1>4, <1>7 DEF Fitting

LEMMA AssetOperationFits ==
    ASSUME CatalogueOK(db), NEW s, AssetOperation(s)
    PROVE  Fitting(s)
<1>1. CASE IngestAssets(s)
    BY <1>1, IngestFits DEF Fitting
<1>2. CASE CreateAssetTable(s)
    BY <1>2, CreateFits
<1>3. CASE UpdateAssetTable(s)
    BY <1>3, UpdateTableFits
<1>4. CASE UpdateAssetFields(s)
    BY <1>4, UpdateFieldsFits
<1>5. CASE DeleteAssetTable(s)
    BY <1>5, DeleteFits
<1> QED BY <1>1, <1>2, <1>3, <1>4, <1>5 DEF AssetOperation

-----------------------------------------------------------------------------
(* The catalogue, whatever requests overlap                                 *)

LEMMA CatalogueBegins == Init => CatalogueInv
<1> SUFFICES ASSUME Init PROVE CatalogueInv
    OBVIOUS
<1>1. /\ area \in Areas /\ db = Seed(area) /\ session = [s \in Sessions |-> Idle]
    BY DEF Init
<1>2. /\ DOMAIN Seed(area) = Tables
      /\ \A t \in Tables : IsFiniteSet(Seed(area)[t])
      /\ \A t \in Tables : \A a, b \in Seed(area)[t] : a[Key[t]] = b[Key[t]] => a = b
      /\ \A row \in Seed(area)["asset_table"] :
           /\ DOMAIN row = {"asset_id", "source_key", "external_id", "owner_name", "field_count",
                            "is_deleted", "table_name", "table_desc"}
           /\ row.asset_id \in Nat
      /\ \A row \in Seed(area)["asset_field"] :
           DOMAIN row = {"field_id", "asset_id", "is_deleted", "field_cn_name", "field_name",
                         "data_type", "nullable", "field_order", "field_desc"}
    BY <1>1, SeedAssumption
<1>3. TablesOK(db)
    BY <1>1, <1>2 DEF TablesOK
<1>4. /\ \A a, b \in db["asset_table"] : a["asset_id"] = b["asset_id"] => a = b
      /\ \A a, b \in db["asset_field"] : a["field_id"] = b["field_id"] => a = b
    BY <1>1, <1>2, AssetTablesAre
<1>5. CatalogueOK(db)
    BY <1>1, <1>2, <1>3, <1>4 DEF CatalogueOK, AssetColumns, FieldColumns
<1>6. DOMAIN session = Sessions /\ \A s \in Sessions : session[s] = Idle
    BY <1>1
<1>7. \A s \in Sessions : SessionFits(s)
    BY <1>6, NothingPlanned DEF SessionFits
<1> QED BY <1>5, <1>6, <1>7 DEF CatalogueInv

\* What a step does to the catalogue.
Catalogued == CatalogueInv' /\ IdsKept(db, db')

LEMMA FittingKeepsCatalogue ==
    ASSUME CatalogueInv, NEW s \in Sessions, Fitting(s) \/ BeginsElsewhere(s)
    PROVE  Catalogued
<1>1. CASE Fitting(s)
    <2>1. CatalogueInv' /\ db' = db
        BY <1>1, BeginKeepsCatalogue DEF Fitting
    <2> QED BY <2>1, IdsKeptBySelf DEF Catalogued
<1>2. CASE BeginsElsewhere(s)
    <2>1. CatalogueInv' /\ db' = db
        BY <1>2, ElsewhereKeepsCatalogue
    <2> QED BY <2>1, IdsKeptBySelf DEF Catalogued
<1> QED BY <1>1, <1>2

LEMMA StoreWritesKeepCatalogue ==
    ASSUME CatalogueInv, NEW s \in Sessions, ChooseKeys(s) \/ Commit(s) \/ RollBack(s)
    PROVE  Catalogued
<1>1. CASE ChooseKeys(s)
    <2>1. CatalogueInv' /\ db' = db
        BY <1>1, ChooseKeysKeepsCatalogue
    <2> QED BY <2>1, IdsKeptBySelf DEF Catalogued
<1>2. CASE Commit(s)
    BY <1>2, CommitKeepsCatalogue DEF Catalogued
<1>3. CASE RollBack(s)
    <2>1. CatalogueInv' /\ db' = db
        BY <1>3, RollBackKeepsCatalogue
    <2> QED BY <2>1, IdsKeptBySelf DEF Catalogued
<1> QED BY <1>1, <1>2, <1>3

LEMMA OperationsKeepCatalogue ==
    ASSUME CatalogueInv, NEW s \in Sessions, Operation(s)
    PROVE  Catalogued
<1>1. TablesOK(db) /\ CatalogueOK(db)
    BY DEF CatalogueInv, CatalogueOK
<1>2. CASE AssetOperation(s)
    BY <1>1, <1>2, AssetOperationFits, FittingKeepsCatalogue
<1>3. CASE PushOperation(s)
    BY <1>1, <1>3, PushElsewhere, FittingKeepsCatalogue
<1>4. CASE ApiOperation(s)
    BY <1>4, ApiElsewhere, FittingKeepsCatalogue
<1>5. CASE UpstreamOperation(s)
    BY <1>5, UpstreamElsewhere, FittingKeepsCatalogue
<1>6. CASE ImportMapping(s)
    BY <1>6, ImportElsewhere, FittingKeepsCatalogue
<1>7. CASE MetricOperation(s)
    BY <1>7, MetricsElsewhere, FittingKeepsCatalogue
<1>8. CASE TermOperation(s)
    BY <1>8, TermsElsewhere, FittingKeepsCatalogue
<1> QED BY <1>2, <1>3, <1>4, <1>5, <1>6, <1>7, <1>8 DEF Operation

LEMMA StayingIsCatalogued ==
    ASSUME CatalogueInv, UNCHANGED storeVars
    PROVE  Catalogued
BY StaysCatalogue, IdsKeptBySelf DEF Catalogued

LEMMA AdministrationKeepsCatalogue ==
    ASSUME CatalogueInv, AdministrationStep(area)
    PROVE  Catalogued
<1>1. CASE AccountStep
    BY <1>1, StayingIsCatalogued DEF AccountStep
<1>2. CASE MenuStep
    <2>1. PICK s \in Sessions : MenuOperation(s) \/ Write(s)
        BY <1>2 DEF MenuStep
    <2> QED BY <2>1, MenusElsewhere, FittingKeepsCatalogue, StoreWritesKeepCatalogue DEF Write
<1>3. CASE StatisticStep
    <2>1. CASE \E s \in Sessions : UpdateMenuStatus(s) \/ Write(s)
        BY <2>1, MenusElsewhere, FittingKeepsCatalogue, StoreWritesKeepCatalogue DEF Write
    <2>2. CASE UNCHANGED storeVars
        BY <2>2, StayingIsCatalogued
    <2> QED BY <1>3, <2>1, <2>2 DEF StatisticStep
<1>4. CASE DictionaryStep
    <2>1. CASE \E s \in Sessions : DictionaryOperation(s)
        BY <2>1, CodesElsewhere, FittingKeepsCatalogue
    <2>2. CASE \E s \in Sessions : ChooseKeys(s) \/ CommitCodes(s) \/ RollBackCodes(s)
        BY <2>2, StoreWritesKeepCatalogue DEF CommitCodes, RollBackCodes
    <2>3. CASE UNCHANGED storeVars \/ \E s \in Sessions : Invalidate(s)
        BY <2>3, StayingIsCatalogued DEF Invalidate
    <2> QED BY <1>4, <2>1, <2>2, <2>3 DEF DictionaryStep
<1> QED BY <1>1, <1>2, <1>3, <1>4 DEF AdministrationStep

LEMMA CatalogueGoesOn == CatalogueInv /\ [Next]_vars => Catalogued
<1> SUFFICES ASSUME CatalogueInv, [Next]_vars PROVE Catalogued
    OBVIOUS
<1>1. CASE RegisterStep
    BY <1>1, OperationsKeepCatalogue, StoreWritesKeepCatalogue DEF RegisterStep
<1>2. CASE AdministrationStep(area)
    BY <1>2, AdministrationKeepsCatalogue
<1>3. CASE UNCHANGED storeVars
    BY <1>3, StayingIsCatalogued
<1> QED BY <1>1, <1>2, <1>3 DEF Next, vars

THEOREM CatalogueInvariant == Spec => []CatalogueInv
<1>1. CatalogueInv /\ [Next]_vars => CatalogueInv'
    BY CatalogueGoesOn DEF Catalogued
<1> QED BY <1>1, CatalogueBegins, PTL DEF Spec

\* An id is a lifetime identity (IdsAreForever), for any collectors and any people, any
\* requests of theirs, however they overlap, and whatever else is written meanwhile.
THEOREM IdsStayForever == Spec => IdsAreForever
<1> DEFINE Forever ==
      /\ \A row \in db["asset_table"] : \E now \in db'["asset_table"] :
           /\ now.asset_id = row.asset_id
           /\ now.source_key = row.source_key /\ now.external_id = row.external_id
      /\ \A row \in db["asset_field"] : \E now \in db'["asset_field"] :
           /\ now.field_id = row.field_id /\ now.asset_id = row.asset_id
           /\ FieldKey(now.field_name) = FieldKey(row.field_name)
           /\ row.is_deleted => now.is_deleted
<1>1. CatalogueInv /\ [Next]_vars => [Forever]_storeVars
    BY CatalogueGoesOn DEF Catalogued, IdsKept, SameAsset, SameField
<1>2. Spec => [][Forever]_storeVars
    <2> HIDE DEF Forever
    <2> QED BY <1>1, CatalogueInvariant, PTL DEF Spec
<1> QED BY <1>2, PTL DEF IdsAreForever

-----------------------------------------------------------------------------
(* Whose columns a commit writes                                            *)

LEMMA IngestionKeepsPortal ==
    ASSUME CatalogueInv, NEW s \in Sessions, Commit(s), session[s].request[1] = "ingest"
    PROVE  /\ PortalView(db)[1] \subseteq PortalView(db')[1]
           /\ PortalView(db)[2] \subseteq PortalView(db')[2]
<1>1. /\ IsList(session[s].statements) /\ CatalogueOK(db)
      /\ PlanFits(session[s].request, session[s].statements, db)
      /\ PlanKeepsIds(s) /\ RunAll(s).ok /\ db' = RunAll(s).db
    BY CommitsPlan
<1>2. PlanKeepsPortal(s)
    BY <1>1 DEF PlanFits, PlanKeepsPortal
<1>3. PortalKept(db, db')
    BY <1>1, <1>2, RunKeepsPortal
<1>4. {<<row.asset_id, row.owner_name>> : row \in db["asset_table"]}
        \subseteq {<<row.asset_id, row.owner_name>> : row \in db'["asset_table"]}
    BY <1>3 DEF PortalKept, SameOwner
<1>5. {<<row.field_id, row.field_cn_name>> : row \in db["asset_field"]}
        \subseteq {<<row.field_id, row.field_cn_name>> : row \in db'["asset_field"]}
    BY <1>3 DEF PortalKept, SameName
<1> QED BY <1>4, <1>5 DEF PortalView

LEMMA EditsKeepSource ==
    ASSUME CatalogueInv, NEW s \in Sessions, Commit(s), session[s].request[1] # "ingest",
           NEW row \in db["asset_table"], SourceBound(row)
    PROVE  /\ SourceView(db, row) = SourceView(db', row)
           /\ \E now \in db'["asset_table"] :
                /\ now.asset_id = row.asset_id
                /\ now.table_name = row.table_name /\ now.table_desc = row.table_desc
<1>1. /\ IsList(session[s].statements) /\ CatalogueOK(db)
      /\ PlanFits(session[s].request, session[s].statements, db)
      /\ PlanKeepsIds(s) /\ RunAll(s).ok /\ db' = RunAll(s).db
    BY CommitsPlan
<1>2. PlanKeepsSource(s)
    <2>1. KeyFits(session[s].statements, session[s].base)
        BY DEF CatalogueInv, SessionFits, Commit
    <2> QED BY <1>1, <2>1 DEF PlanFits, PlanKeepsSource
<1>3. HasSource(row, db') /\ SourceView(db, row) = SourceView(db', row)
    BY <1>1, <1>2, RunKeepsSource
<1> QED BY <1>3 DEF HasSource, Describes

\* Whoever overlaps, an ingestion leaves the columns of the portal alone, and an edit by
\* hand what a source maintains (OwnersKeepTheirColumns).
THEOREM OwnersKeepColumns == Spec => OwnersKeepTheirColumns
<1> DEFINE Owned ==
      \A s \in Sessions : Commit(s) =>
       IF session[s].request[1] = "ingest"
       THEN PortalView(db)[1] \subseteq PortalView(db')[1] /\ PortalView(db)[2] \subseteq PortalView(db')[2]
       ELSE \A row \in db["asset_table"] : SourceBound(row) =>
              /\ SourceView(db, row) = SourceView(db', row)
              /\ \E now \in db'["asset_table"] :
                   /\ now.asset_id = row.asset_id
                   /\ now.table_name = row.table_name /\ now.table_desc = row.table_desc
<1>1. CatalogueInv => Owned
    BY IngestionKeepsPortal, EditsKeepSource
<1>2. CatalogueInv /\ [Next]_vars => [Owned]_storeVars
    <2> HIDE DEF Owned
    <2> QED BY <1>1
<1>3. Spec => [][Owned]_storeVars
    <2> HIDE DEF Owned
    <2> QED BY <1>2, CatalogueInvariant, PTL DEF Spec
<1> QED BY <1>3, PTL DEF OwnersKeepTheirColumns
=============================================================================
