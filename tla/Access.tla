------------------------------- MODULE Access -------------------------------
(***************************************************************************)
(* Who gets in: the limiter of online login attempts, and the sessions,    *)
(* decisions and routes of those who have logged in.  The two share no     *)
(* state but the clock's pace, so a behaviour is about one of them.        *)
(***************************************************************************)
EXTENDS LoginProtection, TLC

CONSTANTS Names, CustomRoles, Threads, Clients, Grants, Lifetime, MaxDay(_), MaxChanges

\* get_auth_session_days
ASSUME LifetimeAssumption == Lifetime \in Nat \ {0}

VARIABLES area, router, profile, export, account, roles, changes, day, jar, request, answer,
          held, touched

Gate == INSTANCE AccessControl WITH now <- day, MaxTime <- MaxDay

gateVars == <<router, profile, export, account, roles, changes, day, jar, request, answer, held, touched>>

AccessInit ==
  \/ /\ area = "limiter"
     /\ Init
     /\ Gate!Closed
  \/ /\ area = "routes"
     /\ now = 0 /\ entry = <<>> /\ order = <<>> /\ key = <<>> /\ read = <<>>
     /\ pc = [a \in Attempt |-> "idle"]
     /\ Gate!Init

AccessNext ==
  /\ UNCHANGED area
  /\ \/ area = "limiter" /\ Next /\ UNCHANGED gateVars
     \/ area = "routes" /\ Gate!Next /\ UNCHANGED vars

AccessSpec == AccessInit /\ [][AccessNext]_<<area, vars, gateVars>>

\* The properties of the routes, see AccessControl.
WithinRights == Gate!WithinRights
SessionsEnd == Gate!SessionsEnd

(***************************************************************************)
(* The instance that is checked.                                           *)
(***************************************************************************)
\* Pairs are alike, and so are the threads of the login handlers.
Symmetry == Permutations(Key) \cup Permutations(Attempt)

\* Sessions grow old where nothing else is at stake.
MCMaxDay(where) == IF where = "auth" THEN 3 ELSE 0

Permissions == INSTANCE Routes

\* A custom role may do all there is, or nothing.
MCGrants == {{}, Permissions!MaintainerCodes \cup Permissions!SystemCodes}
=============================================================================
