--------------------------- MODULE Administration ---------------------------
(***************************************************************************)
(* What SystemManagementService keeps: accounts and roles, the menus with  *)
(* the statistics shown for them, and the dictionaries with their cache.   *)
(* The three share no table: each is an area of Registers.                 *)
(***************************************************************************)
EXTENDS PortalRegister, CommonCodes

CONSTANTS Names, Admin, Roles, Operations, None, MaxId,
          Administrators   \* sessions in the area of the accounts

VARIABLES users, roles, call

Accounts == INSTANCE AdminUsers WITH Sessions <- Administrators

adminVars == <<statsVars, codeVars, users, roles, call>>

AdministrationInit == StatsInit /\ CodesInit /\ Accounts!Init

Write(s) == ChooseKeys(s) \/ Commit(s) \/ RollBack(s)

AccountStep == Accounts!Next /\ UNCHANGED <<storeVars, statsVars, codeVars>>

MenuStep ==
  /\ \E s \in Sessions : MenuOperation(s) \/ Write(s)
  /\ UNCHANGED <<users, roles, call, statsVars, codeVars>>

\* Menus that are switched on and off while their statistics are asked for.
StatisticStep ==
  /\ \/ (\E s \in Sessions : UpdateMenuStatus(s) \/ Write(s)) /\ UNCHANGED statsVars
     \/ StatsStep /\ UNCHANGED storeVars
  /\ UNCHANGED <<users, roles, call, codeVars>>

DictionaryStep ==
  /\ \/ \E s \in Sessions : (DictionaryOperation(s) \/ ChooseKeys(s)) /\ UNCHANGED codeVars
     \/ \E s \in Sessions : Invalidate(s) \/ CommitCodes(s) \/ RollBackCodes(s)
     \/ CodeStep /\ UNCHANGED storeVars
  /\ UNCHANGED <<users, roles, call, statsVars>>

AdministrationStep(area) ==
  \/ area = "accounts" /\ AccountStep
  \/ area = "menus" /\ MenuStep
  \/ area = "statistics" /\ StatisticStep
  \/ area = "codes" /\ DictionaryStep

(***************************************************************************)
(* Properties.                                                             *)
(***************************************************************************)
\* No sequence of role changes, switches, renames and deletions takes the last
\* active administrator away; only an edit does.
OnlyEditLocksOut ==
  [][Accounts!ActiveAdmins # {} /\ Accounts!ActiveAdmins' = {}
       => \E s \in Administrators : Accounts!WriteEdit(s)]_<<users, roles, call>>

MenuIds(menus) == [i \in DOMAIN menus |-> menus[i].menu_id]

Swapped(seq, i, j) == [seq EXCEPT ![i] = seq[j], ![j] = seq[i]]

\* A move that no other write came between exchanges two neighbours in the
\* menu and moves nothing else, as long as no two menus have the same order;
\* the orders themselves stay the same.
MovesSwapNeighbours ==
  [][\A s \in Sessions :
       (/\ session[s].request # <<>> /\ session[s].request[1] = "move"
        /\ ~session[s].late /\ Commit(s)
        /\ \A a, b \in db["menu"] : a.display_order = b.display_order => a = b)
       => LET i == session[s].request[2] IN
          MenuIds(GetMenus)' = Swapped(MenuIds(GetMenus), i, i + session[s].request[3])]_storeVars

\* The statistics that are shown are the ones of the menus that were enabled
\* when the request looked, unless another request filled the cache meanwhile.
StatsMatchMenus ==
  \A r \in Threads : Pc(r, "answer") /\ thread[r].alone => thread[r].items = thread[r].signature

\* Whatever writes and readers overlap, a code is served for no longer than
\* the lifetime of an entry, and the time a query takes, after it was replaced;
\* and the cache differs from the database only if a query ran while a write had
\* taken the entries away and not yet committed.
CodesAreRecent ==
  /\ \A r \in Readers : \A got \in reader[r].got : got.stale < Lifetime + MaxLoad
  /\ ~raced => \A k \in DOMAIN cache : cache[k].value = Stored(k) \/ cache[k].overlap

\* What the two caches of the portal answer with is what was stored: statistics of
\* the menus that the request saw, codes of at most one lifetime ago.
CachesAreRecent == StatsMatchMenus /\ CodesAreRecent
=============================================================================
