-------------------------- MODULE PortalRegister --------------------------
(***************************************************************************)
(* The menus of the portal, and the statistics shown for them.             *)
(***************************************************************************)
EXTENDS RegisterStore

-----------------------------------------------------------------------------
(***************************************************************************)
(* The menus of the portal, shown by display_order and then by id.  A move *)
(* exchanges the orders of two neighbours; which they are is read before   *)
(* the transaction that writes them.                                       *)
(***************************************************************************)
CONSTANT Menus   \* payloads: code, order (or NoDisplayOrder), active

NoDisplayOrder == -1
OrderStep == 10

GetMenus ==
  SetToSortSeq(db["menu"],
    LAMBDA a, b : a.display_order < b.display_order
                  \/ (a.display_order = b.display_order /\ a.menu_id < b.menu_id))

CodeOfMenuIsFree(code, but) ==
  \A row \in db["menu"] : row.menu_code = code => row.menu_id = but

NextOrder == OrderStep + (IF db["menu"] = {} THEN 0 ELSE Max({row.display_order : row \in db["menu"]}))

MenuColumns(menu, default) ==
  [menu_code |-> menu.code, active |-> menu.active,
   display_order |-> IF menu.order = NoDisplayOrder THEN default ELSE menu.order]

SetMenu(id, columns) == Update("menu", [menu_id |-> {id}], columns)

CreateMenu(s) == \E menu \in Menus :
  /\ CodeOfMenuIsFree(menu.code, NoKey)
  /\ Begin(s, <<"menu">>,
           <<Insert("menu", [menu_id |-> New(0)] @@ MenuColumns(menu, NextOrder))>>, {})

UpdateMenu(s) == \E row \in db["menu"], menu \in Menus :
  /\ CodeOfMenuIsFree(menu.code, row.menu_id)
  /\ Begin(s, <<"menu">>, <<SetMenu(row.menu_id, MenuColumns(menu, row.display_order))>>, {})

UpdateMenuStatus(s) == \E row \in db["menu"], active \in BOOLEAN :
  Begin(s, <<"menu">>, <<SetMenu(row.menu_id, [active |-> active])>>, {})

DeleteMenu(s) == \E row \in db["menu"] :
  Begin(s, <<"menu">>, <<Delete("menu", [menu_id |-> {row.menu_id}])>>, {})

\* Fault: the neighbour keeps its order.
ExchangeOne(current, neighbor) ==
  <<SetMenu(current.menu_id, [display_order |-> neighbor.display_order])>>

Exchange(current, neighbor) ==
  <<SetMenu(current.menu_id, [display_order |-> neighbor.display_order]),
    SetMenu(neighbor.menu_id, [display_order |-> current.display_order])>>

\* The first menu does not go up nor the last one down.
MoveMenu(s) == \E i \in DOMAIN GetMenus, by \in {-1, 1} :
  /\ i + by \in DOMAIN GetMenus
  /\ Begin(s, <<"move", i, by>>, Exchange(GetMenus[i], GetMenus[i + by]), {})

MenuOperation(s) ==
  \/ CreateMenu(s) \/ UpdateMenu(s) \/ UpdateMenuStatus(s) \/ DeleteMenu(s) \/ MoveMenu(s)

-----------------------------------------------------------------------------
(***************************************************************************)
(* The statistics of the portal's first page.  A request reads which menus *)
(* are enabled, and answers from the cache of PortalService if the cache   *)
(* was filled for the same ones.  Requests run in threads, and nothing     *)
(* locks the three attributes the cache consists of.                       *)
(***************************************************************************)
CONSTANTS Threads,     \* requests for the statistics
          StatMenus    \* codes of the menus that have a statistic

VARIABLES stats,   \* the cache: what is counted, for which menus, not expired
          thread,  \* where each request is
          mixed    \* two requests have filled the cache at once

statsVars == <<stats, thread, mixed>>

\* alone: nobody else fills the cache during the request.
IdleThread == [pc |-> "idle", signature |-> {}, items |-> {}, alone |-> TRUE]

StatsInit ==
  /\ stats = [items |-> {}, signature |-> {}, fresh |-> FALSE]
  /\ thread = [r \in Threads |-> IdleThread]
  /\ mixed = FALSE

Pc(r, pc) == thread[r].pc = pc

Storing(r) == thread[r].pc \in {"store_expiry", "store_signature"}

VisibleStats ==
  {row.menu_code : row \in {m \in db["menu"] : m.active /\ m.menu_code \in StatMenus}}

\* The menus are read anew for every request.
ReadMenus(r) ==
  /\ Pc(r, "idle")
  /\ thread' = [thread EXCEPT ![r] =
       [IdleThread EXCEPT !.pc = "check", !.signature = VisibleStats,
                          !.alone = ~mixed /\ \A other \in Threads : ~Storing(other)]]
  /\ UNCHANGED <<stats, mixed>>

Hits(r) == stats.items # {} /\ stats.fresh /\ stats.signature = thread[r].signature

CheckCache(r) ==
  /\ Pc(r, "check")
  /\ thread' = [thread EXCEPT ![r].pc = IF Hits(r) THEN "copy" ELSE "count"]
  /\ UNCHANGED <<stats, mixed>>

\* The items are read after the check.
CopyItems(r) ==
  /\ Pc(r, "copy")
  /\ thread' = [thread EXCEPT ![r].pc = "answer", ![r].items = stats.items]
  /\ UNCHANGED <<stats, mixed>>

\* One statement counts everything, or, if it fails, one statement each; the
\* cache is left as it was if these fail too.
Count(r) ==
  /\ Pc(r, "count")
  /\ thread' = [thread EXCEPT ![r].pc = "store_items", ![r].items = thread[r].signature]
  /\ UNCHANGED <<stats, mixed>>

CountFails(r) ==
  /\ Pc(r, "count")
  /\ thread' = [thread EXCEPT ![r] = IdleThread]
  /\ UNCHANGED <<stats, mixed>>

StoreItems(r) ==
  /\ Pc(r, "store_items")
  /\ stats' = [stats EXCEPT !.items = thread[r].items]
  /\ mixed' = \E other \in Threads \ {r} : Storing(other)
  /\ thread' = [other \in Threads |->
       IF other = r THEN [thread[r] EXCEPT !.pc = "store_expiry"]
       ELSE [thread[other] EXCEPT !.alone = FALSE]]

StoreExpiry(r) ==
  /\ Pc(r, "store_expiry")
  /\ stats' = [stats EXCEPT !.fresh = TRUE]
  /\ thread' = [thread EXCEPT ![r].pc = "store_signature"]
  /\ UNCHANGED mixed

StoreSignature(r) ==
  /\ Pc(r, "store_signature")
  /\ stats' = [stats EXCEPT !.signature = thread[r].signature]
  /\ thread' = [thread EXCEPT ![r].pc = "answer"]
  /\ UNCHANGED mixed

Answer(r) ==
  /\ Pc(r, "answer")
  /\ thread' = [thread EXCEPT ![r] = IdleThread]
  /\ UNCHANGED <<stats, mixed>>

Expire ==
  /\ stats.fresh
  /\ stats' = [stats EXCEPT !.fresh = FALSE]
  /\ UNCHANGED <<thread, mixed>>

StatsStep ==
  \/ Expire
  \/ \E r \in Threads :
       \/ ReadMenus(r) \/ CheckCache(r) \/ CopyItems(r) \/ Count(r) \/ CountFails(r)
       \/ StoreItems(r) \/ StoreExpiry(r) \/ StoreSignature(r) \/ Answer(r)
=============================================================================
