------------------------------ MODULE AdminUsers ------------------------------
(***************************************************************************)
(* Accounts and roles of SystemManagementService: create, edit, role,      *)
(* status and deletion of users; creation, edit and deletion of roles.     *)
(*                                                                         *)
(* Each operation is one transaction (operation_log_service.audit) of      *)
(* several statements: it looks for the role and the user, counts what     *)
(* must remain, and writes.  Under READ COMMITTED each statement sees what *)
(* others have committed by then, and nothing locks what was only read.    *)
(* A step below is one statement that matters; the write and the commit    *)
(* that follows it are one step, since a second writer of the same row     *)
(* waits for the commit of the first.                                      *)
(*                                                                         *)
(* Names, passwords and permissions play no part and are left out, and so  *)
(* are dictionaries and menus, which the same service keeps.               *)
(***************************************************************************)
EXTENDS Integers, FiniteSets, FiniteSetsExt, TLC

CONSTANTS
    Sessions,     \* requests that run at the same time
    Names,        \* user names
    Admin,        \* the built-in administrator; the other one, maintainer, plays
                  \* no part here
    Roles,        \* role codes an administrator may define
    Operations,   \* the operations that are called
    None,
    MaxId         \* bound: users created, the first included

VARIABLES
    users,    \* the accounts, by id: name, role and status
    roles,    \* the defined roles: is each enabled
    call      \* the operation each session is in

vars == <<users, roles, call>>

-----------------------------------------------------------------------------

Statuses == {"ACTIVE", "INACTIVE"}
UserOperations == {"create", "edit", "role", "status", "delete"}
RoleOperations == {"create_role", "update_role", "delete_role"}

Idle == [op |-> "none", pc |-> "idle", name |-> None, newName |-> None,
         role |-> None, status |-> "ACTIVE", id |-> 0]

\* create_bootstrap_admin has made the first administrator.
\* The names are alike, so it does not matter which one the first account has.
Init ==
    /\ users = [id \in {1} |->
                  [name |-> CHOOSE name \in Names : TRUE, role |-> Admin, status |-> "ACTIVE"]]
    /\ roles = <<>>
    /\ call = [s \in Sessions |-> Idle]

\* The user of that name, of which there is at most one.
IdsOf(name) == {id \in DOMAIN users : users[id].name = name}

\* next_pk: MAX(id) + 1.
NextId == Max(DOMAIN users \cup {0}) + 1

ActiveAdmins ==
    {id \in DOMAIN users : users[id].role = Admin /\ users[id].status = "ACTIVE"}

At(s, pc) == call[s].pc = pc
Goto(s, pc) == call' = [call EXCEPT ![s].pc = pc]
End(s) == call' = [call EXCEPT ![s] = Idle]

Assignable(role) == role = Admin \/ (role \in DOMAIN roles /\ roles[role])

-----------------------------------------------------------------------------
(* Requests *)

\* A request for a user: its name, and what of the account it sets.
CallUser(s, op, name, newName, role, status) ==
    /\ At(s, "idle")
    /\ op = "edit" \/ newName = name
    /\ op = "create" => NextId <= MaxId
    /\ call' = [call EXCEPT ![s] =
                  [Idle EXCEPT !.op = op, !.name = name, !.newName = newName,
                               !.role = role, !.status = status,
                               !.pc = IF op \in {"create", "edit", "role"}
                                      THEN "assignable" ELSE "find"]]
    /\ UNCHANGED <<users, roles>>

CallRole(s, op, role) ==
    /\ At(s, "idle")
    /\ call' = [call EXCEPT ![s] = [Idle EXCEPT !.op = op, !.role = role, !.pc = "find_role"]]
    /\ UNCHANGED <<users, roles>>

\* _ensure_assignable_role
CheckAssignable(s) ==
    /\ At(s, "assignable")
    /\ IF Assignable(call[s].role) THEN Goto(s, "find") ELSE End(s)
    /\ UNCHANGED <<users, roles>>

-----------------------------------------------------------------------------
(* Users *)

\* Fault: an administrator is deleted like any other user.
TakesAwayButDelete(op, row, c) ==
    /\ row.role = Admin
    /\ \/ op \in {"role", "edit"} /\ c.role # Admin
       \/ op = "status" /\ c.status # "ACTIVE"

\* The operations that ask whether another administrator remains.  An edit asks
\* when it changes the role, not when it changes the status.
TakesAway(op, row, c) ==
    /\ row.role = Admin
    /\ \/ op \in {"role", "edit"} /\ c.role # Admin
       \/ op = "status" /\ c.status # "ACTIVE"
       \/ op = "delete"

\* The name of a new user, or the new name of an old one, must be free.
NameIsTaken(s) ==
    call[s].newName # call[s].name /\ IdsOf(call[s].newName) # {}

FindUser(s) ==
    LET c == call[s] IN
    /\ At(s, "find") /\ c.op # "create"
    /\ IF IdsOf(c.name) = {} \/ NameIsTaken(s)
       THEN End(s)
       ELSE \E id \in IdsOf(c.name) :
               call' = [call EXCEPT ![s].id = id,
                                    ![s].pc = IF TakesAway(c.op, users[id], c)
                                              THEN "count" ELSE "write"]
    /\ UNCHANGED <<users, roles>>

\* _create_user: no such name yet, and the next id is MAX(id) + 1.
FindNoUser(s) ==
    /\ At(s, "find") /\ call[s].op = "create"
    /\ IF IdsOf(call[s].name) # {} THEN End(s)
       ELSE call' = [call EXCEPT ![s].pc = "write", ![s].id = NextId]
    /\ UNCHANGED <<users, roles>>

\* _ensure_administrator_remains: "at least one active administrator must remain"
EnsureAdministratorRemains(s) ==
    /\ At(s, "count")
    /\ IF ActiveAdmins \ IdsOf(call[s].name) # {} THEN Goto(s, "write") ELSE End(s)
    /\ UNCHANGED <<users, roles>>

\* The keys of the table: the id and the name.  A request that meets them fails.
Insert(s) ==
    LET c == call[s] IN
    /\ At(s, "write") /\ c.op = "create"
    /\ users' = IF c.id \in DOMAIN users \/ IdsOf(c.name) # {} THEN users
                ELSE [id \in DOMAIN users \cup {c.id} |->
                        IF id = c.id THEN [name |-> c.name, role |-> c.role, status |-> c.status]
                        ELSE users[id]]
    /\ End(s)
    /\ UNCHANGED roles

\* UPDATE ... WHERE id: no row any more is no error.
UpdateById(s, row) ==
    /\ users' = IF call[s].id \in DOMAIN users
                THEN [users EXCEPT ![call[s].id] = row] ELSE users
    /\ End(s)
    /\ UNCHANGED roles

WriteRole(s) ==
    /\ At(s, "write") /\ call[s].op = "role"
    /\ UpdateById(s, [users[call[s].id] EXCEPT !.role = call[s].role])

WriteEdit(s) ==
    LET c == call[s] IN
    /\ At(s, "write") /\ c.op = "edit"
    /\ IF \E id \in IdsOf(c.newName) : id # c.id
       THEN End(s) /\ UNCHANGED <<users, roles>>
       ELSE UpdateById(s, [name |-> c.newName, role |-> c.role, status |-> c.status])

\* The status is written by name, and the account looked for once more after it.
WriteStatus(s) ==
    LET c == call[s] IN
    /\ At(s, "write") /\ c.op = "status"
    /\ users' = [id \in DOMAIN users |->
                    IF users[id].name = c.name THEN [users[id] EXCEPT !.status = c.status]
                    ELSE users[id]]
    /\ End(s)
    /\ UNCHANGED roles

Delete(s) ==
    /\ At(s, "write") /\ call[s].op = "delete"
    /\ users' = [id \in DOMAIN users \ {call[s].id} |-> users[id]]
    /\ End(s)
    /\ UNCHANGED roles

-----------------------------------------------------------------------------
(* Roles *)

IsAssigned(role) == \E id \in DOMAIN users : users[id].role = role

\* A role is created if there is none, changed or deleted if there is one; it is
\* deleted only if nobody has it.
FindRole(s) ==
    LET c == call[s] IN
    /\ At(s, "find_role")
    /\ \/ c.op = "create_role" /\ c.role \notin DOMAIN roles /\ Goto(s, "write_role")
       \/ c.op = "update_role" /\ c.role \in DOMAIN roles /\ Goto(s, "write_role")
       \/ /\ c.op = "delete_role" /\ c.role \in DOMAIN roles /\ ~IsAssigned(c.role)
          /\ Goto(s, "write_role")
    /\ UNCHANGED <<users, roles>>

RoleIsRefused(s) ==
    LET c == call[s] IN
    /\ At(s, "find_role")
    /\ \/ c.op = "create_role" /\ c.role \in DOMAIN roles
       \/ c.op # "create_role" /\ c.role \notin DOMAIN roles
       \/ c.op = "delete_role" /\ IsAssigned(c.role)
    /\ End(s)
    /\ UNCHANGED <<users, roles>>

\* A second insert of the same role fails, an update of none changes nothing.
WriteRoleRow(s, enabled) ==
    LET c == call[s]
        present == c.role \in DOMAIN roles
    IN
    /\ At(s, "write_role") /\ c.op \in {"create_role", "update_role"}
    /\ roles' = IF present = (c.op = "update_role") THEN c.role :> enabled @@ roles ELSE roles
    /\ End(s)
    /\ UNCHANGED users

DeleteRole(s) ==
    /\ At(s, "write_role") /\ call[s].op = "delete_role"
    /\ roles' = [r \in DOMAIN roles \ {call[s].role} |-> roles[r]]
    /\ End(s)
    /\ UNCHANGED users

-----------------------------------------------------------------------------

Call(s) ==
    \/ \E op \in Operations \cap UserOperations, name, newName \in Names,
         role \in Roles \cup {Admin}, status \in Statuses :
           CallUser(s, op, name, newName, role, status)
    \/ \E op \in Operations \cap RoleOperations, role \in Roles : CallRole(s, op, role)

Write(s) ==
    \/ Insert(s) \/ WriteRole(s) \/ WriteEdit(s) \/ WriteStatus(s) \/ Delete(s)
    \/ \E enabled \in BOOLEAN : WriteRoleRow(s, enabled)
    \/ DeleteRole(s)

Next ==
    \E s \in Sessions :
        \/ Call(s) \/ CheckAssignable(s)
        \/ FindUser(s) \/ FindNoUser(s) \/ EnsureAdministratorRemains(s)
        \/ FindRole(s) \/ RoleIsRefused(s)
        \/ Write(s)

Spec == Init /\ [][Next]_vars

-----------------------------------------------------------------------------
(* Properties *)

\* "At least one active administrator must remain": somebody can always manage
\* the instance.
AdministratorRemains == ActiveAdmins # {}
=============================================================================
