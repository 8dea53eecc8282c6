SPECIFICATION Spec
CONSTANTS
    Sessions = {s1}
    Names = {u1, u2}
    Admin = Admin
    Roles = {r1}
    Operations = {"create", "edit"}
    None = None
    MaxId = 2
INVARIANT AdministratorRemains
CHECK_DEADLOCK FALSE
