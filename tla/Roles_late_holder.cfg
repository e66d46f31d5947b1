\* A reassignment meets an assignment of the role it removes.
SPECIFICATION Spec
CONSTANTS
    u1 = u1
    u2 = u2
    r1 = r1
    r2 = r2
    r3 = r3
    c1 = c1
    c2 = c2
    Users = {u1, u2}
    Actors = {u1}
    SuperAdmins = {}
    RoleIds = {r1, r2, r3}
    SystemRoles = {}
    Permissions = {"read", "all"}
    Grantors <- MCGrantors
    Powers = {"read"}
    NoRole = NoRole
    FirstRoles <- MCFirstRoles
    FirstHolds <- MCFirstHolds
    PermissionLists <- MCPermissionLists
    RoleLists <- MCRoleLists
    Reassignments <- MCReassignments
    Calls = {c1, c2}
    MaxVersion = 1
PROPERTIES LateHoldersRevertIt
CHECK_DEADLOCK FALSE
