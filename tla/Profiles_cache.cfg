\* One entry, two requests at any point of each other, Redis failing or not.
SPECIFICATION Spec
CONSTANTS
    u1 = u1
    r1 = r1
    r2 = r2
    c1 = c1
    c2 = c2
    Users = {u1}
    RoleIds = {r1, r2}
    Grants = {"reads", "writes"}
    Branches = {"manada", "tropa"}
    NoBranch = NoBranch
    NoOne = NoOne
    FirstPeople <- MCFirstPeople
    FirstRoles <- MCFirstRoles
    PanelPatches <- MCPanelPatches
    Calls = {c1, c2}
    MaxEdits = 2
INVARIANTS TypeOK StaleHasACause DeclaredOnceAtMost
PROPERTIES StalenessEnds
CHECK_DEADLOCK FALSE
