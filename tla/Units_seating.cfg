\* Who is seated where: one listing at a time, three protagonists of two
\* branches, one of whom a synchronization may report otherwise at any moment.
SPECIFICATION Spec
CONSTANTS
    p1 = p1
    p2 = p2
    p3 = p3
    a1 = a1
    a2 = a2
    g1 = g1
    g2 = g2
    Persons = {p1, p2, p3, a1}
    Actors = {a1}
    Unfiltered = {a1}
    Groups = {g1, g2}
    BranchCount = 2
    Reports <- SeatingReports
    FirstReport <- SeatingFirst
    HomeGroup <- Home
    Resynced = {p2}
    Edited = {}
    Unsteady = {}
    Patched = {}
    TitleLists <- NoTitles
    TypedNames <- MCTypedNames
    LeaderLists <- NoLeaders
    MaxNameAttempts = 1
    Requests = {"r1"}
    MaxUnits = 4
INVARIANTS TypeOK PointersMirrorMembers
PROPERTIES RosterSpec
CHECK_DEADLOCK FALSE
