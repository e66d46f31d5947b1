\* Who leads, and two listings that seed at once: a2 is rewritten by the sync
\* and the panel, into a protagonist too; p1 is deactivated, deleted, patched.
SPECIFICATION Spec
CONSTANTS
    p1 = p1
    p2 = p2
    p3 = p3
    a1 = a1
    a2 = a2
    g1 = g1
    g2 = g2
    Persons = {p1, a1, a2}
    Actors = {a1, a2}
    Unfiltered = {}
    Groups = {g1, g2}
    BranchCount = 1
    Reports <- LeaderReports
    FirstReport <- LeadersFirst
    HomeGroup <- Home
    Resynced = {a2}
    Edited = {a2}
    Unsteady = {p1}
    Patched = {p1}
    TitleLists <- MCTitleLists
    TypedNames <- FirstPlaceholder
    LeaderLists <- MCLeaderLists
    MaxNameAttempts = 1
    Requests = {"r1", "r2"}
    MaxUnits = 2
INVARIANTS MembershipMirrorsUnits OneRowPerPersonAndUnit PointersNameASeat
PROPERTIES SteadyRosterSpec PlannedGetSeated
CHECK_DEADLOCK FALSE
