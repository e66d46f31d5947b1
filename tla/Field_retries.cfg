\* One device that sends again what fails, beside edits and one tool.
SPECIFICATION Spec
CONSTANTS
    a = a
    p = p
    q = q
    i = i
    t1 = t1
    t2 = t2
    Units = {a}
    People = {p, q}
    LeaderSets = {{}}
    MemberSets = {{p}}
    NoUnit = NoUnit
    FirstDocs <- MCFirstDocs
    FirstBehind = {{}, {a}}
    MaxUnitEdits = 1
    MaxTools = 1
    Me = p
    Ids = {i}
    NoRow = NoRow
    Recordable <- MCRecordable
    FirstAttendance <- MCFirstAttendance
    Accounts <- MCAccounts
    Attempts = {t1, t2}
    Nobody = Nobody
    MaxOps = 2
    MaxFaults = 1
INVARIANTS TypeOK AnsweredStays RowsFollowUnits RebuildRepairs
PROPERTIES QueueGetsThrough
CHECK_DEADLOCK FALSE
