\* Two approvers resolve the same request.
SPECIFICATION Spec
CONSTANTS
    boss = boss
    novice = novice
    c1 = c1
    c2 = c2
    People = {boss, novice}
    Approvers = {boss, novice}
    FirstLevel <- MCFirstLevel
    AskedLevels <- MCAskedLevels
    PanelStates = {"suspended"}
    Calls = {c1, c2}
    MaxRequests = 1
    MaxLost = 1
PROPERTY ResolvedOnce
CHECK_DEADLOCK FALSE
