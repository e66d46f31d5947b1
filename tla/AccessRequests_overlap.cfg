\* Two handlers at any point of each other, over two requests.
SPECIFICATION Spec
CONSTANTS
    boss = boss
    novice = novice
    c1 = c1
    c2 = c2
    People = {boss, novice}
    Approvers = {boss, novice}
    FirstLevel <- MCFirstLevel
    AskedLevels <- MCAskedLevels
    PanelStates = {"suspended"}
    Calls = {c1, c2}
    MaxRequests = 2
    MaxLost = 1
INVARIANTS OnePendingPerPerson NobodyOutranksTheFirst OutboxTellsWhatWasWritten
SYMMETRY Interchangeable
CHECK_DEADLOCK FALSE
