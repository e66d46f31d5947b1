\* Two overlapping calls on one cycle while the catalogues are edited.
SPECIFICATION Spec
CONSTANTS
    q1 = q1
    q2 = q2
    i1 = i1
    i2 = i2
    k1 = k1
    c1 = c1
    c2 = c2
    Questions = {q1, q2}
    Items = {i1, i2}
    Branches = {"manada", "familia"}
    Areas = {"afectividad", "socioafectividad"}
    AreasOf <- MCAreasOf
    Texts = {"old", "new"}
    Orders = {1, 2}
    QuestionDocs <- MCQuestionDocs
    ItemDocs <- MCItemDocs
    SeedDocs <- MCSeedDocs
    NoDoc = NoDoc
    Editors = {e1, e2}
    FirstQuestions <- MCFirstQuestions
    FirstItems <- MCFirstItems
    MaxEdits = 2
    Cycles = {k1}
    Opportunities = {o1}
    BranchOf <- MCBranchOf
    Dates = {1, 2, 3}
    AnswerLists <- MCAnswerLists
    ItemLists <- MCItemLists
    Summaries = {"signed"}
    NoSummary = NoSummary
    Unsent = Unsent
    Calls = {c1, c2}
    MaxSaves = 2
SYMMETRY Interchangeable
INVARIANTS TypeOK AnswersOneCatalogue CompetenciesHaveASource RangeStaysValid AreaSuitsBranch
PROPERTIES LockedDiagnosticStays RemovedStaysRemoved
CHECK_DEADLOCK FALSE
