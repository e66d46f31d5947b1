CONSTANTS
    People = {p1, p2, p3}
    Zones = {z1, z2}
    Place <- MCPlace
    Entries <- MCEntries
    Absent <- MCAbsent
    Registries <- MCRegistries
    NoZone = NoZone
    Cargos = {chief}
    NoCargo = NoCargo
    Groups = {g1}
    NoGroup = NoGroup
    Configs <- MCConfigs
    Accounts = {near, national}
    ZonesOf <- MCZonesOf
    Turn <- MCTurn
    Syncs = {s1, s2}
    Imports = {i1}
    Files <- MCFiles
    NoRun = NoRun
    NoUser = NoUser
    NoSnapshot = NoSnapshot
    Overlap = FALSE
    MaxChanges = 1
    p1 = p1
    p2 = p2
    p3 = p3
    z1 = z1
    z2 = z2
    chief = chief
    g1 = g1
    near = near
    national = national
    i1 = i1
CHECK_DEADLOCK FALSE
SPECIFICATION Spec
INVARIANTS
    SealedIsStored
PROPERTIES
    ConsolidatesTheRoll
    QuietRunsKeepTheListed
    FlagIsGivenBack
