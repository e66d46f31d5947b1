\* Three updates at any point of each other, lost replies and a restart.
SPECIFICATION ScheduleSpec
CONSTANTS
    Fields = {"syncEnabled", "syncCron"}
    Crons = {"nightly", "hourly"}
    Values <- MCValues
    Defaults <- MCDefaults
    Patches <- MCPatches
    NoDoc = NoDoc
    Requests = {r1, r2, r3}
    NoRequest = NoRequest
    MaxAsks = 3
    MaxRestarts = 1
INVARIANTS ScheduleTypeOK CopyHasACause
PROPERTIES ChangesTakeEffect
CHECK_DEADLOCK FALSE
