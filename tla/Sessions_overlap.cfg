\* Two handlers of one account at any point of each other.
SPECIFICATION Spec
CONSTANTS
    c1 = c1
    c2 = c2
    Users = {"u1"}
    Calls = {c1, c2}
    RateLimitMax = 1
    MaxSessions = 2
    MaxLinks = 1
INVARIANT ResetClosesOlderSessions
PROPERTY SavedPasswordClosesSessions
CHECK_DEADLOCK FALSE
