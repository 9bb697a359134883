SPECIFICATION FairSpec
CONSTANTS
    Keys = {x, y}
    NoCall = NoCall
    NoKey = NoKey
    MaxSessions = 1
    IdleTimeout = 0
    Retention = 0
    MaxFaults = 1
    Calls = {c1, c2}
INVARIANTS NothingForgotten WithinMaxSessions
PROPERTIES GivesOpenClients JobStatusFinal EveryCallEnds NothingLeftBehind
CHECK_DEADLOCK FALSE
