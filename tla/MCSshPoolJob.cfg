SPECIFICATION Spec
CONSTANTS
    Keys = {x, y}
    NoCall = NoCall
    NoKey = NoKey
    MaxSessions = 1
    IdleTimeout = 0
    Retention = 0
    MaxFaults = 1
    Calls = {c1}
PROPERTY ReaperSparesJobs
CHECK_DEADLOCK FALSE
