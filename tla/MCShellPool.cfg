SPECIFICATION FairSpec
CONSTANTS
    Calls = {c1, c2}
    Keys = {x, y}
    NoCall = NoCall
    NoKey = NoKey
    MaxSessions = 1
    IdleTimeout = 0
    MaxExits = 1
INVARIANTS NoOrphanShell CommandsUndisturbed
PROPERTIES EveryCallEnds NoShellLeftBehind
CHECK_DEADLOCK FALSE
