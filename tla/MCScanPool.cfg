CONSTANTS
    c1 = c1
    c2 = c2
    s1 = s1
    s2 = s2
    s3 = s3
    Calls = {c1, c2}
    Sessions = {s1, s2, s3}
    MaxObjects = 3
    MaxSessions = 1
    MaxUndo = 1
SPECIFICATION Spec
SYMMETRY Symmetry
CHECK_DEADLOCK FALSE
INVARIANTS NoLeak PoolBound
PROPERTIES InUseSpared
