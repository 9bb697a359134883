CONSTANTS
    f1 = f1
    f2 = f2
    r1 = r1
    r2 = r2
    Files = {f1, f2}
    Versions = {1, 2}
    Runs = {r1, r2}
    BatchSize = 1
    PoolSize = 1
    MaxEdits = 1
    MaxFaults = 1
SPECIFICATION Spec
SYMMETRY Symmetry
INVARIANTS HashVouches NoDanglingLinks RunCovers
PROPERTIES NoFalsePurge
