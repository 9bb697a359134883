SPECIFICATION Spec
CONSTANTS
    Calls = {c1, c2}
    MaxWire = 1
    MaxFaults = 1
    MaxEvictions = 1
INVARIANTS AnswersMatch ConfigOnce NoLostStop
SYMMETRY Symmetry
CHECK_DEADLOCK FALSE
