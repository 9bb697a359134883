SPECIFICATION Spec
CONSTANTS
    Calls = {c1, c2}
    Paths = {f, g}
    Tokens = {a, b, w}
    Wide = {w}
    Garbage = Garbage
    NoFile = NoFile
    NoOp = NoOp
    f = f
    g = g
    a = a
    b = b
    w = w
    Kinds = {"edit", "multiedit", "write", "patch", "regex_replace", "convert_encoding", "copy", "rename", "delete"}
    Ops <- MCOps
    FirstFiles <- MCFirstFiles
SYMMETRY Symmetry
INVARIANTS WholeFiles TempsPrivate HonestResults
PROPERTY ExactUpdate
CHECK_DEADLOCK FALSE
