SPECIFICATION Spec
CONSTANTS
    Calls = {c1, c2}
    Paths = {f, g}
    Tokens = {a, b, w}
    Wide = {w}
    Garbage = Garbage
    NoFile = NoFile
    NoOp = NoOp
    f = f
    g = g
    a = a
    b = b
    w = w
    Kinds = {"edit"}
    Ops <- MCOps
    FirstFiles <- MCFirstFiles
SYMMETRY Symmetry
PROPERTY HashGuardsEdit
CHECK_DEADLOCK FALSE
