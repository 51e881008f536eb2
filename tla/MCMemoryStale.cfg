SPECIFICATION Spec
CONSTANTS
    None = None
    p = p
    q = q
    Proc = {p, q}
    a = a
    b = b
    t = t
    Key = {a, b}
    ToolKey = {t}
    c = c
    d = d
    Content = {c, d}
    Dim = {1, 2}
    IdBound = 3
SYMMETRY Symmetry
INVARIANT VecSaysWhatRowSays
CHECK_DEADLOCK FALSE
