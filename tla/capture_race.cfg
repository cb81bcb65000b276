\* Two paths of any type, and a writer that may strike between any two looks.
CONSTANTS
    p1 = p1
    p2 = p2
    x = x
    y = y
    Paths = {p1, p2}
    Pieces = {x, y}
SPECIFICATION Spec
SYMMETRY Symmetry
INVARIANT ContentAddressed
\* Every scan ends.
CHECK_DEADLOCK FALSE
