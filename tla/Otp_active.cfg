SPECIFICATION Spec
CONSTANTS
    None = None
    Calls = {c1, c2, c3, c4}
    Codes = {x, y}
SYMMETRY Symmetry
CHECK_DEADLOCK FALSE
INVARIANT OneActiveCode
