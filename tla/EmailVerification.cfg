SPECIFICATION Spec
CONSTANTS
    None = None
    Calls = {c1, c2, c3}
    Codes = {x, y}
    Limit = 1
SYMMETRY Symmetry
CHECK_DEADLOCK FALSE
INVARIANTS
    TypeOK
    OneRegistration
    ResendsWithinLimit
    RedeemedVerifies
