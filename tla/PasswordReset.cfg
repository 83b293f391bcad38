SPECIFICATION Spec
CONSTANTS
    None = None
    Jobs = {j1, j2}
    Calls = {d1, d2, d3}
    Resets = {r1, r2}
    Codes = {x}
    Modes = {TRUE, FALSE}
    MaxCrashes = 1
SYMMETRY Symmetry
CHECK_DEADLOCK FALSE
INVARIANTS
    TypeOK
    OneActiveCode
    LaterResetNewerCode
    CompletedIsHandedOver
    PendingIsExact
