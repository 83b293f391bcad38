SPECIFICATION Spec
CONSTANTS
    None = None
    Jobs = {j1, j2}
    Calls = {d1, d2, d3}
    Resets = {}
    Codes = {x}
    Modes = {TRUE, FALSE}
    MaxCrashes = 2
ACTION_CONSTRAINT NothingExpires
CHECK_DEADLOCK FALSE
PROPERTY
    WorkSettles
