SPECIFICATION Spec
CONSTANTS
    None = None
    Requests = {r1, r2, r3, r4}
    Passwords = {p1, p2}
SYMMETRY Symmetry
CHECK_DEADLOCK FALSE
INVARIANT ResetRevokesAllSessions
