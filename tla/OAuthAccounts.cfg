SPECIFICATION Spec
CONSTANTS
    None = None
    Requests = {r1, r2, r3}
    Emails = {e1, e2}
    Profiles = {p1, p2}
SYMMETRY Symmetry
CHECK_DEADLOCK FALSE
INVARIANTS
    TypeOK
    OneIdentity
    AccountsAreWhole
PROPERTIES
    FailureIsExplained
    LinkFollowsEmail
    ImplementsDirectory
