SPECIFICATION Spec
CONSTANTS
    None = None
    Tabs = {t1, t2, t3}
    Profiles = {p1, p2}
    SameSites = {"strict", "lax"}
SYMMETRY Symmetry
CHECK_DEADLOCK FALSE
INVARIANTS
    TypeOK
    RoleIsOwnUnlessOverlapped
    RoleRequiredIsExplained
