SPECIFICATION Spec
CONSTANTS
    None = None
    Requests = {r1, r2, r3}
    Handlers = {"goal", "goalStep", "tracks", "track",
                "profile", "portrait", "photo", "legacy"}
SYMMETRY Symmetry
CHECK_DEADLOCK FALSE
INVARIANTS
    TypeOK
    CompletedHasProfile
    LegacyCreates
    LostToOverlapOnly
    FailureNeedsOverlap
    VerifiedIsStaleByOverlapOnly
PROPERTY
    LateWritesOverlap
