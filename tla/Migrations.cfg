SPECIFICATION Spec
INVARIANTS
    TypeOK
    RunReachesEntities
    RefusedForData
    RevertRestores
