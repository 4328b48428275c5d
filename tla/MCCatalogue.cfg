SPECIFICATION Spec
CONSTANTS
    MaxRequests = 3
    MaxTime = 1
    Graces = {0, 1, 2}
    Lifetimes <- MCLifetimes
INVARIANTS
    TypeOK
    LastSetRules
    AuditExplains
    UnloggedOnlyByDeleteOrAbort
PROPERTIES
    ValidityOnlyShrinks
\* The requests of an instance come to an end.
CHECK_DEADLOCK FALSE
