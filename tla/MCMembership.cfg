SPECIFICATION Spec
CONSTANTS
    Users = {u1, u2}
    Clients = {c1, c2}
    MaxRows = 3
SYMMETRY MCSymmetry
INVARIANTS
    TypeOK
    OneRowPerUser
    OwnerlessOnlyByOverlap
\* A deleted organization, and one without an owner or admin, has no more requests.
CHECK_DEADLOCK FALSE
