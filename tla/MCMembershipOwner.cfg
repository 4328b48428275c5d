SPECIFICATION Spec
CONSTANTS
    Users = {u1, u2}
    Clients = {c1, c2}
    MaxRows = 3
SYMMETRY MCSymmetry
INVARIANT HasOwner
CHECK_DEADLOCK FALSE
