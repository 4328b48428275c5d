SPECIFICATION Spec
CONSTANTS
    Clients = {c1, c2}
    Limit = 2
    Unit = 3
    Window = 6
    MaxCount = 4
    MaxUsers = 2
SYMMETRY MCSymmetry
INVARIANTS
    TypeOK
    AttemptsPerWindow
    LockoutEnds
    OneProvedAccount
