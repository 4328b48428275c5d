SPECIFICATION Spec
CONSTANTS
    Clients = {c1, c2}
    Passwords = {p1, p2}
    MaxTokens = 3
    MaxHashes = 2
INVARIANT FamilyRevoked
