CONSTANTS
    u1 = u1  u2 = u2  c1 = c1  c2 = c2  l1 = l1
    User = {u1}
    Canon = {c1, c2}
    Nobody = Nobody
    Miss = Miss
    NoRequest = NoRequest
    Shot = {s1, s2}
    UserOf <- MCUserOf
    Request = {r1}
    Lister = {}
    Listed <- MCListed
SPECIFICATION Spec
INVARIANT
    LinkedShotsAreOwned
CHECK_DEADLOCK FALSE
