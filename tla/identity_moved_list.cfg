CONSTANTS
    u1 = u1  u2 = u2  c1 = c1  c2 = c2  l1 = l1
    User = {u1}
    Canon = {c1, c2}
    Nobody = Nobody
    Miss = Miss
    NoRequest = NoRequest
    Shot = {}
    UserOf <- MCUserOf
    Request = {r1, r2}
    Lister = {l1}
    Listed <- MCListed
SPECIFICATION Spec
INVARIANT
    StaleListsWereOvertaken
CHECK_DEADLOCK FALSE
