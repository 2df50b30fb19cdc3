CONSTANTS
    u1 = u1  u2 = u2  c1 = c1  c2 = c2  l1 = l1
    User = {u1, u2}
    Canon = {c1, c2}
    Nobody = Nobody
    Miss = Miss
    NoRequest = NoRequest
    Shot = {s1}
    UserOf <- MCUserOf
    Request = {r1, r2}
    Lister = {l1}
    Listed <- MCListed
SPECIFICATION FairSpec
INVARIANTS
    TypeOK
    UserCacheIsFresh
    ListCacheIsFresh
    OrphansWereMissed
PROPERTIES
    OwnerIsKept
    CachesConverge
CHECK_DEADLOCK FALSE
