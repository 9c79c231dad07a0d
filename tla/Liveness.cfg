\* Two requests in flight under weak fairness, no symmetry: on two tokens of
\* one user, or on one name tried from one address with a threshold of two.
SPECIFICATION MCSpec
CONSTANTS
    None = None
    Req = {r1, r2}
    Jti = {j1, j2}
    User = {u1}
    Client = {c1}
    UsableClient = {c1}
    ShortLived = {}
    Name = {n1}
    Ip = {i1}
    NoKey = NoKey
    Threshold = 2
    MaxFaults = 0
PROPERTIES
    RevocationTakesEffect
    LockoutIsTemporary
\* With every user deleted and every token purged no request can arrive.
CHECK_DEADLOCK FALSE
