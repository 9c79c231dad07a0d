\* The documented promise the code does not keep.
CONSTANTS
    None = None
    Req = {r1, r2}
    Jti = {j1, j2, j3}
    User = {u1}
    Client = {c1}
    UsableClient = {c1}
    ShortLived = {}
SPECIFICATION Spec
INVARIANTS
    OneTimeUse
\* With every user deleted and every token purged no request can arrive.
CHECK_DEADLOCK FALSE
