\* A login and up to two rotations of one user and client: two requests in
\* flight on tokens that do not expire, or one at a time on tokens that do; or
\* two tokens of two users and three clients, one of which is not usable.
CONSTANTS
    None = None
    Req = {r1, r2}
    Jti = {j1, j2, j3}
    User = {u1, u2}
    Client = {c1, c2, c3}
    UsableClient = {c1, c2}
    ShortLived = {j1, j2, j3}
SPECIFICATION MCSpec
SYMMETRY Interchangeable
CONSTRAINT Within
INVARIANTS
    TypeOK
    RotationConsumes
    SpentTokenNeverRotates
    RevocationCovers
    RotationKeepsOwner
    SerialOneActive
PROPERTIES
    RevokesOnlyOwn
    LedgerSpec
\* With every user deleted and every token purged no request can arrive.
CHECK_DEADLOCK FALSE
