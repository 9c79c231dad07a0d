\* The documented scope of a clean-up, for one call at a time.
SPECIFICATION Spec
CONSTANTS
    None = None
    short = short
    long = long
    u1 = u1
    Req = {r1}
    Key = {short, long}
    User = {u1}
    Owner <- KeyOwner
    Exp <- KeyExp
    MinTtl = 2
    MaxTime = 3
INVARIANTS
    CleanupSparesRevoked
