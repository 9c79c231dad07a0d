\* Two workers and two crashes; a limit of two requests in a window of two
\* ticks, for an address that counts and one that is exempt, and two failures
\* of Redis; two mails that are offered up to three times.
SPECIFICATION MCSpec
CONSTANTS
    Worker = {w1, w2}
    MaxCrash = 2
    MaxPairs = 4
    Req = {r1, r2}
    Key = {k1, k2}
    None = None
    Exempt = {k2}
    Limit = 2
    Window = 2
    MaxFaults = 2
    Mail = {m1, m2}
    MaxRetries = 2
INVARIANTS
    MCTypeOK
    WorkersShareKeys
    UpMeansSeeded
    LimitHolds
    CopiesBounded
PROPERTIES
    StartSucceeds
    RefusedIsForgiven
    PromiseSpec
\* A deployment that is up, and mails that have ended, need not go on.
CHECK_DEADLOCK FALSE
