\* Two deletions or calls of the blacklist in progress on two tokens of one
\* user; a request for tokens, two clients, two scopes and up to two tokens.
SPECIFICATION MCSpec
CONSTANTS
    None = None
    k1 = k1
    k2 = k2
    u1 = u1
    Req = {r1, r2}
    Key = {k1, k2}
    User = {u1}
    Owner <- RowOwner
    Exp <- RowExp
    MinTtl = 2
    Lifetime = 2
    MaxTime = 3
    Wired = TRUE
    GrantReq = {g1}
    Client = {c1, c2}
    Confidential = {c2}
    Scope = {read, write}
    RequireConfirmation = TRUE
    MaxTokens = 2
SYMMETRY Interchangeable
CONSTRAINT Within
INVARIANTS
    MCTypeOK
    BlacklistHolds
    
    EventsBounded
    ScopeNeverGrows
    IssuedWereEntitled
\* Once the user is gone and the clock stands nothing can happen.
CHECK_DEADLOCK FALSE
