SPECIFICATION Spec
CONSTANTS
    Req = {r1, r2}
    Token = {t1}
    User = {u1}
    None = None
    MaxFailures = 0
SYMMETRY SlotsTokensUsers
INVARIANTS
    ResetIsOneTime
\* With every token handed out a request for one more cannot finish.
CHECK_DEADLOCK FALSE
