SPECIFICATION Spec
CONSTANTS
    Req = {r1, r2}
    Token = {t1, t2}
    User = {u1, u2}
    None = None
    MaxFailures = 1
SYMMETRY SlotsTokensUsers
INVARIANTS
    TypeOK
    StaleTokenNeverWrites
    UsedMeansWritten
    AnsweredMeansSpent
    WritesBounded
\* With every token handed out a request for one more cannot finish.
CHECK_DEADLOCK FALSE
