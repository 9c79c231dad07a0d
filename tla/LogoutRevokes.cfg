\* The documented promise of a log-out everywhere, for one user with one token
\* and one request at a time, under the fairness of the requests.
CONSTANTS
    None = None
    Req = {r1}
    Jti = {j1}
    User = {u1}
    Client = {c1}
    UsableClient = {c1}
    ShortLived = {}
SPECIFICATION FairSpec
PROPERTIES
    LogoutTakesEffect
\* With every user deleted and every token purged no request can arrive.
CHECK_DEADLOCK FALSE
