\* Two requests in flight, two accounts, two addresses, two names.
SPECIFICATION Spec
CONSTANTS
    Req = {r1, r2}
    Account = {a1, a2}
    Email = {e1, e2}
    Name = {n1, n2}
    None = None
    RequireConfirmation = TRUE
SYMMETRY SlotsAccountsNames
INVARIANTS
    TypeOK
    ConfirmedMeansMailed
    AnsweredMeansConfirmed
    RegistrationComplete
PROPERTIES
    DirectorySpec
\* With every account handed out a registration cannot finish.
CHECK_DEADLOCK FALSE
