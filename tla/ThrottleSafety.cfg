SPECIFICATION Spec
CONSTANTS
    Req = {r1, r2}
    Name = {n1, n2}
    Ip = {i1}
    NoKey = NoKey
    Threshold = 2
    MaxFaults = 1
SYMMETRY SlotsAndKeys
INVARIANTS
    TypeOK
    CounterHasTtl
    AttemptsBounded
    CountsAreEarned
