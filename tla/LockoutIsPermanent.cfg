SPECIFICATION FairSpec
CONSTANTS
    Req = {r1, r2}
    Name = {n1}
    Ip = {i1}
    NoKey = NoKey
    Threshold = 2
    MaxFaults = 1
PROPERTIES
    LockoutIsTemporary
