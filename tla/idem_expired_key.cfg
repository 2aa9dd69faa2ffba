SPECIFICATION Spec
CONSTANTS
    r1 = r1
    r2 = r2
    r3 = r3
    r4 = r4
    k1 = k1
    NoKey = NoKey
    NoRequest = NoRequest
    Requests = {r1, r2, r3}
    Keys = {k1}
    KeyOf <- OneKey
    Conns = 6
PROPERTY ExpiredKeyIsFree
CHECK_DEADLOCK FALSE
