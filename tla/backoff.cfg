SPECIFICATION Spec
CONSTANTS
    Jobs = {j1, j2}
    Workers = {w1, w2}
    NoJob = NoJob
    Null = Null
    BaseDelay = 1
    MaxDelay = 0
    DefaultBase = 1
    DefaultCap = 2
    JitterBound = 2
    MaxShift = 3
    MaxInt = 7
    MaxRetries = 5
    Skew = 1
    MaxTime = 5
SYMMETRY Symmetry
INVARIANTS BackoffRespected WaitIsBounded
