SPECIFICATION Spec
CONSTANTS
    m1 = m1
    m2 = m2
    r1 = r1
    r2 = r2
    Maturities = {m1, m2}
    MaxRetries = 2
    Net <- NetPayouts
    Requests = {r1, r2}
    MaxClock = 1
    MaxSnapshots = 2
INVARIANTS NoFalseAlarm SnapshotsFormHistory NeverUnderstates
SYMMETRY RequestSymmetry
