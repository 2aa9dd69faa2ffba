SPECIFICATION AuditSpec
CONSTANTS
    m1 = m1
    NoJob = NoJob
    Maturities = {m1, m2, m3}
    Workers = {w1, w2}
    Schedulers = {s1, s2}
    Admins = {a1, a2}
    Profile <- RetryFirst
    Calculable = {m1, m2}
    Postable = {m1, m3}
    MaxRetries = 2
    MaxAttempts = 3
SYMMETRY ProcessSymmetry
INVARIANTS AInv TrailTellsTheRow TrailTellsTheAttempts TrailIsARun
