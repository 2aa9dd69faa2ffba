SPECIFICATION FairSpec
CONSTANTS
    m1 = m1
    m2 = m2
    NoJob = NoJob
    Maturities = {m1, m2}
    Workers = {w1}
    Schedulers = {s1}
    Admins = {}
    Profile <- AllClean
    Calculable = {m1, m2}
    Postable = {m1}
    MaxRetries = 2
    MaxAttempts = 3
PROPERTY PaidIsPosted
