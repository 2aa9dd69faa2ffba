SPECIFICATION FairSpec
CONSTANTS
    m1 = m1
    m2 = m2
    NoJob = NoJob
    Maturities = {m1, m2}
    Workers = {w1}
    Schedulers = {s1}
    Admins = {a1}
    Profile <- RetryAndTerminal
    Calculable = {m1, m2}
    Postable = {m1, m2}
    MaxRetries = 3
    MaxAttempts = 2
PROPERTIES DueIsEnqueued JobIsDecided PaidIsPosted
