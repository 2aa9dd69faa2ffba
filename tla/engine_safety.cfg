SPECIFICATION Spec
CONSTANTS
    m1 = m1
    m2 = m2
    NoJob = NoJob
    Maturities = {m1, m2, m3}
    Workers = {w1, w2}
    Schedulers = {s1, s2}
    Admins = {a1, a2}
    Profile <- RetryFirst
    Calculable = {m1, m2}
    Postable = {m1, m3}
    MaxRetries = 2
    MaxAttempts = 3
INVARIANTS IInv BooksAgree ClaimSound RetryBudget TicksDisjoint NothingStranded PaidIsNotGivenUp RefusedPostingSettlesNothing
PROPERTIES SettledIsFinal DeadLetterNeedsReplay LifecycleSpec
SYMMETRY ProcessSymmetry
