SPECIFICATION FairSpec
CONSTANTS
    r1 = r1
    r2 = r2
    r3 = r3
    r4 = r4
    k1 = k1
    NoKey = NoKey
    NoRequest = NoRequest
    Requests = {r1, r2, r3, r4}
    Keys = {k1}
    KeyOf <- PlainToo
    Conns = 3
INVARIANTS IInv KeyExclusive AnswersAgree DoubleExecutionNeedsLoss NoKeyStuck
PROPERTY EveryRequestIsAnswered
CHECK_DEADLOCK FALSE
