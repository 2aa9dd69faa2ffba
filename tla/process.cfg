SPECIFICATION FairSpec
CONSTANTS
    Workers = {w1}
    Schedulers = {s1}
    Requests = {r1, r2, r3}
    Keyed = {r1, r2}
    Conns = 2
    BatchSize = 2
INVARIANTS NoTransactionCutOff CleanExitAnswersAll
PROPERTIES ShutdownEnds RequestsAnswered
CHECK_DEADLOCK FALSE
