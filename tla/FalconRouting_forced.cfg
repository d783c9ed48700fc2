SPECIFICATION Spec
CONSTANTS
    k1 = k1
    k2 = k2
    w1 = w1
    w2 = w2
    Creates <- TwoCreates
    Workers <- OneWorker
    RetryInterval = 2
INVARIANTS VerdictIsTrue
