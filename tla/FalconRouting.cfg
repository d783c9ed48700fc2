SPECIFICATION FairSpec
CONSTANTS
    k1 = k1
    k2 = k2
    w1 = w1
    w2 = w2
    Creates <- TwoCreates
    Workers <- TwoWorkers
    RetryInterval = 2
INVARIANTS TypeOK
PROPERTIES VerdictIsFinal KeepsContract NobodyWaitsForProbe CallsReturn DetectionSettles
