SPECIFICATION FairSpec
CONSTANTS
    j1 = j1
    j2 = j2
    j3 = j3
    Jobs <- TwoJobs
    MaxActivations = 2
    Outages = FALSE
    MaxConcurrent = 1
    PollMaxJobs = 2
    MaxStreams = 2
INVARIANTS OneStream
PROPERTIES KeepsContract SupersededIsFenced RunReturns SidecarAsksAgain
CHECK_DEADLOCK FALSE
