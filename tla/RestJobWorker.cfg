SPECIFICATION FairSpec
CONSTANTS
    j1 = j1
    j2 = j2
    j3 = j3
    Jobs <- TwoJobs
    MaxActivations = 2
    Outages = TRUE
    MaxConcurrent = 2
PROPERTIES KeepsContract RunReturns AsksAgain
CHECK_DEADLOCK FALSE
