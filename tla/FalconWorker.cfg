SPECIFICATION FairSpec
CONSTANTS
    e1 = e1
    e2 = e2
    j1 = j1
    j2 = j2
    j3 = j3
    j4 = j4
    Endpoints <- TwoEndpoints
    Down <- OneDown
    MaxConnects = 2
    Jobs <- FourJobs
    Undecodable <- OneUndecodable
    Credits = 1
INVARIANTS SocketsSafe DeliveryCreditsConserved
PROPERTIES KeepsContract WorkerReturns NeverStarves FailoverConnects
CHECK_DEADLOCK FALSE
