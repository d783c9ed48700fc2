SPECIFICATION Spec
CONSTANTS
    e1 = e1
    e2 = e2
    j1 = j1
    j2 = j2
    j3 = j3
    j4 = j4
    Endpoints <- OneEndpoint
    Down <- NoneDown
    MaxConnects = 2
    Jobs <- FourJobs
    Undecodable <- OneUndecodable
    Credits = 1
INVARIANTS NothingDropped
CHECK_DEADLOCK FALSE
