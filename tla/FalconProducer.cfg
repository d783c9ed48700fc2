SPECIFICATION FairSpec
CONSTANTS
    e1 = e1
    k1 = k1
    k2 = k2
    Endpoints <- OneEndpoint
    Down <- NoneDown
    MaxConnects = 2
    Creates <- TwoCreates
    Awaiting <- OneAwaits
    Window = 1
INVARIANTS NoOrphanedCreate NothingLeftBehind CreditsNotLost ParkedWithoutCredit
PROPERTIES SentReturns KeepsContract
CHECK_DEADLOCK FALSE
