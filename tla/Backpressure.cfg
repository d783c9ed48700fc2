SPECIFICATION FairSpec
CONSTANTS
    c1 = c1
    c2 = c2
    Callers <- TwoCallers
    Unlimited = Unlimited
    ObserveOnly = FALSE
    InitialMax = 2
    Floor = 1
    SevereThreshold = 2
    MaxWaiters = 1
    RecoveryInterval = 1
    DecayQuiet = 0
    UnlimitedAfterHealthy = 1
    BackoffInitial = 1
    BackoffMax = 2
    MaxTime = 3
INVARIANTS TypeOK NoPermitLeak NoLostWakeup WaitersCounted
PROPERTIES LiftedOnlyAfterCooldown ParkedIsWoken
