SPECIFICATION PollFairSpec
CONSTANTS
    p1 = p1
    c1 = c1
    Pollers <- OnePoller
    Callers <- WithOneOther
    Durations <- ShortAndLong
    Instants <- SomeInstants
    MaxTime = 2
    MaxWake = 4
    Timeout = 2
    Interval = 1
INVARIANTS ReadingsAgree TimeoutMeansMissing
PROPERTIES PinnedIsMonotone WaitsDoNotSum PollReturns
