SPECIFICATION BoundedSpec
CONSTANTS
    c1 = c1
    Callers <- OneCaller
    Durations <- ShortAndLong
    Instants <- NoInstants
    MaxTime = 2
    MaxWake = 4
PROPERTIES WaitsGoForward
