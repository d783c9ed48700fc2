SPECIFICATION PipelineFairSpec
CONSTANTS
    c1 = c1
    c2 = c2
    s1 = s1
    s2 = s2
    Calls <- TwoCalls
    Sources <- TwoSources
    Assignments <- OneOrTwo
    Lifetimes <- Short
    DefaultLifetime = 2
    FetchTimeout = 1
    LastInstant = 2
    MaxAttempts = 2
PROPERTIES TokenUnexpired ReplacedOnlyWhenDue CallsReturn
