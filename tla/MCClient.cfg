CONSTANTS
    Parts = {"calls", "life", "lease", "pool"}
    Callers = {k1}
    Attempts = {1, 2}
    Relays = {11, 12}
    Pooled = TRUE
    IdSpace = 8
    MaxWire = 2
    InitialDelay = 1
    MaximumDelay = 3
    MaxFails = 2
    Fetchers = {f1, f2}
    Lifetime = 2
    RenewAfter = 1
    MaxClock = 5
    MaxRevision = 3
    Ids = {"a", "b"}
    Keys = {"k", "m"}
    Scores = {4}
    FreshFor = 2
    ProbeAfter = 2
    Hold = 2
    MaxCooldown = 2
    RefreshAhead = 2
    RefreshEvery = 2
    MaxFailures = 2
    Parallel = 1
    ProbeTimeout = 2
    MaxNow = 4
SPECIFICATION MCSpec
INVARIANTS ResponseIsOwn NobodyWaitsInVain AuthorityIsFresh BackoffExact
PROPERTIES ChoiceIsFresh
CHECK_DEADLOCK FALSE
