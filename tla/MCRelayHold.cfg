CONSTANTS
    Ids = {"a", "b", "c"}
    Keys = {"k"}
    Scores = {4}
    FreshFor = 2
    ProbeAfter = 2
    Hold = 2
    MaxCooldown = 2
    RefreshAhead = 0
    RefreshEvery = 2
    MaxFailures = 2
    Parallel = 1
    ProbeTimeout = 1
    MaxNow = 5
SPECIFICATION HoldSpec
PROPERTIES HealthyIsKept
CHECK_DEADLOCK FALSE
