CONSTANTS
    Callers = {}
    Attempts = {1, 2}
    Relays = {11, 12}
    Pooled = TRUE
    IdSpace = 5
    MaxWire = 0
    InitialDelay = 1
    MaximumDelay = 1
    MaxFails = 0
    o = o
    Device = {o, a}
    Owner = o
    MaxSessions = 2
    MaxChanges = 1
    MaxRestarts = 0
    MaxBatches = 2
    MaxFrames = 1
    MaxWrites = 3
SPECIFICATION MCSpec
PROPERTIES StopReturns KeyArrives StopIsHeeded
CHECK_DEADLOCK FALSE
