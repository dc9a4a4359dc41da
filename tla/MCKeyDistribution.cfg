CONSTANTS
    o = o
    a = a
    b = b
    Device = {o, a}
    Owner = o
    MaxSessions = 3
    MaxChanges = 1
    MaxRestarts = 1
    MaxBatches = 2
    MaxFrames = 1
SPECIFICATION KeySpec
INVARIANTS KeyAgreement DepartedNeverKnows QuietIsConverged
CHECK_DEADLOCK FALSE
