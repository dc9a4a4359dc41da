CONSTANTS
    a = a
    b = b
    Slices = {"window", "rebuild", "current"}
    Device = {a, b}
    Sender = {a}
    Managed = TRUE
    Routed = {TRUE, FALSE}
    Window = 2
    MaxSequence = 3
    MaxEpoch = 2
    MaxSessions = 3
    MaxCiphers = 3
    MaxFailures = 1
    MaxInbound = 2
SPECIFICATION SliceSpec
INVARIANTS AtMostOnce
PROPERTIES NonceUsedOnce InjectedWhileCurrent
