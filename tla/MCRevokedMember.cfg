CONSTANTS
    d1 = d1
    d2 = d2
    d3 = d3
    n1 = n1
    n2 = n2
    l1 = l1
    l2 = l2
    a1 = a1
    Slices = {"account"}
    Device = {d1, d2, d3}
    Network = {n1}
    Link = {}
    Account = {a1}
    NoDevice = NoDevice
    NoAccount = NoAccount
    SubnetSlots = 1
    HostSlots = 2
    MaxUses = 0
    MaxLinks = 0
    MaxPolicyRevision = 0
    Documents = {}
    MaxAccountDevices = 3
    MaxNetworks = 1
    MaxGateways = 0
    MaxCounter = 100
    MaxSessions = 3
SYMMETRY DeviceSymmetry
VIEW WithoutCounters
SPECIFICATION SliceSpec
INVARIANTS RevokedIsNoMember
