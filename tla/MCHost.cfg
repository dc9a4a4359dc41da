CONSTANTS
    d1 = d1
    d2 = d2
    d3 = d3
    n1 = n1
    n2 = n2
    l1 = l1
    l2 = l2
    a1 = a1
    Slices = {"addresses", "rows", "epoch"}
    Device = {d1, d2, d3}
    Network = {n1, n2}
    Link = {l1, l2}
    Account = {}
    NoDevice = NoDevice
    NoAccount = NoAccount
    SubnetSlots = 2
    HostSlots = 2
    MaxUses = 2
    MaxLinks = 2
    MaxPolicyRevision = 3
    Documents <- OneDocument
    MaxAccountDevices = 0
    MaxNetworks = 1
    MaxGateways = 1
    MaxCounter = 4
    MaxSessions = 3
    Process = {p1, p2}
    Subscriber = {s1, s2, s3}
    Old = {s1, s2}
    Actor = {x, y}
    Group = {g, h}
    PerNetwork = 2
    Total = 3
    Shown = 1
    Age = 1
    Spacing = 1
    Forget = 2
    MaxDenials = 1
    MaxEvents = 4
    MaxUptime = 2
    MaxWall = 2
    MaxKeys = 3
    Platforms = {"windows", "posix"}
    Service = {i, j, k}
    Capacity = 2
    MaxSize = 2
    MaxFiles = 3
    MaxRecords = 6
    MaxDropped = 1
SYMMETRY DeviceSymmetry
SPECIFICATION MCSpec
INVARIANTS RowsBelong UniqueAddresses IdentityKept ServingIsReachable NewestAreKept AuditIsKept
PROPERTIES LeaseStable OnlineOwnerMovesEpoch MigratedWhole
