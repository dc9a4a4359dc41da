CONSTANTS
    d = d
    e = e
    p = p
    q = q
    t = t
    u = u
    Unused = {{u}}
    Parts = {"streams"}
    Device = {d, e}
    Quic = {p, q}
    Tcp = {t, u}
    DeviceOf <- MCDeviceOf
    NoConn = none
    MaxConnections = 2
    MaxHandshakes = 1
    Limits <- MCLimits
    FrameSize <- MCFrameSize
    Sender = {s1, s2, s3}
    ChannelLimits <- MCChannelLimits
    Sizes = {0, 1, 2, 4}
    EventLimits <- MCEventLimits
    EventSize = 1
    PacketSizes = {2, 3}
SPECIFICATION MCSpec
INVARIANTS ReauthenticationPublishes
CHECK_DEADLOCK FALSE
