CONSTANTS
    d = d
    e = e
    p = p
    q = q
    t = t
    u = u
    Unused = {{u}, {q, t}}
    Parts = {"streams", "channel", "events"}
    Device = {d, e}
    Quic = {p, q}
    Tcp = {t, u}
    DeviceOf <- MCDeviceOf
    NoConn = none
    MaxConnections = 2
    MaxHandshakes = 1
    Limits <- MCLimits
    FrameSize <- MCFrameSize
    Sender = {s1, s2, s3}
    ChannelLimits <- MCChannelLimits
    Sizes = {0, 1, 2, 4}
    EventLimits <- MCEventLimits
    EventSize = 1
    PacketSizes = {2, 3}
SPECIFICATION FairMCSpec
INVARIANTS RegisteredIsOpen QuietIsPublished
PROPERTIES StoppedReleases ShutIsReleased DataNeverCloses EventIsQueued
CHECK_DEADLOCK FALSE
