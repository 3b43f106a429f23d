SPECIFICATION Spec
CONSTANTS
    ByteBase = 5
    EMBEDMQ_MAGIC = 11
    EMBEDMQ_VERSION = 2
    MAX_PAYLOAD_LEN = 32
    DataTypes = {0}
    ANNOUNCE = 2
    FAREWELL = 3
    HEARTBEAT = 4
    DiscoveryTypes = {2, 3, 4}
    Udp <- MCUdp
    Tcp <- MCTcp
    Shm <- MCShm
    LocalHost <- MCLocalHost
    AnyHost <- MCAnyHost
    Messages <- MCMessages
    Announcements <- MCAnnouncements
    NodeId = 6
    DomainId = 1
    From <- MCFrom
    Noise = {0, 2, 4}
    MaxDamage = 2
INVARIANTS RoundTrip DamageRefused NoOverread
