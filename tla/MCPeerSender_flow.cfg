SPECIFICATION FairSpec
CONSTANTS
    ch1 = ch1
    none = none
    CHANNELS <- OneChannel
    NO_CHANNEL = none
    Messages <- Units
    IN_TRANSIT_LIMITS <- MediumLimit
    DATA_MODULUS = 16
    PEER_RELIABLE_WINDOWS = 3
    PEER_RELIABLE_WINDOW_SIZE = 3
    PEER_FREE_RELIABLE_WINDOWS = 2
    ROOMS <- AnyRoom
    TimeoutsMayBeEarly = FALSE
    MayGiveUp = FALSE
    MAX_MESSAGES = 9
    MAX_PINGS = 1
    MAX_COPIES = 12
    MAX_LOSSES = 0
INVARIANTS
    NumbersStayApart
    UsedWindowsAreMarked
    WithinWindowSize
PROPERTIES
    EventuallyAcknowledged
    GracefulDisconnectEnds
\* The peer may be closed, with nothing left to do.
CHECK_DEADLOCK FALSE
