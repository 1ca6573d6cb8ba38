SPECIFICATION FairSpec
CONSTANTS
    ch1 = ch1
    none = none
    CHANNELS <- OneChannel
    NO_CHANNEL = none
    IN_TRANSIT_LIMITS <- MediumLimit
    DATA_MODULUS = 16
    PEER_RELIABLE_WINDOWS = 8
    PEER_RELIABLE_WINDOW_SIZE = 2
    PEER_FREE_RELIABLE_WINDOWS = 4
    ROOMS <- FullRoom
    TimeoutsMayBeEarly = FALSE
    LENGTH = 1
    MAX_MESSAGES = 3
    MAX_COPIES = 4
    MAX_LOSSES = 1
    HOST_DEFAULT_MAXIMUM_WAITING_DATA = 100
    PROTOCOL_MAXIMUM_SEGMENT_COMMANDS = 2
INVARIANTS
    NothingLost
PROPERTIES
    ImplementsDelivery
    EventuallyReceived
\* The receiver may die, and there may be nothing left to send.
CHECK_DEADLOCK FALSE
