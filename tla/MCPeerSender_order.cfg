SPECIFICATION Spec
CONSTANTS
    ch1 = ch1
    none = none
    CHANNELS <- OneChannel
    NO_CHANNEL = none
    Messages <- Fragmented
    IN_TRANSIT_LIMITS <- NarrowLimit
    DATA_MODULUS = 16
    PEER_RELIABLE_WINDOWS = 4
    PEER_RELIABLE_WINDOW_SIZE = 2
    PEER_FREE_RELIABLE_WINDOWS = 2
    ROOMS <- AnyRoom
    TimeoutsMayBeEarly = TRUE
    MayGiveUp = TRUE
    MAX_MESSAGES = 3
    MAX_PINGS = 0
    MAX_COPIES = 4
    MAX_LOSSES = 1
INVARIANTS
    TypeOK
    NothingForgotten
    FirstSentInOrder
\* The peer may be closed, with nothing left to do.
CHECK_DEADLOCK FALSE
