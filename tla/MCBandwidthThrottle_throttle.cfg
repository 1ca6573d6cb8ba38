SPECIFICATION Spec
CONSTANTS
    g1 = g1
    g2 = g2
    Slots <- TwoGuests
    HOST_INCOMING = 6
    HOST_OUTGOING = 4
    GUEST_INCOMING <- UnlimitedOr2
    GUEST_OUTGOING <- UnlimitedOr2Or5
    SIZES <- Five
    SAMPLES <- Default
    SECONDS <- TwoSeconds
    LIMIT_SIZE = 1
    MAX_TOTAL = 5
    DATA_MODULUS = 1024
    HOST_DEFAULT_MTU = 2
    PROTOCOL_MINIMUM_MTU = 1
    PROTOCOL_MAXIMUM_MTU = 4
    PROTOCOL_MINIMUM_WINDOW_SIZE = 2
    PROTOCOL_MAXIMUM_WINDOW_SIZE = 8
    PEER_WINDOW_SIZE_SCALE = 2
    PEER_SEGMENT_THROTTLE_SCALE = 4
    PEER_DEFAULT_ROUND_TRIP_TIME = 8
INVARIANTS
    PeersCounted
    NothingUnderflows
    ThrottledToFit
    SharesFit
