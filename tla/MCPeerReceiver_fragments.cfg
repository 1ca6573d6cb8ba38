SPECIFICATION Spec
CONSTANTS
    ch1 = ch1
    ch2 = ch2
    CHANNELS <- TwoChannels
    Commands <- Fragmented
    PEER_RELIABLE_WINDOWS = 4
    PEER_RELIABLE_WINDOW_SIZE = 4
    PEER_FREE_RELIABLE_WINDOWS = 3
    HOST_DEFAULT_MAXIMUM_WAITING_DATA = 100
    PROTOCOL_MAXIMUM_SEGMENT_COMMANDS = 2
    MayDisconnectLater = TRUE
    MAX_ARRIVALS = 5
INVARIANTS
    TypeOK
    PendingInOrder
    HandedOverInSequence
    NoStalledHead
    NothingStranded
\* The process may die, and a run ends when its datagrams are used up.
CHECK_DEADLOCK FALSE
