SPECIFICATION Spec
CONSTANTS
    ch1 = ch1
    ch2 = ch2
    CHANNELS <- OneChannel
    Commands <- FiveMessages
    PEER_RELIABLE_WINDOWS = 4
    PEER_RELIABLE_WINDOW_SIZE = 4
    PEER_FREE_RELIABLE_WINDOWS = 3
    HOST_DEFAULT_MAXIMUM_WAITING_DATA = 100
    PROTOCOL_MAXIMUM_SEGMENT_COMMANDS = 2
    MayDisconnectLater = FALSE
    MAX_ARRIVALS = 6
INVARIANTS
    ConfirmedIsKept
    WaitingDataIsCounted
\* The process may die, and a run ends when its datagrams are used up.
CHECK_DEADLOCK FALSE
