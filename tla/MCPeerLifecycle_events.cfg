SPECIFICATION Spec
CONSTANTS
    server = server
    guest = guest
    guest2 = guest2
    HOSTS <- TwoGuests
    SERVER = server
    PEER_COUNT <- Tight
    Ways <- AllNow
    EarlyTimeouts = FALSE
    MAX_CONNECTS = 1
    MAX_PINGS = 1
    MAX_COPIES = 0
    MAX_LOSSES = 1
    MAX_DUPLICATES = 0
INVARIANTS
    ConnectedIsAnnounced
    ClosedOnRequest
\* The connections may have ended, with no further attempt.
CHECK_DEADLOCK FALSE
