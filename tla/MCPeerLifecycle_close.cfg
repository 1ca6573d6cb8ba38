SPECIFICATION FairSpec
CONSTANTS
    server = server
    guest = guest
    guest2 = guest2
    HOSTS <- TwoGuests
    SERVER = server
    PEER_COUNT <- Roomy
    Ways <- GuestsDiffer
    EarlyTimeouts = FALSE
    MAX_CONNECTS = 1
    MAX_PINGS = 0
    MAX_COPIES = 0
    MAX_LOSSES = 0
    MAX_DUPLICATES = 0
INVARIANTS
    EventsInTurn
PROPERTIES
    DisconnectEnds
\* The connections may have ended, with no further attempt.
CHECK_DEADLOCK FALSE
