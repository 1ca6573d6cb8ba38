SPECIFICATION Spec
CONSTANTS
    server = server
    guest = guest
    guest2 = guest2
    HOSTS <- OneGuest
    SERVER = server
    PEER_COUNT <- Roomy
    Ways <- AllLater
    EarlyTimeouts = TRUE
    MAX_CONNECTS = 1
    MAX_PINGS = 0
    MAX_COPIES = 2
    MAX_LOSSES = 0
    MAX_DUPLICATES = 1
INVARIANTS
    TypeOK
    ConnectedPeersCounted
    EndsAgree
    GuestConnectsFirst
\* The connections may have ended, with no further attempt.
CHECK_DEADLOCK FALSE
