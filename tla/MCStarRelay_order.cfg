SPECIFICATION Spec
CONSTANTS
    server = server
    g1 = g1
    g2 = g2
    g3 = g3
    SERVER = server
    NoGuest = NoGuest
    Guests <- ThreeGuests
    UniqueIds <- Distinct
    BROADCAST_ID = 0
    SERVER_ID = 1
    PEER_COUNT = 3
    MAX_MESSAGES <- Talk
    MAX_TOTAL = 2
    READERS <- OneReader
    MAY_END <- TwoEnd
    MAX_EXITS = 1
INVARIANTS
    HeardInSequence
    NotResentToSelf
    SameOrder
    PeekedIsThere
\* Everybody may have said all they have to say, or be gone.
CHECK_DEADLOCK FALSE
