SPECIFICATION Spec
CONSTANTS
    p1 = p1
    p2 = p2
    Peers <- TwoPeers
    PROTOCOL_MAXIMUM_SEGMENT_COMMANDS = 2
    BUFFER_MAXIMUM = 5
    MTU = 5
    HEADER_SIZE = 1
    SizeOf <- Sizes
    PAYLOAD_SIZE = 2
    MAX_COMMANDS = 3
INVARIANTS
    LoadedIsWritten
    SlotsSuffice
\* Everything may have been sent.
CHECK_DEADLOCK FALSE
