CONSTANTS
    count = 2
    DataSize = 2
    PaddingSize = 1
    TracefileSize = 4
    FirstChunk = 1
    RelaySessionId = 1
    SessiondSessionId = 0
    Overwrite = FALSE
    Resets = FALSE
    MaxPackets = 3
    MaxRotations = 1
    PacketBytes = 2
    InitialChunk = 1
SPECIFICATION Spec
INVARIANT CompletedRotationsAreOver
CHECK_DEADLOCK FALSE
