CONSTANTS
    count = 2
    DataSize = 2
    PaddingSize = 1
    TracefileSize = 4
    FirstChunk = 1
    RelaySessionId = 1
    SessiondSessionId = 1
    Overwrite = TRUE
    Resets = TRUE
    MaxPackets = 3
    MaxRotations = 2
    PacketBytes = 2
    InitialChunk = 1
SPECIFICATION Spec
INVARIANTS NeverCrashes IndexPointsAtPacket PacketsInTheirChunk PositionIsLowerBound CompletedRotationsAreOver NotPendingMeansStored CloseLosesNothing NoStreamLeftOpen
PROPERTIES RingSpec
CHECK_DEADLOCK FALSE
