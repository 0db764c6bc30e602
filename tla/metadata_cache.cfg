SPECIFICATION Spec
CONSTANTS
    Modes = {{"timer", "rotate", "close"}, {"timer", "relay", "close"}, {"relay", "rotate"}, {"live", "timer"}, {"live", "close"}, {"live", "relay"}, {"regenerate", "rotate"}, {"regenerate", "relay"}, {"regenerate", "close"}}
    MaxLen = 2
    MaxVersion = 1
    MaxPackets = 2
    MaxRotations = 1
    MaxExpiries = 1
    PacketSize = 1
    RingSize = 2
    PipeSize = 2
INVARIANTS ChunkMetadataIsPrefix SyncedMeansStored NotPendingMeansMetadataStored
PROPERTIES PushesEnd MetadataIsStored
CHECK_DEADLOCK FALSE
