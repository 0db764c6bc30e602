CONSTANTS
    MaxChunks = 2
    MaxConsumed = 1
    Faults = {}
    MaxSessions = 1
    PipeSize = 2
    MaxNotifications = 1
SPECIFICATION Spec
INVARIANT ClearWaitsForItsRotation
CHECK_DEADLOCK FALSE
