CONSTANTS
    MaxChunks = 2
    MaxConsumed = 1
    Faults = {"rotate", "check"}
    MaxSessions = 1
    PipeSize = 2
    MaxNotifications = 1
SPECIFICATION FairSpec
INVARIANTS ReferencesAreExact AssertionsHold
PROPERTIES CompletedRotationsStand RotationEnds DestroyedIsReleased
CHECK_DEADLOCK FALSE
