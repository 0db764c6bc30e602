SPECIFICATION LiveSpec
CONSTANTS
    count = 2
    MaxIndexes = 2
    MaxChunks = 2
    MaxViewers = 1
    Seeks = {"beginning"}
PROPERTIES
    LeavesOldChunks
CHECK_DEADLOCK FALSE
