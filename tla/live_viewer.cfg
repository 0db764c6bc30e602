SPECIFICATION FairLiveSpec
CONSTANTS
    count = 2
    MaxIndexes = 4
    MaxChunks = 2
    MaxViewers = 1
    Seeks = {"beginning", "last"}
INVARIANTS RetainedExactlyOnce IndexIsTheNextOne PacketIsIndexed RequestsAreAnswered
PROPERTIES OnlyLostIndexesAreSkipped ViewerCatchesUp
CHECK_DEADLOCK FALSE
