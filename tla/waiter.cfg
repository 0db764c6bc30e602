CONSTANT Threads = {t1, t2, t3}
SPECIFICATION FairSpec
INVARIANTS NoUseAfterFree
PROPERTIES IsWaitQueue PoppedReturns
