\* Three threads that request or stop, up to three requests in the queue.
CONSTANTS
    Threads = {t1, t2, t3}
    MaxQueue = 3
SPECIFICATION FairSpec
INVARIANTS NoLostWakeup
PROPERTIES RequestsAreDispatched ExitIsObeyed
