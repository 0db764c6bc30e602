CONSTANTS
    Pids = {p1, p2}
    MaxRegistrations = 1
    Fds = {f1, f2, f3}
    MaxFdCount = 6
    PipeMayFail = TRUE
    PollMayFail = TRUE
    None = None
SPECIFICATION FairSpec
INVARIANTS SocketsHaveOneHolder
PROPERTIES HungUpAppsAreFreed
\* An idle daemon has nothing to do once every application is gone.
CHECK_DEADLOCK FALSE
