CONSTANTS
    Pids = {p1, p2}
    MaxRegistrations = 2
    Fds = {f1, f2, f3}
    MaxFdCount = 7
    PipeMayFail = FALSE
    PollMayFail = FALSE
    None = None
SPECIFICATION Spec
INVARIANTS NeverAborts AppsInUseExist TablesLeadToTheirApp FdCountIsExact
SYMMETRY Symmetry
\* An idle daemon has nothing to do once every application is gone.
CHECK_DEADLOCK FALSE
