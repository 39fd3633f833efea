CONSTANTS
    Threads = {c, w1, w2}
    Waiters = {w1, w2}
    Callers = {c, w1}
    Sockets = {s1}
    Objs = {o1, o2}
    Interests <- MCInterests
    Signals = {"RECEIVE"}
    Timeouts = {"forever"}
    MaxEvents = 1
    MaxGroupSize = 1
    MaxCalls = 4
    MaxFaults = 1
    Nil = Nil
SPECIFICATION FairSpec
INVARIANTS Watched SleeperIsArmed PollKeepsSock SockAccounted GroupsPacked PortOutlivesCalls
PROPERTIES WaiterWakes CloseReturns
CHECK_DEADLOCK FALSE
