CONSTANTS
    TlsThreads = {t1, t2}
    Owners = {o1, o2}
    FixedCap = 0
    MaxMembers = 3
    Callers = {a, b, c}
    QueueKinds = {"block", "fiber"}
    QueueSizes = {2}
    Calls <- MCCalls
    MaxCalls = 2
    Threads = {r1, r2}
    PageNum = 3
    FilePages = 3
    Spans = {1, 2}
    Fails = {}
    MaxOpen = 1
SPECIFICATION MCSpec
CHECK_DEADLOCK FALSE
INVARIANT TlsSafe
PROPERTY DestroyReturns
PROPERTY ImplementsDeque
PROPERTY WaiterIsServed
PROPERTY PreadReturns
