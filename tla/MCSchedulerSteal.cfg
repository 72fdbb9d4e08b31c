CONSTANTS
    r0 = r0
    r1 = r1
    NoTask = NoTask
    Stale = Stale
    Wild = Wild
    N = 2
    Task = {r0, r1, s, k, u}
    Root <- MCRoot
    Sentinel = s
    User = {u}
    Quantum = 1
    ReapPeriod = 1
    MinCap = 4
    SleepTicks = 1
    Yielders = {}
    Sleepers = {k}
    Exiters = {}
    Targets = {u}
SPECIFICATION Spec
INVARIANTS Conserved
PROPERTY ImplementsRunQueues
CHECK_DEADLOCK FALSE
