CONSTANTS
    r0 = r0
    r1 = r1
    NoTask = NoTask
    Stale = Stale
    Wild = Wild
    N = 2
    Task = {r0, r1, s, k, k2}
    Root <- MCRoot
    Sentinel = s
    User = {}
    Quantum = 1
    ReapPeriod = 2
    MinCap = 4
    SleepTicks = 1
    Yielders = {}
    Sleepers = {k}
    Exiters = {}
    Targets = {}
SPECIFICATION Spec
INVARIANTS StealsOnlyIdle
