CONSTANTS
    r0 = r0
    r1 = r1
    NoTask = NoTask
    Stale = Stale
    Wild = Wild
    N = 1
    Task = {r0, s, u}
    Root <- MCRoot
    Sentinel = s
    User = {u}
    Quantum = 1
    ReapPeriod = 2
    MinCap = 4
    SleepTicks = 1
    Yielders = {r0}
    Sleepers = {r0, s, u}
    Exiters = {u}
    Targets = {u}
SPECIFICATION FairSpec
PROPERTIES NoStarvation SleepReturns
