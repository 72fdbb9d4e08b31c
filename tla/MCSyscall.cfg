CONSTANTS
    c = c
    k = k
    Cpu = {c}
    Pid = {k, u, v}
    Home <- MCHome
    Root <- MCRoot
    Byte = {0, 1}
    PayloadMax = 1
    Capacity = 2
    MaxData = 2
    MaxSent = 2
SPECIFICATION Behaviour
INVARIANTS InOrder PayloadIntact CountsBalance CallIntact
CHECK_DEADLOCK FALSE
SYMMETRY UsersAlike
