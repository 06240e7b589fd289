CONSTANTS
    Gangs = {1, 2}
    NumLanes = 6
    Passes = 2
    Masks <- MCMasks
    Workers = {w1, w2}
    Idle = Idle
    A <- First
    B <- Second
    Garbage = 9
    NElem = 4
    Group = 2
SPECIFICATION SumSpec
INVARIANTS AtomicAddLosesNothing

