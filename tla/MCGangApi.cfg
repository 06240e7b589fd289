CONSTANTS
    GangSizes = {2, 4}
    Widths = {1, 2, 4}
    Types <- MCTypes
    Patterns <- MCPatterns
    IndexWrap = 64
    MaxCalls = 2
    Gangs = {1, 2}
    NumLanes = 6
    Passes = 2
    Masks <- MCMasks
    Workers = {w1}
    Idle = Idle
    A <- First
    B <- Second
    Garbage = 9
    NElem = 4
    Group = 2
SPECIFICATION ApiSpec
INVARIANTS UnzipTakesItsSet UnzipUndoesZip OneOperandShuffle TwoOperandShuffle
    SumIsRight
PROPERTIES ImplementsAtomicSum
