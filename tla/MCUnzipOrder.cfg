CONSTANTS
    GangSizes = {2, 4}
    Widths = {1, 2, 4}
    Types <- MCTypes
    Patterns <- MCPatterns
    IndexWrap = 64
    MaxCalls = 2
SPECIFICATION CallsSpec
INVARIANT UnzipMostSignificantFirst
