CONSTANTS
    make1 = make1
    make2 = make2
    Invocations <- In2
    CommandLines <- Lines
    Cwd = "."
    NoOutput = NoOutput
    MaxRetries = 1
    MaxEdits = 1
SPECIFICATION Spec
INVARIANTS OwnResult TemporariesMatch
CHECK_DEADLOCK FALSE
