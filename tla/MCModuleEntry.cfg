CONSTANTS
    Programs <- MCPrograms
    NotConstant <- MCNotConstant
SPECIFICATION Spec
INVARIANTS
    LaunchesAreOwn
    RejectsExactly
    ResolvedAgainstAll
    CallsAreLaneWise
CHECK_DEADLOCK FALSE
