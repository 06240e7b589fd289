SPECIFICATION Spec
CONSTANTS
    Functions <- MCFunctions
    Params <- MCParams
INVARIANTS
    ReadsItsOperands
    DeletesTheObsolete
