CONSTANTS
    Cfgs <- AllCfgs
    NullMask = "nullptr"
SPECIFICATION Spec
INVARIANTS NoNullMask NoAbort MasksCorrect InstructionsCorrect BranchesCorrect
