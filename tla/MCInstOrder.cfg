CONSTANTS
    Inst <- MCInst
    ProgramOrder <- MCProgramOrder
    NoInst = "none"
    PHIs <- MCPHIs
    MaskNamed <- MCMaskNamed
    Dominates <- MCDominates
    BlockMask <- MCBlockMask
    SelectMask <- MCSelectMask
    Programs <- ChainedOrSwapped
SPECIFICATION FairSpec
INVARIANTS DefsBeforeUses NoneTwice CompleteWhenDone CycleIsReal
PROPERTY Terminates
