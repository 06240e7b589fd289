CONSTANTS
    NumLanes = 3
    MaxWidth = 4
    Programs <- AllPrograms
    Memory <- MCMemory
    Samples <- MCSamples
    VaryingInputs <- MCVaryingInputs
    Poison = Poison
    Insts <- MCInsts
    Wrap64 = 256
    Wrap32 = 64
    Undef = Undef
SPECIFICATION PartSpec
INVARIANTS ShapesHold Settled LoadIsLaneWise StoreIsLaneWise NoStrayAccess
PROPERTIES Terminates
