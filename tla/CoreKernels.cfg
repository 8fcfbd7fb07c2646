SPECIFICATION Spec
CONSTANTS
    Ctas = {0}
    WarpsPerCta = 2
    WarpSize = 2
    Grid = 2
    Programs <- AllKernels
    Units <- TwoMemUnits
    SendMemfence = TRUE
    None = None
INVARIANTS ScoreboardExact PipelineCounted BarrierSafe CleanSlots
PROPERTY KernelFinishes
CHECK_DEADLOCK FALSE
