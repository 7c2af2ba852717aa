SPECIFICATION Spec
CONSTANTS
    Functions <- MC_Functions
    FunctionsNop = FALSE
INVARIANTS TypeOK NeverRejects BlocksTerminated OperandsLoaded RegistersAroundTransfers FlowKept
CHECK_DEADLOCK FALSE
