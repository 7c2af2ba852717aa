SPECIFICATION Spec
CONSTANTS
    Reg <- MC_Reg
    Programs <- MC_Programs
    Main = "main"
    RegBytes = 8
    StackBytes = 32
INVARIANTS TypeOK Simulates TrackingExact OverflowsOnlyWhenFull
CHECK_DEADLOCK FALSE
