SPECIFICATION Spec
CONSTANTS
    Reg <- MC_Reg
    Programs <- MC_FramePointer
    Main = "main"
    RegBytes = 8
    StackBytes = 128
INVARIANT RegistersSame
CHECK_DEADLOCK FALSE
