SPECIFICATION Spec
CONSTANTS
    Reg <- MC_Reg
    Val <- MC_Val
    ConstVal <- MC_ConstVal
    Class <- MC_Class
    RegsOf <- MC_RegsOf
    RootOf <- MC_RootOf
    Alu <- MC_Alu
    TakenOn <- MC_TakenOn
    Fn <- MC_Fn
    Start <- MC_Start
    Code <- MC_CallEndsBlockCode
    Leader <- MC_CallEndsBlockLeader
    FunctionsNop = FALSE
    MaxDepth = 2
PROPERTY Refines
