SPECIFICATION Spec
CONSTANTS
    Inputs <- MC_Inputs
    Pieces <- MC_Pieces
    Prefix <- MC_Prefix
INVARIANTS TypeOK CallsReachLifted OwnTranslation SymtabExact Linkable HostSees Accepts
CHECK_DEADLOCK FALSE
