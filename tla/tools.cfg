SPECIFICATION Spec
CONSTANTS
    Builds <- MC_Builds
    Configs <- MC_Configs
    MctomirRuns <- MC_MctomirRuns
    BleachRuns <- MC_BleachRuns
    MaxRuns = 3
    MaxEdits = 2
    MaxFaults = 1
INVARIANTS TypeOK SuccessWritesAll OnlyFailuresMix NeverLiftsByDump
CHECK_DEADLOCK FALSE
