SPECIFICATION Spec
CONSTANTS
    Uses <- MC_Uses
    Classes <- MC_Classes
    Match <- MC_Match
    FullMatch <- MC_FullMatch
    SubOf <- MC_SubOf
    TargetClasses <- MC_TargetClasses
INVARIANTS TypeOK RegistersKnown LayoutFits LayoutStable SubregsPaired
CHECK_DEADLOCK FALSE
