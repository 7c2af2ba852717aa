SPECIFICATION Spec
CONSTANTS
    AddressBits = 3
    Widths = {1, 2}
    Values = {0, 1}
    Images <- MC_Images
INVARIANTS TypeOK LookupExact
PROPERTY Refines
CHECK_DEADLOCK FALSE
