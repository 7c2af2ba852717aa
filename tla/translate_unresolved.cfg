SPECIFICATION Spec
CONSTANTS
    Images <- MC_UnresolvedImages
INVARIANT NoEmptyBlock
CHECK_DEADLOCK FALSE
