SPECIFICATION Spec
CONSTANTS
    Images <- MC_Images
INVARIANTS TypeOK BlocksPartition AddressesAgree FlowKept SuccessorsMatch
PROPERTY Converts
CHECK_DEADLOCK FALSE
