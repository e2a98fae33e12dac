SPECIFICATION Spec
CONSTANTS
    Nodes = {n1, n2}
    MaxIterators = 3
    MaxTimestamp = 2
    MaxMetadata = 2
    Metadata <- MCMetadata
SYMMETRY NodeSymmetry
INVARIANTS
    TypeOK
    ExecStateResolves
    ReachableByAbort
    NoScanOutlivesAbort
    LeaksOnlyWhenAbandoned
    CountedOnce
    ScansOfOneQuery
    KeepsSlowest
PROPERTIES
    AbortKeepsItsMetadata
CHECK_DEADLOCK FALSE
