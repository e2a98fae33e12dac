SPECIFICATION Spec
CONSTANTS
    Nodes = {n1, n2}
    MaxIterators = 3
    MaxTimestamp = 2
    MaxMetadata = 2
    Metadata <- MCMetadata
SYMMETRY NodeSymmetry
INVARIANTS
    FailedStartNotRunning
CHECK_DEADLOCK FALSE
