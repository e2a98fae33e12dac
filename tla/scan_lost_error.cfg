SPECIFICATION Spec
CONSTANTS
    Connections = {c1, c2}
    Capacity = 1
    MaxRows = 3
INVARIANTS
    NilRowMeansNoMoreRows
