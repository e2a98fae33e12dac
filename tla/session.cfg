SPECIFICATION Spec
CONSTANTS
    Connections = {c1, c2}
    Configs = {k1, e}
    EmptyConfig = e
    None = None
    Ttls <- MCTtls
    DefaultTtl = 1
    TicksPerSecond = 2
    MaxTime = 3
SYMMETRY SessionSymmetry
INVARIANTS
    TypeOK
    ClearedRowsNotServed
    TtlRespected
    OffMeansNotServed
    ScanHasServerConfig
    
PROPERTY
    SameConfigKeepsCache
