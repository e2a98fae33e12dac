SPECIFICATION Spec
CONSTANTS
    Connections = {c1, c2}
    Plugins = {p1, p2}
    None = None
    MaxClients = 3
SYMMETRY FactorySymmetry
INVARIANTS
    ReturnedIsStored
