SPECIFICATION FairSpec
CONSTANTS
    Connections = {c1, c2}
    Capacity = 1
    MaxRows = 3
PROPERTIES
    ReaderStopsOrIsBlocked
    CallReturns
    CancellationIfAnswering
