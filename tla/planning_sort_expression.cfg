SPECIFICATION Spec
CONSTANTS
    Columns <- MCColumns
    Values <- MCValues
    Null = Null
    MaxInt = 3
    Queries <- MCQueries
    Schemas <- MCSchemas
    Tables <- MCTables
    MaxScans = 2
INVARIANT
    LimitOnlyIfAllSorted
