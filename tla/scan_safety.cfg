SPECIFICATION Spec
CONSTANTS
    Connections = {c1, c2}
    Capacity = 2
    MaxRows = 4
INVARIANTS
    TypeOK
    DeliveredIsPrefix
    EndMeansExhausted
    MetadataCoversDelivered
    MetadataReadAloneAtEnd
    ErrorHasCause
PROPERTIES
    ClosedChannelReportsError
    ImplementsScanResult
