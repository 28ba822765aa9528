SPECIFICATION Spec
CONSTANTS
    Keys = {a, b, c}
    Values = {v1, v2}
    NoValue = NoValue
    Empty = Empty
    TrivialMove = TRUE
    MaxSize = 2
    MaxUsage = 7
INVARIANTS
    TypeOK
    StampsDistinct
    SizeBound
PROPERTIES
    ImplementsContract
