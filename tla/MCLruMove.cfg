SPECIFICATION Spec
CONSTANTS
    Keys = {a, b, c, d}
    Values = {v1, v2}
    NoValue = NoValue
    Empty = Empty
    TrivialMove = FALSE
    MaxSize = 2
    MaxUsage = 6
PROPERTIES
    LookupKeepsValue
