SPECIFICATION EitherSpec
CONSTANTS
    Procs = {p, q}
    Keys <- OneKey
    Values = {v, w}
    Long = {v}
    NoValue = NoValue
    Paths <- OnePath
    path <- OneOwnPath
    Inodes = {1, 2}
    NoFile = NoFile
    MaxSize = 0
    MaxUsage = 2
    MaxCrashes = 0
    Lonely = r
    LonelyKeys = {k1, k2, k3}
    LonelyValues = {v1}
SYMMETRY Symmetric
INVARIANTS
    TypeOKTogether
    GetReturnsOwnValueTogether
    SizeBoundAlone
    StampsDistinctAlone
    GetReturnsSetValueAlone
