SPECIFICATION FairSpec
CONSTANTS
    c1 = c1
    Conns = {c1, c2}
    NoConn = NoConn
    NumWorkers = 2
    Hardware = 3
    Synced = FALSE
    Ends = {TRUE}
    MaxPieces <- OnePiece
    MayThrow = FALSE
    MaySignal = TRUE
PROPERTIES
    ShutdownCompletes
