SPECIFICATION Spec
CONSTANTS
    c1 = c1
    Conns = {c1, c2, c3}
    NoConn = NoConn
    NumWorkers = 3
    Hardware = 3
    Synced = TRUE
    Ends = {TRUE, FALSE}
    MaxPieces <- OnePiece
    MayThrow = TRUE
    MaySignal = TRUE
SYMMETRY ConnSymmetry
INVARIANTS
    TypeOK
    ReservedWorkerIdle
    OpenSocketsOwned
    HandlerOwnsStream
    AcceptChain
    SyncedApp
    BusyWorkerProgresses
