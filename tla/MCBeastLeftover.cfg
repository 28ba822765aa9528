SPECIFICATION Spec
CONSTANTS
    c1 = c1
    Conns = {c1, c2, c3}
    NoConn = NoConn
    NumWorkers = 2
    Hardware = 3
    Synced = FALSE
    Ends = {TRUE}
    MaxPieces <- TwoOnFirst
    MayThrow = FALSE
    MaySignal = FALSE
SYMMETRY OtherSymmetry
INVARIANTS
    AnswersOwnRequest
