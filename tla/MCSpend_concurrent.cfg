SPECIFICATION Spec
CONSTANTS
    A = A
    B = B
    NoTx = NoTx
    NoRecord = NoRecord
    Txs <- MCTxs
    Callers = {c1, c2}
    MaxAttempts = 2
    StoreFaults = {"clean", "dirty", "undone"}
    AtomicStore = FALSE
    ServerCps = {"matching", "mismatched", "empty"}
    FinalizeTwice = FALSE
SYMMETRY MCSymmetry
INVARIANTS
    NoReleaseWithoutCommitment
    RecordNotAheadOfServer
    OkMeansFinalized
PROPERTIES
    FallsBackOnlyFromFinalized
CHECK_DEADLOCK FALSE
