SPECIFICATION Spec
CONSTANTS
    A = A
    B = B
    NoTx = NoTx
    NoRecord = NoRecord
    Txs <- MCTxs
    Callers = {c1}
    MaxAttempts = 2
    StoreFaults = {"dirty"}
    AtomicStore = FALSE
    ServerCps = {"matching", "mismatched", "empty"}
    FinalizeTwice = FALSE
PROPERTIES
    StageNeverFallsBack
CHECK_DEADLOCK FALSE
