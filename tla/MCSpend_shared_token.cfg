SPECIFICATION Spec
CONSTANTS
    A = A
    B = B
    NoTx = NoTx
    NoRecord = NoRecord
    Txs <- MCTxs
    Callers = {c1, c2}
    MaxAttempts = 1
    StoreFaults = {}
    AtomicStore = TRUE
    ServerCps = {"matching"}
    FinalizeTwice = FALSE
PROPERTIES
    OthersRecordKept
CHECK_DEADLOCK FALSE
