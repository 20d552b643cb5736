SPECIFICATION FairSpec
CONSTANTS
    A = A
    B = B
    NoTx = NoTx
    NoRecord = NoRecord
    Txs <- MCTxs
    Callers = {c1}
    MaxAttempts = 3
    StoreFaults = {"clean", "dirty"}
    AtomicStore = TRUE
    ServerCps = {"matching", "mismatched", "empty"}
    FinalizeTwice = TRUE
INVARIANTS
    TypeOK
    AcceptedIsRecorded
PROPERTIES
    SubmittedIsFinalized
    BoundForGood
    ClearedOnlyIfFree
    EvidenceNeverLost
    CommitmentOnDiskFirst
    KeepsPromise
CHECK_DEADLOCK FALSE
