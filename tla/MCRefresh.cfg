SPECIFICATION FairSpec
CONSTANTS
    I1 = I1
    I2 = I2
    B1 = B1
    B2 = B2
    NoIntent = NoIntent
    NoBatch = NoBatch
    Intents <- MCIntents
    Batches <- MCBatches
    Nodes = 2
    DeleteAttempts = 2
    HasDelete = TRUE
INVARIANTS
    TypeOK
PROPERTIES
    OkMeansRefreshed
    OnlyOurBatch
    BreaksOnlyBehind
    KeepsRefreshPromise
