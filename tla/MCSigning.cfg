SPECIFICATION Spec
CONSTANTS
    K1 = K1
    K2 = K2
    K3 = K3
    K4 = K4
    T1 = T1
    T2 = T2
    Keys <- MCKeys
    Txs <- MCTxs
    Options <- MCOptions
    NoDelay = NoDelay
    MaxDelay = 1
    Rogue = Rogue
    None = None
    MaxSpends = 1
SYMMETRY Symmetry
INVARIANTS
    TypeOK
    TwoOfThree
    CommitmentBeforeRelease
    PayoutHeld
    FinalComplete
CHECK_DEADLOCK FALSE
