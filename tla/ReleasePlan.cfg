SPECIFICATION Spec
CONSTANTS
  AmountLimit = 16
  OverflowChecks = TRUE
  VtxoAmounts = {2, 5, 7}
  FeeAmounts = {0, 1, 2, 3, 8}
  Dusts = {0, 2, 3}
  MaxFees = 3
INVARIANTS Conserves NoDustOutput QuoteHolds DelegationPaysNoLess
