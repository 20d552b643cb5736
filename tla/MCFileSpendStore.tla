--------------------------- MODULE MCFileSpendStore ---------------------------
EXTENDS FileSpendStore, TLC

CONSTANTS V1, V2, I1, I2, I3, I4
MCValues == {V1, V2}
MCInodes == {I1, I2, I3, I4}
MCSymmetry == Permutations(MCValues) \union Permutations(MCInodes)
=============================================================================
