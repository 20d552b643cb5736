------------------------------- MODULE MCSpend -------------------------------
EXTENDS SpendRefinement, TLC

CONSTANTS A, B
MCTxs == {A, B}

\* For runs that check invariants only.
MCSymmetry == Permutations(MCTxs) \union Permutations(Callers)
=============================================================================
