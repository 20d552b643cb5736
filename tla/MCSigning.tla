------------------------------ MODULE MCSigning ------------------------------
EXTENDS EscrowSigning, TLC

CONSTANTS K1, K2, K3, K4, T1, T2

MCKeys == {K1, K2, K3, K4}
MCTxs == {T1, T2}
Symmetry == Permutations(MCTxs)

(* Every choice of keys up to renaming.                                     *)
KeyChoices ==
    {k \in [Roles -> MCKeys] :
        k["seller"] = K1 /\ k["buyer"] \in {K1, K2} /\ k["arbiter"] \in {K1, K2, K3}}

(* Zero, disabled, one block, and zero units of 512 seconds.                *)
MCDelays ==
    {[disabled |-> FALSE, seconds |-> FALSE, value |-> 0],
     [disabled |-> TRUE, seconds |-> FALSE, value |-> 1],
     [disabled |-> FALSE, seconds |-> FALSE, value |-> 1],
     [disabled |-> FALSE, seconds |-> TRUE, value |-> 0]}

MCOptions == [keys : KeyChoices, unilateral_exit_delay : MCDelays]
=============================================================================
