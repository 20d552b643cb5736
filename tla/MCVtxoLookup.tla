---- MODULE MCVtxoLookup ----
(* VtxoLookup with few signers, one of which is a party's key. *)
EXTENDS VtxoLookup, TLC
CONSTANTS k1, k2, party, o1, o2
MCSigners == {k1, k2, party}
MCFewSigners == {k1, k2}
MCPartyKeys == {party}
MCOutpoints == {o1, o2}
MCSymmetry == Permutations(MCOutpoints) \cup Permutations(MCFewSigners)
=============================
