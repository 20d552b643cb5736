------------------------------ MODULE MCRefresh ------------------------------
(* Refresh with few intents and batches. *)
EXTENDS RefreshRefinement

CONSTANTS I1, I2, B1, B2
MCIntents == {I1, I2}
MCBatches == {B1, B2}
=============================================================================
