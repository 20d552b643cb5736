----------------------------- MODULE SpendPromise -----------------------------
(***************************************************************************)
(* What the offchain spend promises the application about one escrow,     *)
(* whatever answers are lost and however often the process dies           *)
(* (escrow/src/spend_store.rs:1-15, escrow/src/client.rs:444-503): the    *)
(* record of the id and the server's state of the escrow output move      *)
(* together.  A transaction is bound to the id before the server can hold *)
(* it, stays bound while the server holds it, and is recorded finalized   *)
(* only after it was.                                                     *)
(***************************************************************************)
CONSTANTS
    Txs, NoTx,
    FallsBack   \* whether the record of a finalized spend may fall back

VARIABLES
    bound,  \* the transaction the id is bound to, or NoTx
    stage,  \* its recorded stage; "None" without a record
    held,   \* the transaction the server holds the escrow output for
    done    \* whether the server finalized it

vars == <<bound, stage, held, done>>

(* A record of an older version was saved after its submit was accepted.   *)
Init ==
    /\ done = FALSE
    /\ \/ bound = NoTx /\ stage = "None" /\ held = NoTx
       \/ bound \in Txs /\ stage = "Submitted" /\ held = bound

Bind(tx) ==
    /\ stage = "None"
    /\ held = NoTx \/ done
    /\ bound' = tx /\ stage' = "Submitting"
    /\ UNCHANGED <<held, done>>

Accept ==
    /\ stage = "Submitting" /\ held = NoTx
    /\ held' = bound
    /\ UNCHANGED <<bound, stage, done>>

(* The record is dropped: the server does not hold its transaction.        *)
Release ==
    /\ stage = "Submitting"
    /\ held # bound \/ done
    /\ bound' = NoTx /\ stage' = "None"
    /\ UNCHANGED <<held, done>>

Evidence ==
    /\ stage = "Submitting" /\ held = bound
    /\ stage' = "Submitted"
    /\ UNCHANGED <<bound, held, done>>

(* The server may finalize before the record shows its signatures: they    *)
(* are then in the memory of a call that could not save them.              *)
Finalize ==
    /\ stage \in {"Submitting", "Submitted"}
    /\ held = bound /\ ~done
    /\ done' = TRUE
    /\ UNCHANGED <<bound, stage, held>>

Complete ==
    /\ stage \in {"Submitting", "Submitted"}
    /\ held = bound /\ done
    /\ stage' = "Finalized"
    /\ UNCHANGED <<bound, held, done>>

(* The write of the finalized stage takes effect and fails all the same,   *)
(* and the call puts the stage before it back, after the application has   *)
(* perhaps pruned the record (client.rs:787-790).                          *)
FallBack ==
    /\ FallsBack
    /\ stage \in {"Finalized", "None"} /\ done
    /\ bound' = held /\ stage' = "Submitted"
    /\ UNCHANGED <<held, done>>

Prune ==
    /\ stage = "Finalized"
    /\ bound' = NoTx /\ stage' = "None"
    /\ UNCHANGED <<held, done>>

Next ==
    \/ \E tx \in Txs : Bind(tx)
    \/ Accept \/ Release \/ Evidence \/ Finalize \/ Complete \/ FallBack \/ Prune

Spec == Init /\ [][Next]_vars
=============================================================================
