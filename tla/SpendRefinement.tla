--------------------------- MODULE SpendRefinement ---------------------------
(***************************************************************************)
(* The spend protocol implements its promise: the record gives the binding *)
(* and the stage, the server's lock and its finalization the rest.         *)
(***************************************************************************)
EXTENDS SpendProtocol

Promise == INSTANCE SpendPromise WITH
    bound <- IF store = NoRecord THEN NoTx ELSE store.tx,
    stage <- IF store = NoRecord THEN "None" ELSE store.stage,
    held <- accepted,
    done <- finalized,
    FallsBack <- "dirty" \in StoreFaults

(* With one call at a time every step of the protocol, a lost answer, a     *)
(* crash, a failed write or a late request included, is a step the promise  *)
(* allows; only writes that fail after they took effect make a finalized    *)
(* record fall back (spend_store.rs:1-15).                                  *)
KeepsPromise == Promise!Spec
=============================================================================
