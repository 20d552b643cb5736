---------------------------- MODULE RefreshPromise ----------------------------
(***************************************************************************)
(* What refresh_escrow promises the application about one recoverable VTXO *)
(* (escrow/src/client.rs:322-356, escrow/src/refresh.rs:31-35): the VTXO   *)
(* is settled at most once, a call answers Ok only for a VTXO that was     *)
(* settled and an error with or without it, and every call answers.  Once  *)
(* failures have ceased, calling again and again settles the VTXO.         *)
(***************************************************************************)
VARIABLES
    settled,    \* whether a batch has settled the VTXO
    called,     \* whether a call is in progress
    answer      \* the last call's answer, or "none" while it runs

vars == <<settled, called, answer>>

Init == settled = FALSE /\ called = FALSE /\ answer = "none"

Call ==
    /\ ~called
    /\ called' = TRUE /\ answer' = "none"
    /\ settled' = settled

(* The batch is the server's: it may complete after the call that took part *)
(* in it has answered with an error.                                       *)
Settle ==
    /\ ~settled /\ settled' = TRUE
    /\ UNCHANGED <<called, answer>>

Answer(result) ==
    /\ called
    /\ result = "ok" => settled
    /\ called' = FALSE /\ answer' = result
    /\ settled' = settled

Next == Call \/ Settle \/ Answer("ok") \/ Answer("error")

Progress ==
    /\ called ~> ~called
    /\ <>settled

Spec == Init /\ [][Next]_vars /\ Progress
=============================================================================
