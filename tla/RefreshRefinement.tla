-------------------------- MODULE RefreshRefinement --------------------------
(***************************************************************************)
(* The refresh implements its promise.  A call that has failed and still   *)
(* withdraws its intent has not answered yet.                              *)
(***************************************************************************)
EXTENDS Refresh

Answered == pc = "idle"

Promise == INSTANCE RefreshPromise WITH
    settled <- refreshedIn # NoBatch,
    called <- ~Answered,
    answer <- IF ~Answered \/ outcome = "none" THEN "none"
              ELSE IF outcome = "ok" THEN "ok" ELSE "error"

(* Whatever the server's batches, lost answers and late requests do to a    *)
(* call, even one whose intent is gone and that no batch will ever name, it *)
(* answers, at the deadline at the latest; never with Ok for a VTXO that    *)
(* was not settled; no batch settles it twice, and once nothing fails some  *)
(* call's batch settles it (client.rs:357-421, refresh.rs:256-343).         *)
KeepsRefreshPromise == Promise!Spec
=============================================================================
