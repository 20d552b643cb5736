------------------------------- MODULE Refresh -------------------------------
(***************************************************************************)
(* The refresh of an escrow VTXO: EscrowClient::refresh_escrow with its    *)
(* deadline and its withdrawal (escrow/src/client.rs:357-421),             *)
(* execute_refresh with its one retry behind a stale intent                *)
(* (escrow/src/refresh.rs:256-343), and the batch ceremony settle_delegate *)
(* runs over the server's event stream (escrow/src/delegate.rs:144-445).   *)
(*                                                                         *)
(* The application calls refresh_escrow again and again, one call at a     *)
(* time.  Every request is one step at the server; an answer may be lost,  *)
(* and a registration or a deletion may reach the server after the call    *)
(* gave up on it.                                                          *)
(***************************************************************************)
EXTENDS BatchServer

CONSTANTS
    DeleteAttempts, \* STALE_INTENT_DELETE_ATTEMPTS
    HasDelete       \* the refresh carries a signed delete intent

ASSUME DeleteAssumption == DeleteAttempts \in Nat \ {0} /\ HasDelete \in BOOLEAN

VARIABLES
    pc,      \* what the call does next
    retry,   \* it registers for the second time
    tries,   \* attempts to delete the stale intent
    intent,  \* intent_id of the call's registration
    my,      \* the ceremony's local variables
    outcome, \* how the last call ended
    late     \* requests given up on that may still reach the server

callVars == <<pc, retry, tries, intent, my, outcome>>
vars == <<serverVars, open, stream, calm, callVars, late>>

Points == {"idle", "register", "delete", "subscribe", "loop", "confirm",
           "nonces", "signatures", "forfeits", "withdraw"}
CeremonyPoints == {"loop", "confirm", "nonces", "signatures", "forfeits"}
Outcomes == {"none", "ok", "stale", "broken", "failed"}

Chunks == {"none", "some", "taken"}

(* step, batch_id, vtxo_graph_chunks, connectors_graph_chunks, the number   *)
(* of aggregated nonces, and the batch named by the request under way.     *)
Ceremony == [step: {"Start", "BatchStarted", "BatchSigningStarted", "Finalized"},
             batch: Batches \union {NoBatch},
             vtxo: Chunks, connector: Chunks,
             nonces: 0 .. Nodes,
             asked: Batches \union {NoBatch}]

NewCeremony == [step |-> "Start", batch |-> NoBatch, vtxo |-> "none",
                connector |-> "none", nonces |-> 0, asked |-> NoBatch]

TypeOK ==
    /\ ServerTypeOK
    /\ pc \in Points
    /\ retry \in BOOLEAN
    /\ tries \in 1 .. DeleteAttempts
    /\ intent \in Intents \union {NoIntent}
    /\ my \in Ceremony
    /\ outcome \in Outcomes
    /\ late \subseteq {"register", "delete"}

Init ==
    /\ ServerInit
    /\ pc = "idle" /\ retry = FALSE /\ tries = 1
    /\ intent = NoIntent /\ my = NewCeremony
    /\ outcome = "none"
    /\ late = {}

-----------------------------------------------------------------------------
(* How a call ends.                                                        *)

(* settle_delegate returns: its stream and its variables are gone.         *)
LeaveCeremony == open' = FALSE /\ stream' = <<>> /\ my' = NewCeremony /\ intent' = NoIntent

(* An error leaves refresh_escrow through the withdrawal of the intent.    *)
Fail(why) ==
    /\ LeaveCeremony
    /\ outcome' = why
    /\ pc' = IF HasDelete THEN "withdraw" ELSE "idle"
    /\ UNCHANGED <<retry, tries>>

-----------------------------------------------------------------------------
(* refresh_escrow and the registration.                                    *)

Refresh ==
    /\ pc = "idle"
    /\ pc' = "register" /\ retry' = FALSE /\ tries' = 1 /\ outcome' = "none"
    /\ UNCHANGED <<serverVars, open, stream, calm, intent, my, late>>

Unused(id) == id \notin {held, intent} \union Streamed("intent")

RegisterIntent ==
    /\ pc = "register"
    /\ \E id \in Intents :
          /\ Unused(id) /\ Register(id)
          /\ \/ intent' = id /\ pc' = "subscribe"
                /\ UNCHANGED <<retry, tries, my, outcome, open, stream>>
             \/ ~calm /\ Fail("failed")
    /\ UNCHANGED <<batchVars, refreshedIn, calm, late>>

(* The first "already registered" is followed by a deletion and a retry,   *)
(* the second is returned.                                                 *)
RegisterStale ==
    /\ pc = "register" /\ AlreadyRegistered
    /\ IF HasDelete /\ ~retry
       THEN /\ pc' = "delete" /\ retry' = TRUE
            /\ UNCHANGED <<tries, intent, my, outcome, open, stream>>
       ELSE Fail("stale")
    /\ UNCHANGED <<serverVars, calm, late>>

(* Any other error: the VTXO is spent, or the request failed.              *)
RegisterFails ==
    /\ pc = "register"
    /\ ~calm \/ refreshedIn # NoBatch
    /\ Fail("failed")
    /\ UNCHANGED <<serverVars, calm, late>>

(* variant: one attempt too many.                                          *)
OneMoreTry == tries <= DeleteAttempts

MoreTries == tries < DeleteAttempts

(* delete_intent: one request.  What is inside a running batch is not      *)
(* queued; after the last attempt the registration is retried all the same. *)
DeleteStale ==
    /\ pc = "delete"
    /\ \/ DeleteQueued
          /\ \/ pc' = "register" /\ UNCHANGED <<retry, tries, intent, my, outcome, open, stream>>
             \/ ~calm /\ Fail("failed")
       \/ /\ ~Queued /\ UNCHANGED queueVars
          /\ IF MoreTries THEN tries' = tries + 1 /\ pc' = pc
                       ELSE tries' = tries /\ pc' = "register"
          /\ UNCHANGED <<retry, intent, my, outcome, open, stream>>
       \/ ~calm /\ Fail("failed") /\ UNCHANGED queueVars
    /\ UNCHANGED <<batchVars, refreshedIn, calm, late>>

Subscribe ==
    /\ pc = "subscribe"
    /\ \/ /\ open' = TRUE /\ stream' = <<>> /\ my' = NewCeremony
          /\ pc' = "loop"
          /\ UNCHANGED <<retry, tries, intent, outcome>>
       \/ ~calm /\ Fail("failed")
    /\ UNCHANGED <<serverVars, calm, late>>

-----------------------------------------------------------------------------
(* The event loop.  Events the code only logs or stores (stream started,   *)
(* heartbeat, tree signatures, aggregated nonces) are left out.            *)

Receives(kind) == pc = "loop" /\ stream # <<>> /\ Head(stream).kind = kind

Consume == stream' = Tail(stream) /\ UNCHANGED <<open, calm, late>>

(* The handler returns to the loop.                                        *)
Continue(ceremony) ==
    /\ my' = ceremony
    /\ Consume
    /\ UNCHANGED <<pc, retry, tries, intent, outcome>>

(* The handler goes on to a request about the event's batch.               *)
Ask(point, ceremony) ==
    /\ my' = [ceremony EXCEPT !.asked = Head(stream).batch]
    /\ pc' = point
    /\ Consume
    /\ UNCHANGED <<retry, tries, intent, outcome>>

(* The handler finds the ceremony in a state its events should not allow.  *)
Break == Fail("broken") /\ UNCHANGED <<calm, late>>

OnBatchStarted ==
    /\ Receives("BatchStarted")
    /\ IF my.step = "Start" /\ Head(stream).intent = intent
       THEN Ask("confirm", [my EXCEPT !.batch = Head(stream).batch])
       ELSE Continue(my)
    /\ UNCHANGED serverVars

(* variant: the ceremony's step is not looked at.                          *)
AnyStep == TRUE

TakesTree == my.step \in {"BatchStarted", "BatchSigningStarted"}

OnVtxoTx ==
    /\ Receives("VtxoTx")
    /\ \/ TakesTree /\ my.vtxo = "taken" /\ Break
       \/ TakesTree /\ my.vtxo # "taken" /\ Continue([my EXCEPT !.vtxo = "some"])
       \/ ~TakesTree /\ Continue(my)
    /\ UNCHANGED serverVars

OnConnectorTx ==
    /\ Receives("ConnectorTx")
    /\ \/ TakesTree /\ my.connector = "taken" /\ Break
       \/ TakesTree /\ my.connector # "taken" /\ Continue([my EXCEPT !.connector = "some"])
       \/ ~TakesTree /\ Continue(my)
    /\ UNCHANGED serverVars

(* variant: any batch's signing round is joined.                            *)
JoinsAnySigning == my.step # "BatchSigningStarted"

JoinsSigning == my.step = "BatchStarted"

(* The tree is built from the chunks received; without any it cannot be.   *)
OnTreeSigningStarted ==
    /\ Receives("TreeSigningStarted")
    /\ \/ JoinsSigning /\ my.vtxo # "some" /\ Break
       \/ JoinsSigning /\ my.vtxo = "some" /\ Ask("nonces", [my EXCEPT !.vtxo = "taken"])
       \/ ~JoinsSigning /\ Continue(my)
    /\ UNCHANGED serverVars

(* agg_nonce_pks.len() == vg.nb_of_nodes()                                 *)
AllNonces(n) == n = Nodes

OnTreeNonces ==
    /\ Receives("TreeNonces")
    /\ IF my.step = "BatchSigningStarted"
       THEN LET counted == [my EXCEPT !.nonces = @ + 1]
            IN  IF AllNonces(counted.nonces) THEN Ask("signatures", counted)
                                             ELSE Continue(counted)
       ELSE Continue(my)
    /\ UNCHANGED serverVars

(* variant: the finalization of any batch is taken for the own one's.      *)
SignedOrWaiting == my.step \in {"Start", "BatchSigningStarted"}

Signed == my.step = "BatchSigningStarted"

OnBatchFinalization ==
    /\ Receives("BatchFinalization")
    /\ \/ Signed /\ my.connector = "taken" /\ Break
       \/ Signed /\ my.connector = "some"
          /\ Ask("forfeits", [my EXCEPT !.connector = "taken"])
       \/ Signed /\ my.connector = "none"
          /\ Continue([my EXCEPT !.connector = "taken", !.step = "Finalized"])
       \/ ~Signed /\ Continue(my)
    /\ UNCHANGED serverVars

Finished == my.step = "Finalized"

OnBatchFinalized ==
    /\ Receives("BatchFinalized")
    /\ IF Finished
       THEN /\ LeaveCeremony
            /\ outcome' = "ok" /\ pc' = "idle"
            /\ UNCHANGED <<retry, tries, calm, late>>
       ELSE Continue(my)
    /\ UNCHANGED serverVars

OnBatchFailed ==
    /\ Receives("BatchFailed")
    /\ IF Head(stream).batch = my.batch
       THEN Fail("failed") /\ UNCHANGED <<calm, late>>
       ELSE Continue(my)
    /\ UNCHANGED serverVars

StreamEnds ==
    /\ pc = "loop" /\ ~calm
    /\ Fail("failed")
    /\ UNCHANGED <<serverVars, calm, late>>
-----------------------------------------------------------------------------
(* The ceremony's requests.  Each is taken by the server and answered,     *)
(* taken and its answer lost, refused, or lost.                            *)

Resume(step) ==
    /\ my' = [my EXCEPT !.step = step, !.asked = NoBatch]
    /\ pc' = "loop"
    /\ UNCHANGED <<retry, tries, intent, outcome, open>>

(* The request is taken; without its answer the call fails.                *)
Taken(step) ==
    /\ Resume(step) \/ (~calm /\ Fail("failed"))
    /\ UNCHANGED <<queueVars, refreshedIn, calm, late>>

NotTaken(takes) ==
    /\ ~calm \/ ~takes
    /\ Fail("failed")
    /\ UNCHANGED <<serverVars, calm, late>>

ConfirmRegistration ==
    /\ pc = "confirm"
    /\ \/ Taken("BatchStarted") /\ Confirm(intent)
       \/ NotTaken(Confirms(intent))

SubmitTreeNonces ==
    /\ pc = "nonces"
    /\ \/ Taken("BatchSigningStarted") /\ TakeNonces(my.asked)
       \/ NotTaken(WaitsForNonces(my.asked))

SubmitTreeSignatures ==
    /\ pc = "signatures"
    /\ \/ Taken("BatchSigningStarted") /\ TakeSignatures(my.asked)
       \/ NotTaken(WaitsForSignatures(my.asked))

SubmitSignedForfeitTxs ==
    /\ pc = "forfeits"
    /\ \/ Taken("Finalized") /\ TakeForfeits
       \/ NotTaken(WaitsForForfeits)

-----------------------------------------------------------------------------
(* The deadline, the withdrawal, and what reaches the server late.         *)

(* The server holds no intent of this call any more: no batch will name it. *)
Stuck == pc = "loop" /\ my.step = "Start" /\ held # intent

(* variant: the deadline bounds the requests, not the wait for events.     *)
RequestsOnly == pc \notin {"idle", "withdraw", "loop"}

Running == pc \notin {"idle", "withdraw"}

(* run_with_timeout around the whole refresh.  In calm times it is longer   *)
(* than a batch takes.                                                     *)
Deadline ==
    /\ Running
    /\ calm => Stuck
    /\ late' = IF pc \in {"register", "delete"} THEN late \union {pc} ELSE late
    /\ Fail("failed")
    /\ UNCHANGED <<serverVars, calm>>

(* delete_refresh_intent, one attempt; its outcome is only logged.         *)
Withdraw ==
    /\ pc = "withdraw"
    /\ \/ DeleteQueued /\ late' = late
       \/ (~calm \/ ~Queued) /\ UNCHANGED queueVars /\ late' = late
       \/ ~calm /\ UNCHANGED queueVars /\ late' = late \union {"delete"}
    /\ pc' = "idle"
    /\ UNCHANGED <<batchVars, refreshedIn, open, stream, calm, retry, tries, intent, my, outcome>>

LateRegister ==
    /\ "register" \in late
    /\ late' = late \ {"register"}
    /\ \/ \E id \in Intents : Unused(id) /\ Register(id)
       \/ (held # NoIntent \/ refreshedIn # NoBatch) /\ UNCHANGED queueVars
    /\ UNCHANGED <<batchVars, refreshedIn, open, stream, calm, callVars>>

LateDelete ==
    /\ "delete" \in late
    /\ late' = late \ {"delete"}
    /\ DeleteQueued \/ (~Queued /\ UNCHANGED queueVars)
    /\ UNCHANGED <<batchVars, refreshedIn, open, stream, calm, callVars>>

LoseLate ==
    /\ \E request \in late : late' = late \ {request}
    /\ UNCHANGED <<serverVars, open, stream, calm, callVars>>

CalmDown ==
    /\ ~calm /\ calm' = TRUE
    /\ UNCHANGED <<serverVars, open, stream, callVars, late>>

-----------------------------------------------------------------------------

(* The client is going to confirm the running batch.                       *)
Confirming ==
    \/ pc = "confirm" /\ my.batch = running
    \/ pc = "loop" /\ my.step = "Start"
       /\ \E i \in DOMAIN stream : stream[i].kind = "BatchStarted"
                                 /\ stream[i].batch = running /\ stream[i].intent = intent

Taking == pc \in CeremonyPoints /\ my.batch = running

Call ==
    \/ Refresh \/ RegisterIntent \/ RegisterStale \/ RegisterFails \/ DeleteStale
    \/ Subscribe
    \/ OnBatchStarted \/ OnVtxoTx \/ OnConnectorTx \/ OnTreeSigningStarted
    \/ OnTreeNonces \/ OnBatchFinalization \/ OnBatchFinalized \/ OnBatchFailed
    \/ StreamEnds
    \/ ConfirmRegistration \/ SubmitTreeNonces \/ SubmitTreeSignatures
    \/ SubmitSignedForfeitTxs
    \/ Deadline \/ Withdraw

Server ==
    /\ \/ \E b \in Batches \ {my.batch} : StartBatch(b, pc = "subscribe")
       \/ CloseConfirmation(Confirming) \/ RunWithout \/ FinalizeBatch
       \/ FailBatch(Taking)
    /\ UNCHANGED <<callVars, late>>

Next == Call \/ Server \/ LateRegister \/ LateDelete \/ LoseLate \/ CalmDown

Spec == Init /\ [][Next]_vars

(* The application keeps calling, the process and the server keep running,  *)
(* and failures cease at some point.                                       *)
Fairness ==
    /\ WF_vars(Call) /\ WF_vars(Deadline)
    /\ WF_vars(Server) /\ WF_vars(LoseLate) /\ WF_vars(CalmDown)

FairSpec == Spec /\ Fairness

-----------------------------------------------------------------------------
(* Properties.                                                             *)

(* refresh_escrow returns Ok only when the batch it names has settled the   *)
(* VTXO, whatever other batches, repeated attempts and lost answers the     *)
(* event stream and the requests mix in (delegate.rs:419-429).              *)
OkMeansRefreshed ==
    [][outcome' = "ok" /\ outcome # "ok" => Head(stream).batch = refreshedIn]_vars

(* Only events of the batch the call confirmed move the ceremony on, though *)
(* no handler but that of a failure compares identifiers: the step guards   *)
(* and the order of the stream keep other batches out                       *)
(* (delegate.rs:221-429).                                                   *)
OnlyOurBatch ==
    [][my'.step # my.step /\ pc' = "loop" =>
          my.batch = IF pc = "loop" THEN Head(stream).batch ELSE my.asked]_vars

(* The ceremony fails on its own bookkeeping - a chunk for a tree already   *)
(* built, signing without chunks, a second finalization - only behind the   *)
(* server: its confirmation arrived so late that it was taken for a later   *)
(* batch than the one announced, whose events are still unread              *)
(* (delegate.rs:221-242, 247-257, 285-293, 395-397).                        *)
BreaksOnlyBehind ==
    [][outcome' = "broken" /\ outcome # "broken" =>
          my.step # "Start" /\ my.batch # running]_vars
=============================================================================
