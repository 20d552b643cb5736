----------------------------- MODULE BatchServer -----------------------------
(***************************************************************************)
(* External: the part of the Arkade server a refresh works with, as        *)
(* escrow/src/refresh.rs and escrow/src/delegate.rs rely on it.  The       *)
(* server queues intents, takes the queued ones into a batch, runs one     *)
(* batch after the other with many participants, and tells its subscribers *)
(* on an event stream.  The module follows the one intent that may hold    *)
(* the escrow's VTXO; other participants show only in that batches run     *)
(* without it.                                                             *)
(***************************************************************************)
EXTENDS Naturals, Sequences

CONSTANTS
    Intents,    \* identifiers of intents; one is reused once nothing names it
    NoIntent,
    Batches,    \* identifiers of batches, reused likewise
    NoBatch,
    Nodes       \* nodes of the batch tree the escrow's cosigner signs

ASSUME NoIntentAssumption == NoIntent \notin Intents
ASSUME NoBatchAssumption == NoBatch \notin Batches
ASSUME NodesAssumption == Nodes \in Nat \ {0}

VARIABLES
    held,        \* the intent registered over the VTXO, or NoIntent
    inBatch,     \* it was taken into the running batch
    running,     \* the running batch, or NoBatch
    phase,       \* what the running batch waits for
    confirmed,   \* the held intent takes part in the running batch
    connectors,  \* the running batch needs forfeits for it
    refreshedIn, \* the batch that settled the VTXO, or NoBatch
    open,        \* the client is subscribed
    stream,      \* events sent to it and not read yet
    calm         \* from here on nothing fails any more

queueVars == <<held, inBatch>>
batchVars == <<running, phase, confirmed, connectors>>
serverVars == <<queueVars, batchVars, refreshedIn>>

Phases == {"none", "confirming", "nonces", "signing", "forfeits", "finalizing"}

Kinds == {"BatchStarted", "VtxoTx", "TreeSigningStarted", "TreeNonces",
          "ConnectorTx", "BatchFinalization", "BatchFinalized", "BatchFailed"}

Events == [kind: Kinds, batch: Batches, intent: Intents \union {NoIntent}]

Event(kind, b) == [kind |-> kind, batch |-> b, intent |-> NoIntent]

ServerTypeOK ==
    /\ held \in Intents \union {NoIntent}
    /\ inBatch \in BOOLEAN /\ confirmed \in BOOLEAN /\ connectors \in BOOLEAN
    /\ running \in Batches \union {NoBatch}
    /\ phase \in Phases
    /\ refreshedIn \in Batches \union {NoBatch}
    /\ open \in BOOLEAN /\ calm \in BOOLEAN
    /\ stream \in Seq(Events)

(* An intent of an earlier attempt may still be queued.                    *)
ServerInit ==
    /\ held \in Intents \union {NoIntent} /\ inBatch = FALSE
    /\ running = NoBatch /\ phase = "none"
    /\ confirmed = FALSE /\ connectors = FALSE
    /\ refreshedIn = NoBatch
    /\ open = FALSE /\ stream = <<>>
    /\ calm \in BOOLEAN

(* A client that leaves in the same step misses the events.                *)
Emit(events) == stream' = IF open' THEN stream \o events ELSE <<>>

Streamed(field) == {stream[i][field] : i \in DOMAIN stream}

Queued == held # NoIntent /\ ~inBatch

(* An intent leaves a batch that did not settle it.                        *)
Requeue == held' = held /\ inBatch' = FALSE
Drop == held' = NoIntent /\ inBatch' = FALSE

-----------------------------------------------------------------------------
(* Requests.                                                               *)

AlreadyRegistered == held # NoIntent

Register(id) ==
    /\ held = NoIntent /\ refreshedIn = NoBatch
    /\ held' = id /\ inBatch' = FALSE

DeleteQueued == Queued /\ Drop

Confirms(id) == phase = "confirming" /\ inBatch /\ held = id

Confirm(id) ==
    /\ Confirms(id)
    /\ confirmed' = TRUE
    /\ Emit(<<>>)
    /\ UNCHANGED <<running, phase, connectors>>

WaitsForNonces(b) == phase = "nonces" /\ confirmed /\ running = b

TakeNonces(b) ==
    /\ WaitsForNonces(b)
    /\ phase' = "signing"
    /\ Emit([n \in 1 .. Nodes |-> Event("TreeNonces", b)])
    /\ UNCHANGED <<running, confirmed, connectors>>

WaitsForSignatures(b) == phase = "signing" /\ running = b

(* A VTXO that was swept or is below dust needs no forfeit.                *)
TakeSignatures(b) ==
    /\ WaitsForSignatures(b)
    /\ phase' = "forfeits"
    /\ connectors' \in BOOLEAN
    /\ Emit(IF connectors' THEN <<Event("ConnectorTx", b), Event("BatchFinalization", b)>>
                           ELSE <<Event("BatchFinalization", b)>>)
    /\ UNCHANGED <<running, confirmed>>

WaitsForForfeits == phase = "forfeits" /\ confirmed

(* The request names no batch.                                             *)
TakeForfeits ==
    /\ WaitsForForfeits
    /\ phase' = "finalizing"
    /\ Emit(<<>>)
    /\ UNCHANGED <<running, confirmed, connectors>>

-----------------------------------------------------------------------------
(* Batches.  `expected' says that the client is still going to send what    *)
(* the batch waits for; in calm times the server waits for it.             *)

(* A batch takes in what is queued; one that starts while the client is     *)
(* between its registration and its subscription is missed.                *)
StartBatch(b, subscribing) ==
    /\ UNCHANGED <<open, calm>>
    /\ phase = "none"
    /\ b \notin {running, refreshedIn} \union Streamed("batch")
    /\ calm => ~subscribing
    /\ \E in \in BOOLEAN :
          /\ in => Queued
          /\ calm /\ Queued => in
          /\ inBatch' = in
          /\ Emit(<<[kind |-> "BatchStarted", batch |-> b,
                     intent |-> IF in THEN held ELSE NoIntent]>>)
    /\ running' = b /\ phase' = "confirming" /\ confirmed' = FALSE /\ connectors' = FALSE
    /\ UNCHANGED <<held, refreshedIn>>

(* An intent nobody confirmed is dropped, or stays with the batch.         *)
CloseConfirmation(expected) ==
    /\ UNCHANGED <<open, calm>>
    /\ phase = "confirming"
    /\ calm => ~expected
    /\ phase' = "nonces"
    /\ IF confirmed
       THEN /\ Emit(<<Event("VtxoTx", running), Event("TreeSigningStarted", running)>>)
            /\ UNCHANGED queueVars
       ELSE /\ Emit(<<Event("TreeSigningStarted", running)>>)
            /\ (inBatch /\ Drop) \/ ((inBatch => ~calm) /\ UNCHANGED queueVars)
    /\ UNCHANGED <<running, confirmed, connectors, refreshedIn>>

(* The batch of others goes on without the escrow's intent.                *)
RunWithout ==
    /\ UNCHANGED <<open, calm>>
    /\ phase = "nonces" /\ ~confirmed
    /\ phase' = "finalizing"
    /\ Emit(<<Event("BatchFinalization", running)>>)
    /\ UNCHANGED <<queueVars, running, confirmed, connectors, refreshedIn>>

FinalizeBatch ==
    /\ UNCHANGED <<open, calm>>
    /\ phase = "finalizing" \/ (phase = "forfeits" /\ ~connectors)
    /\ Emit(<<Event("BatchFinalized", running)>>)
    /\ \/ confirmed /\ Drop /\ refreshedIn' = running
       \/ ~confirmed /\ inBatch /\ (Drop \/ Requeue) /\ UNCHANGED refreshedIn
       \/ ~inBatch /\ UNCHANGED <<queueVars, refreshedIn>>
    /\ running' = NoBatch /\ phase' = "none" /\ confirmed' = FALSE /\ connectors' = FALSE

FailBatch(expected) ==
    /\ UNCHANGED <<open, calm>>
    /\ phase # "none"
    /\ calm => phase \in {"nonces", "signing", "forfeits"} /\ confirmed /\ ~expected
    /\ Emit(<<Event("BatchFailed", running)>>)
    /\ IF inBatch THEN Requeue \/ Drop ELSE UNCHANGED queueVars
    /\ running' = NoBatch /\ phase' = "none" /\ confirmed' = FALSE /\ connectors' = FALSE
    /\ UNCHANGED refreshedIn
=============================================================================
