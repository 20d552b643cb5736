---------------------------- MODULE SpendProtocol ----------------------------
(***************************************************************************)
(* The offchain spend of one escrow: EscrowClient::spend_escrow_offchain   *)
(* and resume_pending_spend (escrow/src/client.rs), the record they keep   *)
(* in a SpendStore (escrow/src/spend_store.rs), and the Arkade server as   *)
(* those calls see it.                                                     *)
(*                                                                         *)
(* One id, one record, one escrow output: records of different ids are     *)
(* different files or rows and spend different outputs, so nothing is      *)
(* shared between them.  Txs are the ark transactions the application may  *)
(* present under the id (release, refund, a corrected release), all of     *)
(* them spending the escrow output, so the server accepts at most one.     *)
(*                                                                         *)
(* Callers are the calls that may be in progress at one time.  The code    *)
(* asks for one at a time (client.rs:495-499); two model the breach.       *)
(***************************************************************************)
EXTENDS Naturals

CONSTANTS
    Txs,            \* ark transactions that may be presented under the id
    NoTx,           \* no transaction
    NoRecord,       \* the store holds nothing under the id
    Callers,        \* concurrent calls for the id
    MaxAttempts,    \* bound: fresh attempts (tokens drawn)
    StoreFaults,    \* how a store write may fail, see Write
    AtomicStore,    \* remove_if and save_if are one step in the backend
    ServerCps,      \* checkpoint lists the server may answer with
    FinalizeTwice   \* the server answers a repeated finalize with success

ASSUME NoTxAssumption == NoTx \notin Txs
ASSUME AttemptsAssumption == MaxAttempts \in Nat
ASSUME FaultsAssumption == StoreFaults \subseteq {"clean", "dirty", "undone"}
ASSUME FlagsAssumption == AtomicStore \in BOOLEAN /\ FinalizeTwice \in BOOLEAN
ASSUME CpsAssumption == ServerCps \subseteq {"matching", "mismatched", "empty"}

VARIABLES
    store,      \* the record of the id, as a load finds it, or NoRecord
    undo,       \* what a power loss may bring back in its place
    drawn,      \* number of attempt tokens drawn so far
    pc,         \* where each call is
    mem,        \* each call's PendingSpend in memory
    want,       \* the transaction each call was given; NoTx for a plain resume
    first,      \* each call's first_attempt
    saved,      \* each call's saved
    answer,     \* the server's answer to each call's request
    late,       \* requests whose caller gave up and the server has not seen yet
    accepted,   \* the transaction the server accepted and locked the input for
    finalized,  \* whether the server finalized it
    cosigned,   \* transactions the server has put a valid co-signature on
    released,   \* transactions whose party checkpoint signatures were sent out
    reported    \* transactions a call returned Ok for

callerVars == <<drawn, pc, mem, want, first, saved, answer>>
serverVars == <<accepted, finalized, cosigned>>
vars == <<store, undo, callerVars, late, serverVars, released, reported>>

-----------------------------------------------------------------------------
(* Data.  Token 0 is the empty token of records of older versions.         *)

Stages == {"Submitting", "Submitted", "Finalized"}

(* server_signed_ark_tx: absent, carrying a signature that does not verify, *)
(* a commitment to another transaction, or one to this transaction.         *)
Evidence == {"none", "invalid", "other", "valid"}

(* signed_checkpoints: none, checkpoints of another transaction, or all of  *)
(* this transaction's, fully signed.                                        *)
Checkpoints == {"none", "foreign", "complete"}

PendingSpend == [tx: Txs, stage: Stages, token: Nat,
                 evidence: Evidence, cps: Checkpoints]

ASSUME NoRecordAssumption == NoRecord \notin PendingSpend

Rank(stage) == CASE stage = "Submitting" -> 1
                 [] stage = "Submitted" -> 2
                 [] OTHER -> 3

Codes == {"none", "waiting", "ok", "rejected", "duplicate", "unknown"}
ServerCpKinds == {"matching", "mismatched", "empty"}
Answers == [code: Codes, sig: BOOLEAN, cps: ServerCpKinds]

Plain(code) == [code |-> code, sig |-> FALSE, cps |-> "empty"]

Requests == [op: {"submit", "finalize"}, tx: Txs, cps: Checkpoints]

Points == {"idle", "persist", "submit", "awaitSubmit", "clear", "clearing",
           "merge", "upgrade", "finalize", "awaitFinalize", "mark", "marking",
           "lastChance", "down"}

(* A record at submitting stage carries everything a re-send of submit     *)
(* needs and no server signature.                                          *)
NewRecord(tx, token) ==
    [tx |-> tx, stage |-> "Submitting", token |-> token,
     evidence |-> "none", cps |-> "none"]

(* Each group marked "variant" holds mutated forms of the definition below   *)
(* it: the errors the properties are tested against.                        *)

(* variant: the server's list is stored without merging the parties' in.    *)
UpgradedUnmerged(rec, cps) ==
    [rec EXCEPT !.stage = "Submitted", !.evidence = "valid", !.cps = cps]

(* The record once the server's verified signatures are merged in.  An     *)
(* empty answer merges to an empty list.                                   *)
Upgraded(rec, cps) ==
    [rec EXCEPT !.stage = "Submitted",
                !.evidence = "valid",
                !.cps = IF cps = "matching" THEN "complete" ELSE "none"]

(* variants: the record is cleaned up after finalize; its stage is not set. *)
CleanedUp(rec) == NoRecord
StageNotSet(rec) == rec

MarkedFinalized(rec) == [rec EXCEPT !.stage = "Finalized"]

TypeOK ==
    /\ store \in PendingSpend \union {NoRecord}
    /\ undo \subseteq PendingSpend \union {NoRecord}
    /\ drawn \in 0 .. MaxAttempts
    /\ pc \in [Callers -> Points]
    /\ mem \in [Callers -> PendingSpend \union {NoRecord}]
    /\ want \in [Callers -> Txs \union {NoTx}]
    /\ first \in [Callers -> BOOLEAN]
    /\ saved \in [Callers -> BOOLEAN]
    /\ answer \in [Callers -> Answers]
    /\ late \subseteq Requests
    /\ accepted \in Txs \union {NoTx}
    /\ finalized \in BOOLEAN
    /\ cosigned \subseteq Txs
    /\ released \subseteq Txs
    /\ reported \subseteq Txs

(* At start the store is empty, or it holds a record of an older version,  *)
(* which was only ever saved after a successful submit and carries neither *)
(* token nor evidence, or such a record damaged since.                     *)
OldRecord(tx, evidence, cps) ==
    [tx |-> tx, stage |-> "Submitted", token |-> 0,
     evidence |-> evidence, cps |-> cps]

Init ==
    /\ \/ store = NoRecord /\ accepted = NoTx
       \/ \E tx \in Txs, e \in Evidence \ {"valid"}, c \in {"foreign", "complete"} :
             store = OldRecord(tx, e, c) /\ accepted = tx
    /\ undo = {}
    /\ drawn = 0
    /\ pc = [p \in Callers |-> "idle"]
    /\ mem = [p \in Callers |-> NoRecord]
    /\ want = [p \in Callers |-> NoTx]
    /\ first = [p \in Callers |-> FALSE]
    /\ saved = [p \in Callers |-> FALSE]
    /\ answer = [p \in Callers |-> Plain("none")]
    /\ late = {}
    /\ finalized = FALSE
    /\ cosigned = {} /\ released = {} /\ reported = {}

-----------------------------------------------------------------------------
(* How a call moves on.                                                    *)

Goto(p, point) ==
    /\ pc' = [pc EXCEPT ![p] = point]
    /\ UNCHANGED <<drawn, mem, want, first, saved, answer>>

(* The call returns, with a result or an error, and its memory is gone.    *)
Return(p) ==
    /\ pc' = [pc EXCEPT ![p] = "idle"]
    /\ mem' = [mem EXCEPT ![p] = NoRecord]
    /\ want' = [want EXCEPT ![p] = NoTx]
    /\ first' = [first EXCEPT ![p] = FALSE]
    /\ saved' = [saved EXCEPT ![p] = FALSE]
    /\ answer' = [answer EXCEPT ![p] = Plain("none")]
    /\ drawn' = drawn

Begin(p, tx, rec, isFirst, isSaved, point) ==
    /\ pc' = [pc EXCEPT ![p] = point]
    /\ mem' = [mem EXCEPT ![p] = rec]
    /\ want' = [want EXCEPT ![p] = tx]
    /\ first' = [first EXCEPT ![p] = isFirst]
    /\ saved' = [saved EXCEPT ![p] = isSaved]
    /\ answer' = answer

(* A request leaves the process.                                           *)
Send(p, point) ==
    /\ pc' = [pc EXCEPT ![p] = point]
    /\ answer' = [answer EXCEPT ![p] = Plain("waiting")]
    /\ UNCHANGED <<drawn, mem, want, first, saved>>

Request(p) ==
    [op |-> IF pc[p] = "awaitSubmit" THEN "submit" ELSE "finalize",
     tx |-> mem[p].tx, cps |-> mem[p].cps]

(* The transaction a successful call vouches for to its caller.            *)
Vouched(tx, rec) == IF tx = NoTx THEN rec.tx ELSE tx

(* SpendStore::save and remove.  A write may fail without effect (clean)   *)
(* or after it took effect (dirty: the rename or unlink is done and the    *)
(* directory sync fails, spend_store.rs:238-240, 258-266).  Such an effect *)
(* may last, or a power loss may undo it (undone) until a later write      *)
(* succeeds, which syncs the directory; removing what is not there does    *)
(* not (spend_store.rs:262).                                               *)
Write(rec, ok) ==
    \/ ok /\ store' = rec /\ undo' = IF {rec, store} = {NoRecord} THEN undo ELSE {}
    \/ ~ok /\ "clean" \in StoreFaults /\ UNCHANGED <<store, undo>>
    \/ ~ok /\ "dirty" \in StoreFaults /\ store' = rec
       /\ undo' = IF "undone" \in StoreFaults THEN undo \union {store} ELSE undo

(* remove_if and save_if touch a record only if it carries the attempt's   *)
(* token or none.                                                          *)
OwnRecord(token) == store # NoRecord /\ store.token \in {0, token}

(* variant: the supplied transaction is not compared with the record's.     *)
BoundToAnything(tx) == TRUE

(* While a record exists, a call that supplies a transaction must supply   *)
(* the recorded one.                                                       *)
BoundTo(tx) == tx \in {NoTx, store.tx}

-----------------------------------------------------------------------------
(* Entering a call.  A call that returns with an error here (another       *)
(* transaction under a bound id, checkpoints that do not match, evidence   *)
(* that does not verify) changes nothing and is not an action.             *)

(* variant: an existing record does not stop a new attempt.                 *)
AlwaysUnbound == TRUE

Unbound == store = NoRecord

SpendFresh(p, tx) ==
    /\ pc[p] = "idle" /\ Unbound
    /\ drawn < MaxAttempts
    /\ drawn' = drawn + 1
    /\ Begin(p, tx, NewRecord(tx, drawn + 1), TRUE, FALSE, "persist")
    /\ UNCHANGED <<store, undo, late, serverVars, released, reported>>

(* spend_escrow_offchain with tx, or resume_pending_spend with NoTx, finds *)
(* a record.                                                               *)
Found(p, tx, stage) ==
    /\ pc[p] = "idle" /\ store # NoRecord
    /\ BoundTo(tx)
    /\ store.stage = stage

ResumeFinalized(p, tx) ==
    /\ Found(p, tx, "Finalized")
    /\ reported' = reported \union {Vouched(tx, store)}
    /\ UNCHANGED <<store, undo, callerVars, late, serverVars, released>>

(* variant: a submitted record is trusted as it stands.                     *)
EvidenceNotChecked(rec) == rec.cps = "complete"

(* The persisted evidence is verified again before anything is released.   *)
EvidenceHolds(rec) == rec.evidence = "valid" /\ rec.cps = "complete"

ResumeSubmitted(p, tx) ==
    /\ Found(p, tx, "Submitted")
    /\ EvidenceHolds(store)
    /\ Begin(p, tx, store, FALSE, TRUE, "finalize")
    /\ UNCHANGED <<store, undo, drawn, late, serverVars, released, reported>>

ResumeSubmitting(p, tx) ==
    /\ Found(p, tx, "Submitting")
    /\ Begin(p, tx, store, FALSE, FALSE, "submit")
    /\ UNCHANGED <<store, undo, drawn, late, serverVars, released, reported>>

PersistSubmitting(p) ==
    /\ pc[p] = "persist"
    /\ \E ok \in BOOLEAN :
          /\ Write(mem[p], ok)
          /\ IF ok THEN Goto(p, "submit") ELSE Return(p)
    /\ UNCHANGED <<late, serverVars, released, reported>>

-----------------------------------------------------------------------------
(* submit.                                                                 *)

SendSubmit(p) ==
    /\ pc[p] = "submit"
    /\ Send(p, "awaitSubmit")
    /\ UNCHANGED <<store, undo, late, serverVars, released, reported>>

(* Answers to a submit: signatures that verify with one of the checkpoint  *)
(* lists, signatures that do not verify, a definitive rejection, arkd's    *)
(* "duplicated offchain tx", or a failure that leaves the outcome open.    *)
SubmitAnswers ==
    {[code |-> "ok", sig |-> TRUE, cps |-> c] : c \in ServerCps}
        \union {Plain(c) : c \in {"ok", "rejected", "duplicate", "unknown"}}

(* The server locks the escrow output for the first transaction it accepts *)
(* and co-signs only then.  A definitive rejection of a transaction it     *)
(* does not hold proves that it did not act on it; "inputs already locked" *)
(* may be said of any transaction once one is held.                        *)
ServerSubmit(tx, a) ==
    /\ finalized' = finalized
    /\ \/ /\ accepted = NoTx /\ accepted' = tx
          /\ a.code \in {"ok", "unknown"}
          /\ cosigned' = IF a.sig THEN cosigned \union {tx} ELSE cosigned
       \/ /\ accepted = NoTx
          /\ a.code \in {"rejected", "unknown"}
          /\ UNCHANGED <<accepted, cosigned>>
       \/ /\ accepted = tx
          /\ a.code \in {"duplicate", "rejected", "unknown"}
          /\ UNCHANGED <<accepted, cosigned>>
       \/ /\ accepted \notin {NoTx, tx}
          /\ a.code \in {"rejected", "unknown"}
          /\ UNCHANGED <<accepted, cosigned>>

HandleSubmit(p) ==
    /\ pc[p] = "awaitSubmit" /\ answer[p].code = "waiting"
    /\ \E a \in SubmitAnswers :
          /\ ServerSubmit(mem[p].tx, a)
          /\ answer' = [answer EXCEPT ![p] = a]
    /\ UNCHANGED <<store, undo, drawn, pc, mem, want, first, saved, late, released, reported>>

Answered(p, point) == pc[p] = point /\ answer[p].code \notin {"none", "waiting"}

(* variants: a rejected resume clears too; an open outcome clears too.      *)
ClearAfterResume(p) == answer[p].code = "rejected"
ClearWhenUnclear(p) == first[p] /\ answer[p].code \in {"rejected", "unknown"}

(* Only a first attempt may take a rejection as proof that nothing is      *)
(* locked: on a resume the original request may have been accepted.        *)
MayClear(p) == first[p] /\ answer[p].code = "rejected"

SubmitRejected(p) ==
    /\ Answered(p, "awaitSubmit")
    /\ MayClear(p)
    /\ Goto(p, "clear")
    /\ UNCHANGED <<store, undo, late, serverVars, released, reported>>

(* variant: the server's signature is not verified.                         *)
AnyAnswer(a) == a.code = "ok"

Cosigned(a) == a.code = "ok" /\ a.sig

SubmitUnclear(p) ==
    /\ Answered(p, "awaitSubmit")
    /\ ~MayClear(p) /\ ~Cosigned(answer[p])
    /\ Return(p)
    /\ UNCHANGED <<store, undo, late, serverVars, released, reported>>

SubmitAccepted(p) ==
    /\ Answered(p, "awaitSubmit")
    /\ Cosigned(answer[p])
    /\ Goto(p, "merge")
    /\ UNCHANGED <<store, undo, late, serverVars, released, reported>>

(* remove_if on the record of a rejected first attempt, in one step or as  *)
(* load, compare, remove.                                                  *)
Clear(p) ==
    /\ pc[p] = "clear"
    /\ \/ OwnRecord(mem[p].token) /\ AtomicStore
          /\ (\E ok \in BOOLEAN : Write(NoRecord, ok)) /\ Return(p)
       \/ OwnRecord(mem[p].token) /\ ~AtomicStore
          /\ Goto(p, "clearing") /\ UNCHANGED <<store, undo>>
       \/ ~OwnRecord(mem[p].token) /\ Return(p) /\ UNCHANGED <<store, undo>>
    /\ UNCHANGED <<late, serverVars, released, reported>>

ClearWrite(p) ==
    /\ pc[p] = "clearing"
    /\ \E ok \in BOOLEAN : Write(NoRecord, ok)
    /\ Return(p)
    /\ UNCHANGED <<late, serverVars, released, reported>>

(* merge_all_checkpoint_sigs goes by position; a list of the server's that *)
(* differs from the parties' in length or order is an error.               *)
Merges(cps) == cps # "mismatched"

Merge(p) ==
    /\ pc[p] = "merge"
    /\ IF Merges(answer[p].cps)
       THEN /\ mem' = [mem EXCEPT ![p] = Upgraded(mem[p], answer[p].cps)]
            /\ pc' = [pc EXCEPT ![p] = "upgrade"]
            /\ UNCHANGED <<drawn, want, first, saved, answer>>
       ELSE Return(p)
    /\ UNCHANGED <<store, undo, late, serverVars, released, reported>>

(* variant: the server's signatures are kept in memory only.                *)
UpgradeInMemory(p) ==
    /\ pc[p] = "upgrade"
    /\ pc' = [pc EXCEPT ![p] = "finalize"]
    /\ saved' = [saved EXCEPT ![p] = TRUE]
    /\ UNCHANGED <<store, undo, drawn, mem, want, first, answer, late, serverVars,
                   released, reported>>

(* The upgraded record is saved unconditionally; the spend goes on from    *)
(* memory if that fails.                                                   *)
UpgradeRecord(p) ==
    /\ pc[p] = "upgrade"
    /\ \E ok \in BOOLEAN :
          /\ Write(mem[p], ok)
          /\ saved' = [saved EXCEPT ![p] = ok]
    /\ pc' = [pc EXCEPT ![p] = "finalize"]
    /\ UNCHANGED <<drawn, mem, want, first, answer, late, serverVars, released, reported>>

-----------------------------------------------------------------------------
(* finalize.                                                               *)

SendFinalize(p) ==
    /\ pc[p] = "finalize"
    /\ Send(p, "awaitFinalize")
    /\ released' = IF mem[p].cps = "complete" THEN released \union {mem[p].tx}
                                              ELSE released
    /\ UNCHANGED <<store, undo, late, serverVars, reported>>

ServerFinalize(tx, cps, code) ==
    /\ UNCHANGED <<accepted, cosigned>>
    /\ \/ /\ accepted = tx /\ cps = "complete" /\ ~finalized
          /\ code \in {"ok", "unknown"}
          /\ finalized' = TRUE
       \/ /\ accepted = tx /\ cps = "complete" /\ finalized
          /\ code \in (IF FinalizeTwice THEN {"ok", "unknown"} ELSE {"unknown"})
          /\ finalized' = finalized
       \/ code = "unknown" /\ finalized' = finalized

HandleFinalize(p, code) ==
    /\ pc[p] = "awaitFinalize" /\ answer[p].code = "waiting"
    /\ ServerFinalize(mem[p].tx, mem[p].cps, code)
    /\ answer' = [answer EXCEPT ![p] = Plain(code)]
    /\ UNCHANGED <<store, undo, drawn, pc, mem, want, first, saved, late, released, reported>>

FinalizeOk(p) == answer[p].code = "ok"

FinalizeAccepted(p) ==
    /\ Answered(p, "awaitFinalize")
    /\ FinalizeOk(p)
    /\ Goto(p, "mark")
    /\ UNCHANGED <<store, undo, late, serverVars, released, reported>>

(* variant: the record is saved once more after every failed finalize.      *)
AlwaysSaveAgain(p) == Goto(p, "lastChance")

(* finalize_and_record failed: a record that could not be upgraded before  *)
(* is saved once more, at submitted stage.                                 *)
SpendFailed(p) == IF saved[p] THEN Return(p) ELSE Goto(p, "lastChance")

FinalizeRefused(p) ==
    /\ Answered(p, "awaitFinalize")
    /\ ~FinalizeOk(p)
    /\ SpendFailed(p)
    /\ UNCHANGED <<store, undo, late, serverVars, released, reported>>

SpendSucceeds(p) ==
    /\ Return(p)
    /\ reported' = reported \union {Vouched(want[p], mem[p])}

WriteFinalized(p) ==
    \E ok \in BOOLEAN :
        /\ Write(MarkedFinalized(mem[p]), ok)
        /\ IF ok THEN SpendSucceeds(p) ELSE SpendFailed(p) /\ reported' = reported

(* save_if on the finalized record.  A record another attempt wrote since  *)
(* is left alone and the call still succeeds; if the record cannot even be *)
(* loaded the call fails.                                                  *)
MarkFinalizedRecord(p) ==
    /\ pc[p] = "mark"
    /\ \/ OwnRecord(mem[p].token) /\ AtomicStore /\ WriteFinalized(p)
       \/ OwnRecord(mem[p].token) /\ ~AtomicStore
          /\ Goto(p, "marking") /\ UNCHANGED <<store, undo, reported>>
       \/ ~OwnRecord(mem[p].token) /\ SpendSucceeds(p) /\ UNCHANGED <<store, undo>>
       \/ "clean" \in StoreFaults /\ SpendFailed(p) /\ UNCHANGED <<store, undo, reported>>
    /\ UNCHANGED <<late, serverVars, released>>

MarkWrite(p) ==
    /\ pc[p] = "marking"
    /\ WriteFinalized(p)
    /\ UNCHANGED <<late, serverVars, released>>

LastChanceSave(p) ==
    /\ pc[p] = "lastChance"
    /\ \E ok \in BOOLEAN : Write(mem[p], ok)
    /\ Return(p)
    /\ UNCHANGED <<late, serverVars, released, reported>>

-----------------------------------------------------------------------------
(* The caller's deadline, crashes, the network and the application.        *)

(* The request the call waits for has not reached the server.              *)
Unseen(p) ==
    pc[p] \in {"awaitSubmit", "awaitFinalize"} /\ answer[p].code = "waiting"

(* run_with_timeout gives up; a request the server has not seen yet may    *)
(* still reach it.                                                         *)
Timeout(p) ==
    /\ pc[p] \in {"awaitSubmit", "awaitFinalize"}
    /\ late' = IF Unseen(p) THEN late \union {Request(p)} ELSE late
    /\ IF pc[p] = "awaitSubmit" THEN Return(p) ELSE SpendFailed(p)
    /\ UNCHANGED <<store, undo, serverVars, released, reported>>

HandleLate(r) ==
    /\ r \in late
    /\ late' = late \ {r}
    /\ \/ r.op = "submit" /\ \E a \in SubmitAnswers : ServerSubmit(r.tx, a)
       \/ r.op = "finalize" /\ \E code \in {"ok", "unknown"} :
                                  ServerFinalize(r.tx, r.cps, code)
    /\ UNCHANGED <<store, undo, callerVars, released, reported>>

LoseLate(r) ==
    /\ r \in late
    /\ late' = late \ {r}
    /\ UNCHANGED <<store, undo, callerVars, serverVars, released, reported>>

(* The process dies: every call's memory is gone, its request may still be *)
(* on its way.                                                             *)
Down ==
    /\ pc' = [p \in Callers |-> "down"]
    /\ mem' = [p \in Callers |-> NoRecord]
    /\ want' = [p \in Callers |-> NoTx]
    /\ first' = [p \in Callers |-> FALSE]
    /\ saved' = [p \in Callers |-> FALSE]
    /\ answer' = [p \in Callers |-> Plain("none")]
    /\ late' = late \union {Request(p) : p \in {q \in Callers : Unseen(q)}}
    /\ UNCHANGED <<drawn, serverVars, released, reported>>

Crash ==
    /\ \E p \in Callers : pc[p] # "down"
    /\ Down
    /\ UNCHANGED <<store, undo>>

(* The machine loses power, and with it what failed writes had done.  A    *)
(* power loss that undoes nothing is a crash.                              *)
PowerLoss ==
    /\ Down
    /\ store' \in undo
    /\ undo' = {}

Restart ==
    /\ \A p \in Callers : pc[p] = "down"
    /\ pc' = [p \in Callers |-> "idle"]
    /\ UNCHANGED <<store, undo, drawn, mem, want, first, saved, answer, late, serverVars,
                   released, reported>>

(* The application's retention policy removes a finalized record.          *)
Prune ==
    /\ store # NoRecord /\ store.stage = "Finalized"
    /\ store' = NoRecord /\ undo' = {}
    /\ UNCHANGED <<callerVars, late, serverVars, released, reported>>

Call(p) ==
    \/ \E tx \in Txs : SpendFresh(p, tx)
    \/ \E tx \in Txs \union {NoTx} : \/ ResumeFinalized(p, tx)
                                     \/ ResumeSubmitted(p, tx)
                                     \/ ResumeSubmitting(p, tx)
    \/ PersistSubmitting(p) \/ SendSubmit(p) \/ HandleSubmit(p)
    \/ SubmitRejected(p) \/ SubmitUnclear(p) \/ SubmitAccepted(p)
    \/ Clear(p) \/ ClearWrite(p) \/ Merge(p) \/ UpgradeRecord(p)
    \/ SendFinalize(p)
    \/ \E code \in {"ok", "unknown"} : HandleFinalize(p, code)
    \/ FinalizeAccepted(p) \/ FinalizeRefused(p)
    \/ MarkFinalizedRecord(p) \/ MarkWrite(p) \/ LastChanceSave(p)
    \/ Timeout(p)

Next ==
    \/ \E p \in Callers : Call(p)
    \/ \E r \in late : HandleLate(r) \/ LoseLate(r)
    \/ Crash \/ PowerLoss \/ Restart \/ Prune

Spec == Init /\ [][Next]_vars

IsFinalized(rec) == rec # NoRecord /\ rec.stage = "Finalized"

(* Progress needs an application that keeps resuming the id, a process that *)
(* restarts, and a server and a store that answer with success again and    *)
(* again, however often they fail or the caller's deadline passes between.  *)
(* Steps before the record is submitted need no fairness: nothing promises  *)
(* that they end.                                                           *)
Fairness ==
    /\ WF_vars(Restart)
    /\ \A p \in Callers :
          /\ SF_vars(\E tx \in Txs \union {NoTx} : ResumeSubmitted(p, tx))
          /\ SF_vars(SendFinalize(p))
          /\ SF_vars(HandleFinalize(p, "ok"))
          /\ SF_vars(FinalizeAccepted(p))
          /\ WF_vars(FinalizeRefused(p))
          /\ SF_vars(MarkFinalizedRecord(p) /\ (pc'[p] = "marking" \/ IsFinalized(store')))
          /\ SF_vars(MarkWrite(p) /\ IsFinalized(store'))
          /\ WF_vars(LastChanceSave(p))

FairSpec == Spec /\ Fairness

-----------------------------------------------------------------------------
(* Properties.                                                             *)

(* The parties' checkpoint signatures leave the process only for a          *)
(* transaction the server has validly co-signed: neither a record of an     *)
(* older version, nor a damaged one, nor a lost or forged answer, nor a     *)
(* crash makes finalize release them first (docs/protocol.md, "Security     *)
(* invariant"; client.rs:614-658, 1033-1036).                               *)
NoReleaseWithoutCommitment == released \subseteq cosigned

(* The transaction the server holds the escrow output for, and has not      *)
(* finalized, is the one the durable record names, and the record shows it  *)
(* pending.  With one call at a time no lost answer, crash, rejection or    *)
(* failed write, unless a power loss undoes it, leaves a locked output      *)
(* without its record (spend_store.rs:3-13).                                *)
AcceptedIsRecorded ==
    accepted # NoTx /\ ~finalized =>
        /\ store # NoRecord
        /\ store.tx = accepted
        /\ store.stage # "Finalized"

(* What the record says happened did happen at the server: a submitted      *)
(* record with evidence names the accepted, co-signed transaction, a        *)
(* finalized record the finalized one (spend_store.rs:28-45).               *)
NotAhead(rec) ==
    rec # NoRecord =>
        /\ rec.evidence = "valid" => rec.tx = accepted /\ rec.tx \in cosigned
        /\ rec.stage # "Submitting" => rec.tx = accepted
        /\ rec.stage = "Finalized" => finalized

RecordNotAheadOfServer == NotAhead(store)

(* A call returns Ok for a transaction only once the server finalized that  *)
(* very transaction, whichever call, stage or concurrent attempt answered   *)
(* (client.rs:514-520, 610-613, 838-862).                                   *)
OkMeansFinalized == \A tx \in reported : finalized /\ tx = accepted

(* The server's commitment to a transaction is in the store before the      *)
(* parties' signatures on it leave, unless the call that releases them saw   *)
(* its save of that commitment fail; no retry, crash or other record of the  *)
(* id gets around that (client.rs:759-784).                                 *)
CommitmentOnDiskFirst ==
    [][\A tx \in released' \ released :
          \/ store # NoRecord /\ store.tx = tx /\ store.evidence = "valid"
          \/ \E p \in Callers : pc[p] = "finalize" /\ mem[p].tx = tx /\ ~saved[p]]_vars

(* Recorded evidence stays recorded, whatever fails, until the application  *)
(* prunes the finalized record (spend_store.rs:40-43, 97-100).              *)
EvidenceNeverLost ==
    [][store # NoRecord /\ store.evidence = "valid" =>
          \/ store' # NoRecord /\ store'.evidence = "valid" /\ store'.tx = store.tx
          \/ store' = NoRecord /\ store.stage = "Finalized"]_vars

(* An id is bound to one ark transaction for good: a record is never        *)
(* overwritten by one for another transaction (client.rs:467-469).          *)
BoundForGood ==
    [][store # NoRecord /\ store' # NoRecord => store'.tx = store.tx]_vars

(* A record disappears only when the server does not hold its transaction   *)
(* and no request that could make it do so is on its way, or after the      *)
(* spend was finalized (client.rs:725-741).                                 *)
ClearedOnlyIfFree ==
    [][store # NoRecord /\ store' = NoRecord =>
          \/ finalized
          \/ accepted # store.tx /\ \A r \in late : r.tx # store.tx]_vars

(* A record of an attempt falls back a stage in two ways only, however many  *)
(* calls, resumes and failed writes there are under the id: power is lost,   *)
(* or a call that saw its save of the server's signatures fail saves them    *)
(* again over the finalized record, which keeps everything but its stage     *)
(* (client.rs:766-798, spend_store.rs:38-43).                                *)
FallsBackOnlyFromFinalized ==
    [][store # NoRecord /\ store' # NoRecord /\ store'.token = store.token
         /\ Rank(store'.stage) < Rank(store.stage) =>
          \/ PowerLoss
          \/ /\ store.stage = "Finalized"
             /\ store' = [store EXCEPT !.stage = "Submitted"]
             /\ \E p \in Callers : pc[p] = "lastChance" /\ ~saved[p] /\ pc'[p] = "idle"]_vars

(* A spend whose signatures are on record is driven to completion, through  *)
(* crashes, timeouts and failed writes, if the application keeps resuming   *)
(* it (client.rs:579-586, 614-663).                                         *)
SubmittedIsFinalized ==
    store # NoRecord /\ store.stage = "Submitted" /\ EvidenceHolds(store)
        ~> store = NoRecord \/ store.stage = "Finalized"

-----------------------------------------------------------------------------
(* The inductive invariant behind NoReleaseWithoutCommitment,               *)
(* RecordNotAheadOfServer and OkMeansFinalized: what a call holds in memory *)
(* at each point is as true of the server as what is on record.             *)

SignedPoints == {"upgrade", "finalize", "awaitFinalize", "mark", "marking", "lastChance"}

ServerSound ==
    /\ cosigned \subseteq {accepted}
    /\ finalized => accepted # NoTx

CallerSound(p) ==
    /\ NotAhead(mem[p])
    /\ mem[p] # NoRecord => mem[p].stage # "Finalized" /\ want[p] \in {NoTx, mem[p].tx}
    /\ pc[p] = "persist" => mem[p].stage = "Submitting"
    /\ answer[p].sig => answer[p].code = "ok" /\ mem[p].tx \in cosigned
    /\ pc[p] = "merge" => answer[p].sig
    /\ pc[p] \in SignedPoints => mem[p].evidence = "valid"
    /\ pc[p] = "awaitFinalize" /\ answer[p].code = "ok" => finalized
    /\ pc[p] \in {"mark", "marking"} => finalized

CommitInv ==
    /\ ServerSound
    /\ RecordNotAheadOfServer
    /\ \A rec \in undo : NotAhead(rec)
    /\ NoReleaseWithoutCommitment
    /\ OkMeansFinalized
    /\ \A p \in Callers : CallerSound(p)

-----------------------------------------------------------------------------
(* Statements of the documentation the code does not keep.                 *)

(* A record is written, "upgraded" and "marked", and "finalized records are  *)
(* kept" (spend_store.rs:9-15): the record of an attempt only ever advances, *)
(* submitting, submitted, finalized.                                         *)
StageNeverFallsBack ==
    [][store # NoRecord /\ store' # NoRecord /\ store'.token = store.token =>
          Rank(store'.stage) >= Rank(store.stage)]_vars

(* "the attempt token in the record keeps a finished attempt from deleting  *)
(* a record written by the other one" (client.rs:498-499): a rejected       *)
(* attempt that ends with the record gone found the record it had written.  *)
OthersRecordKept ==
    [][\A p \in Callers :
          pc[p] \in {"clear", "clearing"} /\ pc'[p] = "idle"
            /\ store # NoRecord /\ store' = NoRecord => store = mem[p]]_vars
=============================================================================
