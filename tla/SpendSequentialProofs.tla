------------------------ MODULE SpendSequentialProofs ------------------------
(***************************************************************************)
(* Proofs about SpendProtocol for calls that do not overlap, which is what *)
(* the code asks of the application (client.rs:495-499): for every set of  *)
(* transactions, every number of attempts, every server and every failure  *)
(* of the store whose effect lasts, the record and the server move         *)
(* together.                                                               *)
(***************************************************************************)
EXTENDS SpendRefinement, SpendProtocolProofs

USE NoTxAssumption, AttemptsAssumption, FaultsAssumption, FlagsAssumption,
    CpsAssumption, NoRecordAssumption

OneCall == \A p, q \in Callers : p = q

(* What a failed write did, a power loss does not undo.                     *)
EffectsLast == "undone" \notin StoreFaults

-----------------------------------------------------------------------------
(* The inductive invariant: at each point of the call, what the record is  *)
(* compared to the call's memory.                                          *)

(* The server holds nothing and no request is on its way, or all is done.  *)
NothingHeld == finalized \/ (accepted = NoTx /\ late = {})

(* The record is the call's, with or without the server's signatures.      *)
Recorded(p) ==
    /\ store # NoRecord /\ mem[p].stage = "Submitted"
    /\ store.tx = mem[p].tx /\ store.token = mem[p].token
    /\ store = mem[p] \/ (~saved[p] /\ store.stage = "Submitting")

(* The finalized record was written by a call that failed all the same, and *)
(* may have been pruned since.                                             *)
FinalizedAfterAll(p) ==
    /\ "dirty" \in StoreFaults /\ finalized
    /\ mem[p].stage = "Submitted"
    /\ store # NoRecord => store.stage = "Finalized" /\ store.tx = mem[p].tx

CallMatchesRecord(p) ==
    /\ pc[p] = "persist" => store = NoRecord /\ mem[p].evidence = "none"
    /\ pc[p] \in {"submit", "awaitSubmit", "clear", "clearing", "merge"} =>
          store = mem[p] /\ store.stage = "Submitting"
    /\ pc[p] \in {"upgrade", "finalize", "awaitFinalize", "mark", "marking"} => Recorded(p)
    /\ pc[p] = "lastChance" => Recorded(p) \/ FinalizedAfterAll(p)
    /\ pc[p] \in {"persist", "submit", "awaitSubmit", "merge", "upgrade", "lastChance"} =>
          ~saved[p]
    /\ pc[p] \in {"clear", "clearing"} => NothingHeld
    /\ first[p] /\ pc[p] = "submit" => NothingHeld
    /\ first[p] /\ pc[p] = "awaitSubmit" /\ answer[p].code \in {"waiting", "rejected"} =>
          NothingHeld

(* A request that may still arrive is for the recorded transaction.        *)
LateIsRecorded ==
    ~finalized => \A r \in late : store # NoRecord /\ store.tx = r.tx

SubmittingHasNoEvidence ==
    store # NoRecord /\ store.stage = "Submitting" => store.evidence = "none"

SeqInv ==
    /\ AcceptedIsRecorded
    /\ LateIsRecorded
    /\ SubmittingHasNoEvidence
    /\ \A p \in Callers : CallMatchesRecord(p)

-----------------------------------------------------------------------------
LEMMA SeqInit == Init => SeqInv
<1>. SUFFICES ASSUME Init PROVE SeqInv
  OBVIOUS
<1>1. ~Plain("none").sig /\ Plain("none").code = "none"
  BY AnswerType DEF Codes
<1>2. \A tx \in Txs, e \in Evidence, c \in Checkpoints : OldRecord(tx, e, c) \in PendingSpend
  BY DEF OldRecord, PendingSpend, Stages
<1>3. \/ store = NoRecord /\ accepted = NoTx
      \/ \E tx \in Txs, e \in Evidence, c \in Checkpoints :
            store = OldRecord(tx, e, c) /\ store \in PendingSpend /\ accepted = tx
  BY <1>2 DEF Init, Checkpoints
<1>4. AcceptedIsRecorded /\ SubmittingHasNoEvidence
  BY <1>3 DEF AcceptedIsRecorded, SubmittingHasNoEvidence, OldRecord
<1>. QED
  BY <1>1, <1>4 DEF Init, SeqInv, LateIsRecorded, CallMatchesRecord

(* The calls' part is that of the one call.                                *)
SeqParts(p) ==
    /\ AcceptedIsRecorded /\ LateIsRecorded /\ SubmittingHasNoEvidence
    /\ CallMatchesRecord(p)

LEMMA SeqCall ==
    ASSUME OneCall, TypeInv, CommitInv, SeqInv, NEW p \in Callers, Call(p)
    PROVE  SeqInv'
<1>. USE DEF SeqParts, AcceptedIsRecorded, LateIsRecorded, SubmittingHasNoEvidence,
       CallMatchesRecord, Recorded, FinalizedAfterAll, NothingHeld, serverVars
<1>0. SeqParts(p) /\ (SeqParts(p)' => SeqInv')
  BY DEF SeqInv, OneCall
<1>00. /\ CallerSound(p) /\ RecordNotAheadOfServer /\ ServerSound
       /\ TypeOK /\ (pc[p] \notin {"idle", "down"} => mem[p] \in PendingSpend)
  BY DEF CommitInv, TypeInv, BusyHasRecord
<1>. SUFFICES SeqParts(p)'
  BY <1>0
<1>000. /\ Plain("none").code = "none" /\ Plain("waiting").code = "waiting"
  BY AnswerType DEF Codes
<1>1. ASSUME NEW tx \in Txs, SpendFresh(p, tx) PROVE SeqParts(p)'
  BY <1>0, <1>00, <1>000, <1>1, SMTT(30) DEF SpendFresh, Begin, NewRecord, Unbound, CallerSound,
     RecordNotAheadOfServer, NotAhead,
     ServerSound, TypeOK, PendingSpend, SignedPoints
<1>2. ASSUME NEW tx \in Txs \union {NoTx}, ResumeFinalized(p, tx) PROVE SeqParts(p)'
  BY <1>0, <1>00, <1>000, <1>2, SMTT(30) DEF ResumeFinalized, Found, callerVars, CallerSound,
     RecordNotAheadOfServer, NotAhead,
     ServerSound, TypeOK, PendingSpend, SignedPoints
<1>3. ASSUME NEW tx \in Txs \union {NoTx}, ResumeSubmitted(p, tx) PROVE SeqParts(p)'
  BY <1>0, <1>00, <1>000, <1>3, SMTT(30) DEF ResumeSubmitted, Found, Begin, EvidenceHolds,
     CallerSound, RecordNotAheadOfServer, NotAhead,
     ServerSound, TypeOK, PendingSpend, SignedPoints
<1>4. ASSUME NEW tx \in Txs \union {NoTx}, ResumeSubmitting(p, tx) PROVE SeqParts(p)'
  BY <1>0, <1>00, <1>000, <1>4, SMTT(30) DEF ResumeSubmitting, Found, Begin, CallerSound,
     RecordNotAheadOfServer, NotAhead,
     ServerSound, TypeOK, PendingSpend, SignedPoints
<1>5. ASSUME PersistSubmitting(p) PROVE SeqParts(p)'
  BY <1>0, <1>00, <1>000, <1>5, SMTT(30) DEF PersistSubmitting, Write, Goto, Return,
     CallerSound, RecordNotAheadOfServer, NotAhead,
     ServerSound, TypeOK, PendingSpend, SignedPoints
<1>6. ASSUME SendSubmit(p) PROVE SeqParts(p)'
  BY <1>0, <1>00, <1>000, <1>6, SMTT(30) DEF SendSubmit, Send, CallerSound,
     RecordNotAheadOfServer, NotAhead,
     ServerSound, TypeOK, PendingSpend, SignedPoints
<1>7. ASSUME HandleSubmit(p) PROVE SeqParts(p)'
  BY <1>0, <1>00, <1>000, <1>7, SMTT(30) DEF HandleSubmit, ServerSubmit, CallerSound,
     RecordNotAheadOfServer, NotAhead,
     ServerSound, TypeOK, PendingSpend, SignedPoints
<1>8. ASSUME SubmitRejected(p) PROVE SeqParts(p)'
  BY <1>0, <1>00, <1>000, <1>8, SMTT(30) DEF SubmitRejected, Goto, Answered, MayClear,
     CallerSound, RecordNotAheadOfServer, NotAhead,
     ServerSound, TypeOK, PendingSpend, SignedPoints
<1>9. ASSUME SubmitUnclear(p) PROVE SeqParts(p)'
  BY <1>0, <1>00, <1>000, <1>9, SMTT(30) DEF SubmitUnclear, Return, CallerSound,
     RecordNotAheadOfServer, NotAhead,
     ServerSound, TypeOK, PendingSpend, SignedPoints
<1>10. ASSUME SubmitAccepted(p) PROVE SeqParts(p)'
  BY <1>0, <1>00, <1>000, <1>10, SMTT(30) DEF SubmitAccepted, Goto, Answered, CallerSound,
     RecordNotAheadOfServer, NotAhead,
     ServerSound, TypeOK, PendingSpend, SignedPoints
<1>11. ASSUME Clear(p) PROVE SeqParts(p)'
  BY <1>0, <1>00, <1>000, <1>11, SMTT(30) DEF Clear, Write, Goto, Return, CallerSound,
     RecordNotAheadOfServer, NotAhead,
     ServerSound, TypeOK, PendingSpend, SignedPoints
<1>12. ASSUME ClearWrite(p) PROVE SeqParts(p)'
  BY <1>0, <1>00, <1>000, <1>12, SMTT(30) DEF ClearWrite, Write, Return, CallerSound,
     RecordNotAheadOfServer, NotAhead,
     ServerSound, TypeOK, PendingSpend, SignedPoints
<1>13. ASSUME Merge(p) PROVE SeqParts(p)'
  BY <1>0, <1>00, <1>13, UpgradedType DEF Merge, Return, CallerSound, TypeOK
<1>14. ASSUME UpgradeRecord(p) PROVE SeqParts(p)'
  BY <1>0, <1>00, <1>000, <1>14, SMTT(30) DEF UpgradeRecord, Write, CallerSound,
     RecordNotAheadOfServer, NotAhead,
     ServerSound, TypeOK, PendingSpend, SignedPoints
<1>15. ASSUME SendFinalize(p) PROVE SeqParts(p)'
  BY <1>0, <1>00, <1>000, <1>15, SMTT(30) DEF SendFinalize, Send, CallerSound,
     RecordNotAheadOfServer, NotAhead,
     ServerSound, TypeOK, PendingSpend, SignedPoints
<1>16. ASSUME NEW code \in {"ok", "unknown"}, HandleFinalize(p, code) PROVE SeqParts(p)'
  BY <1>0, <1>00, <1>000, <1>16, SMTT(30) DEF HandleFinalize, ServerFinalize, CallerSound,
     RecordNotAheadOfServer, NotAhead,
     ServerSound, TypeOK, PendingSpend, SignedPoints
<1>17. ASSUME FinalizeAccepted(p) PROVE SeqParts(p)'
  BY <1>0, <1>00, <1>000, <1>17, SMTT(30) DEF FinalizeAccepted, Goto, Answered, CallerSound,
     RecordNotAheadOfServer, NotAhead,
     ServerSound, TypeOK, PendingSpend, SignedPoints
<1>18. ASSUME FinalizeRefused(p) PROVE SeqParts(p)'
  BY <1>0, <1>00, <1>000, <1>18, SMTT(30) DEF FinalizeRefused, SpendFailed, Goto, Return,
     Answered, CallerSound, RecordNotAheadOfServer, NotAhead,
     ServerSound, TypeOK, PendingSpend, SignedPoints
<1>19. ASSUME MarkFinalizedRecord(p) PROVE SeqParts(p)'
  BY <1>0, <1>00, <1>000, <1>19, SMTT(30) DEF MarkFinalizedRecord, WriteFinalized,
     SpendSucceeds, SpendFailed, Goto, Return, Write, MarkedFinalized, OwnRecord, CallerSound,
     RecordNotAheadOfServer, NotAhead,
     ServerSound, TypeOK, PendingSpend, SignedPoints
<1>20. ASSUME MarkWrite(p) PROVE SeqParts(p)'
  BY <1>0, <1>00, <1>000, <1>20, SMTT(30) DEF MarkWrite, WriteFinalized, SpendSucceeds,
     SpendFailed, Goto, Return, Write, MarkedFinalized, CallerSound, RecordNotAheadOfServer,
     NotAhead,
     ServerSound, TypeOK, PendingSpend, SignedPoints
<1>21. ASSUME LastChanceSave(p) PROVE SeqParts(p)'
  BY <1>0, <1>00, <1>000, <1>21, SMTT(30) DEF LastChanceSave, Write, Return, CallerSound,
     RecordNotAheadOfServer, NotAhead,
     ServerSound, TypeOK, PendingSpend, SignedPoints
<1>22. ASSUME Timeout(p) PROVE SeqParts(p)'
  BY <1>0, <1>00, <1>000, <1>22, SMTT(30) DEF Timeout, SpendFailed, Goto, Return, Request,
     CallerSound, RecordNotAheadOfServer, NotAhead,
     ServerSound, TypeOK, PendingSpend, SignedPoints
<1>. QED
  BY <1>1, <1>2, <1>3, <1>4, <1>5, <1>6, <1>7, <1>8, <1>9, <1>10, <1>11, <1>12, <1>13, <1>14,
     <1>15, <1>16, <1>17, <1>18, <1>19, <1>20, <1>21, <1>22 DEF Call

LEMMA SeqStep ==
    ASSUME OneCall, EffectsLast, NothingToUndo, TypeInv, CommitInv, SeqInv, [Next]_vars
    PROVE  SeqInv'
<1>. USE DEF SeqInv, AcceptedIsRecorded, LateIsRecorded, SubmittingHasNoEvidence,
       CallMatchesRecord, Recorded, FinalizedAfterAll, NothingHeld, serverVars, callerVars
<1>0. RecordNotAheadOfServer /\ ServerSound /\ TypeOK
  BY DEF CommitInv, TypeInv
<1>1. ASSUME NEW p \in Callers, Call(p) PROVE SeqInv'
  BY <1>1, SeqCall
<1>2. ASSUME NEW r \in late, HandleLate(r) PROVE SeqInv'
  <2>1. /\ r.tx \in Txs /\ late' \subseteq late
        /\ UNCHANGED <<store, callerVars>>
    BY <1>0, <1>2 DEF HandleLate, TypeOK, Requests
  <2>2. \/ UNCHANGED <<accepted, finalized>>
        \/ accepted = NoTx /\ accepted' = r.tx /\ finalized' = finalized
        \/ finalized'
    BY <1>2 DEF HandleLate, ServerSubmit, ServerFinalize
  <2>. QED
    BY <1>0, <2>1, <2>2 DEF RecordNotAheadOfServer, NotAhead, ServerSound
<1>3. ASSUME NEW r \in late, LoseLate(r) PROVE SeqInv'
  BY <1>3 DEF LoseLate
<1>4. ASSUME Crash PROVE SeqInv'
  <2>1. \A p \in Callers : Unseen(p) => store # NoRecord /\ Request(p).tx = store.tx
    BY DEF Unseen, Request, TypeInv, BusyHasRecord
  <2>2. LateIsRecorded'
    BY <1>4, <2>1 DEF Crash, Down
  <2>. QED
    BY <1>4, <2>2 DEF Crash, Down
<1>8. ~PowerLoss
  BY DEF NothingToUndo, Firm, EffectsLast, PowerLoss
<1>5. ASSUME Restart PROVE SeqInv'
  BY <1>5 DEF Restart
<1>6. ASSUME Prune PROVE SeqInv'
  BY <1>0, <1>6 DEF Prune, RecordNotAheadOfServer, NotAhead
<1>7. ASSUME UNCHANGED vars PROVE SeqInv'
  BY <1>7 DEF vars
<1>. QED
  BY <1>1, <1>2, <1>3, <1>4, <1>5, <1>6, <1>7, <1>8 DEF Next

LEMMA SeqAlways ==
    ASSUME OneCall, EffectsLast
    PROVE  Spec => [](NothingToUndo /\ TypeInv /\ CommitInv /\ SeqInv)
<1>1. Init => NothingToUndo
  BY DEF Init, NothingToUndo
<1>. QED
  BY <1>1, FirmStep, TypeInit, TypeStep, CommitInit, CommitStep, SeqInit, SeqStep, PTL DEF Spec

(* With one call at a time no lost answer, crash, rejection or failed write *)
(* whose effect lasts leaves the escrow output locked at the server without *)
(* a pending record of the transaction it is locked for                     *)
(* (spend_store.rs:3-13).                                                   *)
THEOREM NothingStranded ==
    ASSUME OneCall, EffectsLast PROVE Spec => []AcceptedIsRecorded
<1>1. SeqInv => AcceptedIsRecorded
  BY DEF SeqInv
<1>. QED
  BY <1>1, SeqAlways, PTL

-----------------------------------------------------------------------------
(* How the record moves, in one step, under the invariant.                 *)

Kept == store' = store

Bound ==
    /\ store = NoRecord /\ store' # NoRecord
    /\ store'.tx \in Txs /\ store'.stage = "Submitting"
    /\ NothingHeld

Dropped ==
    /\ store # NoRecord /\ store.stage = "Submitting" /\ store.evidence = "none"
    /\ store' = NoRecord
    /\ NothingHeld

(* What the record of a transaction the server accepted advances to.       *)
Advanced(stage) ==
    /\ store # NoRecord /\ store' # NoRecord
    /\ store'.tx = store.tx /\ store.tx = accepted
    /\ store'.stage = stage /\ store'.evidence = "valid"

SignaturesSaved == Advanced("Submitted") /\ store.stage = "Submitting"

Completed == Advanced("Finalized") /\ finalized /\ store.stage # "Finalized"

FellBack ==
    /\ "dirty" \in StoreFaults /\ finalized
    /\ store # NoRecord => store.stage = "Finalized" /\ store.tx = accepted
    /\ store' # NoRecord /\ store'.tx = accepted
    /\ store'.stage = "Submitted" /\ store'.evidence = "valid"

Pruned == store # NoRecord /\ store.stage = "Finalized" /\ finalized /\ store' = NoRecord

RecordMove == Bound \/ Dropped \/ SignaturesSaved \/ Completed \/ FellBack \/ Pruned

LEMMA CallMovesRecord ==
    ASSUME OneCall, TypeInv, CommitInv, SeqInv, NEW p \in Callers, Call(p)
    PROVE  Kept \/ (RecordMove /\ UNCHANGED serverVars)
<1>. USE DEF CallMatchesRecord, SubmittingHasNoEvidence, Write
<1>0. /\ CallerSound(p) /\ RecordNotAheadOfServer
      /\ pc[p] \notin {"idle", "down"} => mem[p] \in PendingSpend
      /\ CallMatchesRecord(p) /\ SubmittingHasNoEvidence
  BY DEF CommitInv, TypeInv, BusyHasRecord, SeqInv
<1>1. CASE PersistSubmitting(p)
  <2>1. NothingHeld
    BY <1>0, <1>1 DEF PersistSubmitting, SeqInv, AcceptedIsRecorded, LateIsRecorded, NothingHeld
  <2>. QED
    BY <1>0, <1>1, <2>1 DEF PersistSubmitting, CallerSound, PendingSpend, Kept, Bound, RecordMove
<1>2. CASE Clear(p)
  BY <1>0, <1>2 DEF Clear, Kept, Dropped, RecordMove
<1>3. CASE ClearWrite(p)
  BY <1>0, <1>3 DEF ClearWrite, Kept, Dropped, RecordMove
<1>4. CASE UpgradeRecord(p)
  BY <1>0, <1>4 DEF UpgradeRecord, Recorded, CallerSound, NotAhead, SignedPoints,
     Kept, Advanced, SignaturesSaved, RecordMove
<1>5. ASSUME WriteFinalized(p), pc[p] \in {"mark", "marking"}
      PROVE  Kept \/ RecordMove
  <2>1. MarkedFinalized(mem[p]) \in PendingSpend /\ mem[p] \in PendingSpend
    BY <1>0, <1>5, MarkedType
  <2>. QED
    BY <1>0, <1>5, <2>1, MarkedType DEF WriteFinalized, Recorded, CallerSound, NotAhead,
       SignedPoints, Kept, Advanced, Completed, RecordMove
<1>6. CASE MarkFinalizedRecord(p)
  BY <1>5, <1>6 DEF MarkFinalizedRecord, Kept
<1>7. CASE MarkWrite(p)
  BY <1>5, <1>7 DEF MarkWrite
<1>8. CASE LastChanceSave(p)
  BY <1>0, <1>8 DEF LastChanceSave, Recorded, FinalizedAfterAll, CallerSound, NotAhead,
     SignedPoints, Kept, Advanced, SignaturesSaved, FellBack, RecordMove
<1>. QED
  BY <1>1, <1>2, <1>3, <1>4, <1>6, <1>7, <1>8
     DEF Call, SpendFresh, ResumeFinalized, ResumeSubmitted, ResumeSubmitting, SendSubmit,
         HandleSubmit, SubmitRejected, SubmitUnclear, SubmitAccepted, Merge, SendFinalize,
         HandleFinalize, FinalizeAccepted, FinalizeRefused, Timeout, Kept

LEMMA StepMovesRecord ==
    ASSUME OneCall, EffectsLast, NothingToUndo, TypeInv, CommitInv, SeqInv, [Next]_vars
    PROVE  Kept \/ (RecordMove /\ UNCHANGED serverVars)
<1>1. CASE Prune
  BY <1>1 DEF Prune, CommitInv, RecordNotAheadOfServer, NotAhead, Pruned, RecordMove
<1>2. ~PowerLoss
  BY DEF NothingToUndo, Firm, EffectsLast, PowerLoss
<1>. QED
  BY <1>1, <1>2, CallMovesRecord DEF Next, HandleLate, LoseLate, Crash, Restart, vars, Kept

-----------------------------------------------------------------------------
(* Action properties.                                                      *)

(* An id is bound to one ark transaction for good: a record is never        *)
(* overwritten by one for another transaction (client.rs:467-469).          *)
THEOREM BindingIsForGood ==
    ASSUME OneCall, EffectsLast PROVE Spec => BoundForGood
<1>1. ASSUME NothingToUndo, TypeInv, CommitInv, SeqInv, [Next]_vars
      PROVE  [store # NoRecord /\ store' # NoRecord => store'.tx = store.tx]_vars
  BY <1>1, StepMovesRecord DEF Kept, RecordMove, Bound, Dropped, Advanced, SignaturesSaved,
     Completed, FellBack, Pruned
<1>. QED
  BY <1>1, SeqAlways, PTL DEF Spec, BoundForGood

(* A record disappears only when the server does not hold its transaction   *)
(* and no request that could make it do so is on its way, or after the      *)
(* spend was finalized (client.rs:725-741).                                 *)
THEOREM ClearingIsSafe ==
    ASSUME OneCall, EffectsLast PROVE Spec => ClearedOnlyIfFree
<1>1. ASSUME NothingToUndo, TypeInv, CommitInv, SeqInv, [Next]_vars
      PROVE  [store # NoRecord /\ store' = NoRecord =>
                \/ finalized
                \/ accepted # store.tx /\ \A r \in late : r.tx # store.tx]_vars
  <2>1. store # NoRecord => store.tx \in Txs
    BY <1>1 DEF TypeInv, TypeOK, PendingSpend
  <2>. QED
    BY <1>1, <2>1, StepMovesRecord DEF Kept, RecordMove, Bound, Dropped, NothingHeld, Advanced,
       SignaturesSaved, Completed, FellBack, Pruned
<1>. QED
  BY <1>1, SeqAlways, PTL DEF Spec, ClearedOnlyIfFree

(* Recorded evidence stays recorded, whatever fails, until the application  *)
(* prunes the finalized record (spend_store.rs:40-43, 97-100).              *)
THEOREM EvidenceIsKept ==
    ASSUME OneCall, EffectsLast PROVE Spec => EvidenceNeverLost
<1>1. ASSUME NothingToUndo, TypeInv, CommitInv, SeqInv, [Next]_vars
      PROVE  [store # NoRecord /\ store.evidence = "valid" =>
                \/ store' # NoRecord /\ store'.evidence = "valid" /\ store'.tx = store.tx
                \/ store' = NoRecord /\ store.stage = "Finalized"]_vars
  BY <1>1, StepMovesRecord DEF Kept, RecordMove, Bound, Dropped, Advanced, SignaturesSaved,
     Completed, FellBack, Pruned
<1>. QED
  BY <1>1, SeqAlways, PTL DEF Spec, EvidenceNeverLost

(* The server's commitment is in the store before the parties' signatures   *)
(* leave, unless the releasing call saw its save fail (client.rs:759-784).  *)
THEOREM CommitmentIsFirst ==
    ASSUME OneCall, EffectsLast PROVE Spec => CommitmentOnDiskFirst
<1>1. ASSUME NothingToUndo, TypeInv, CommitInv, SeqInv, [Next]_vars
      PROVE  [\A tx \in released' \ released :
                \/ store # NoRecord /\ store.tx = tx /\ store.evidence = "valid"
                \/ \E p \in Callers : pc[p] = "finalize" /\ mem[p].tx = tx /\ ~saved[p]]_vars
  <2>1. ASSUME NEW p \in Callers, SendFinalize(p), NEW tx \in released' \ released
        PROVE  \/ store # NoRecord /\ store.tx = tx /\ store.evidence = "valid"
               \/ \E q \in Callers : pc[q] = "finalize" /\ mem[q].tx = tx /\ ~saved[q]
    BY <1>1, <2>1 DEF SendFinalize, SeqInv, CallMatchesRecord, Recorded, CommitInv, CallerSound,
       SignedPoints
  <2>2. ASSUME NEW p \in Callers, Call(p), ~SendFinalize(p) PROVE released' = released
    BY <2>2
       DEF Call, SpendFresh, ResumeFinalized, ResumeSubmitted, ResumeSubmitting,
           PersistSubmitting, SendSubmit, HandleSubmit, SubmitRejected, SubmitUnclear,
           SubmitAccepted, Clear, ClearWrite, Merge, UpgradeRecord, HandleFinalize,
           FinalizeAccepted, FinalizeRefused, MarkFinalizedRecord, MarkWrite,
           LastChanceSave, Timeout
  <2>. QED
    BY <1>1, <2>1, <2>2 DEF Next, HandleLate, LoseLate, Crash, Down, PowerLoss, Restart, Prune
<1>. QED
  BY <1>1, SeqAlways, PTL DEF Spec, CommitmentOnDiskFirst

-----------------------------------------------------------------------------
(* The refinement: how the server moves, and what each move is to the      *)
(* promise.                                                                *)

AcceptsRecorded ==
    /\ store # NoRecord /\ store.stage = "Submitting"
    /\ accepted = NoTx /\ accepted' = store.tx
    /\ finalized' = finalized

FinalizesRecorded ==
    /\ store # NoRecord /\ store.stage # "Finalized" /\ store.tx = accepted
    /\ ~finalized /\ finalized'
    /\ accepted' = accepted

ServerKept == UNCHANGED <<accepted, finalized>>

LEMMA ServerMoves ==
    ASSUME OneCall, EffectsLast, NothingToUndo, TypeInv, CommitInv, SeqInv, [Next]_vars
    PROVE  ServerKept \/ AcceptsRecorded \/ FinalizesRecorded
<1>. USE DEF ServerKept, AcceptsRecorded, FinalizesRecorded
<1>0. AcceptedIsRecorded /\ LateIsRecorded /\ RecordNotAheadOfServer /\ ServerSound
  BY DEF SeqInv, CommitInv
<1>1. ASSUME NEW tx \in Txs, NEW a, ServerSubmit(tx, a),
             accepted = NoTx => store # NoRecord /\ store.tx = tx
      PROVE  ServerKept \/ AcceptsRecorded
  <2>1. accepted = NoTx => store.stage = "Submitting"
    BY <1>0, <1>1 DEF RecordNotAheadOfServer, NotAhead
  <2>. QED
    BY <1>1, <2>1 DEF ServerSubmit
<1>2. ASSUME NEW tx \in Txs, NEW cps, NEW code, ServerFinalize(tx, cps, code)
      PROVE  ServerKept \/ FinalizesRecorded
  BY <1>0, <1>2 DEF ServerFinalize, AcceptedIsRecorded
<1>3. ASSUME NEW p \in Callers, HandleSubmit(p) PROVE ServerKept \/ AcceptsRecorded
  <2>1. mem[p] \in PendingSpend /\ store = mem[p]
    BY <1>3 DEF HandleSubmit, TypeInv, BusyHasRecord, SeqInv, CallMatchesRecord
  <2>2. mem[p].tx \in Txs /\ store # NoRecord
    BY <2>1 DEF PendingSpend
  <2>. QED
    BY <1>1, <1>3, <2>1, <2>2 DEF HandleSubmit
<1>4. ASSUME NEW p \in Callers, NEW code, HandleFinalize(p, code)
      PROVE  ServerKept \/ FinalizesRecorded
  <2>1. mem[p].tx \in Txs
    BY <1>4 DEF HandleFinalize, TypeInv, BusyHasRecord, PendingSpend
  <2>. QED
    BY <1>2, <1>4, <2>1 DEF HandleFinalize
<1>5. ASSUME NEW r \in late, HandleLate(r)
      PROVE  ServerKept \/ AcceptsRecorded \/ FinalizesRecorded
  <2>1. r.tx \in Txs
    BY DEF TypeInv, TypeOK, Requests
  <2>2. accepted = NoTx => store # NoRecord /\ store.tx = r.tx
    BY <1>0 DEF LateIsRecorded, ServerSound
  <2>. QED
    BY <1>1, <1>2, <1>5, <2>1, <2>2 DEF HandleLate
<1>6. ASSUME NEW p \in Callers, Call(p) PROVE ServerKept \/ AcceptsRecorded \/ FinalizesRecorded
  BY <1>3, <1>4, <1>6
     DEF Call, SpendFresh, ResumeFinalized, ResumeSubmitted, ResumeSubmitting, PersistSubmitting,
         SendSubmit, SubmitRejected, SubmitUnclear, SubmitAccepted, Clear, ClearWrite, Merge,
         UpgradeRecord, SendFinalize, FinalizeAccepted, FinalizeRefused, MarkFinalizedRecord,
         MarkWrite, LastChanceSave, Timeout, serverVars
<1>. QED
  BY <1>5, <1>6 DEF Next, LoseLate, Crash, Down, PowerLoss, Restart, Prune, vars, serverVars

LEMMA PromiseInit == Init => Promise!Init
<1>. SUFFICES ASSUME Init PROVE Promise!Init
  OBVIOUS
<1>1. \A tx \in Txs, e \in Evidence, c \in Checkpoints : OldRecord(tx, e, c) \in PendingSpend
  BY DEF OldRecord, PendingSpend, Stages
<1>2. \/ store = NoRecord /\ accepted = NoTx
      \/ \E tx \in Txs, e \in Evidence, c \in Checkpoints :
            store = OldRecord(tx, e, c) /\ store \in PendingSpend /\ accepted = tx
  BY <1>1 DEF Init, Checkpoints
<1>. QED
  BY <1>2 DEF Init, Promise!Init, OldRecord

LEMMA PromiseStep ==
    ASSUME OneCall, EffectsLast, NothingToUndo, TypeInv, CommitInv, SeqInv, [Next]_vars
    PROVE  [Promise!Next]_(Promise!vars)
<1>. USE DEF Promise!Next, Promise!vars
<1>0. /\ store # NoRecord => store.tx \in Txs /\ store.stage \in Stages
      /\ accepted \in Txs \union {NoTx} /\ finalized \in BOOLEAN
      /\ finalized => accepted # NoTx
  BY DEF TypeInv, TypeOK, PendingSpend, CommitInv, ServerSound
<1>1. CASE Kept /\ ServerKept
  BY <1>1 DEF Kept, ServerKept
<1>2. CASE Kept /\ AcceptsRecorded
  BY <1>2 DEF Kept, AcceptsRecorded, Promise!Accept
<1>3. CASE Kept /\ FinalizesRecorded
  BY <1>0, <1>3 DEF Kept, FinalizesRecorded, Promise!Finalize, Stages
<1>4. CASE Bound /\ ServerKept
  BY <1>4 DEF Bound, NothingHeld, ServerKept, Promise!Bind
<1>5. CASE Dropped /\ ServerKept
  BY <1>0, <1>5 DEF Dropped, NothingHeld, ServerKept, Promise!Release
<1>6. CASE SignaturesSaved /\ ServerKept
  BY <1>6 DEF SignaturesSaved, Advanced, ServerKept, Promise!Evidence
<1>7. CASE Completed /\ ServerKept
  BY <1>0, <1>7 DEF Completed, Advanced, ServerKept, Promise!Complete, Stages
<1>8. CASE FellBack /\ ServerKept
  BY <1>8 DEF FellBack, ServerKept, Promise!FallBack
<1>9. CASE Pruned /\ ServerKept
  BY <1>9 DEF Pruned, ServerKept, Promise!Prune
<1>10. (Kept \/ (RecordMove /\ ServerKept)) /\ (ServerKept \/ AcceptsRecorded \/ FinalizesRecorded)
  BY StepMovesRecord, ServerMoves DEF serverVars, ServerKept
<1>. QED
  BY <1>1, <1>2, <1>3, <1>4, <1>5, <1>6, <1>7, <1>8, <1>9, <1>10 DEF RecordMove

(* With one call at a time the record and the server keep the promise made  *)
(* to the application: a transaction is bound before the server can hold    *)
(* it, stays bound while it is held, and is recorded finalized only after   *)
(* it was, whatever is lost, late, repeated or fails                        *)
(* (spend_store.rs:1-15, client.rs:444-503).                                *)
THEOREM PromiseIsKept ==
    ASSUME OneCall, EffectsLast PROVE Spec => KeepsPromise
BY SeqAlways, PromiseInit, PromiseStep, PTL DEF Spec, KeepsPromise, Promise!Spec
===============================================================================
