------------------------- MODULE SpendProtocolProofs -------------------------
(***************************************************************************)
(* Proofs about SpendProtocol, for every set of transactions and callers,  *)
(* every bound on attempts, every way the store fails and every server.    *)
(***************************************************************************)
EXTENDS SpendProtocol, TLAPS

USE NoTxAssumption, AttemptsAssumption, FaultsAssumption, FlagsAssumption,
    CpsAssumption, NoRecordAssumption

-----------------------------------------------------------------------------
(* Lemmas about the operators.                                             *)

LEMMA NewRecordType ==
    ASSUME NEW tx \in Txs, NEW token \in Nat
    PROVE  NewRecord(tx, token) \in PendingSpend
BY DEF NewRecord, PendingSpend, Stages, Evidence, Checkpoints

LEMMA UpgradedType ==
    ASSUME NEW rec \in PendingSpend, NEW cps
    PROVE  /\ Upgraded(rec, cps) \in PendingSpend
           /\ Upgraded(rec, cps).tx = rec.tx
           /\ Upgraded(rec, cps).token = rec.token
           /\ Upgraded(rec, cps).stage = "Submitted"
           /\ Upgraded(rec, cps).evidence = "valid"
BY DEF Upgraded, PendingSpend, Stages, Evidence, Checkpoints

LEMMA MarkedType ==
    ASSUME NEW rec \in PendingSpend
    PROVE  /\ MarkedFinalized(rec) \in PendingSpend
           /\ MarkedFinalized(rec).tx = rec.tx
           /\ MarkedFinalized(rec).token = rec.token
           /\ MarkedFinalized(rec).stage = "Finalized"
           /\ MarkedFinalized(rec).evidence = rec.evidence
BY DEF MarkedFinalized, PendingSpend, Stages, Evidence, Checkpoints

LEMMA AnswerType ==
    /\ \A c \in Codes : Plain(c) \in Answers /\ Plain(c).code = c /\ ~Plain(c).sig
    /\ \A a \in SubmitAnswers : a \in Answers /\ (a.sig => a.code = "ok")
<1>1. \A c \in Codes : Plain(c) \in Answers /\ Plain(c).code = c /\ ~Plain(c).sig
  BY DEF Plain, Answers, ServerCpKinds
<1>2. ASSUME NEW c \in ServerCps
      PROVE  [code |-> "ok", sig |-> TRUE, cps |-> c] \in Answers
  BY DEF Answers, Codes, ServerCpKinds
<1>3. {"ok", "rejected", "duplicate", "unknown"} \subseteq Codes
  BY DEF Codes
<1>. QED
  BY <1>1, <1>2, <1>3 DEF SubmitAnswers

-----------------------------------------------------------------------------
(* Types.  A call that is under way has its record in memory, and only such *)
(* a call waits for an answer; without that a step could not be typed.      *)

BusyHasRecord ==
    \A p \in Callers :
        /\ pc[p] \notin {"idle", "down"} => mem[p] \in PendingSpend
        /\ answer[p].code # "none" => pc[p] \notin {"idle", "down"}

TypeInv == TypeOK /\ BusyHasRecord

(* The part of TypeInv about the calls.                                     *)
CallerTypes ==
    /\ drawn \in 0 .. MaxAttempts
    /\ pc \in [Callers -> Points]
    /\ mem \in [Callers -> PendingSpend \union {NoRecord}]
    /\ want \in [Callers -> Txs \union {NoTx}]
    /\ first \in [Callers -> BOOLEAN]
    /\ saved \in [Callers -> BOOLEAN]
    /\ answer \in [Callers -> Answers]
    /\ BusyHasRecord

ServerTypes ==
    /\ accepted \in Txs \union {NoTx}
    /\ finalized \in BOOLEAN
    /\ cosigned \subseteq Txs

StoreTypes ==
    /\ store \in PendingSpend \union {NoRecord}
    /\ undo \subseteq PendingSpend \union {NoRecord}

TypeParts ==
    /\ StoreTypes
    /\ CallerTypes
    /\ late \subseteq Requests
    /\ ServerTypes
    /\ released \subseteq Txs
    /\ reported \subseteq Txs

LEMMA TypeInvParts == (TypeInv <=> TypeParts) /\ (TypeInv' <=> TypeParts')
BY DEF TypeInv, TypeOK, TypeParts, StoreTypes, CallerTypes, ServerTypes

(* The ways a call moves on keep the types.                                 *)
LEMMA MoveTypes ==
    ASSUME CallerTypes, NEW p \in Callers
    PROVE  /\ Return(p) => CallerTypes'
           /\ UNCHANGED callerVars => CallerTypes'
           /\ \A point \in Points \ {"idle", "down"} :
                 pc[p] \notin {"idle", "down"} =>
                    /\ Goto(p, point) => CallerTypes'
                    /\ Send(p, point) => CallerTypes'
<1>1. Return(p) => CallerTypes'
  <2>. SUFFICES ASSUME Return(p) PROVE CallerTypes'
    OBVIOUS
  <2>1. Plain("none") \in Answers /\ Plain("none").code = "none"
    BY AnswerType DEF Codes
  <2>. QED
    BY <2>1 DEF CallerTypes, BusyHasRecord, Return, Points
<1>2. UNCHANGED callerVars => CallerTypes'
  BY DEF CallerTypes, BusyHasRecord, callerVars
<1>3. ASSUME NEW point \in Points \ {"idle", "down"}, pc[p] \notin {"idle", "down"},
             Goto(p, point)
      PROVE  CallerTypes'
  BY <1>3 DEF CallerTypes, BusyHasRecord, Goto
<1>4. ASSUME NEW point \in Points \ {"idle", "down"}, pc[p] \notin {"idle", "down"},
             Send(p, point)
      PROVE  CallerTypes'
  <2>1. Plain("waiting") \in Answers
    BY AnswerType DEF Codes
  <2>. QED
    BY <1>4, <2>1 DEF CallerTypes, BusyHasRecord, Send
<1>. QED
  BY <1>1, <1>2, <1>3, <1>4

LEMMA BeginTypes ==
    ASSUME CallerTypes, NEW p \in Callers, NEW tx \in Txs \union {NoTx},
           NEW rec \in PendingSpend, NEW isFirst \in BOOLEAN, NEW isSaved \in BOOLEAN,
           NEW point \in Points \ {"idle", "down"},
           Begin(p, tx, rec, isFirst, isSaved, point),
           drawn' \in 0 .. MaxAttempts
    PROVE  CallerTypes'
BY DEF CallerTypes, BusyHasRecord, Begin

LEMMA WriteType ==
    ASSUME StoreTypes,
           NEW rec \in PendingSpend \union {NoRecord}, NEW ok \in BOOLEAN, Write(rec, ok)
    PROVE  StoreTypes'
BY DEF Write, StoreTypes

LEMMA ServerStepTypes ==
    ASSUME ServerTypes, NEW tx \in Txs
    PROVE  /\ \A a \in SubmitAnswers : ServerSubmit(tx, a) => ServerTypes'
           /\ \A cps, code : ServerFinalize(tx, cps, code) => ServerTypes'
           /\ UNCHANGED serverVars => ServerTypes'
<1>1. ASSUME NEW a \in SubmitAnswers, ServerSubmit(tx, a) PROVE ServerTypes'
  BY <1>1 DEF ServerTypes, ServerSubmit
<1>2. ASSUME NEW cps, NEW code, ServerFinalize(tx, cps, code) PROVE ServerTypes'
  BY <1>2 DEF ServerTypes, ServerFinalize
<1>3. UNCHANGED serverVars => ServerTypes'
  BY DEF ServerTypes, serverVars
<1>. QED
  BY <1>1, <1>2, <1>3

LEMMA RequestType ==
    ASSUME CallerTypes, NEW p \in Callers, answer[p].code = "waiting"
    PROVE  Request(p) \in Requests
<1>1. mem[p] \in PendingSpend
  BY DEF CallerTypes, BusyHasRecord
<1>. QED
  BY <1>1 DEF Request, Requests, PendingSpend

LEMMA TypeInit == Init => TypeInv
<1>. SUFFICES ASSUME Init PROVE TypeInv
  OBVIOUS
<1>1. Plain("none") \in Answers /\ Plain("none").code = "none"
  BY AnswerType DEF Codes
<1>2. \A tx \in Txs, e \in Evidence, c \in Checkpoints : OldRecord(tx, e, c) \in PendingSpend
  BY DEF OldRecord, PendingSpend, Stages
<1>3. store \in PendingSpend \union {NoRecord} /\ accepted \in Txs \union {NoTx}
  BY <1>2 DEF Init, Evidence, Checkpoints
<1>4. BusyHasRecord /\ answer \in [Callers -> Answers]
  BY <1>1 DEF Init, BusyHasRecord
<1>5. drawn \in 0 .. MaxAttempts /\ pc \in [Callers -> Points]
  BY DEF Init, Points
<1>6. /\ mem \in [Callers -> PendingSpend \union {NoRecord}]
      /\ want \in [Callers -> Txs \union {NoTx}]
      /\ first \in [Callers -> BOOLEAN] /\ saved \in [Callers -> BOOLEAN]
  BY DEF Init
<1>. QED
  BY <1>3, <1>4, <1>5, <1>6 DEF Init, TypeInv, TypeOK

LEMMA TypeStep == TypeInv /\ [Next]_vars => TypeInv'
<1>. SUFFICES ASSUME TypeParts, [Next]_vars PROVE TypeParts'
  BY TypeInvParts
<1>0. /\ StoreTypes /\ CallerTypes
      /\ ServerTypes /\ late \subseteq Requests
      /\ released \subseteq Txs /\ reported \subseteq Txs
  BY DEF TypeParts
<1>. USE DEF TypeParts
<1>1. ASSUME NEW p \in Callers, Call(p) PROVE TypeParts'
  <2>0. UNCHANGED serverVars => ServerTypes'
    BY <1>0 DEF ServerTypes, serverVars
  <2>00. UNCHANGED callerVars => CallerTypes'
    BY <1>0, MoveTypes
  <2>0000. UNCHANGED <<store, undo>> => StoreTypes'
    BY <1>0 DEF StoreTypes
  <2>000. /\ pc[p] \notin {"idle", "down"} => mem[p] \in PendingSpend
          /\ answer[p].code # "none" => pc[p] \notin {"idle", "down"}
    BY <1>0 DEF CallerTypes, BusyHasRecord
  <2>. USE <1>0, <2>0, <2>00, <2>000, <2>0000, MoveTypes
  <2>1. ASSUME NEW tx \in Txs, SpendFresh(p, tx) PROVE TypeParts'
    <3>1. NewRecord(tx, drawn + 1) \in PendingSpend /\ drawn' \in 0 .. MaxAttempts
      BY <2>1, NewRecordType DEF SpendFresh, CallerTypes
    <3>2. CallerTypes'
      BY <2>1, <3>1, BeginTypes DEF SpendFresh, Points
    <3>. QED
      BY <2>1, <3>2 DEF SpendFresh
  <2>2. ASSUME NEW tx \in Txs \union {NoTx}, ResumeFinalized(p, tx) PROVE TypeParts'
    <3>1. Vouched(tx, store) \in Txs
      BY <2>2 DEF ResumeFinalized, Found, Vouched, PendingSpend, StoreTypes
    <3>. QED
      BY <2>2, <3>1 DEF ResumeFinalized
  <2>3. ASSUME NEW tx \in Txs \union {NoTx}, ResumeSubmitted(p, tx) PROVE TypeParts'
    <3>1. CallerTypes'
      BY <2>3, BeginTypes DEF ResumeSubmitted, Found, Points, CallerTypes, StoreTypes
    <3>. QED
      BY <2>3, <3>1 DEF ResumeSubmitted
  <2>4. ASSUME NEW tx \in Txs \union {NoTx}, ResumeSubmitting(p, tx) PROVE TypeParts'
    <3>1. CallerTypes'
      BY <2>4, BeginTypes DEF ResumeSubmitting, Found, Points, CallerTypes, StoreTypes
    <3>. QED
      BY <2>4, <3>1 DEF ResumeSubmitting
  <2>5. ASSUME PersistSubmitting(p) PROVE TypeParts'
    <3>1. PICK ok \in BOOLEAN : /\ Write(mem[p], ok)
                                /\ IF ok THEN Goto(p, "submit") ELSE Return(p)
      BY <2>5 DEF PersistSubmitting
    <3>2. StoreTypes'
      BY <2>5, <3>1, WriteType DEF PersistSubmitting
    <3>. QED
      BY <2>5, <3>1, <3>2 DEF PersistSubmitting, Points
  <2>6. ASSUME SendSubmit(p) PROVE TypeParts'
    BY <2>6 DEF SendSubmit, Points
  <2>7. ASSUME HandleSubmit(p) PROVE TypeParts'
    <3>1. PICK a \in SubmitAnswers : /\ ServerSubmit(mem[p].tx, a)
                                     /\ answer' = [answer EXCEPT ![p] = a]
      BY <2>7 DEF HandleSubmit
    <3>2. mem[p].tx \in Txs /\ a \in Answers
      BY <2>7, AnswerType DEF HandleSubmit, PendingSpend
    <3>3. ServerTypes'
      BY <3>1, <3>2, ServerStepTypes
    <3>4. CallerTypes'
      BY <2>7, <3>1, <3>2 DEF HandleSubmit, CallerTypes, BusyHasRecord
    <3>. QED
      BY <2>7, <3>3, <3>4 DEF HandleSubmit
  <2>8. ASSUME SubmitRejected(p) PROVE TypeParts'
    BY <2>8 DEF SubmitRejected, Answered, Points
  <2>9. ASSUME SubmitUnclear(p) PROVE TypeParts'
    BY <2>9 DEF SubmitUnclear
  <2>10. ASSUME SubmitAccepted(p) PROVE TypeParts'
    BY <2>10 DEF SubmitAccepted, Answered, Points
  <2>11. ASSUME Clear(p) PROVE TypeParts'
    <3>1. StoreTypes'
      BY <2>11, WriteType DEF Clear
    <3>. QED
      BY <2>11, <3>1 DEF Clear, Points
  <2>12. ASSUME ClearWrite(p) PROVE TypeParts'
    <3>1. StoreTypes'
      BY <2>12, WriteType DEF ClearWrite
    <3>. QED
      BY <2>12, <3>1 DEF ClearWrite
  <2>13. ASSUME Merge(p) PROVE TypeParts'
    <3>1. CASE Merges(answer[p].cps)
      <4>1. Upgraded(mem[p], answer[p].cps) \in PendingSpend
        BY <2>13, UpgradedType DEF Merge
      <4>2. CallerTypes'
        BY <2>13, <3>1, <4>1 DEF Merge, CallerTypes, BusyHasRecord, Points
      <4>. QED
        BY <2>13, <4>2 DEF Merge
    <3>2. CASE ~Merges(answer[p].cps)
      BY <2>13, <3>2 DEF Merge
    <3>. QED
      BY <3>1, <3>2
  <2>14. ASSUME UpgradeRecord(p) PROVE TypeParts'
    <3>1. PICK ok \in BOOLEAN : /\ Write(mem[p], ok)
                                /\ saved' = [saved EXCEPT ![p] = ok]
      BY <2>14 DEF UpgradeRecord
    <3>2. StoreTypes'
      BY <2>14, <3>1, WriteType DEF UpgradeRecord
    <3>3. CallerTypes'
      BY <2>14, <3>1 DEF UpgradeRecord, CallerTypes, BusyHasRecord, Points
    <3>. QED
      BY <2>14, <3>2, <3>3 DEF UpgradeRecord
  <2>15. ASSUME SendFinalize(p) PROVE TypeParts'
    <3>1. released' \subseteq Txs
      BY <2>15 DEF SendFinalize, PendingSpend
    <3>. QED
      BY <2>15, <3>1 DEF SendFinalize, Points
  <2>16. ASSUME NEW code \in {"ok", "unknown"}, HandleFinalize(p, code) PROVE TypeParts'
    <3>1. mem[p].tx \in Txs /\ Plain(code) \in Answers
      BY <2>16, AnswerType DEF HandleFinalize, PendingSpend, Codes
    <3>2. ServerTypes'
      BY <2>16, <3>1, ServerStepTypes DEF HandleFinalize
    <3>3. CallerTypes'
      BY <2>16, <3>1 DEF HandleFinalize, CallerTypes, BusyHasRecord
    <3>. QED
      BY <2>16, <3>2, <3>3 DEF HandleFinalize
  <2>17. ASSUME FinalizeAccepted(p) PROVE TypeParts'
    BY <2>17 DEF FinalizeAccepted, Answered, Points
  <2>18. pc[p] \notin {"idle", "down"} /\ SpendFailed(p) => CallerTypes'
    BY DEF SpendFailed, Points
  <2>19. pc[p] \notin {"idle", "down"} /\ SpendSucceeds(p)
            => CallerTypes' /\ reported' \subseteq Txs
    BY DEF SpendSucceeds, Vouched, PendingSpend, CallerTypes
  <2>20. pc[p] \notin {"idle", "down"} /\ WriteFinalized(p)
            => CallerTypes' /\ reported' \subseteq Txs
               /\ StoreTypes'
    BY <2>18, <2>19, WriteType, MarkedType DEF WriteFinalized
  <2>21. ASSUME FinalizeRefused(p) PROVE TypeParts'
    BY <2>21, <2>18 DEF FinalizeRefused, Answered
  <2>22. ASSUME MarkFinalizedRecord(p) PROVE TypeParts'
    BY <2>22, <2>18, <2>19, <2>20 DEF MarkFinalizedRecord, Points
  <2>23. ASSUME MarkWrite(p) PROVE TypeParts'
    BY <2>23, <2>20 DEF MarkWrite
  <2>24. ASSUME LastChanceSave(p) PROVE TypeParts'
    <3>1. StoreTypes'
      BY <2>24, WriteType DEF LastChanceSave
    <3>. QED
      BY <2>24, <3>1 DEF LastChanceSave
  <2>25. ASSUME Timeout(p) PROVE TypeParts'
    <3>1. late' \subseteq Requests
      BY <2>25, RequestType DEF Timeout, Unseen
    <3>. QED
      BY <2>25, <2>18, <3>1 DEF Timeout
  <2>. QED
    BY <1>1, <2>1, <2>2, <2>3, <2>4, <2>5, <2>6, <2>7, <2>8, <2>9, <2>10, <2>11, <2>12,
       <2>13, <2>14, <2>15, <2>16, <2>17, <2>21, <2>22, <2>23, <2>24, <2>25 DEF Call
<1>2. ASSUME NEW r \in late, HandleLate(r) PROVE TypeParts'
  <2>1. r.tx \in Txs
    BY <1>0 DEF Requests
  <2>2. ServerTypes' /\ late' \subseteq Requests
    BY <1>0, <1>2, <2>1, ServerStepTypes DEF HandleLate
  <2>3. CallerTypes'
    BY <1>0, <1>2 DEF HandleLate, callerVars, CallerTypes, BusyHasRecord
  <2>. QED
    BY <1>0, <1>2, <2>2, <2>3 DEF HandleLate, StoreTypes
<1>3. ASSUME NEW r \in late, LoseLate(r) PROVE TypeParts'
  BY <1>0, <1>3 DEF LoseLate, StoreTypes, callerVars, serverVars, CallerTypes, BusyHasRecord, ServerTypes
<1>4. Down => CallerTypes' /\ ServerTypes' /\ late' \subseteq Requests
              /\ UNCHANGED <<released, reported>>
  <2>. SUFFICES ASSUME Down PROVE CallerTypes' /\ ServerTypes' /\ late' \subseteq Requests
                                  /\ UNCHANGED <<released, reported>>
    OBVIOUS
  <2>1. Plain("none") \in Answers /\ Plain("none").code = "none"
    BY AnswerType DEF Codes
  <2>2. CallerTypes'
    BY <1>0, <2>1 DEF Down, CallerTypes, BusyHasRecord, Points
  <2>3. late' \subseteq Requests
    BY <1>0, RequestType DEF Down, Unseen
  <2>. QED
    BY <1>0, <2>2, <2>3 DEF Down, serverVars, ServerTypes
<1>8. ASSUME Crash PROVE TypeParts'
  BY <1>0, <1>4, <1>8 DEF Crash, StoreTypes
<1>9. ASSUME PowerLoss PROVE TypeParts'
  BY <1>0, <1>4, <1>9 DEF PowerLoss, StoreTypes
<1>5. ASSUME Restart PROVE TypeParts'
  BY <1>0, <1>5 DEF Restart, StoreTypes, CallerTypes, BusyHasRecord, Points, serverVars, ServerTypes
<1>6. ASSUME Prune PROVE TypeParts'
  BY <1>0, <1>6 DEF Prune, StoreTypes, callerVars, CallerTypes, BusyHasRecord, serverVars, ServerTypes
<1>7. ASSUME UNCHANGED vars PROVE TypeParts'
  BY <1>0, <1>7 DEF vars, StoreTypes, callerVars, CallerTypes, BusyHasRecord, serverVars, ServerTypes
<1>. QED
  BY <1>1, <1>2, <1>3, <1>5, <1>6, <1>7, <1>8, <1>9 DEF Next

(* Every variable keeps its type: a record never loses a field or gains one *)
(* of another stage's, whatever is lost or fails.                           *)
THEOREM TypeCorrect == Spec => []TypeOK
<1>1. TypeInv => TypeOK
  BY DEF TypeInv
<1>. QED
  BY <1>1, TypeInit, TypeStep, PTL DEF Spec

-----------------------------------------------------------------------------
(* Commitment.  CommitInv is inductive once the types are known.            *)

LEMMA CommitInit == Init => CommitInv
<1>. SUFFICES ASSUME Init PROVE CommitInv
  OBVIOUS
<1>1. ~Plain("none").sig /\ Plain("none").code = "none"
  BY AnswerType DEF Codes
<1>2. RecordNotAheadOfServer
  BY DEF Init, RecordNotAheadOfServer, NotAhead, OldRecord
<1>3. \A p \in Callers : CallerSound(p)
  BY <1>1 DEF Init, CallerSound, NotAhead, SignedPoints
<1>. QED
  BY <1>2, <1>3 DEF Init, CommitInv, ServerSound, NoReleaseWithoutCommitment, OkMeansFinalized

(* The server only ever moves forward: it keeps the transaction it accepted, *)
(* its co-signatures and the finalization.                                  *)
Forward ==
    /\ accepted' = accepted \/ accepted = NoTx
    /\ cosigned \subseteq cosigned'
    /\ finalized => finalized'
    /\ ServerSound'

LEMMA ServerForward ==
    ASSUME ServerTypes, ServerSound, NEW tx \in Txs
    PROVE  /\ \A a \in SubmitAnswers :
                 ServerSubmit(tx, a) => Forward /\ (a.sig => tx \in cosigned')
           /\ \A cps, code :
                 ServerFinalize(tx, cps, code) => Forward /\ (code = "ok" => finalized')
           /\ UNCHANGED serverVars => Forward
<1>1. ASSUME NEW a \in SubmitAnswers, ServerSubmit(tx, a)
      PROVE  Forward /\ (a.sig => tx \in cosigned')
  <2>1. a.sig => a.code = "ok"
    BY AnswerType
  <2>. QED
    BY <1>1, <2>1 DEF ServerTypes, ServerSound, Forward, ServerSubmit
<1>2. ASSUME NEW cps, NEW code, ServerFinalize(tx, cps, code)
      PROVE  Forward /\ (code = "ok" => finalized')
  BY <1>2 DEF ServerTypes, ServerSound, Forward, ServerFinalize
<1>3. UNCHANGED serverVars => Forward
  BY DEF ServerSound, Forward, serverVars
<1>. QED
  BY <1>1, <1>2, <1>3

(* The record, and what a power loss may bring back, are as true of the      *)
(* server as CommitInv says.                                                *)
StoreSound ==
    /\ RecordNotAheadOfServer
    /\ \A rec \in undo : NotAhead(rec)

(* What is true of a record stays true while the server moves forward.      *)
LEMMA SoundForward ==
    ASSUME TypeInv, CommitInv, Forward
    PROVE  /\ UNCHANGED <<store, undo>> => StoreSound'
           /\ released' = released => NoReleaseWithoutCommitment'
           /\ reported' = reported => OkMeansFinalized'
           /\ \A p \in Callers :
                 /\ mem'[p] = mem[p] => NotAhead(mem[p])'
                 /\ /\ pc'[p] = pc[p] /\ mem'[p] = mem[p]
                    /\ want'[p] = want[p] /\ answer'[p] = answer[p]
                    => CallerSound(p)'
<1>. USE DEF CommitInv, TypeInv, TypeOK
<1>1. UNCHANGED <<store, undo>> => StoreSound'
  BY DEF Forward, StoreSound, RecordNotAheadOfServer, NotAhead, PendingSpend
<1>2. released' = released => NoReleaseWithoutCommitment'
  BY DEF Forward, NoReleaseWithoutCommitment
<1>3. reported' = reported => OkMeansFinalized'
  BY DEF Forward, OkMeansFinalized
<1>4. ASSUME NEW p \in Callers, mem'[p] = mem[p] PROVE NotAhead(mem[p])'
  BY <1>4 DEF Forward, CallerSound, NotAhead, PendingSpend
<1>5. ASSUME NEW p \in Callers, pc'[p] = pc[p], mem'[p] = mem[p],
             want'[p] = want[p], answer'[p] = answer[p]
      PROVE  CallerSound(p)'
  BY <1>4, <1>5 DEF Forward, CallerSound
<1>. QED
  BY <1>1, <1>2, <1>3, <1>4, <1>5

(* A step of one call leaves the others as they are.                        *)
Frame(p) ==
    \A q \in Callers \ {p} :
        /\ pc'[q] = pc[q] /\ mem'[q] = mem[q]
        /\ want'[q] = want[q] /\ answer'[q] = answer[q]

LEMMA MovesFrame ==
    ASSUME TypeInv, NEW p \in Callers
    PROVE  /\ Return(p) => Frame(p)
           /\ \A point : Goto(p, point) \/ Send(p, point) => Frame(p)
           /\ \A tx, rec, isFirst, isSaved, point :
                 Begin(p, tx, rec, isFirst, isSaved, point) => Frame(p)
BY DEF TypeInv, TypeOK, Frame, Return, Goto, Send, Begin

LEMMA CallersSound ==
    ASSUME TypeInv, CommitInv, Forward, NEW p \in Callers, Frame(p), CallerSound(p)'
    PROVE  \A q \in Callers : CallerSound(q)'
BY SoundForward DEF Frame

LEMMA ReturnSound ==
    ASSUME TypeInv, CommitInv, Forward, NEW p \in Callers, Return(p)
    PROVE  \A q \in Callers : CallerSound(q)'
<1>1. ~Plain("none").sig /\ Plain("none").code = "none"
  BY AnswerType DEF Codes
<1>2. CallerSound(p)'
  BY <1>1 DEF Return, TypeInv, TypeOK, CallerSound, NotAhead, SignedPoints
<1>. QED
  BY <1>2, MovesFrame, CallersSound

(* A move from one point to another keeps a call sound if what the new point *)
(* claims is true.                                                          *)
LEMMA GotoSound ==
    ASSUME TypeInv, CommitInv, Forward, NEW p \in Callers, NEW point, Goto(p, point),
           point \notin {"persist", "awaitFinalize"},
           point = "merge" => answer[p].sig,
           point \in SignedPoints => mem[p].evidence = "valid",
           point \in {"mark", "marking"} => finalized
    PROVE  \A q \in Callers : CallerSound(q)'
<1>1. /\ pc'[p] = point /\ mem'[p] = mem[p] /\ want'[p] = want[p] /\ answer'[p] = answer[p]
  BY DEF Goto, TypeInv, TypeOK
<1>2. NotAhead(mem[p])'
  BY <1>1, SoundForward
<1>3. CallerSound(p)'
  BY <1>1, <1>2 DEF CommitInv, CallerSound, Forward
<1>. QED
  BY <1>3, MovesFrame, CallersSound

LEMMA SendSound ==
    ASSUME TypeInv, CommitInv, Forward, NEW p \in Callers, NEW point, Send(p, point),
           point \notin {"persist", "merge", "mark", "marking"},
           point \in SignedPoints => mem[p].evidence = "valid"
    PROVE  \A q \in Callers : CallerSound(q)'
<1>1. ~Plain("waiting").sig /\ Plain("waiting").code = "waiting"
  BY AnswerType DEF Codes
<1>2. /\ pc'[p] = point /\ mem'[p] = mem[p] /\ want'[p] = want[p]
      /\ answer'[p] = Plain("waiting")
  BY DEF Send, TypeInv, TypeOK
<1>3. NotAhead(mem[p])'
  BY <1>2, SoundForward
<1>4. CallerSound(p)'
  BY <1>1, <1>2, <1>3 DEF CommitInv, CallerSound
<1>. QED
  BY <1>4, MovesFrame, CallersSound

(* A write leaves a sound store if the written record is sound.             *)
LEMMA WriteSound ==
    ASSUME TypeInv, CommitInv, UNCHANGED serverVars,
           NEW rec \in PendingSpend \union {NoRecord}, NotAhead(rec),
           NEW ok \in BOOLEAN, Write(rec, ok)
    PROVE  StoreSound'
BY DEF Write, CommitInv, StoreSound, RecordNotAheadOfServer, NotAhead, serverVars

LEMMA CommitStep == TypeInv /\ CommitInv /\ [Next]_vars => CommitInv'
<1>. SUFFICES ASSUME TypeInv, CommitInv, [Next]_vars PROVE CommitInv'
  OBVIOUS
<1>. DEFINE Rest == /\ Forward /\ StoreSound'
                    /\ NoReleaseWithoutCommitment' /\ OkMeansFinalized'
<1>0. /\ Rest /\ (\A q \in Callers : CallerSound(q)') => CommitInv'
      /\ UNCHANGED serverVars => Forward
      /\ ServerTypes /\ ServerSound
  <2>1. ServerTypes /\ ServerSound
    BY DEF TypeInv, TypeOK, ServerTypes, CommitInv
  <2>2. UNCHANGED serverVars => Forward
    BY <2>1 DEF ServerSound, Forward, serverVars
  <2>. QED
    BY <2>1, <2>2 DEF CommitInv, Forward, StoreSound
<1>00. UNCHANGED <<store, undo, serverVars, released, reported>> => Rest
  BY <1>0, SoundForward
<1>1. ASSUME NEW p \in Callers, Call(p) PROVE CommitInv'
  <2>0. /\ CallerSound(p)
        /\ pc[p] \notin {"idle", "down"} => mem[p] \in PendingSpend
    BY DEF CommitInv, TypeInv, BusyHasRecord
  <2>. USE <1>0, <1>00, <2>0
  <2>1. ASSUME NEW tx \in Txs, SpendFresh(p, tx) PROVE CommitInv'
    <3>1. Rest /\ Frame(p)
      BY <2>1, MovesFrame DEF SpendFresh
    <3>2. CallerSound(p)'
      BY <2>1 DEF SpendFresh, Begin, NewRecord, TypeInv, TypeOK, BusyHasRecord,
                  CallerSound, NotAhead, SignedPoints
    <3>. QED
      BY <3>1, <3>2, CallersSound
  <2>2. ASSUME NEW tx \in Txs \union {NoTx}, ResumeFinalized(p, tx) PROVE CommitInv'
    <3>1. Vouched(tx, store) = store.tx /\ store.tx = accepted /\ finalized
      BY <2>2 DEF ResumeFinalized, Found, BoundTo, Vouched, CommitInv,
                  RecordNotAheadOfServer, NotAhead
    <3>2. OkMeansFinalized'
      BY <2>2, <3>1 DEF ResumeFinalized, OkMeansFinalized, CommitInv, serverVars
    <3>3. /\ StoreSound' /\ NoReleaseWithoutCommitment'
          /\ \A q \in Callers : CallerSound(q)'
      BY <2>2, SoundForward DEF ResumeFinalized, callerVars
    <3>. QED
      BY <2>2, <3>2, <3>3 DEF ResumeFinalized
  <2>3. ASSUME NEW tx \in Txs \union {NoTx}, ResumeSubmitted(p, tx) PROVE CommitInv'
    <3>1. Rest /\ Frame(p)
      BY <2>3, MovesFrame DEF ResumeSubmitted
    <3>2. CallerSound(p)'
      BY <2>3 DEF ResumeSubmitted, Found, BoundTo, Begin, EvidenceHolds, TypeInv, TypeOK,
                  BusyHasRecord, CommitInv, RecordNotAheadOfServer, CallerSound, NotAhead,
                  SignedPoints, serverVars
    <3>. QED
      BY <3>1, <3>2, CallersSound
  <2>4. ASSUME NEW tx \in Txs \union {NoTx}, ResumeSubmitting(p, tx) PROVE CommitInv'
    <3>1. Rest /\ Frame(p)
      BY <2>4, MovesFrame DEF ResumeSubmitting
    <3>2. CallerSound(p)'
      BY <2>4 DEF ResumeSubmitting, Found, BoundTo, Begin, TypeInv, TypeOK,
                  BusyHasRecord, CommitInv, RecordNotAheadOfServer, CallerSound, NotAhead,
                  SignedPoints, serverVars
    <3>. QED
      BY <3>1, <3>2, CallersSound
  <2>5. ASSUME PersistSubmitting(p) PROVE CommitInv'
    <3>1. PICK ok \in BOOLEAN : /\ Write(mem[p], ok)
                                /\ IF ok THEN Goto(p, "submit") ELSE Return(p)
      BY <2>5 DEF PersistSubmitting
    <3>2. StoreSound'
      BY <2>5, <3>1, WriteSound DEF PersistSubmitting, CallerSound
    <3>3. \A q \in Callers : CallerSound(q)'
      BY <2>5, <3>1, ReturnSound, GotoSound DEF PersistSubmitting, SignedPoints
    <3>. QED
      BY <2>5, <3>2, <3>3, SoundForward DEF PersistSubmitting
  <2>6. ASSUME SendSubmit(p) PROVE CommitInv'
    BY <2>6, SendSound DEF SendSubmit, SignedPoints
  <2>7. ASSUME HandleSubmit(p) PROVE CommitInv'
    <3>1. PICK a \in SubmitAnswers : /\ ServerSubmit(mem[p].tx, a)
                                     /\ answer' = [answer EXCEPT ![p] = a]
      BY <2>7 DEF HandleSubmit
    <3>2. mem[p].tx \in Txs /\ (a.sig => a.code = "ok")
      BY <2>7, AnswerType DEF HandleSubmit, PendingSpend
    <3>3. Forward /\ (a.sig => mem[p].tx \in cosigned')
      BY <3>1, <3>2, ServerForward
    <3>4. NotAhead(mem[p])'
      BY <2>7, <3>3, SoundForward DEF HandleSubmit
    <3>5. CallerSound(p)' /\ Frame(p)
      BY <2>7, <3>1, <3>2, <3>3, <3>4
         DEF HandleSubmit, CallerSound, Frame, TypeInv, TypeOK, SignedPoints
    <3>. QED
      BY <2>7, <3>3, <3>5, CallersSound, SoundForward DEF HandleSubmit
  <2>8. ASSUME SubmitRejected(p) PROVE CommitInv'
    BY <2>8, GotoSound DEF SubmitRejected, SignedPoints
  <2>9. ASSUME SubmitUnclear(p) PROVE CommitInv'
    BY <2>9, ReturnSound DEF SubmitUnclear
  <2>10. ASSUME SubmitAccepted(p) PROVE CommitInv'
    BY <2>10, GotoSound DEF SubmitAccepted, Cosigned, SignedPoints
  <2>11. NotAhead(NoRecord)
    BY DEF NotAhead
  <2>12. ASSUME Clear(p) PROVE CommitInv'
    <3>1. StoreSound'
      BY <2>11, <2>12, WriteSound, SoundForward DEF Clear
    <3>2. \A q \in Callers : CallerSound(q)'
      BY <2>12, ReturnSound, GotoSound DEF Clear, SignedPoints
    <3>. QED
      BY <2>12, <3>1, <3>2, SoundForward DEF Clear
  <2>13. ASSUME ClearWrite(p) PROVE CommitInv'
    BY <2>11, <2>13, WriteSound, ReturnSound, SoundForward DEF ClearWrite
  <2>14. ASSUME Merge(p) PROVE CommitInv'
    <3>1. CASE Merges(answer[p].cps)
      <4>1. mem[p] \in PendingSpend /\ mem[p].tx = accepted /\ mem[p].tx \in cosigned
        BY <2>14 DEF Merge, CallerSound, ServerSound
      <4>2. CallerSound(p)' /\ Frame(p)
        BY <2>14, <3>1, <4>1, UpgradedType
           DEF Merge, CallerSound, NotAhead, Frame, TypeInv, TypeOK, SignedPoints, serverVars
      <4>. QED
        BY <2>14, <4>2, CallersSound DEF Merge
    <3>2. CASE ~Merges(answer[p].cps)
      BY <2>14, <3>2, ReturnSound DEF Merge
    <3>. QED
      BY <3>1, <3>2
  <2>15. ASSUME UpgradeRecord(p) PROVE CommitInv'
    <3>1. StoreSound'
      BY <2>15, WriteSound DEF UpgradeRecord, CallerSound
    <3>2. NotAhead(mem[p])'
      BY <2>15, SoundForward DEF UpgradeRecord
    <3>3. /\ pc[p] = "upgrade" /\ pc'[p] = "finalize" /\ mem'[p] = mem[p]
          /\ want'[p] = want[p] /\ answer'[p] = answer[p] /\ cosigned' = cosigned
      BY <2>15 DEF UpgradeRecord, TypeInv, TypeOK, serverVars
    <3>4. Frame(p)
      BY <2>15 DEF UpgradeRecord, Frame, TypeInv, TypeOK
    <3>5. CallerSound(p)'
      BY <3>2, <3>3 DEF CallerSound, SignedPoints
    <3>. QED
      BY <2>15, <3>1, <3>4, <3>5, CallersSound, SoundForward DEF UpgradeRecord
  <2>16. ASSUME SendFinalize(p) PROVE CommitInv'
    <3>1. mem[p].tx \in cosigned
      BY <2>16 DEF SendFinalize, CallerSound, SignedPoints, NotAhead
    <3>2. NoReleaseWithoutCommitment'
      BY <2>16, <3>1 DEF SendFinalize, CommitInv, NoReleaseWithoutCommitment, serverVars
    <3>3. \A q \in Callers : CallerSound(q)'
      BY <2>16, SendSound DEF SendFinalize, CallerSound, SignedPoints
    <3>. QED
      BY <2>16, <3>2, <3>3, SoundForward DEF SendFinalize
  <2>17. ASSUME NEW code \in {"ok", "unknown"}, HandleFinalize(p, code) PROVE CommitInv'
    <3>1. mem[p].tx \in Txs /\ ~Plain(code).sig /\ Plain(code).code = code
      BY <2>17, AnswerType DEF HandleFinalize, PendingSpend, Codes
    <3>2. Forward /\ (code = "ok" => finalized')
      BY <2>17, <3>1, ServerForward DEF HandleFinalize
    <3>3. NotAhead(mem[p])'
      BY <2>17, <3>2, SoundForward DEF HandleFinalize
    <3>4. CallerSound(p)' /\ Frame(p)
      BY <2>17, <3>1, <3>2, <3>3
         DEF HandleFinalize, CallerSound, Frame, TypeInv, TypeOK, SignedPoints
    <3>. QED
      BY <2>17, <3>2, <3>4, CallersSound, SoundForward DEF HandleFinalize
  <2>18. ASSUME FinalizeAccepted(p) PROVE CommitInv'
    BY <2>18, GotoSound DEF FinalizeAccepted, Answered, FinalizeOk, CallerSound, SignedPoints
  <2>19. ASSUME UNCHANGED serverVars, SpendFailed(p), pc[p] \in SignedPoints
         PROVE  \A q \in Callers : CallerSound(q)'
    BY <2>19, ReturnSound, GotoSound DEF SpendFailed, CallerSound, SignedPoints
  <2>20. ASSUME UNCHANGED serverVars, SpendSucceeds(p), pc[p] \in {"mark", "marking"}
         PROVE  OkMeansFinalized' /\ \A q \in Callers : CallerSound(q)'
    <3>1. Vouched(want[p], mem[p]) = accepted /\ finalized
      BY <2>20 DEF Vouched, CallerSound, NotAhead, SignedPoints
    <3>2. OkMeansFinalized'
      BY <2>20, <3>1 DEF SpendSucceeds, OkMeansFinalized, CommitInv, serverVars
    <3>. QED
      BY <2>20, <3>2, ReturnSound DEF SpendSucceeds
  <2>21. ASSUME UNCHANGED serverVars, WriteFinalized(p), pc[p] \in {"mark", "marking"}
         PROVE  /\ StoreSound' /\ OkMeansFinalized'
                /\ \A q \in Callers : CallerSound(q)'
    <3>1. PICK ok \in BOOLEAN :
             /\ Write(MarkedFinalized(mem[p]), ok)
             /\ IF ok THEN SpendSucceeds(p) ELSE SpendFailed(p) /\ reported' = reported
      BY <2>21 DEF WriteFinalized
    <3>2. MarkedFinalized(mem[p]) \in PendingSpend /\ NotAhead(MarkedFinalized(mem[p]))
      BY <2>21, MarkedType DEF CallerSound, NotAhead, SignedPoints
    <3>3. StoreSound'
      BY <2>21, <3>1, <3>2, WriteSound
    <3>. QED
      BY <2>19, <2>20, <2>21, <3>1, <3>3, SoundForward DEF SignedPoints
  <2>22. ASSUME FinalizeRefused(p) PROVE CommitInv'
    BY <2>19, <2>22 DEF FinalizeRefused, Answered, SignedPoints
  <2>23. ASSUME MarkFinalizedRecord(p) PROVE CommitInv'
    <3>1. /\ StoreSound' /\ OkMeansFinalized'
          /\ \A q \in Callers : CallerSound(q)'
      <4>1. CASE WriteFinalized(p)
        BY <2>21, <2>23, <4>1 DEF MarkFinalizedRecord
      <4>2. CASE Goto(p, "marking") /\ UNCHANGED <<store, undo, reported>>
        BY <2>23, <4>2, GotoSound, SoundForward
           DEF MarkFinalizedRecord, CallerSound, SignedPoints
      <4>3. CASE SpendSucceeds(p) /\ UNCHANGED <<store, undo>>
        BY <2>20, <2>23, <4>3, SoundForward DEF MarkFinalizedRecord
      <4>4. CASE SpendFailed(p) /\ UNCHANGED <<store, undo, reported>>
        BY <2>19, <2>23, <4>4, SoundForward DEF MarkFinalizedRecord, SignedPoints
      <4>. QED
        BY <2>23, <4>1, <4>2, <4>3, <4>4 DEF MarkFinalizedRecord
    <3>. QED
      BY <2>23, <3>1, SoundForward DEF MarkFinalizedRecord
  <2>24. ASSUME MarkWrite(p) PROVE CommitInv'
    BY <2>21, <2>24, SoundForward DEF MarkWrite
  <2>25. ASSUME LastChanceSave(p) PROVE CommitInv'
    <3>1. StoreSound'
      BY <2>25, WriteSound DEF LastChanceSave, CallerSound
    <3>. QED
      BY <2>25, <3>1, ReturnSound, SoundForward DEF LastChanceSave
  <2>26. ASSUME Timeout(p) PROVE CommitInv'
    BY <2>19, <2>26, ReturnSound DEF Timeout, SignedPoints
  <2>. QED
    BY <1>1, <2>1, <2>2, <2>3, <2>4, <2>5, <2>6, <2>7, <2>8, <2>9, <2>10, <2>12, <2>13,
       <2>14, <2>15, <2>16, <2>17, <2>18, <2>22, <2>23, <2>24, <2>25, <2>26 DEF Call
<1>2. ASSUME NEW r \in late, HandleLate(r) PROVE CommitInv'
  <2>1. r.tx \in Txs
    BY DEF TypeInv, TypeOK, Requests
  <2>2. Forward
    BY <1>0, <1>2, <2>1, ServerForward DEF HandleLate
  <2>. QED
    BY <1>0, <1>2, <2>2, SoundForward DEF HandleLate, callerVars
<1>3. ASSUME NEW r \in late, LoseLate(r) PROVE CommitInv'
  BY <1>0, <1>00, <1>3, SoundForward DEF LoseLate, callerVars
<1>4. ASSUME Down PROVE Forward /\ \A q \in Callers : CallerSound(q)'
  <2>1. ~Plain("none").sig /\ Plain("none").code = "none"
    BY AnswerType DEF Codes
  <2>2. \A q \in Callers : CallerSound(q)'
    BY <1>4, <2>1 DEF Down, CallerSound, NotAhead, SignedPoints
  <2>. QED
    BY <1>0, <1>4, <2>2 DEF Down
<1>8. ASSUME Crash PROVE CommitInv'
  BY <1>0, <1>00, <1>4, <1>8 DEF Crash, Down
<1>9. ASSUME PowerLoss PROVE CommitInv'
  <2>1. store' \in undo /\ undo' = {} /\ UNCHANGED serverVars
    BY <1>9 DEF PowerLoss, Down
  <2>2. StoreSound'
    BY <2>1 DEF CommitInv, StoreSound, RecordNotAheadOfServer, NotAhead, serverVars
  <2>. QED
    BY <1>0, <1>4, <1>9, <2>2, SoundForward DEF PowerLoss, Down
<1>5. ASSUME Restart PROVE CommitInv'
  <2>1. UNCHANGED <<store, undo, serverVars, released, reported>>
    BY <1>5 DEF Restart
  <2>2. ASSUME NEW q \in Callers PROVE CallerSound(q)'
    <3>1. NotAhead(mem[q])'
      BY <1>0, <1>5, <2>1, SoundForward DEF Restart
    <3>2. /\ pc'[q] = "idle" /\ pc[q] = "down" /\ mem'[q] = mem[q]
          /\ want'[q] = want[q] /\ answer'[q] = answer[q] /\ cosigned' = cosigned
      BY <1>5 DEF Restart, serverVars
    <3>. QED
      BY <3>1, <3>2 DEF CommitInv, CallerSound, SignedPoints
  <2>. QED
    BY <1>0, <1>00, <2>1, <2>2
<1>6. ASSUME Prune PROVE CommitInv'
  <2>1. StoreSound'
    BY <1>6 DEF Prune, StoreSound, RecordNotAheadOfServer, NotAhead
  <2>. QED
    BY <1>0, <1>6, <2>1, SoundForward DEF Prune, callerVars
<1>7. ASSUME UNCHANGED vars PROVE CommitInv'
  BY <1>0, <1>00, <1>7, SoundForward DEF vars, callerVars
<1>. QED
  BY <1>1, <1>2, <1>3, <1>5, <1>6, <1>7, <1>8, <1>9 DEF Next

LEMMA CommitAlways == Spec => [](TypeInv /\ CommitInv)
BY TypeInit, TypeStep, CommitInit, CommitStep, PTL DEF Spec

(* The parties' checkpoint signatures are never sent out for a transaction  *)
(* the server has not validly co-signed: for any number of concurrent       *)
(* calls, any store failures, any answers and any damaged record.           *)
THEOREM ReleaseNeedsCommitment == Spec => []NoReleaseWithoutCommitment
<1>1. CommitInv => NoReleaseWithoutCommitment
  BY DEF CommitInv
<1>. QED
  BY <1>1, CommitAlways, PTL

(* The record never claims more than the server did.                        *)
THEOREM RecordTrusted == Spec => []RecordNotAheadOfServer
<1>1. CommitInv => RecordNotAheadOfServer
  BY DEF CommitInv
<1>. QED
  BY <1>1, CommitAlways, PTL

(* A call that returns Ok for a transaction speaks the truth: the server    *)
(* finalized that transaction.                                              *)
THEOREM OkTrusted == Spec => []OkMeansFinalized
<1>1. CommitInv => OkMeansFinalized
  BY DEF CommitInv
<1>. QED
  BY <1>1, CommitAlways, PTL

-----------------------------------------------------------------------------
(* A store whose failed writes have no effect, or one that lasts, leaves a  *)
(* power loss nothing to undo.                                              *)

Firm == ~({"dirty", "undone"} \subseteq StoreFaults)

NothingToUndo == Firm => undo = {}

LEMMA FirmStep == NothingToUndo /\ [Next]_vars => NothingToUndo'
<1>. SUFFICES ASSUME undo = {}, Firm, [Next]_vars PROVE undo' = {}
  BY DEF NothingToUndo
<1>1. ASSUME NEW p \in Callers, Call(p) PROVE undo' = {}
  <2>1. \A rec, ok : Write(rec, ok) => undo' = {}
    BY DEF Write, Firm
  <2>. QED
    BY <1>1, <2>1
       DEF Call, SpendFresh, ResumeFinalized, ResumeSubmitted, ResumeSubmitting,
           PersistSubmitting, SendSubmit, HandleSubmit, SubmitRejected, SubmitUnclear,
           SubmitAccepted, Clear, ClearWrite, Merge, UpgradeRecord, SendFinalize,
           HandleFinalize, FinalizeAccepted, FinalizeRefused, MarkFinalizedRecord, MarkWrite,
           WriteFinalized, LastChanceSave, Timeout
<1>. QED
  BY <1>1 DEF Next, HandleLate, LoseLate, Crash, PowerLoss, Restart, Prune, vars

-----------------------------------------------------------------------------
(* Concurrent attempts.                                                    *)

(* The server co-signs once.  The call that has its signatures and has not  *)
(* seen them saved is the only one to have them so.                         *)
Holds(p) ==
    \/ pc[p] \in {"awaitSubmit", "merge"} /\ answer[p].sig
    \/ pc[p] \in SignedPoints /\ ~saved[p]

(* The records a power loss or a call other than p may still put in the     *)
(* store.                                                                   *)
Stored == {store} \union undo

KnownTo(p) == (Stored \union {mem[q] : q \in Callers \ {p}}) \ {NoRecord}

Agree(rec, own) ==
    rec.tx = own.tx /\ rec.token = own.token /\ rec.evidence = own.evidence /\ rec.cps = own.cps

(* Other records carry the signatures only if a save of that call's failed  *)
(* after it took effect; they are then its own record but for the stage.    *)
OneHolder ==
    \A p \in Callers : Holds(p) =>
        /\ \A q \in Callers \ {p} : ~Holds(q)
        /\ \A rec \in KnownTo(p) : rec.evidence = "valid" =>
              pc[p] \in SignedPoints \ {"upgrade"} /\ Agree(rec, mem[p])

(* Every attempt draws a token of its own, and until it has saved its       *)
(* record nothing else carries that token.                                  *)
FreshToken ==
    /\ \A p \in Callers : \A rec \in KnownTo(p) : rec.token <= drawn
    /\ \A p \in Callers : mem[p] # NoRecord => mem[p].token <= drawn
    /\ \A p \in Callers : pc[p] = "persist" =>
          \A rec \in KnownTo(p) : rec.token # mem[p].token

StagesInOrder ==
    /\ \A rec \in Stored :
          rec # NoRecord /\ rec.stage = "Finalized" => rec.evidence = "valid"
    /\ \A p \in Callers :
          /\ pc[p] \in SignedPoints => mem[p].stage = "Submitted"
          /\ pc[p] \in {"persist", "submit", "awaitSubmit", "merge", "upgrade", "lastChance"} =>
                ~saved[p]

TokenInv == OneHolder /\ FreshToken /\ StagesInOrder

LEMMA WriteStored ==
    ASSUME NEW rec, NEW ok \in BOOLEAN, Write(rec, ok)
    PROVE  Stored' \subseteq Stored \union {rec}
BY DEF Write, Stored

(* A call writes its own record, as it is or marked finalized, or removes   *)
(* a record, and goes on with it or returns.                                *)
OwnWrite(p, rec) ==
    /\ mem[p] # NoRecord
    /\ Stored' \subseteq Stored \union {rec}
    /\ rec # NoRecord => /\ Agree(rec, mem[p])
                         /\ rec.stage = "Finalized" => rec.evidence = "valid"
    /\ drawn' = drawn
    /\ \A q \in Callers \ {p} : /\ pc'[q] = pc[q] /\ mem'[q] = mem[q]
                                /\ saved'[q] = saved[q] /\ answer'[q] = answer[q]
    /\ mem'[p] \in {mem[p], NoRecord}
    /\ pc'[p] \notin {"persist", "awaitSubmit", "merge", "upgrade"}
    /\ pc'[p] \in SignedPoints => pc[p] \in SignedPoints /\ mem'[p] = mem[p]
    /\ pc'[p] \in SignedPoints /\ ~saved'[p] => ~saved[p]
    /\ pc'[p] \in {"submit", "lastChance"} => ~saved'[p]

LEMMA TokenWrite ==
    ASSUME TokenInv, NEW p \in Callers, NEW rec, OwnWrite(p, rec)
    PROVE  TokenInv'
<1>. USE DEF TokenInv, OwnWrite
<1>1. \A q \in Callers \ {p} : KnownTo(q)' \subseteq KnownTo(q) \union {rec}
  <2>. SUFFICES ASSUME NEW q \in Callers \ {p}, NEW r \in KnownTo(q)', r # rec
                PROVE  r \in KnownTo(q)
    OBVIOUS
  <2>1. r # NoRecord /\ (r \in Stored' \/ \E c \in Callers \ {q} : r = mem'[c])
    BY DEF KnownTo
  <2>2. CASE r \in Stored'
    BY <2>1, <2>2 DEF KnownTo
  <2>3. CASE \E c \in Callers \ {q} : r = mem'[c]
    <3>1. PICK c \in Callers \ {q} : r = mem'[c]
      BY <2>3
    <3>2. r = mem[c]
      BY <2>1, <3>1
    <3>. QED
      BY <2>1, <3>2 DEF KnownTo
  <2>. QED
    BY <2>1, <2>2, <2>3
<1>2. KnownTo(p)' \subseteq KnownTo(p) \union {rec}
  BY DEF KnownTo
<1>3. \A q \in Callers \ {p} : mem[p] \in KnownTo(q)
  BY DEF KnownTo
<1>4. \A q \in Callers : rec \in KnownTo(q)' => rec # NoRecord
  BY DEF KnownTo
<1>5. /\ \A q \in Callers \ {p} : Holds(q)' <=> Holds(q)
      /\ Holds(p)' => Holds(p) /\ pc[p] \in SignedPoints /\ mem'[p] = mem[p]
      /\ Holds(p)' => pc'[p] \in SignedPoints \ {"upgrade"}
  BY DEF Holds
<1>6. OneHolder'
  <2>. SUFFICES ASSUME NEW h \in Callers, Holds(h)'
                PROVE  /\ \A q \in Callers \ {h} : ~Holds(q)'
                       /\ \A r \in KnownTo(h)' : r.evidence = "valid" =>
                             pc'[h] \in SignedPoints \ {"upgrade"} /\ Agree(r, mem'[h])
    BY DEF OneHolder, Agree
  <2>1. Holds(h) /\ mem'[h] = mem[h]
    BY <1>5
  <2>2. \A q \in Callers \ {h} : ~Holds(q)'
    BY <1>5, <2>1 DEF OneHolder
  <2>3. CASE h = p
    BY <1>2, <1>4, <1>5, <2>1, <2>2, <2>3 DEF OneHolder
  <2>4. CASE h # p
    <3>1. ASSUME NEW r \in KnownTo(h)', r.evidence = "valid"
          PROVE  pc'[h] \in SignedPoints \ {"upgrade"} /\ Agree(r, mem'[h])
      <4>1. CASE r \in KnownTo(h)
        BY <2>1, <2>4, <3>1, <4>1 DEF OneHolder
      <4>2. CASE r = rec
        <5>1. Agree(rec, mem[p]) /\ mem[p].evidence = "valid"
          BY <1>4, <3>1, <4>2 DEF Agree
        <5>2. pc[h] \in SignedPoints \ {"upgrade"} /\ Agree(mem[p], mem[h])
          BY <1>3, <2>1, <2>4, <5>1 DEF OneHolder
        <5>. QED
          BY <2>1, <2>4, <4>2, <5>1, <5>2 DEF Agree
      <4>. QED
        BY <1>1, <2>4, <4>1, <4>2
    <3>. QED
      BY <2>2, <3>1
  <2>. QED
    BY <2>3, <2>4
<1>7. FreshToken'
  <2>1. rec # NoRecord => rec.token = mem[p].token
    BY DEF Agree
  <2>2. \A q \in Callers : \A r \in KnownTo(q)' : r.token <= drawn'
    BY <1>1, <1>2, <1>4, <2>1 DEF FreshToken
  <2>3. \A q \in Callers : mem'[q] # NoRecord => mem'[q].token <= drawn'
    BY DEF FreshToken
  <2>4. ASSUME NEW q \in Callers, pc'[q] = "persist", NEW r \in KnownTo(q)'
        PROVE  r.token # mem'[q].token
    <3>1. q # p /\ pc[q] = "persist" /\ mem'[q] = mem[q]
      BY <2>4
    <3>2. mem[p].token # mem[q].token
      BY <1>3, <3>1 DEF FreshToken
    <3>. QED
      BY <1>1, <1>4, <2>1, <2>4, <3>1, <3>2 DEF FreshToken
  <2>. QED
    BY <2>2, <2>3, <2>4 DEF FreshToken
<1>8. StagesInOrder'
  <2>1. \A r \in Stored' : r # NoRecord /\ r.stage = "Finalized" => r.evidence = "valid"
    BY DEF StagesInOrder
  <2>2. \A q \in Callers : pc'[q] \in SignedPoints => mem'[q].stage = "Submitted"
    BY DEF StagesInOrder
  <2>3. \A q \in Callers :
           pc'[q] \in {"persist", "submit", "awaitSubmit", "merge", "upgrade", "lastChance"} =>
              ~saved'[q]
    BY DEF StagesInOrder
  <2>. QED
    BY <2>1, <2>2, <2>3 DEF StagesInOrder
<1>. QED
  BY <1>6, <1>7, <1>8

LEMMA TokenSaves ==
    ASSUME TypeInv, CommitInv, TokenInv, NEW p \in Callers,
           \/ PersistSubmitting(p) \/ Clear(p) \/ ClearWrite(p) \/ UpgradeRecord(p)
           \/ MarkFinalizedRecord(p) \/ MarkWrite(p) \/ LastChanceSave(p)
    PROVE  TokenInv'
<1>. DEFINE Own(rec) == rec # NoRecord => /\ Agree(rec, mem[p])
                                          /\ rec.stage = "Finalized" => rec.evidence = "valid"
<1>1. /\ mem[p] \in PendingSpend /\ mem[p] # NoRecord
      /\ mem[p].stage # "Finalized"
      /\ pc[p] \in SignedPoints => mem[p].evidence = "valid"
      /\ pc[p] \in {"upgrade", "lastChance"} => ~saved[p]
  BY DEF PersistSubmitting, Clear, ClearWrite, UpgradeRecord, MarkFinalizedRecord, MarkWrite,
         LastChanceSave, TypeInv, BusyHasRecord, CommitInv, CallerSound, TokenInv, StagesInOrder
<1>2. Own(NoRecord) /\ Own(mem[p])
  BY <1>1 DEF Agree
<1>3. pc[p] \in SignedPoints => Own(MarkedFinalized(mem[p]))
  BY <1>1, MarkedType DEF Agree, MarkedFinalized, PendingSpend
<1>4. \E rec : Own(rec) /\ Stored' \subseteq Stored \union {rec}
  <2>. DEFINE Saved == \E rec : Own(rec) /\ Stored' \subseteq Stored \union {rec}
  <2>1. UNCHANGED <<store, undo>> => Saved
    BY <1>2 DEF Stored
  <2>2. ASSUME NEW ok \in BOOLEAN, NEW rec, Own(rec), Write(rec, ok) PROVE Saved
    BY <2>2, WriteStored
  <2>3. WriteFinalized(p) /\ pc[p] \in SignedPoints => Saved
    BY <1>3, <2>2 DEF WriteFinalized
  <2>. QED
    BY <1>2, <2>1, <2>2, <2>3
       DEF PersistSubmitting, Clear, ClearWrite, UpgradeRecord, MarkFinalizedRecord, MarkWrite,
           LastChanceSave, SignedPoints
<1>5. PICK rec : Own(rec) /\ Stored' \subseteq Stored \union {rec}
  BY <1>4
<1>6. /\ drawn' = drawn
      /\ \A q \in Callers \ {p} : /\ pc'[q] = pc[q] /\ mem'[q] = mem[q]
                                  /\ saved'[q] = saved[q] /\ answer'[q] = answer[q]
      /\ mem'[p] \in {mem[p], NoRecord}
  BY DEF PersistSubmitting, Clear, ClearWrite, UpgradeRecord, MarkFinalizedRecord, MarkWrite,
         WriteFinalized, SpendSucceeds, SpendFailed, LastChanceSave, Goto, Return, TypeInv, TypeOK
<1>7. /\ pc'[p] \notin {"persist", "awaitSubmit", "merge", "upgrade"}
      /\ pc'[p] \in SignedPoints => pc[p] \in SignedPoints /\ mem'[p] = mem[p]
      /\ pc'[p] \in SignedPoints /\ ~saved'[p] => ~saved[p]
      /\ pc'[p] \in {"submit", "lastChance"} => ~saved'[p]
  BY <1>1 DEF PersistSubmitting, Clear, ClearWrite, UpgradeRecord, MarkFinalizedRecord, MarkWrite,
         WriteFinalized, SpendSucceeds, SpendFailed, LastChanceSave, Goto, Return, TypeInv, TypeOK,
         TokenInv, StagesInOrder, SignedPoints
<1>8. OwnWrite(p, rec)
  BY <1>1, <1>5, <1>6, <1>7 DEF OwnWrite
<1>. QED
  BY <1>8, TokenWrite

LEMMA TokenCall ==
    ASSUME TypeInv, CommitInv, TokenInv, NEW p \in Callers, Call(p)
    PROVE  TokenInv'
<1>. USE DEF TokenInv, OneHolder, FreshToken, StagesInOrder, Holds, KnownTo, Stored, Agree
<1>0. /\ \A q \in Callers : /\ CallerSound(q)
                            /\ (pc[q] \notin {"idle", "down"} => mem[q] \in PendingSpend)
      /\ RecordNotAheadOfServer /\ ServerSound /\ TypeOK
      /\ ~Plain("none").sig /\ ~Plain("waiting").sig
      /\ drawn \in Nat
  BY AnswerType DEF CommitInv, TypeInv, TypeOK, BusyHasRecord, Codes
<1>1. ASSUME NEW tx \in Txs, SpendFresh(p, tx) PROVE TokenInv'
  BY <1>0, <1>1, SMTT(30) DEF SpendFresh, Begin, NewRecord, Unbound, CallerSound, NotAhead,
     TypeOK, PendingSpend, SignedPoints
<1>2. ASSUME NEW tx \in Txs \union {NoTx}, ResumeFinalized(p, tx) PROVE TokenInv'
  BY <1>0, <1>2, SMTT(30) DEF ResumeFinalized, Found, callerVars, CallerSound, NotAhead,
     TypeOK, PendingSpend, SignedPoints
<1>3. ASSUME NEW tx \in Txs \union {NoTx}, ResumeSubmitted(p, tx) PROVE TokenInv'
  BY <1>0, <1>3, SMTT(30) DEF ResumeSubmitted, Found, Begin, EvidenceHolds, CallerSound, NotAhead,
     TypeOK, PendingSpend, SignedPoints
<1>4. ASSUME NEW tx \in Txs \union {NoTx}, ResumeSubmitting(p, tx) PROVE TokenInv'
  BY <1>0, <1>4, SMTT(30) DEF ResumeSubmitting, Found, Begin, CallerSound, NotAhead,
     TypeOK, PendingSpend, SignedPoints
<1>5. ASSUME SendSubmit(p) PROVE TokenInv'
  BY <1>0, <1>5, SMTT(30) DEF SendSubmit, Send, CallerSound, NotAhead,
     TypeOK, PendingSpend, SignedPoints
<1>6. ASSUME HandleSubmit(p) PROVE TokenInv'
  <2>1. PICK a \in SubmitAnswers : /\ ServerSubmit(mem[p].tx, a)
                                   /\ answer' = [answer EXCEPT ![p] = a]
    BY <1>6 DEF HandleSubmit
  <2>2. UNCHANGED <<store, undo, drawn, pc, mem, saved>>
    BY <1>6 DEF HandleSubmit
  <2>3. answer'[p] = a /\ \A q \in Callers \ {p} : answer'[q] = answer[q]
    BY <1>0, <2>1 DEF TypeOK
  <2>4. FreshToken' /\ StagesInOrder'
    BY <2>2
  <2>5. CASE a.sig
    <3>1. cosigned = {}
      BY <1>0, <2>1, <2>5, AnswerType DEF ServerSubmit, ServerSound, TypeOK
    <3>2. /\ \A q \in Callers : \A rec \in KnownTo(q) : rec.evidence # "valid"
          /\ \A q \in Callers : mem[q] # NoRecord => mem[q].evidence # "valid"
      BY <1>0, <3>1 DEF CommitInv, RecordNotAheadOfServer, NotAhead, CallerSound
    <3>3. \A q \in Callers : ~Holds(q)
      BY <1>0, <3>1, <3>2 DEF CallerSound, NotAhead, SignedPoints
    <3>. QED
      BY <2>2, <2>3, <2>4, <3>2, <3>3
  <2>6. CASE ~a.sig
    <3>1. \A q \in Callers : Holds(q)' => Holds(q)
      BY <2>2, <2>3, <2>6
    <3>. QED
      BY <2>2, <2>4, <3>1
  <2>. QED
    BY <2>5, <2>6
<1>7. ASSUME SubmitRejected(p) PROVE TokenInv'
  BY <1>0, <1>7, SMTT(30) DEF SubmitRejected, Goto, Answered, MayClear, CallerSound, NotAhead,
     TypeOK, PendingSpend, SignedPoints
<1>8. ASSUME SubmitUnclear(p) PROVE TokenInv'
  BY <1>0, <1>8, SMTT(30) DEF SubmitUnclear, Return, CallerSound, NotAhead,
     TypeOK, PendingSpend, SignedPoints
<1>9. ASSUME SubmitAccepted(p) PROVE TokenInv'
  BY <1>0, <1>9, SMTT(30) DEF SubmitAccepted, Goto, Answered, CallerSound, NotAhead,
     TypeOK, PendingSpend, SignedPoints
<1>10. ASSUME Merge(p) PROVE TokenInv'
  <2>1. mem[p] \in PendingSpend /\ Holds(p) /\ ~saved[p]
    BY <1>0, <1>10 DEF Merge, CallerSound
  <2>2. CASE Merges(answer[p].cps)
    <3>1. PICK rec : /\ mem' = [mem EXCEPT ![p] = rec] /\ rec.token = mem[p].token
                     /\ rec.stage = "Submitted" /\ rec.evidence = "valid"
      BY <1>10, <2>1, <2>2, UpgradedType DEF Merge
    <3>2. pc' = [pc EXCEPT ![p] = "upgrade"] /\ UNCHANGED <<store, undo, drawn, saved, answer>>
      BY <1>10, <2>2 DEF Merge
    <3>3. /\ pc'[p] = "upgrade" /\ mem'[p] = rec
          /\ \A q \in Callers \ {p} : pc'[q] = pc[q] /\ mem'[q] = mem[q]
      BY <1>0, <3>1, <3>2 DEF TypeOK
    <3>4. mem[p] # NoRecord
      BY <2>1
    <3>5. \A q \in Callers \ {p} : (Holds(q)' <=> Holds(q)) /\ ~Holds(q)
      BY <2>1, <3>2, <3>3
    <3>6. KnownTo(p)' = KnownTo(p) /\ \A r \in KnownTo(p) : r.evidence # "valid"
      BY <1>10, <2>1, <3>2, <3>3 DEF Merge, SignedPoints
    <3>7. OneHolder'
      BY <2>1, <3>2, <3>3, <3>5, <3>6
    <3>8. FreshToken'
      BY <3>1, <3>2, <3>3, <3>4
    <3>9. StagesInOrder'
      BY <2>1, <3>1, <3>2, <3>3 DEF SignedPoints
    <3>. QED
      BY <3>7, <3>8, <3>9
  <2>3. CASE ~Merges(answer[p].cps)
    BY <1>0, <1>10, <2>3 DEF Merge, Return, TypeOK, SignedPoints
  <2>. QED
    BY <2>2, <2>3
<1>11. ASSUME SendFinalize(p) PROVE TokenInv'
  BY <1>0, <1>11, SMTT(30) DEF SendFinalize, Send, CallerSound, NotAhead,
     TypeOK, PendingSpend, SignedPoints
<1>12. ASSUME NEW code \in {"ok", "unknown"}, HandleFinalize(p, code) PROVE TokenInv'
  BY <1>0, <1>12, SMTT(30) DEF HandleFinalize, ServerFinalize, CallerSound, NotAhead,
     TypeOK, PendingSpend, SignedPoints
<1>13. ASSUME FinalizeAccepted(p) PROVE TokenInv'
  BY <1>0, <1>13, SMTT(30) DEF FinalizeAccepted, Goto, Answered, CallerSound, NotAhead,
     TypeOK, PendingSpend, SignedPoints
<1>14. ASSUME FinalizeRefused(p) PROVE TokenInv'
  BY <1>0, <1>14, SMTT(30) DEF FinalizeRefused, SpendFailed, Goto, Return, Answered,
     CallerSound, NotAhead,
     TypeOK, PendingSpend, SignedPoints
<1>15. ASSUME Timeout(p) PROVE TokenInv'
  BY <1>0, <1>15, SMTT(30) DEF Timeout, SpendFailed, Goto, Return, CallerSound, NotAhead,
     TypeOK, PendingSpend, SignedPoints
<1>. QED
  BY <1>1, <1>2, <1>3, <1>4, <1>5, <1>6, <1>7, <1>8, <1>9, <1>10, <1>11, <1>12, <1>13, <1>14,
     <1>15, TokenSaves DEF Call

LEMMA TokenStep == TypeInv /\ CommitInv /\ TokenInv /\ [Next]_vars => TokenInv'
<1>. SUFFICES ASSUME TypeInv, CommitInv, TokenInv, [Next]_vars PROVE TokenInv'
  OBVIOUS
<1>. USE DEF TokenInv, OneHolder, FreshToken, StagesInOrder, Holds, KnownTo, Stored, Agree
<1>1. ASSUME NEW p \in Callers, Call(p) PROVE TokenInv'
  BY <1>1, TokenCall
<1>2. ASSUME NEW r \in late, HandleLate(r) \/ LoseLate(r) PROVE TokenInv'
  BY <1>2 DEF HandleLate, LoseLate, callerVars
<1>3. ASSUME Crash PROVE TokenInv'
  BY <1>3 DEF Crash, Down, SignedPoints
<1>4. ASSUME PowerLoss PROVE TokenInv'
  BY <1>4 DEF PowerLoss, Down, SignedPoints
<1>5. ASSUME Restart PROVE TokenInv'
  BY <1>5 DEF Restart, SignedPoints
<1>6. ASSUME Prune PROVE TokenInv'
  BY <1>6 DEF Prune, callerVars
<1>7. ASSUME UNCHANGED vars PROVE TokenInv'
  BY <1>7 DEF vars, callerVars
<1>. QED
  BY <1>1, <1>2, <1>3, <1>4, <1>5, <1>6, <1>7 DEF Next

(* However many calls overlap and however their writes fail, a record falls *)
(* back a stage only when power is lost, or from finalized to submitted,    *)
(* with the server's signatures kept, by a call that saw its save of them   *)
(* fail (client.rs:766-798).                                                *)
THEOREM FallsBackRarely == Spec => FallsBackOnlyFromFinalized
<1>1. Init => TokenInv
  BY DEF Init, TokenInv, OneHolder, FreshToken, StagesInOrder, Holds, KnownTo, Stored, Agree,
         SignedPoints, OldRecord
<1>. DEFINE Falls == /\ store # NoRecord /\ store' # NoRecord /\ store'.token = store.token
                     /\ Rank(store'.stage) < Rank(store.stage)
            Again == /\ store.stage = "Finalized"
                     /\ store' = [store EXCEPT !.stage = "Submitted"]
                     /\ \E p \in Callers : pc[p] = "lastChance" /\ ~saved[p] /\ pc'[p] = "idle"
<1>2. ASSUME TypeInv, CommitInv, TokenInv, [Next]_vars
      PROVE  Falls => PowerLoss \/ Again
  <2>. SUFFICES ASSUME Falls, ~PowerLoss PROVE Again
    OBVIOUS
  <2>1. /\ \A s \in Stages : Rank(s) \in 1 .. 3
        /\ Rank("Submitting") = 1 /\ Rank("Submitted") = 2 /\ Rank("Finalized") = 3
    BY DEF Stages, Rank
  <2>2. store \in PendingSpend /\ store.stage \in Stages
    BY <1>2 DEF TypeInv, TypeOK, PendingSpend
  <2>3. store' # store
    BY <2>1, <2>2
  <2>4. PICK p \in Callers : Call(p)
    BY <1>2, <2>3 DEF Next, HandleLate, LoseLate, Crash, Restart, Prune, vars
  <2>5. /\ pc[p] \notin {"idle", "down"} => mem[p] \in PendingSpend /\ mem[p] # NoRecord
        /\ store \in KnownTo(p)
    BY <1>2 DEF TypeInv, BusyHasRecord, KnownTo, Stored
  <2>6. ~PersistSubmitting(p)
    BY <1>2, <2>3, <2>5 DEF PersistSubmitting, Write, TokenInv, FreshToken
  <2>7. ~(Clear(p) \/ ClearWrite(p))
    BY <2>3 DEF Clear, ClearWrite, Write
  <2>8. ~(MarkFinalizedRecord(p) \/ MarkWrite(p))
    <3>1. SUFFICES ASSUME MarkFinalizedRecord(p) \/ MarkWrite(p) PROVE FALSE
      OBVIOUS
    <3>2. store' = MarkedFinalized(mem[p]) /\ mem[p] \in PendingSpend
      BY <2>3, <2>5, <3>1 DEF MarkFinalizedRecord, MarkWrite, WriteFinalized, Write
    <3>3. store'.stage = "Finalized"
      BY <3>2, MarkedType
    <3>. QED
      BY <2>1, <2>2, <3>3
  <2>9. UpgradeRecord(p) \/ LastChanceSave(p)
    BY <2>3, <2>4, <2>6, <2>7, <2>8
       DEF Call, SpendFresh, ResumeFinalized, ResumeSubmitted, ResumeSubmitting, SendSubmit,
           HandleSubmit, SubmitRejected, SubmitUnclear, SubmitAccepted, Merge, SendFinalize,
           HandleFinalize, FinalizeAccepted, FinalizeRefused, Timeout
  <2>10. /\ pc[p] \in SignedPoints /\ ~saved[p] /\ Holds(p)
         /\ store' = mem[p] /\ mem[p] \in PendingSpend
         /\ mem[p].stage = "Submitted"
    BY <1>2, <2>3, <2>5, <2>9
       DEF UpgradeRecord, LastChanceSave, Write, TokenInv, StagesInOrder, SignedPoints, Holds
  <2>11. store.stage = "Finalized" /\ store.evidence = "valid"
    BY <1>2, <2>1, <2>2, <2>10 DEF Stages, TokenInv, StagesInOrder, Stored
  <2>12. pc[p] # "upgrade" /\ Agree(store, mem[p])
    BY <1>2, <2>5, <2>10, <2>11 DEF TokenInv, OneHolder
  <2>13. store' = [store EXCEPT !.stage = "Submitted"]
    BY <2>2, <2>10, <2>12 DEF Agree, PendingSpend
  <2>14. pc[p] = "lastChance" /\ pc'[p] = "idle"
    BY <1>2, <2>9, <2>12 DEF UpgradeRecord, LastChanceSave, Return, TypeInv, TypeOK
  <2>. QED
    BY <2>10, <2>11, <2>13, <2>14
<1>. QED
  BY <1>1, <1>2, TypeInit, TypeStep, CommitInit, CommitStep, TokenStep, PTL
     DEF Spec, FallsBackOnlyFromFinalized
===============================================================================
