-------------------------- MODULE VtxoLookupProofs --------------------------
(* Theorems about VtxoLookup, for any signers, outpoints and tasks. *)
EXTENDS VtxoLookup, TLAPS

USE DEF Held, Stages, Ops, Points

-----------------------------------------------------------------------------
(* Types.                                                                  *)

LEMMA IdleIsCall == CallOK(Idle)
BY DEF Idle, Call, CallOK

LEMMA UnsteadyIsCall ==
    ASSUME NEW c, CallOK(c)
    PROVE  CallOK([c EXCEPT !.steady = FALSE])
BY DEF Call, CallOK

\* A step that replaces one call, and perhaps the cache, keeps the types.
LEMMA CallType ==
    ASSUME TypeOK, NEW t \in Tasks, NEW c, CallOK(c),
           call' = [call EXCEPT ![t] = c],
           UNCHANGED <<server, retired, lock, held, stage>>,
           server_info' \in Info \cup {None}
    PROVE  TypeOK'
BY DEF TypeOK, CallOK

\* So does one that touches no call.
LEMMA NoCallType ==
    ASSUME TypeOK, UNCHANGED call,
           server' \in Info, retired' \subseteq Signers,
           lock' \in [Outpoints -> Signers], held' \in [Outpoints -> Held],
           stage' \in [Outpoints -> Stages], server_info' \in Info \cup {None}
    PROVE  TypeOK'
BY DEF TypeOK, CallOK

LEMMA ServerTypes ==
    ASSUME TypeOK, Server \/ Spender
    PROVE  TypeOK'
<1>1. ASSUME NEW key \in Signers, Rotate(key) PROVE TypeOK'
  <2>1. server' \in Info
    BY <1>1 DEF Rotate, TypeOK, Info, Listed
  <2>2. \A t \in Tasks : CallOK([call[t] EXCEPT !.steady = FALSE])
    BY UnsteadyIsCall DEF TypeOK
  <2>3. call' = [t \in Tasks |-> [call[t] EXCEPT !.steady = FALSE]]
    BY <1>1 DEF Rotate
  <2>4. ASSUME NEW t \in Tasks PROVE CallOK(call'[t])
    <3>1. call'[t] = [call[t] EXCEPT !.steady = FALSE]
      BY <2>3
    <3> QED
      BY <2>2, <3>1, Zenon
  <2>5. \A t \in Tasks : call'[t] \in Call
    BY <2>4 DEF CallOK
  <2>6. call' \in [Tasks -> Call]
    <3> DEFINE f == [t \in Tasks |-> [call[t] EXCEPT !.steady = FALSE]]
    <3>1. \A t \in Tasks : f[t] \in Call
      BY <2>3, <2>5
    <3> HIDE DEF f
    <3>2. f \in [Tasks -> Call]
      <4>1. f = [t \in Tasks |-> f[t]]
        BY DEF f
      <4> QED
        BY <3>1, <4>1
    <3> QED
      BY <2>3, <3>2 DEF f
  <2> QED
    BY <1>1, <2>1, <2>4, <2>6 DEF Rotate, TypeOK, CallOK
<1>2. ASSUME NEW key \in Signers, Retire(key) PROVE TypeOK'
  BY <1>2, NoCallType DEF TypeOK, Retire, Info
<1>3. ASSUME NEW o \in Outpoints, Expire(o) PROVE TypeOK'
  BY <1>3, NoCallType DEF TypeOK, Expire
<1>4. ASSUME NEW o \in Outpoints, NEW key \in Signers, Fund(o, key) PROVE TypeOK'
  BY <1>4, NoCallType DEF TypeOK, Fund
<1>5. ASSUME NEW t \in Tasks, NEW o \in Outpoints, Settle(t, o) PROVE TypeOK'
  <2>1. call[t].output \in Signers
    BY <1>5 DEF Settle, TypeOK, CallOK
  <2>2. held' \in [Outpoints -> Held]
    BY <1>5 DEF Settle, TypeOK
  <2> QED
    BY <1>5, <2>1, <2>2, NoCallType DEF Settle, TypeOK
<1>6. ASSUME NEW o \in Outpoints,
             RecordSpend(o) \/ ClearSpend(o) \/ UpgradeSpend(o) \/ FinalizeSpend(o)
      PROVE  TypeOK'
  BY <1>6, NoCallType
     DEF TypeOK, RecordSpend, ClearSpend, UpgradeSpend, FinalizeSpend, SpendMoves
<1>7. ASSUME NEW o \in Outpoints, AcceptSpend(o) PROVE TypeOK'
  BY <1>7, NoCallType DEF TypeOK, AcceptSpend
<1> QED
  BY <1>1, <1>2, <1>3, <1>4, <1>5, <1>6, <1>7 DEF Server, Spender

LEMMA EnterType ==
    ASSUME TypeOK, NEW t \in Tasks, NEW op \in Ops, NEW at \in Points,
           NEW contract \in Signers \cup {None}, NEW asked \in SUBSET Outpoints,
           Enter(t, op, at, contract, asked),
           (at = "info" /\ contract \in Signers) \/ at = "connecting"
    PROVE  TypeOK'
<1> DEFINE c == [Idle EXCEPT !.op = op, !.at = at, !.contract = contract, !.asked = asked,
                     !.pending = op = "status" /\ \E o \in asked : IsPending(stage[o]),
                     !.quiet = asked \subseteq Quiet, !.steady = TRUE]
<1>1. CallOK(c)
  BY ZenonT(60) DEF Idle, Call, CallOK
<1>2. /\ call' = [call EXCEPT ![t] = c]
      /\ UNCHANGED <<server, retired, lock, held, stage, server_info>>
  BY DEF Enter
<1>3. server_info' \in Info \cup {None}
  BY <1>2 DEF TypeOK
<1> HIDE DEF c
<1> QED
  BY <1>1, <1>2, <1>3, CallType

LEMMA ClientTypes ==
    ASSUME TypeOK, NEW t \in Tasks,
           \/ Connect(t) \/ GetInfo(t) \/ StoreInfo(t)
           \/ Lookup(t) \/ ReadInfo(t) \/ info_refresh_hook(t)
           \/ Found(t) \/ Built(t) \/ Prepared(t) \/ Fails(t)
    PROVE  TypeOK'
<1>0. CallOK(call[t]) /\ server \in Info /\ server_info \in Info \cup {None}
  BY DEF TypeOK
<1>1. CASE Connect(t)
  BY <1>1, EnterType DEF Connect
<1>2. CASE GetInfo(t)
  <2>1. call' = [call EXCEPT ![t] = [call[t] EXCEPT !.at = "storing", !.info = server]]
    BY <1>2 DEF GetInfo, TypeOK
  <2>2. CallOK([call[t] EXCEPT !.at = "storing", !.info = server])
    BY <1>0, <1>2 DEF GetInfo, CallOK, Call
  <2> QED
    BY <1>0, <1>2, <2>1, <2>2, CallType DEF GetInfo
<1>3. CASE StoreInfo(t)
  BY <1>0, <1>3, CallType, IdleIsCall DEF StoreInfo, CallOK
<1>4. CASE Lookup(t)
  BY <1>4, EnterType DEF Lookup, Look
<1>5. CASE ReadInfo(t)
  BY <1>0, <1>5, CallType, IdleIsCall DEF ReadInfo, CallOK, Call, Connected
<1>6. CASE info_refresh_hook(t)
  BY <1>0, <1>6, NoCallType DEF info_refresh_hook, TypeOK
<1>7. CASE Found(t)
  BY <1>0, <1>7, CallType DEF Found, Listing, Answered, CallOK, Call, ListedVtxos
<1>8. CASE Built(t)
  BY <1>0, <1>8, CallType DEF Built, Listing, Answered, CallOK, Call, Resolved
<1>9. CASE Prepared(t)
  BY <1>0, <1>9, CallType
     DEF Prepared, Listing, Answered, CallOK, Call, Resolved, output_contract, Info
<1>10. CASE Fails(t)
  BY <1>0, <1>10, CallType, IdleIsCall DEF Fails
<1> QED
  BY <1>1, <1>2, <1>3, <1>4, <1>5, <1>6, <1>7, <1>8, <1>9, <1>10

LEMMA InitType == Init => TypeOK
<1> SUFFICES ASSUME Init PROVE TypeOK
  OBVIOUS
<1>1. PICK key \in Signers : server = [signer |-> key, deprecated |-> {}]
                               /\ lock = [o \in Outpoints |-> key]
  BY DEF Init
<1>2. call \in [Tasks -> Call] /\ \A t \in Tasks : CallOK(call[t])
  BY IdleIsCall DEF Init, CallOK
<1> QED
  BY <1>1, <1>2 DEF Init, TypeOK, Info

LEMMA NextType == TypeOK /\ [Next]_vars => TypeOK'
<1>1. ASSUME TypeOK, UNCHANGED vars PROVE TypeOK'
  BY <1>1 DEF vars, TypeOK, CallOK
<1> QED
  BY <1>1, ServerTypes, ClientTypes DEF Next, Client

\* Every reachable state is one the code's types allow: no lookup is under way
\* without an info, no prepared refresh without an output contract.
THEOREM TypeCorrect == Spec => []TypeOK
BY InitType, NextType, PTL DEF Spec

-----------------------------------------------------------------------------
(* What lookups conclude.  An outpoint asked for is funded, so its lock is  *)
(* fixed; one that was not quiet without being spent is gone for good.     *)

Gone(o) == held[o] \in {"spent", "settled"}

CallFacts(c) ==
    /\ \A o \in c.asked : held[o] # "unfunded"
    /\ c.op = "status" /\ c.at \in {"info", "listing"} /\ ~c.pending /\ ~c.quiet =>
         \E o \in c.asked : Gone(o)
    /\ c.op = "status" /\ c.at = "returned" /\ ~c.pending /\ c.asked \subseteq c.found =>
         c.quiet
    /\ c.op \in {"build", "prepare"} /\ c.at = "returned" =>
         c.inputs = {[outpoint |-> o, contract |-> lock[o]] : o \in c.asked}

LookupInv == TypeOK /\ \A t \in Tasks : CallFacts(call[t])

\* A funded outpoint stays funded and locked as it is, a gone one gone.
LEMMA VtxosMoveOn ==
    ASSUME TypeOK, Server \/ Spender
    PROVE  /\ \A o \in Outpoints :
                held[o] # "unfunded" => held'[o] # "unfunded" /\ lock'[o] = lock[o]
           /\ \A o \in Outpoints : Gone(o) => Gone(o)'
           /\ \/ UNCHANGED call
              \/ call' = [t \in Tasks |-> [call[t] EXCEPT !.steady = FALSE]]
<1>1. ASSUME NEW t \in Tasks, NEW o \in Outpoints, Settle(t, o)
      PROVE  \A i \in Outpoints :
               /\ held[i] # "unfunded" => held'[i] # "unfunded" /\ lock'[i] = lock[i]
               /\ Gone(i) => Gone(i)'
  BY <1>1 DEF Settle, TypeOK, Gone, Settleable
<1> QED
  BY <1>1 DEF Server, Spender, Rotate, Retire, Expire, Fund, Settle, RecordSpend, ClearSpend,
     UpgradeSpend, FinalizeSpend, SpendMoves, AcceptSpend, TypeOK, Gone

LEMMA ServerKeepsFacts ==
    ASSUME LookupInv, Server \/ Spender
    PROVE  \A t \in Tasks : CallFacts(call[t])'
<1> SUFFICES ASSUME NEW t \in Tasks PROVE CallFacts(call[t])'
  OBVIOUS
<1>1. call[t] \in Call /\ CallFacts(call[t])
  BY DEF LookupInv, TypeOK
<1>2. call'[t] = call[t] \/ call'[t] = [call[t] EXCEPT !.steady = FALSE]
  BY VtxosMoveOn DEF LookupInv
<1>3. /\ \A o \in Outpoints :
           held[o] # "unfunded" => held'[o] # "unfunded" /\ lock'[o] = lock[o]
      /\ \A o \in Outpoints : Gone(o) => Gone(o)'
  BY VtxosMoveOn DEF LookupInv
<1>4. /\ call'[t].op = call[t].op /\ call'[t].at = call[t].at
      /\ call'[t].asked = call[t].asked /\ call'[t].found = call[t].found
      /\ call'[t].inputs = call[t].inputs
      /\ call'[t].pending = call[t].pending /\ call'[t].quiet = call[t].quiet
      /\ call[t].asked \subseteq Outpoints
  BY <1>1, <1>2 DEF Call
<1>5. {[outpoint |-> o, contract |-> lock'[o]] : o \in call[t].asked}
        = {[outpoint |-> o, contract |-> lock[o]] : o \in call[t].asked}
  BY <1>1, <1>3, <1>4 DEF CallFacts
<1> QED
  BY <1>1, <1>3, <1>4, <1>5 DEF CallFacts

\* A step that replaces one call by one of which the facts are true.
LEMMA CallKeepsFacts ==
    ASSUME LookupInv, NEW t \in Tasks, NEW c, CallFacts(c),
           call' = [call EXCEPT ![t] = c], UNCHANGED <<lock, held>>
    PROVE  \A u \in Tasks : CallFacts(call[u])'
<1>1. ASSUME NEW u \in Tasks PROVE CallFacts(call'[u])
  BY DEF LookupInv, TypeOK
<1> QED
  BY <1>1 DEF CallFacts, Gone

LEMMA IdleFacts == CallFacts(Idle)
BY DEF Idle, CallFacts

LEMMA EnterFacts ==
    ASSUME LookupInv, NEW t \in Tasks, NEW op \in Ops, NEW at \in {"info", "connecting"},
           NEW contract, NEW asked \in SUBSET Outpoints,
           \A o \in asked : held[o] # "unfunded",
           Enter(t, op, at, contract, asked)
    PROVE  \A u \in Tasks : CallFacts(call[u])'
<1> DEFINE c == [Idle EXCEPT !.op = op, !.at = at, !.contract = contract, !.asked = asked,
                     !.pending = op = "status" /\ \E o \in asked : IsPending(stage[o]),
                     !.quiet = asked \subseteq Quiet, !.steady = TRUE]
<1>1. /\ c.op = op /\ c.at = at /\ c.asked = asked
      /\ c.pending = (op = "status" /\ \E o \in asked : IsPending(stage[o]))
      /\ c.quiet = (asked \subseteq Quiet)
  BY DEF Idle
<1>2. /\ call' = [call EXCEPT ![t] = c]
      /\ UNCHANGED <<lock, held>>
  BY DEF Enter
<1> HIDE DEF c
<1>3. ASSUME op = "status", ~c.pending, ~c.quiet PROVE \E o \in asked : Gone(o)
  BY <1>1, <1>3 DEF IsPending, Quiet, Gone, LookupInv, TypeOK
<1>4. CallFacts(c)
  BY <1>1, <1>3 DEF CallFacts
<1> QED
  BY <1>2, <1>4, CallKeepsFacts

\* The answer of a lookup: only its results and its point change.
LEMMA AnsweredFacts ==
    ASSUME LookupInv, NEW t \in Tasks, NEW r \in Call, Answered(t, r),
           r.op = call[t].op, r.asked = call[t].asked,
           r.pending = call[t].pending, r.quiet = call[t].quiet,
           call[t].at = "listing",
           r.op = "status" => \A o \in r.found : ~Gone(o),
           r.op \in {"build", "prepare"} =>
             r.inputs = {[outpoint |-> o, contract |-> lock[o]] : o \in r.asked}
    PROVE  \A u \in Tasks : CallFacts(call[u])'
<1> DEFINE c == [r EXCEPT !.at = "returned", !.info = None]
<1>1. /\ c.op = r.op /\ c.at = "returned" /\ c.asked = r.asked /\ c.found = r.found
      /\ c.inputs = r.inputs /\ c.pending = r.pending /\ c.quiet = r.quiet
  BY DEF Call
<1>2. call' = [call EXCEPT ![t] = c] /\ UNCHANGED <<lock, held>>
  BY DEF Answered
<1> HIDE DEF c
<1>3. CallFacts(call[t])
  BY DEF LookupInv
<1>4. CallFacts(c)
  BY <1>1, <1>3 DEF CallFacts
<1> QED
  BY <1>2, <1>4, CallKeepsFacts

\* contract_for_script names the one contract that locks a listed outpoint.
LEMMA ResolvedIsLocking ==
    ASSUME TypeOK, NEW t \in Tasks, call[t].asked \subseteq ListedVtxos(Candidates(t))
    PROVE  Resolved(t) = {[outpoint |-> o, contract |-> lock[o]] : o \in call[t].asked}
<1>1. \A o \in call[t].asked : o \in Outpoints /\ lock[o] \in Signers /\ lock[o] \in Candidates(t)
  BY DEF ListedVtxos, TypeOK
<1>2. \A o \in call[t].asked : contract_for_script(Candidates(t), o) = {lock[o]}
  BY <1>1 DEF contract_for_script
<1> QED
  BY <1>1, <1>2 DEF Resolved

LEMMA ClientKeepsFacts ==
    ASSUME LookupInv, NEW t \in Tasks,
           \/ Connect(t) \/ GetInfo(t) \/ StoreInfo(t)
           \/ Lookup(t) \/ ReadInfo(t) \/ info_refresh_hook(t)
           \/ Found(t) \/ Built(t) \/ Prepared(t) \/ Fails(t)
    PROVE  \A u \in Tasks : CallFacts(call[u])'
<1>0. /\ call \in [Tasks -> Call] /\ call[t] \in Call /\ CallFacts(call[t])
      /\ \A u \in Tasks : CallFacts(call[u])
      /\ call[t].asked \subseteq Outpoints
  BY DEF LookupInv, TypeOK, Call
<1>1. CASE Connect(t)
  BY <1>1, EnterFacts DEF Connect
<1>2. CASE GetInfo(t)
  <2> DEFINE c == [call[t] EXCEPT !.at = "storing", !.info = server]
  <2>1. call' = [call EXCEPT ![t] = c] /\ UNCHANGED <<lock, held>>
    BY <1>0, <1>2 DEF GetInfo
  <2>2. CallFacts(c)
    BY <1>0 DEF CallFacts, Call
  <2> QED
    BY <2>1, <2>2, CallKeepsFacts
<1>3. CASE StoreInfo(t)
  BY <1>3, IdleFacts, CallKeepsFacts DEF StoreInfo
<1>4. CASE Lookup(t)
  BY <1>4, EnterFacts DEF Lookup, Look
<1>5. CASE ReadInfo(t)
  <2> DEFINE c == [call[t] EXCEPT !.at = "listing", !.info = server_info,
                                  !.current = server_info = server]
  <2>1. /\ call' = [call EXCEPT ![t] = Idle] \/ call' = [call EXCEPT ![t] = c]
        /\ UNCHANGED <<lock, held>>
    BY <1>0, <1>5 DEF ReadInfo
  <2>2. CallFacts(c)
    BY <1>0, <1>5 DEF CallFacts, Call, ReadInfo
  <2> HIDE DEF c
  <2> QED
    BY <2>1, <2>2, IdleFacts, CallKeepsFacts
<1>6. CASE info_refresh_hook(t)
  BY <1>0, <1>6 DEF info_refresh_hook, CallFacts, Gone
<1>7. CASE Found(t)
  <2> DEFINE r == [call[t] EXCEPT !.found = ListedVtxos(Candidates(t))]
  <2>1. r \in Call
    BY <1>0 DEF Call, ListedVtxos
  <2>2. /\ r.op = call[t].op /\ r.asked = call[t].asked /\ r.pending = call[t].pending
        /\ r.quiet = call[t].quiet /\ r.found = ListedVtxos(Candidates(t))
    BY <1>0 DEF Call
  <2>3. \A o \in r.found : ~Gone(o)
    BY <2>2 DEF ListedVtxos, Unspent, Gone
  <2>4. Answered(t, r) /\ call[t].at = "listing" /\ call[t].op \notin {"build", "prepare"}
    BY <1>7 DEF Found, Listing
  <2> HIDE DEF r
  <2> QED
    BY <2>1, <2>2, <2>3, <2>4, AnsweredFacts
<1>8. CASE Built(t)
  <2> DEFINE r == [call[t] EXCEPT !.inputs = Resolved(t)]
  <2>1. r \in Call
    BY <1>0 DEF Call, Resolved
  <2>2. /\ r.op = call[t].op /\ r.asked = call[t].asked /\ r.pending = call[t].pending
        /\ r.quiet = call[t].quiet /\ r.inputs = Resolved(t)
    BY <1>0 DEF Call
  <2>3. /\ Answered(t, r) /\ call[t].at = "listing" /\ call[t].op = "build"
        /\ call[t].asked \subseteq ListedVtxos(Candidates(t))
    BY <1>8 DEF Built, Listing
  <2> HIDE DEF r
  <2> QED
    BY <2>1, <2>2, <2>3, AnsweredFacts, ResolvedIsLocking DEF LookupInv
<1>9. CASE Prepared(t)
  <2> DEFINE r == [call[t] EXCEPT !.inputs = Resolved(t),
                                  !.output = output_contract(call[t].contract, call[t].info)]
  <2>1. call[t].info \in Info
    BY <1>9 DEF Prepared, Listing, LookupInv, TypeOK, CallOK
  <2>2. r \in Call
    BY <1>0, <2>1 DEF Call, Resolved, output_contract, Info
  <2>3. /\ r.op = call[t].op /\ r.asked = call[t].asked /\ r.pending = call[t].pending
        /\ r.quiet = call[t].quiet /\ r.inputs = Resolved(t)
    BY <1>0 DEF Call
  <2>4. /\ Answered(t, r) /\ call[t].at = "listing" /\ call[t].op = "prepare"
        /\ call[t].asked \subseteq ListedVtxos(Candidates(t))
    BY <1>9 DEF Prepared, Listing
  <2> HIDE DEF r
  <2> QED
    BY <2>2, <2>3, <2>4, AnsweredFacts, ResolvedIsLocking DEF LookupInv
<1>10. CASE Fails(t)
  BY <1>10, IdleFacts, CallKeepsFacts DEF Fails
<1> QED
  BY <1>1, <1>2, <1>3, <1>4, <1>5, <1>6, <1>7, <1>8, <1>9, <1>10

LEMMA LookupInvariant == Spec => []LookupInv
<1>1. Init => LookupInv
  <2> SUFFICES ASSUME Init PROVE \A t \in Tasks : CallFacts(call[t])
    BY InitType DEF LookupInv
  <2> QED
    BY IdleFacts DEF Init
<1>2. LookupInv /\ [Next]_vars => LookupInv'
  <2>1. ASSUME LookupInv, UNCHANGED vars PROVE LookupInv'
    BY <2>1, NextType DEF vars, LookupInv, CallFacts, Gone
  <2> QED
    BY <2>1, NextType, ServerKeepsFacts, ClientKeepsFacts DEF Next, Client, LookupInv
<1> QED
  BY <1>1, <1>2, PTL DEF Spec

\* A status that says "not pending, not spent" was true as a whole when the
\* call began, whatever spends, refreshes, rotations and other calls do
\* between its two reads (get_escrow_vtxo_status).
THEOREM StatusConsistent == Spec => []StatusIsASnapshot
<1>1. LookupInv => StatusIsASnapshot
  BY DEF LookupInv, CallFacts, StatusIsASnapshot
<1> QED
  BY <1>1, LookupInvariant, PTL

\* Whatever is built spends exactly what was asked for, each outpoint by the
\* contract that locks it, across any number of rotations (contract_for_script).
THEOREM BuiltOnLock == Spec => []SpendsWhatLocks
<1>1. LookupInv => SpendsWhatLocks
  BY DEF LookupInv, CallFacts, SpendsWhatLocks
<1> QED
  BY <1>1, LookupInvariant, PTL
-----------------------------------------------------------------------------
(* What lookups miss: nothing, as long as the info they read is not behind  *)
(* the server.  The server may retire signers meanwhile, which only takes   *)
(* from what it lists, but a rotation adds to it, and ends steadiness.      *)

CacheFacts(c) ==
    /\ c.at = "listing" /\ c.current /\ c.steady =>
         c.info.signer = server.signer /\ Listed(server) \subseteq Listed(c.info)
    /\ c.op = "prepare" /\ c.at = "returned" => FormsContract(c.output)

\* Nothing is paid to a contract that cannot be formed.
LocksForm == \A o \in Outpoints : held[o] # "unfunded" => FormsContract(lock[o])

CacheInv == TypeOK /\ LocksForm /\ \A t \in Tasks : CacheFacts(call[t])

LEMMA ServerKeepsCache ==
    ASSUME CacheInv, Server \/ Spender
    PROVE  LocksForm' /\ \A t \in Tasks : CacheFacts(call[t])'
<1>0. /\ \A t \in Tasks : CallOK(call[t]) /\ call[t] \in Call /\ CacheFacts(call[t])
      /\ \A o \in Outpoints : held[o] # "unfunded" => FormsContract(lock[o])
      /\ server \in Info
  BY DEF CacheInv, LocksForm, TypeOK
<1>1. LocksForm'
  <2>1. ASSUME NEW o \in Outpoints, NEW key \in Signers, Fund(o, key) PROVE LocksForm'
    BY <1>0, <2>1 DEF Fund, LocksForm, CacheInv, TypeOK
  <2>2. ASSUME NEW t \in Tasks, NEW o \in Outpoints, Settle(t, o) PROVE LocksForm'
    <3>1. FormsContract(call[t].output)
      BY <1>0, <2>2 DEF Settle, CacheFacts
    <3>2. \A i \in call[t].asked : held[i] # "unfunded"
      BY <2>2 DEF Settle, Settleable
    <3>. QED
      BY <1>0, <2>2, <3>1, <3>2 DEF Settle, LocksForm, CacheInv, TypeOK
  <2>. QED
    BY <1>0, <2>1, <2>2 DEF Server, Spender, Rotate, Retire, Expire, RecordSpend, ClearSpend,
       UpgradeSpend, FinalizeSpend, SpendMoves, AcceptSpend, LocksForm, CacheInv, TypeOK, Unspent
<1>2. ASSUME NEW t \in Tasks PROVE CacheFacts(call[t])'
  <2>1. ASSUME NEW key \in Signers, Rotate(key) PROVE CacheFacts(call[t])'
    <3>1. call'[t] = [call[t] EXCEPT !.steady = FALSE]
      BY <2>1 DEF Rotate
    <3>2. /\ call'[t].steady = FALSE /\ call'[t].at = call[t].at /\ call'[t].op = call[t].op
          /\ call'[t].output = call[t].output
      BY <1>0, <3>1 DEF Call
    <3>. QED
      BY <1>0, <3>2 DEF CacheFacts
  <2>2. ASSUME NEW key \in Signers, Retire(key) PROVE CacheFacts(call[t])'
    <3>1. server'.signer = server.signer /\ Listed(server') \subseteq Listed(server) /\ call' = call
      BY <1>0, <2>2 DEF Retire, Listed, Info
    <3>. QED
      BY <1>0, <3>1 DEF CacheFacts
  <2>3. CASE UNCHANGED <<server, call>>
    BY <1>0, <2>3 DEF CacheFacts
  <2>. QED
    BY <2>1, <2>2, <2>3 DEF Server, Spender, Expire, Fund, Settle, RecordSpend, ClearSpend,
       UpgradeSpend, FinalizeSpend, SpendMoves, AcceptSpend
<1>. QED
  BY <1>1, <1>2

LEMMA CallKeepsCache ==
    ASSUME CacheInv, NEW t \in Tasks, NEW c, CacheFacts(c),
           call' = [call EXCEPT ![t] = c], UNCHANGED <<server, lock, held>>
    PROVE  LocksForm' /\ \A u \in Tasks : CacheFacts(call[u])'
<1>1. ASSUME NEW u \in Tasks PROVE CacheFacts(call'[u])
  BY DEF CacheInv, TypeOK
<1>2. LocksForm'
  BY DEF CacheInv, LocksForm
<1>. QED
  BY <1>1, <1>2 DEF CacheFacts

LEMMA ClientKeepsCache ==
    ASSUME CacheInv, NEW t \in Tasks,
           \/ Connect(t) \/ GetInfo(t) \/ StoreInfo(t)
           \/ Lookup(t) \/ ReadInfo(t) \/ info_refresh_hook(t)
           \/ Found(t) \/ Built(t) \/ Prepared(t) \/ Fails(t)
    PROVE  LocksForm' /\ \A u \in Tasks : CacheFacts(call[u])'
<1>0. /\ call \in [Tasks -> Call] /\ call[t] \in Call /\ CacheFacts(call[t])
      /\ \A u \in Tasks : CacheFacts(call[u])
  BY DEF CacheInv, TypeOK
<1>1. CacheFacts(Idle)
  BY DEF CacheFacts, Idle
<1>3. ASSUME NEW op, NEW at \in {"info", "connecting"}, NEW contract, NEW asked,
             Enter(t, op, at, contract, asked)
      PROVE  LocksForm' /\ \A u \in Tasks : CacheFacts(call[u])'
  <2>. DEFINE c == [Idle EXCEPT !.op = op, !.at = at, !.contract = contract, !.asked = asked,
                     !.pending = op = "status" /\ \E o \in asked : IsPending(stage[o]),
                     !.quiet = asked \subseteq Quiet, !.steady = TRUE]
  <2>1. c.at = at
    BY DEF Idle
  <2>2. call' = [call EXCEPT ![t] = c] /\ UNCHANGED <<server, lock, held>>
    BY <1>3 DEF Enter
  <2>. HIDE DEF c
  <2>. QED
    <3>1. CacheFacts(c)
      BY <1>3, <2>1 DEF CacheFacts
    <3>. QED
      BY <2>2, <3>1, CallKeepsCache
<1>4. CASE Connect(t) \/ Lookup(t)
  BY <1>3, <1>4 DEF Connect, Lookup, Look
<1>5. CASE GetInfo(t)
  <2>. DEFINE c == [call[t] EXCEPT !.at = "storing", !.info = server]
  <2>1. call' = [call EXCEPT ![t] = c] /\ UNCHANGED <<server, lock, held>>
    BY <1>0, <1>5 DEF GetInfo
  <2>2. c.at = "storing"
    BY <1>0 DEF Call
  <2>. HIDE DEF c
  <2>. QED
    <3>1. CacheFacts(c)
      BY <2>1, <2>2 DEF CacheFacts
    <3>. QED
      BY <2>1, <3>1, CallKeepsCache
<1>6. CASE StoreInfo(t) \/ Fails(t)
  BY <1>1, <1>6, CallKeepsCache DEF StoreInfo, Fails
<1>7. CASE ReadInfo(t)
  <2>. DEFINE c == [call[t] EXCEPT !.at = "listing", !.info = server_info,
                                  !.current = server_info = server]
  <2>1. /\ call' = [call EXCEPT ![t] = Idle] \/ call' = [call EXCEPT ![t] = c]
        /\ UNCHANGED <<server, lock, held>>
    BY <1>0, <1>7 DEF ReadInfo
  <2>2. c.at = "listing" /\ c.info = server_info /\ c.current = (server_info = server)
    BY <1>0 DEF Call
  <2>. HIDE DEF c
  <2>3. CacheFacts(c)
    BY <2>2 DEF CacheFacts
  <2>. QED
    BY <1>1, <2>1, <2>3, CallKeepsCache
<1>8. CASE info_refresh_hook(t)
  BY <1>0, <1>8 DEF info_refresh_hook, CacheFacts, CacheInv, LocksForm
<1>9. CASE Found(t) \/ Built(t)
  <2>1. PICK r : Answered(t, r) /\ r.op # "prepare" /\ r \in Call
    <3>1. CASE Found(t)
      <4>. DEFINE r == [call[t] EXCEPT !.found = ListedVtxos(Candidates(t))]
      <4>1. Answered(t, r) /\ call[t].op # "prepare"
        BY <3>1 DEF Found, Listing
      <4>2. r.op = call[t].op /\ r \in Call
        BY <1>0 DEF Call, ListedVtxos
      <4>. HIDE DEF r
      <4>. QED
        BY <4>1, <4>2
    <3>2. CASE Built(t)
      <4>. DEFINE r == [call[t] EXCEPT !.inputs = Resolved(t)]
      <4>1. Answered(t, r) /\ call[t].op # "prepare"
        BY <3>2 DEF Built, Listing
      <4>2. r.op = call[t].op /\ r \in Call
        BY <1>0 DEF Call, Resolved
      <4>. HIDE DEF r
      <4>. QED
        BY <4>1, <4>2
    <3>. QED
      BY <1>9, <3>1, <3>2
  <2>. DEFINE c == [r EXCEPT !.at = "returned", !.info = None]
  <2>2. call' = [call EXCEPT ![t] = c] /\ UNCHANGED <<server, lock, held>>
    BY <2>1 DEF Answered
  <2>3. c.at = "returned" /\ c.op = r.op
    BY <2>1 DEF Call
  <2>. HIDE DEF c
  <2>4. CacheFacts(c)
    BY <2>1, <2>3 DEF CacheFacts
  <2>. QED
    BY <2>2, <2>4, CallKeepsCache
<1>10. CASE Prepared(t)
  <2>. DEFINE output == output_contract(call[t].contract, call[t].info)
              r == [call[t] EXCEPT !.inputs = Resolved(t), !.output = output]
              c == [r EXCEPT !.at = "returned", !.info = None]
  <2>1. FormsContract(output) /\ Answered(t, r)
    BY <1>10 DEF Prepared
  <2>2. call' = [call EXCEPT ![t] = c] /\ UNCHANGED <<server, lock, held>>
    BY <2>1 DEF Answered
  <2>3. c.at = "returned" /\ c.output = output
    BY <1>0 DEF Call
  <2>. HIDE DEF output, c
  <2>4. CacheFacts(c)
    BY <2>1, <2>3 DEF CacheFacts
  <2>. QED
    BY <2>2, <2>4, CallKeepsCache
<1>. QED
  BY <1>4, <1>5, <1>6, <1>7, <1>8, <1>9, <1>10

LEMMA CacheInvariant == Spec => []CacheInv
<1>1. Init => CacheInv
  <2>. SUFFICES ASSUME Init PROVE LocksForm /\ \A t \in Tasks : CacheFacts(call[t])
    BY InitType DEF CacheInv
  <2>. QED
    BY DEF Init, LocksForm, CacheFacts, Idle
<1>2. CacheInv /\ [Next]_vars => CacheInv'
  <2>1. ASSUME CacheInv, UNCHANGED vars PROVE CacheInv'
    BY <2>1, NextType DEF vars, CacheInv, CacheFacts, LocksForm
  <2>. QED
    BY <2>1, NextType, ServerKeepsCache, ClientKeepsCache DEF Next, Client, CacheInv
<1>. QED
  BY <1>1, <1>2, PTL DEF Spec

\* A lookup with a current info misses no unspent VTXO of the escrow, under
\* whatever signer it was funded and whichever of them the caller's contract
\* names, while other callers, spends, refreshes and retirements go on
\* (candidate_contracts, list_candidate_vtxos).
THEOREM NothingMissed == Spec => FindsAll
<1>1. CacheInv /\ [Next]_vars
         => [\A t \in Tasks :
               Found(t) /\ call[t].current /\ call[t].steady =>
                 {o \in Outpoints : Unspent(o) /\ lock[o] \in Listed(server) \cup {call[t].contract}}
                   \subseteq call'[t].found]_vars
  <2>. SUFFICES ASSUME CacheInv, NEW t \in Tasks, Found(t), call[t].current, call[t].steady,
                       NEW o \in Outpoints, Unspent(o),
                       lock[o] \in Listed(server) \cup {call[t].contract}
                PROVE  o \in call'[t].found
    OBVIOUS
  <2>. DEFINE r == [call[t] EXCEPT !.found = ListedVtxos(Candidates(t))]
              c == [r EXCEPT !.at = "returned", !.info = None]
  <2>1. call[t] \in Call /\ call \in [Tasks -> Call] /\ call[t].at = "listing"
    BY DEF CacheInv, TypeOK, Found, Listing
  <2>2. call' = [call EXCEPT ![t] = c]
    BY DEF Found, Answered
  <2>3. c.found = ListedVtxos(Candidates(t))
    BY <2>1 DEF Call
  <2>. HIDE DEF c
  <2>4. call'[t].found = ListedVtxos(Candidates(t))
    BY <2>1, <2>2, <2>3
  <2>5. FormsContract(lock[o])
    BY DEF CacheInv, LocksForm, Unspent
  <2>6. Listed(server) \subseteq Listed(call[t].info)
    BY <2>1 DEF CacheInv, CacheFacts
  <2>. QED
    BY <2>4, <2>5, <2>6 DEF ListedVtxos, Candidates, candidate_contracts
<1>. QED
  BY <1>1, CacheInvariant, PTL DEF Spec, FindsAll

\* A refresh prepared from a current info pays into the escrow of the active
\* signer (prepare_refresh_resolved).
THEOREM RefreshedForActive == Spec => RefreshMovesToActive
<1>1. CacheInv /\ [Next]_vars
         => [\A t \in Tasks :
               Prepared(t) /\ call[t].current /\ call[t].steady =>
                 call'[t].output = server.signer]_vars
  <2>. SUFFICES ASSUME CacheInv, NEW t \in Tasks, Prepared(t), call[t].current, call[t].steady
                PROVE  call'[t].output = server.signer
    OBVIOUS
  <2>. DEFINE output == output_contract(call[t].contract, call[t].info)
              r == [call[t] EXCEPT !.inputs = Resolved(t), !.output = output]
              c == [r EXCEPT !.at = "returned", !.info = None]
  <2>1. call[t] \in Call /\ call \in [Tasks -> Call] /\ call[t].at = "listing"
    BY DEF CacheInv, TypeOK, Prepared, Listing
  <2>2. call' = [call EXCEPT ![t] = c]
    BY DEF Prepared, Answered
  <2>3. c.output = output
    BY <2>1 DEF Call
  <2>. HIDE DEF c
  <2>4. call'[t].output = output
    BY <2>1, <2>2, <2>3
  <2>5. call[t].info.signer = server.signer
    BY <2>1 DEF CacheInv, CacheFacts
  <2>. QED
    BY <2>4, <2>5 DEF output_contract
<1>. QED
  BY <1>1, CacheInvariant, PTL DEF Spec, RefreshMovesToActive
===============================================================================
