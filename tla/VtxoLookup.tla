----------------------------- MODULE VtxoLookup -----------------------------
(***************************************************************************)
(* Finding the VTXOs of an escrow while the Arkade server rotates its      *)
(* signing key (client.rs: connect, server_info, the lookups of unspent    *)
(* VTXOs, the build_*_for_outpoint methods, prepare_refresh).              *)
(*                                                                         *)
(* A contract is written as its server key: the other five options never   *)
(* change between the candidates of one lookup, and contracts that differ  *)
(* in the server key have different scripts and addresses.  All tasks      *)
(* share one EscrowClient, hence one cached server::Info.                  *)
(***************************************************************************)
CONSTANTS
    Signers,        \* the keys the server signs with, now or at some time
    PartyKeys,      \* the keys of seller, buyer and arbiter
    Outpoints,      \* outputs that do or may hold the escrow's money
    SpentOffchain,  \* the outpoints some party tries to spend meanwhile
    Tasks,          \* concurrent callers of the client
    Calls,          \* the calls they make
    None            \* no server::Info, no contract

Info == [signer : Signers, deprecated : SUBSET Signers]

Ops == {"connect", "find", "status", "build", "prepare"}

ASSUME LookupAssumption ==
    /\ SpentOffchain \subseteq Outpoints
    /\ Calls \subseteq Ops
    /\ None \notin Signers \cup Info

VARIABLES
    server,         \* what get_info answers
    retired,        \* signers the server no longer lists
    lock,           \* the contract whose script locks each funded outpoint
    held,           \* what the indexer says of each outpoint
    stage,          \* the stage of the stored spend of each outpoint
    server_info,    \* EscrowClient::server_info
    call            \* the calls in progress and their last results

vars == <<server, retired, lock, held, stage, server_info, call>>

\* committed: the server has accepted a spend of it, and may still list it.
Held == {"unfunded", "spendable", "recoverable", "committed", "spent", "settled"}
Stages == {"none", "submitting", "submitted", "finalized"}
Points == {"idle", "connecting", "storing", "info", "listing", "returned"}

\* found, inputs and output are the results.  current, quiet and steady are
\* history: the cache was current when it was read, the outpoint asked for was
\* quiet, and the signer did not rotate, since the call began.
Call == [op : Ops, at : Points, contract : Signers \cup {None}, asked : SUBSET Outpoints,
         info : Info \cup {None}, current : BOOLEAN, pending : BOOLEAN,
         found : SUBSET Outpoints,
         inputs : SUBSET [outpoint : Outpoints, contract : Signers],
         output : Signers \cup {None}, quiet : BOOLEAN, steady : BOOLEAN]

\* What a call knows at each point of it.
CallOK(c) ==
    /\ c \in Call
    /\ c.at = "storing" => c.info \in Info
    /\ c.at \in {"info", "listing"} => c.contract \in Signers
    /\ c.at = "listing" => c.info \in Info
    /\ c.at = "returned" /\ c.op = "prepare" => c.output \in Signers

TypeOK ==
    /\ server \in Info
    /\ retired \subseteq Signers
    /\ lock \in [Outpoints -> Signers]
    /\ held \in [Outpoints -> Held]
    /\ stage \in [Outpoints -> Stages]
    /\ server_info \in Info \cup {None}
    /\ call \in [Tasks -> Call]
    /\ \A t \in Tasks : CallOK(call[t])

-----------------------------------------------------------------------------
Listed(info) == {info.signer} \cup info.deprecated
EverListed == Listed(server) \cup retired
Unspent(o) == held[o] \in {"spendable", "recoverable", "committed"}
Settleable(o) == held[o] \in {"spendable", "recoverable"}

\* EscrowOptions::validate, for the one key that varies.
FormsContract(key) == key \notin PartyKeys

\* variant: deprecated signers are forgotten.
CurrentCandidates(contract, info) ==
    {key \in {contract, info.signer} : FormsContract(key)}

candidate_contracts(contract, info) ==
    {key \in {contract} \cup Listed(info) : FormsContract(key)}

\* VtxoList::all_unspent, which is spendable_offchain and recoverable together,
\* of what list_vtxos answers for the candidates' addresses.
ListedVtxos(candidates) == {o \in Outpoints : Unspent(o) /\ lock[o] \in candidates}

\* variant: the first contract that can be formed is taken.
AnyCandidate(candidates, o) == candidates

contract_for_script(candidates, o) == {key \in candidates : lock[o] = key}

\* variant: the escrow is refreshed into the contract it was asked with.
SameContract(contract, info) == contract

\* The output of a refresh stays in the escrow's own template and moves to
\* the signer of the info the call read.
output_contract(contract, info) == info.signer

\* variant: a spend counts once the server has answered.
IsSubmitted(s) == s = "submitted"

\* SpendStage other than Finalized.
IsPending(s) == s \in {"submitting", "submitted"}

\* The outpoints that are neither being spent nor spent.
Quiet == {o \in Outpoints : /\ stage[o] \in {"none", "finalized"}
                            /\ held[o] \notin {"spent", "settled"}}

Idle == [op |-> "connect", at |-> "idle", contract |-> None, asked |-> {},
              info |-> None, current |-> FALSE, pending |-> FALSE, found |-> {},
              inputs |-> {}, output |-> None, quiet |-> FALSE, steady |-> FALSE]

Init ==
    \E key \in Signers :
        /\ server = [signer |-> key, deprecated |-> {}]
        /\ retired = {}
        /\ lock = [o \in Outpoints |-> key]
        /\ held = [o \in Outpoints |-> "unfunded"]
        /\ stage = [o \in Outpoints |-> "none"]
        /\ server_info = None
        /\ call = [t \in Tasks |-> Idle]

-----------------------------------------------------------------------------
(* The server: its signers and the VTXOs.                                  *)

Rotate(key) ==
    /\ key \notin EverListed
    /\ server' = [signer |-> key, deprecated |-> Listed(server)]
    /\ call' = [t \in Tasks |-> [call[t] EXCEPT !.steady = FALSE]]
    /\ UNCHANGED <<retired, lock, held, stage, server_info>>

Retire(key) ==
    /\ key \in server.deprecated
    /\ server' = [server EXCEPT !.deprecated = @ \ {key}]
    /\ retired' = retired \cup {key}
    /\ UNCHANGED <<lock, held, stage, server_info, call>>

\* Someone pays an address of the escrow, derived from a signer of some time.
Fund(o, key) ==
    /\ held[o] = "unfunded"
    /\ key \in EverListed /\ FormsContract(key)
    /\ lock' = [lock EXCEPT ![o] = key]
    /\ held' = [held EXCEPT ![o] = "spendable"]
    /\ UNCHANGED <<server, retired, stage, server_info, call>>

Expire(o) ==
    /\ held[o] = "spendable"
    /\ held' = [held EXCEPT ![o] = "recoverable"]
    /\ UNCHANGED <<server, retired, lock, stage, server_info, call>>

\* A prepared refresh is signed and settled in a batch: the inputs are
\* spent, the new VTXO is the escrow's.
Settle(t, o) ==
    /\ call[t].op = "prepare" /\ call[t].at = "returned"
    /\ \A i \in call[t].asked : Settleable(i)
    /\ held[o] = "unfunded"
    /\ held' = [i \in Outpoints |-> CASE i = o -> "spendable"
                                      [] i \in call[t].asked -> "settled"
                                      [] OTHER -> held[i]]
    /\ lock' = [lock EXCEPT ![o] = call[t].output]
    /\ UNCHANGED <<server, retired, stage, server_info, call>>

-----------------------------------------------------------------------------
(* spend_escrow_offchain, as far as lookups can see it: the stored record  *)
(* and the VTXO.  SpendProtocol has the details.                           *)

SpendMoves(o, from, to) ==
    /\ stage[o] = from
    /\ stage' = [stage EXCEPT ![o] = to]
    /\ UNCHANGED <<server, retired, lock, held, server_info, call>>

RecordSpend(o) ==
    o \in SpentOffchain /\ Unspent(o) /\ SpendMoves(o, "none", "submitting")
ClearSpend(o) ==
    held[o] \notin {"committed", "spent"} /\ SpendMoves(o, "submitting", "none")
UpgradeSpend(o) ==
    held[o] \in {"committed", "spent"} /\ SpendMoves(o, "submitting", "submitted")
FinalizeSpend(o) ==
    held[o] = "spent" /\ SpendMoves(o, "submitted", "finalized")

\* The server's side of it: it accepts the submit, and marks the VTXO spent
\* then or later.
AcceptSpend(o) ==
    \/ held[o] = "spendable" /\ stage[o] = "submitting"
       /\ held' = [held EXCEPT ![o] = "committed"]
       /\ UNCHANGED <<server, retired, lock, stage, server_info, call>>
    \/ held[o] = "committed"
       /\ held' = [held EXCEPT ![o] = "spent"]
       /\ UNCHANGED <<server, retired, lock, stage, server_info, call>>

-----------------------------------------------------------------------------
(* The client.                                                             *)

Resting(t) == call[t].at \in {"idle", "returned"}

\* A new call; the results of the last one are forgotten.
Enter(t, op, at, contract, asked) ==
    /\ Resting(t) /\ op \in Calls
    /\ call' = [call EXCEPT ![t] =
                  [Idle EXCEPT !.op = op, !.at = at, !.contract = contract, !.asked = asked,
                     !.pending = op = "status" /\ \E o \in asked : IsPending(stage[o]),
                     !.quiet = asked \subseteq Quiet, !.steady = TRUE]]
    /\ UNCHANGED <<server, retired, lock, held, stage, server_info>>

\* EscrowClient::connect: the answer is taken, and stored, after an await each.
Connect(t) == Enter(t, "connect", "connecting", None, {})

GetInfo(t) ==
    /\ call[t].at = "connecting"
    /\ call' = [call EXCEPT ![t].at = "storing", ![t].info = server]
    /\ UNCHANGED <<server, retired, lock, held, stage, server_info>>

StoreInfo(t) ==
    /\ call[t].at = "storing"
    /\ server_info' = call[t].info
    /\ call' = [call EXCEPT ![t] = Idle]
    /\ UNCHANGED <<server, retired, lock, held, stage>>

\* A lookup is for a contract a party holds, and for outpoints it knows of.
\* get_escrow_vtxo_status reads the stored record here.
Look(t, op, contract, asked) ==
    /\ contract \in EverListed /\ FormsContract(contract)
    /\ \A o \in asked : held[o] # "unfunded"
    /\ Enter(t, op, "info", contract, asked)

Lookup(t) ==
    \E contract \in Signers, o \in Outpoints, asked \in SUBSET Outpoints \ {{}} :
        \/ Look(t, "find", contract, {})
        \/ Look(t, "status", contract, {o})
        \/ Look(t, "build", contract, {o})
        \/ Look(t, "prepare", contract, asked)

\* variant: the lookup does not mind whether there is an info.
NeedsNoInfo == TRUE

Connected == server_info # None

\* list_candidate_vtxos up to its await.
ReadInfo(t) ==
    /\ call[t].at = "info"
    /\ IF ~Connected
       THEN call' = [call EXCEPT ![t] = Idle]
       ELSE call' = [call EXCEPT ![t].at = "listing", ![t].info = server_info,
                                 ![t].current = server_info = server]
    /\ UNCHANGED <<server, retired, lock, held, stage, server_info>>

Candidates(t) == candidate_contracts(call[t].contract, call[t].info)

\* The inputs built from the answer: each outpoint with its own contract.
Resolved(t) ==
    {i \in [outpoint : call[t].asked, contract : Signers] :
        i.contract \in contract_for_script(Candidates(t), i.outpoint)}

Listing(t, ops) == call[t].at = "listing" /\ call[t].op \in ops

Answered(t, result) ==
    /\ call' = [call EXCEPT ![t] = [result EXCEPT !.at = "returned", !.info = None]]
    /\ UNCHANGED <<server, retired, lock, held, stage, server_info>>

\* find_escrow_vtxo_statuses, find_refresh_vtxos, find_escrow_vtxos: all that is
\* unspent.  The lookups that answer with spendable_offchain alone
\* (find_escrow_vtxo, find_spendable_escrow_vtxos and the search by outpoint)
\* are not modelled.
Found(t) ==
    /\ Listing(t, {"find", "status"})
    /\ Answered(t, [call[t] EXCEPT !.found = ListedVtxos(Candidates(t))])

\* build_release_for_outpoint, build_refund_for_outpoint: the outpoint has to be
\* spendable offchain (resolve_spendable_escrow_vtxo).
Built(t) ==
    /\ Listing(t, {"build"})
    /\ \A o \in call[t].asked : o \in ListedVtxos(Candidates(t)) /\ held[o] # "recoverable"
    /\ Answered(t, [call[t] EXCEPT !.inputs = Resolved(t)])

\* prepare_refresh: resolve_refresh_vtxos over all that is unspent, then
\* prepare_refresh_resolved.
Prepared(t) ==
    /\ Listing(t, {"prepare"})
    /\ call[t].asked \subseteq ListedVtxos(Candidates(t))
    /\ LET output == output_contract(call[t].contract, call[t].info) IN
       /\ FormsContract(output)
       /\ Answered(t, [call[t] EXCEPT !.inputs = Resolved(t), !.output = output])

\* An outpoint that is not (or no longer) listed, an output contract that
\* cannot be formed, a network error, a timeout.
Fails(t) ==
    /\ call[t].at \in {"connecting", "listing"}
    /\ call' = [call EXCEPT ![t] = Idle]
    /\ UNCHANGED <<server, retired, lock, held, stage, server_info>>

\* The server's digest gate: ark_grpc fetches the info anew and hands it to
\* the hook of EscrowClient::new, while the lookup's own copy is in use.
info_refresh_hook(t) ==
    /\ call[t].at = "listing"
    /\ call[t].info # server
    /\ server_info' = server
    /\ UNCHANGED <<server, retired, lock, held, stage, call>>

-----------------------------------------------------------------------------
Server ==
    \/ \E key \in Signers : Rotate(key) \/ Retire(key)
    \/ \E o \in Outpoints : Expire(o) \/ \E key \in Signers : Fund(o, key)
    \/ \E t \in Tasks, o \in Outpoints : Settle(t, o)

Spender ==
    \E o \in Outpoints :
        \/ RecordSpend(o) \/ ClearSpend(o) \/ UpgradeSpend(o)
        \/ AcceptSpend(o) \/ FinalizeSpend(o)

Client ==
    \E t \in Tasks :
        \/ Connect(t) \/ GetInfo(t) \/ StoreInfo(t)
        \/ Lookup(t) \/ ReadInfo(t) \/ info_refresh_hook(t)
        \/ Found(t) \/ Built(t) \/ Prepared(t) \/ Fails(t)

Next == Server \/ Spender \/ Client

Spec == Init /\ [][Next]_vars
-----------------------------------------------------------------------------
(* Properties.                                                             *)

\* A lookup of everything unspent misses nothing: if the cache was current when it was read and the
\* signer has not rotated since, every unspent VTXO of the escrow under a
\* signer the server lists, or under the key of the contract at hand, is
\* found, whichever of them the contract at hand names
\* (find_escrow_vtxo_statuses, find_refresh_vtxos over candidate_contracts).
FindsAll ==
    [][\A t \in Tasks :
         Found(t) /\ call[t].current /\ call[t].steady =>
           {o \in Outpoints : Unspent(o) /\ lock[o] \in Listed(server) \cup {call[t].contract}}
             \subseteq call'[t].found]_vars

\* The two halves of get_escrow_vtxo_status fit together: an escrow reported
\* as not pending and still unspent was both when the call began, although
\* the store and the server are read at different times.
StatusIsASnapshot ==
    \A t \in Tasks :
        call[t].op = "status" /\ call[t].at = "returned" /\ ~call[t].pending
            /\ call[t].asked \subseteq call[t].found
          => call[t].quiet

\* A transaction or a refresh is built from outpoints under the contract that
\* locks them, one for each outpoint asked for, however many signers ago
\* they were funded (contract_for_script, build_intent_inputs).
SpendsWhatLocks ==
    \A t \in Tasks :
        call[t].op \in {"build", "prepare"} /\ call[t].at = "returned" =>
          call[t].inputs = {[outpoint |-> o, contract |-> lock[o]] : o \in call[t].asked}

\* A refresh prepared from a current cache moves the escrow to the active
\* signer (prepare_refresh_resolved).
RefreshMovesToActive ==
    [][\A t \in Tasks :
         Prepared(t) /\ call[t].current /\ call[t].steady =>
           call'[t].output = server.signer]_vars

\* "A refresh settles one or more recoverable escrow VTXOs into a single new
\* VTXO at the active-signer escrow address" (refresh.rs), if the signer does
\* not rotate while the refresh is prepared.
RefreshOutputActive ==
    [][\A t \in Tasks :
         Prepared(t) /\ call[t].steady => call'[t].output = server.signer]_vars
=============================================================================
