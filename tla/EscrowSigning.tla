--------------------------- MODULE EscrowSigning ---------------------------
(***************************************************************************)
(* The signatures of an offchain spend (escrow/src/spend.rs, the spend in  *)
(* escrow/src/client.rs, docs/protocol.md): two parties build, pass on,    *)
(* sign and merge their copies of the ark transaction and its checkpoint,  *)
(* the call submits and finalizes them, and the record keeps what became   *)
(* of them.  The order of saves, answers and failures is the subject of    *)
(* SpendProtocol; this module has what the PSBTs carry.                    *)
(*                                                                         *)
(* Copies come from other programs and may carry a leaf or a signature     *)
(* that is not right; the server may answer anything.                      *)
(***************************************************************************)
EXTENDS EscrowContract

CONSTANTS
    Options,    \* the options the application may ask for
    Txs,        \* ark transactions, each with a checkpoint of its own
    Rogue,      \* a key that is in no contract
    None,       \* no PSBT, no record
    MaxSpends   \* bound: fresh spends

ASSUME OptionsAssumption == Options \subseteq EscrowOptions
ASSUME RogueAssumption == Rogue \notin Keys
ASSUME SpendsAssumption == MaxSpends \in Nat

VARIABLES
    contract,   \* the options of the contract
    signer_set, \* the signer set that spends it
    copies,     \* each signer's copies of both transactions, or None
    bent,       \* whether a copy was altered on its way
    at,         \* where the call is
    first,      \* the call's first_attempt
    record,     \* the PendingSpend, or None
    clean,      \* history: which of the copies given were as they should be
    proper,     \* history: whether the server's checkpoint was as it should be
    mixed,      \* history: checkpoints supplied with another ark transaction
    spends,     \* fresh spends so far
    cosigned,   \* ark transactions the server's key has signed
    seen        \* party signatures on checkpoints that reached the server

setup == <<contract, signer_set>>
signing == <<copies, bent>>
call == <<at, first>>
history == <<clean, proper, mixed, spends>>
server == <<cosigned, seen>>
vars == <<setup, signing, call, record, history, server>>

-----------------------------------------------------------------------------
(* PSBTs with one input.  The leaf is the entry of tap_scripts, sigs is     *)
(* tap_script_sigs, by key and leaf.                                        *)

Signers == {Pair(signer_set)[1], Pair(signer_set)[2]}
SpendLeaf == script(signer_set, contract)

(* A leaf no output commits to, with another key in the last place.         *)
ForeignLeaf == [SpendLeaf EXCEPT !.keys[3] = Rogue]

Ark(t) == [kind |-> "ark", of |-> t]
Checkpoint(t) == [kind |-> "checkpoint", of |-> t]

Psbt(tx, leaf) == [tx |-> tx, leaf |-> leaf, sigs |-> [s \in {} |-> None]]
Unsigned(tx) == Psbt(tx, SpendLeaf)

(* A signature by a key over a transaction and a leaf, and the sighash type *)
(* its entry names.                                                         *)
Sig(key, psbt, type) == [by |-> key, tx |-> psbt.tx, leaf |-> psbt.leaf, type |-> type]

Put(psbt, key, sig) ==
    [psbt EXCEPT !.sigs =
        [s \in DOMAIN psbt.sigs \cup {<<key, psbt.leaf>>} |->
            IF s = <<key, psbt.leaf>> THEN sig ELSE psbt.sigs[s]]]

(* sign_ark_tx, sign_checkpoint: over the leaf the PSBT names.              *)
sign(psbt, key) == Put(psbt, key, Sig(key, psbt, "Default"))

Entry(psbt, key) == psbt.sigs[<<key, psbt.leaf>>]
HasEntry(psbt, key) == <<key, psbt.leaf>> \in DOMAIN psbt.sigs

(* verify_schnorr over the Default sighash of psbt.                         *)
Verifies(sig, key, psbt) == sig.by = key /\ sig.tx = psbt.tx /\ sig.leaf = psbt.leaf

HasSig(psbt, key) ==
    /\ HasEntry(psbt, key)
    /\ Entry(psbt, key).type = "Default"
    /\ Verifies(Entry(psbt, key), key, psbt)

PartyKeys == {contract.keys[p] : p \in Signers}
ServerKey == contract.keys["server"]

(* The PSBT opens the output it spends.                                     *)
Complete(psbt) ==
    psbt # None /\ psbt.leaf = SpendLeaf /\ \A i \in 1 .. 3 : HasSig(psbt, SpendLeaf.keys[i])

(* What the server learns from a checkpoint.                                *)
PartySigs(psbt) ==
    {[key |-> k, of |-> psbt.tx.of] : k \in {k \in PartyKeys : HasSig(psbt, k)}}

-----------------------------------------------------------------------------
(* Merging and verifying.                                                   *)

(* merge_ark_tx_sigs: what the base has stays.  It fails on copies of       *)
(* different transactions.                                                  *)
Mergeable(base, other) == base.tx = other.tx
merge_ark_tx_sigs(base, other) ==
    [base EXCEPT !.sigs =
        [s \in DOMAIN base.sigs \cup DOMAIN other.sigs |->
            IF s \in DOMAIN base.sigs THEN base.sigs[s] ELSE other.sigs[s]]]

(* escrow_leaf_server_key.                                                  *)
LeafServerKey(psbt) == psbt.leaf.keys[3]

(* variant: any leaf with three keys will do.                               *)
AnyLeaf(psbt) == TRUE

(* verify_leaf_commitment.                                                  *)
LeafCommitted(psbt) == psbt.leaf = SpendLeaf

verify_server_ark_tx_sig(local, reply) ==
    LET key == LeafServerKey(local)
        slot == <<key, local.leaf>>
    IN /\ reply.tx = local.tx
       /\ Len(local.leaf.keys) = 3
       /\ LeafCommitted(local)
       /\ slot \in DOMAIN reply.sigs
       /\ reply.sigs[slot].type = "Default"
       /\ Verifies(reply.sigs[slot], key, local)

(* variant: the server's copy is kept.                                      *)
ServersCopy(local, reply) == reply

(* The local copy with the verified signature and nothing else of the reply. *)
Canonical(local, reply) ==
    LET key == LeafServerKey(local)
    IN Put(local, key, reply.sigs[<<key, local.leaf>>])

(* variant: only the first party's list is merged.                          *)
FirstPartyOnly(cp, party) == merge_ark_tx_sigs(cp, party[Pair(signer_set)[1]])

(* merge_all_checkpoint_sigs: the server's copy is the base.                *)
merge_all_checkpoint_sigs(cp, party) ==
    merge_ark_tx_sigs(
        merge_ark_tx_sigs(cp, party[Pair(signer_set)[1]]), party[Pair(signer_set)[2]])

-----------------------------------------------------------------------------
(* The record.                                                              *)

NewRecord(ark, unsigned, party) ==
    [stage |-> "Submitting", tx |-> ark.tx, ark |-> ark, unsigned |-> unsigned,
     party |-> party, evidence |-> None, final |-> None]

(* variant: the stage is not set.                                           *)
SameStage(rec, reply, cp) ==
    [rec EXCEPT !.evidence = Canonical(rec.ark, reply),
                !.final = merge_all_checkpoint_sigs(cp, rec.party)]

Upgraded(rec, reply, cp) ==
    [rec EXCEPT !.stage = "Submitted",
                !.evidence = Canonical(rec.ark, reply),
                !.final = merge_all_checkpoint_sigs(cp, rec.party),
                !.ark = None, !.unsigned = None, !.party = None]

(* A record of an older version: the checkpoints are merged, the evidence   *)
(* is missing or was damaged since.                                         *)
OldEvidence(t) ==
    LET parties == sign(sign(Unsigned(Ark(t)), SpendLeaf.keys[1]), SpendLeaf.keys[2])
        foreign == Psbt(Ark(t), ForeignLeaf)
    IN {None, parties,
        Put(parties, ServerKey, Sig(Rogue, parties, "Default")),
        Put(parties, ServerKey, Sig(ServerKey, parties, "All")),
        sign(foreign, Rogue), sign(foreign, ServerKey)}
         \cup {sign(parties, ServerKey)}

OldRecords ==
    {[stage |-> "Submitted", tx |-> Ark(t), ark |-> None, unsigned |-> None,
      party |-> None, evidence |-> e,
      final |-> sign(sign(sign(Unsigned(Checkpoint(u)), SpendLeaf.keys[1]),
                          SpendLeaf.keys[2]), ServerKey)] :
        t \in Txs, u \in Txs, e \in UNION {OldEvidence(v) : v \in Txs}}

(* What the server's key has signed to make the reply.                      *)
ServerSigned(psbt) ==
    IF psbt = None THEN {}
    ELSE {s.tx.of : s \in {psbt.sigs[k] : k \in DOMAIN psbt.sigs}
                       \cap [by : {ServerKey}, tx : {Ark(t) : t \in Txs},
                             leaf : {SpendLeaf}, type : {"Default", "All"}]}

-----------------------------------------------------------------------------
Init ==
    /\ contract \in Options /\ validate(contract)
    /\ signer_set \in SignerSets
    /\ copies = [p \in Parties |-> None] /\ bent = FALSE
    /\ at = "idle" /\ first = FALSE
    /\ record \in OldRecords \cup {None}
    /\ clean = {} /\ proper = FALSE /\ mixed = {}
    /\ spends = IF record = None THEN 0 ELSE 1
    /\ cosigned = IF record = None THEN {} ELSE ServerSigned(record.evidence)
    /\ seen = {}

-----------------------------------------------------------------------------
(* The parties.                                                             *)

Gathering == at = "idle" /\ record = None /\ spends < MaxSpends

(* build_release_tx, build_refund_tx.                                       *)
Build(p, t) ==
    /\ Gathering
    /\ copies' = [copies EXCEPT
          ![p] = [ark |-> Unsigned(Ark(t)), checkpoint |-> Unsigned(Checkpoint(t))]]
    /\ UNCHANGED <<setup, bent, call, record, history, server>>

(* A copy comes back with another leaf, or with an entry under a contract   *)
(* key that is no signature.                                                *)
Bent(psbt) ==
    {[psbt EXCEPT !.leaf = ForeignLeaf]}
        \cup {Put(psbt, k, Sig(Rogue, psbt, "Default")) : k \in PartyKeys \cup {ServerKey}}

PassOn(p, q) ==
    /\ Gathering
    /\ copies[p] # None
    /\ \/ copies' = [copies EXCEPT ![q] = copies[p]] /\ UNCHANGED bent
       \/ /\ ~bent /\ bent' = TRUE
          /\ \/ \E c \in Bent(copies[p].ark) :
                   copies' = [copies EXCEPT ![q] = [copies[p] EXCEPT !.ark = c]]
             \/ \E c \in Bent(copies[p].checkpoint) :
                   copies' = [copies EXCEPT ![q] = [copies[p] EXCEPT !.checkpoint = c]]
    /\ UNCHANGED <<setup, call, record, history, server>>

(* sign_ark_tx, sign_checkpoint.                                            *)
Sign(p) ==
    /\ Gathering
    /\ copies[p] # None
    /\ copies' = [copies EXCEPT
          ![p] = [ark |-> sign(@.ark, contract.keys[p]),
                  checkpoint |-> sign(@.checkpoint, contract.keys[p])]]
    /\ UNCHANGED <<setup, bent, call, record, history, server>>

-----------------------------------------------------------------------------
(* The call.                                                                *)

(* Every copy names the leaf of the contract and carries its party's        *)
(* signature and no entry that is not one.                                  *)
Clean(part) ==
    \A p \in Signers :
        /\ copies[p][part].leaf = SpendLeaf
        /\ HasSig(copies[p][part], contract.keys[p])
        /\ \A s \in DOMAIN copies[p][part].sigs :
               Verifies(copies[p][part].sigs[s], s[1], copies[p][part])

(* merge_ark_tx_sigs on the copies, then spend_escrow_offchain with the     *)
(* checkpoints of u; it checks the parties' checkpoints against those.      *)
Spend(base, other, u) ==
    /\ Gathering
    /\ copies[base] # None /\ copies[other] # None
    /\ Mergeable(copies[base].ark, copies[other].ark)
    /\ \A p \in Signers : copies[p].checkpoint.tx = Checkpoint(u)
    /\ record' = NewRecord(merge_ark_tx_sigs(copies[base].ark, copies[other].ark),
                           Unsigned(Checkpoint(u)),
                           [p \in Signers |-> copies[p].checkpoint])
    /\ at' = "submit" /\ first' = TRUE
    /\ clean' = {part \in {"ark", "checkpoint"} : Clean(part)}
    /\ mixed' = IF copies[base].ark.tx = Ark(u) THEN mixed ELSE mixed \cup {u}
    /\ spends' = spends + 1
    /\ copies' = [p \in Parties |-> None] /\ bent' = FALSE
    /\ UNCHANGED <<setup, proper, server>>

(* resume_recorded.                                                         *)
ResumeSubmitting ==
    /\ at = "idle" /\ record # None /\ record.stage = "Submitting"
    /\ at' = "submit" /\ first' = FALSE
    /\ UNCHANGED <<setup, signing, record, history, server>>

EvidenceHolds(rec) ==
    /\ rec.evidence # None
    /\ rec.evidence.tx = rec.tx
    /\ verify_server_ark_tx_sig(rec.evidence, rec.evidence)

ResumeSubmitted ==
    /\ at = "idle" /\ record # None /\ record.stage = "Submitted"
    /\ EvidenceHolds(record)
    /\ record.evidence.tx = Ark(record.final.tx.of)
    /\ at' = "finalize" /\ first' = FALSE
    /\ UNCHANGED <<setup, signing, record, history, server>>

SendSubmit ==
    /\ at = "submit"
    /\ seen' = seen \cup PartySigs(record.unsigned)
    /\ at' = "sent"
    /\ UNCHANGED <<setup, signing, first, record, history, cosigned>>

(* The server rejects the transaction.                                      *)
SubmitRejected ==
    /\ at = "sent"
    /\ record' = IF first THEN None ELSE record
    /\ at' = "idle" /\ first' = FALSE
    /\ UNCHANGED <<setup, signing, history, server>>

(* Replies: nothing signed, or one entry, whoever made it over whatever.    *)
Replies ==
    {Unsigned(Ark(u)) : u \in Txs}
        \cup {[tx |-> Ark(u), leaf |-> SpendLeaf, sigs |-> [s \in {<<k, l>>} |-> sig]] :
                u \in Txs, k \in {ServerKey, Rogue}, l \in {SpendLeaf, ForeignLeaf},
                sig \in [by : {ServerKey, Rogue}, tx : {Ark(t) : t \in Txs},
                         leaf : {SpendLeaf, ForeignLeaf}, type : {"Default", "All"}]}

ServerCheckpoints ==
    {sign(cp, k) : k \in {ServerKey, Rogue},
        cp \in UNION {{Unsigned(Checkpoint(u))} \cup Bent(Unsigned(Checkpoint(u))) : u \in Txs}}

(* An answer that is lost or does not verify, or whose checkpoints cannot   *)
(* be merged, leaves the record as it is.                                   *)
SubmitUnclear(reply) ==
    /\ at = "sent"
    /\ cosigned' = cosigned \cup ServerSigned(reply)
    /\ at' = "idle" /\ first' = FALSE
    /\ UNCHANGED <<setup, signing, record, history, seen>>

SubmitAccepted(reply) ==
    /\ at = "sent"
    /\ verify_server_ark_tx_sig(record.ark, reply)
    /\ cosigned' = cosigned \cup ServerSigned(reply)
    /\ \E cp \in ServerCheckpoints :
          /\ \A p \in Signers : Mergeable(cp, record.party[p])
          /\ record' = Upgraded(record, reply, cp)
          /\ proper' = (cp = sign(Unsigned(cp.tx), ServerKey))
    /\ at' = "finalize"
    /\ UNCHANGED <<setup, signing, first, clean, mixed, spends, seen>>

(* finalize_and_record; the answer may be an error or lost.                 *)
Finalize ==
    /\ at = "finalize"
    /\ seen' = seen \cup PartySigs(record.final)
    /\ \/ record' = [record EXCEPT !.stage = "Finalized"]
       \/ UNCHANGED record
    /\ at' = "idle" /\ first' = FALSE
    /\ UNCHANGED <<setup, signing, history, cosigned>>

Crash ==
    /\ at # "idle"
    /\ at' = "idle" /\ first' = FALSE
    /\ UNCHANGED <<setup, signing, record, history, server>>

(* The application removes a finalized record.                              *)
Prune ==
    /\ at = "idle" /\ record # None /\ record.stage = "Finalized"
    /\ record' = None
    /\ UNCHANGED <<setup, signing, call, history, server>>

Next ==
    \/ \E p \in Signers : (\E t \in Txs : Build(p, t)) \/ Sign(p)
    \/ \E p, q \in Signers : p # q /\ PassOn(p, q)
    \/ \E p, q \in Signers, u \in Txs : p # q /\ Spend(p, q, u)
    \/ ResumeSubmitting \/ ResumeSubmitted
    \/ SendSubmit \/ SubmitRejected
    \/ \E reply \in Replies : SubmitUnclear(reply) \/ SubmitAccepted(reply)
    \/ Finalize \/ Crash \/ Prune

Spec == Init /\ [][Next]_vars

-----------------------------------------------------------------------------
(* Properties.                                                             *)

IsPsbt(psbt) ==
    /\ psbt.tx \in {Ark(t) : t \in Txs} \cup {Checkpoint(t) : t \in Txs}
    /\ psbt.leaf \in {SpendLeaf, ForeignLeaf}
    /\ DOMAIN psbt.sigs \subseteq (Keys \cup {Rogue}) \X {SpendLeaf, ForeignLeaf}

OptPsbt(psbt) == psbt # None => IsPsbt(psbt)

(* Types, and the parts a record has at each stage.                         *)
TypeOK ==
    /\ contract \in EscrowOptions /\ signer_set \in SignerSets
    /\ at \in {"idle", "submit", "sent", "finalize"}
    /\ \A p \in Parties : copies[p] # None => IsPsbt(copies[p].ark) /\ IsPsbt(copies[p].checkpoint)
    /\ record # None =>
          /\ record.stage \in {"Submitting", "Submitted", "Finalized"}
          /\ OptPsbt(record.ark) /\ OptPsbt(record.evidence) /\ OptPsbt(record.final)
          /\ (record.stage = "Submitting") = (record.final = None)
    /\ at \in {"submit", "sent"} => record # None /\ record.stage = "Submitting"
    /\ at = "finalize" => record # None /\ record.stage = "Submitted"
    /\ cosigned \subseteq Txs /\ mixed \subseteq Txs
    /\ seen \subseteq [key : Keys, of : Txs]

(* Exactly the documented signers can spend: with the server any two of the *)
(* three parties at once, without it any two of them once the delay is over, *)
(* and nobody else at any time (docs/protocol.md; contract.rs:9-12).        *)
TwoOfThree ==
    LET leaves == Committed(contract)
    IN \A roles \in SUBSET Roles, age \in 0 .. MaxDelay :
          CanSpend(leaves, {contract.keys[r] : r \in roles}, age)
              <=> /\ Cardinality(roles \cap Parties) >= 2
                  /\ "server" \in roles \/ age >= contract.unilateral_exit_delay.value

(* A party's signature on a checkpoint reaches the server only after the    *)
(* server's own key has signed the ark transaction that spends it, whatever *)
(* leaf, signature or transaction copies and replies carry and whatever an  *)
(* old record holds, unless the application supplied that checkpoint with   *)
(* another transaction (docs/protocol.md, "Security invariant").            *)
CommitmentBeforeRelease == \A s \in seen : s.of \in cosigned \cup mixed

(* From the moment the record shows the submit accepted, the parties hold   *)
(* an ark transaction that is fully signed, so that the payout does not     *)
(* depend on the server any more (spend_store.rs:40-43, spend.rs:223-239).  *)
PayoutHeld ==
    record # None /\ record.stage # "Submitting" /\ "ark" \in clean
        => Complete(record.evidence)

(* The checkpoint a finalize sends is fully signed, when the server's copy  *)
(* was (client.rs:1101-1104).                                               *)
FinalComplete ==
    record # None /\ record.stage # "Submitting" /\ "checkpoint" \in clean /\ proper
        => Complete(record.final)
=============================================================================
