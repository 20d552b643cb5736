# Verification of the Arkade 2-of-3 escrow

TLA+ specifications, model-checking configurations and TLAPS proofs for the
Rust crate `escrow` and its Ruby binding `ruby-ext`. Paths below are relative
to the repository; `client.rs` is `escrow/src/client.rs`, and so on.

## 1. The system

An escrow output is an Arkade VTXO whose taproot tree lets two of three parties
(buyer, seller, arbiter), together with the Arkade server, spend it offchain.
The crate builds the contract, finds its VTXOs, builds and signs the spending
transactions, submits and finalizes them with the server, and refreshes VTXOs
that can no longer be spent offchain.

| # | Component | Source | State | Operations |
|---|---|---|---|---|
| 1 | Offchain spend protocol | `client.rs:504-862, 1018-1126` | none of its own; a `PendingSpend` in memory per call | `spend_escrow_offchain`, `resume_pending_spend` |
| 2 | Spend store | `spend_store.rs` | one durable record per id, in one directory | `new`, `save`, `load`, `remove`, `remove_if`, `save_if` |
| 3 | Ruby store and client | `ruby-ext/src/lib.rs` | the client behind a mutex, the application's store object | the same calls, `get_escrow_vtxo_status` |
| 4 | Signatures and merging | `spend.rs` | PSBTs | build, sign, merge, verify the server's co-signature |
| 5 | Refresh | `refresh.rs`, `client.rs:357-421` | the intent queued at the server | prepare, sign, execute, delete a stale intent, withdraw |
| 6 | Batch ceremony | `delegate.rs` | step, batch id, tree chunks, nonces of one call | `settle_delegate`'s event loop |
| 7 | VTXO lookup, signer rotation | `client.rs:121-320, 871-1004` | the cached server info | find and resolve VTXOs over current and deprecated signers |
| 8 | Release plan | `lib.rs` | none | `plan_release` |
| 9 | Contract | `contract.rs` | none | leaves, control blocks, addresses |
| 10 | Encodings, binding glue, tooling | various | none | not a subject |

How they interact: the application calls 1 with transactions it built with 8, 9
and 4; 1 keeps its record in 2 (a `FileSpendStore`, or the application's store
through 3), sends `submit` and `finalize` to the server and verifies its
co-signature with 4. When 7 reports recoverable VTXOs the application runs 5,
which runs 6 once or twice against the server's event stream.

What is hard about it: a request whose answer is lost may have been acted on
and may still arrive later; the process can die between any two steps; every
store write may fail before or after it takes effect; two calls may run for one
id although the documentation forbids it; the server queues, runs, fails and
re-queues batches on its own schedule while the client follows an event stream.

What makes each component correct:

1. No release of the parties' checkpoint signatures before the server's
   verified commitment (`docs/protocol.md`, "Security invariant"); a spend the
   server has accepted always has its record; an id stays bound to its
   transaction; `Ok` means finalized; a recorded spend completes.
2. A load returns a whole record; a save that returned `Ok` survives a power
   loss; a write that failed leaves the old record or the new one.
3. The same, whichever of the two forms of `remove_if` the Ruby object offers;
   threads and store callbacks never wait for each other for ever.
4. The merged result carries all signatures; the server key is the leaf's.
5. and 6. `Ok` only for a batch that contains the escrow's intent; the ceremony
   is never broken by events of other batches; a failed attempt does not block
   the next for ever.
7. Every VTXO is found, and spent with the contract it was locked to; a refresh
   pays to the active signer; a status fits together.
8. No amount is lost or created; no output under the dust limit; a quote holds.
9. Exactly the documented signer sets can spend.

## 2. Modules

`SpendProtocol` follows one id: its record, the calls that work on it and the
server's view of the escrow output. Variables and the code they stand for:

| Variable | Code |
|---|---|
| `store` | the record `SpendStore::load` returns |
| `undo` | what a power loss may bring back in its place, after writes whose directory sync failed |
| `pc`, `mem`, `first`, `saved` | where a call is, its `pending`, `first_attempt`, `saved` |
| `want` | the transaction supplied by the caller; `NoTx` for `resume_pending_spend` |
| `answer` | the server's answer to the request in flight |
| `late` | requests whose caller gave up, which may still reach the server |
| `accepted`, `finalized`, `cosigned` | the server's lock on the output, and what it signed |
| `released`, `reported` | history: signatures that left the process, `Ok` results |
| `drawn` | attempt tokens drawn so far; tokens are 1, 2, ..., and 0 is the empty token |

A call is a path through the actions: `SpendFresh`, `PersistSubmitting`,
`SendSubmit`, `HandleSubmit`, then `SubmitRejected` (`Clear`, `ClearWrite`),
`SubmitUnclear` or `SubmitAccepted`, `Merge`, `UpgradeRecord`, `SendFinalize`,
`HandleFinalize`, `FinalizeAccepted` or `FinalizeRefused`,
`MarkFinalizedRecord`, `MarkWrite`, `LastChanceSave`; a call that finds a record
starts with `ResumeFinalized`, `ResumeSubmitted` or `ResumeSubmitting`. Around
them: `Timeout`, `HandleLate`, `LoseLate`, `Crash`, `PowerLoss`, `Restart`,
`Prune`. `StoreFaults` says how a write may fail: without effect (`clean`),
after it took effect (`dirty`), and then either for good or until a power loss
undoes it (`undone`).

PSBTs are reduced to what the code decides by: a transaction is a member of
`Txs`; the server's evidence is absent, invalid, of another transaction or
valid; the checkpoints are absent, foreign or complete. A failed `load` and the
input validation return an error and change nothing, so they are no actions.

`SpendPromise` is what the application may rely on: a binding, a stage, the
server's lock, and how they may move together. `SpendRefinement` maps the
protocol to it. With writes that fail after they took effect the promise has to
allow one more step, `FallBack`, and only then (`FallsBack`).

`EscrowContract` is the contract as operators: `validate`, the six leaves, the
tree of `build_taproot`, and Bitcoin's rules for a leaf. A script is its delay
and its keys; a delay is the three parts of a `Sequence` the code and Bitcoin
look at, and the age of an output is counted in the unit of its delay.

`EscrowSigning` has what the PSBTs of a spend carry, for one contract, one
signer set and one id.

| Variable | Code |
|---|---|
| `contract`, `signer_set` | `EscrowOptions`, `SignerSet` |
| `copies` | each signer's PSBTs of the ark transaction and its checkpoint |
| `at`, `first`, `record` | where the call is, `first_attempt`, the `PendingSpend` |
| `cosigned`, `seen` | what the server's key has signed; party signatures on checkpoints the server got |
| `bent`, `clean`, `proper`, `mixed`, `spends` | history and bounds |

A PSBT is its transaction, the leaf in `tap_scripts` and the entries of
`tap_script_sigs`; a signature is who made it, over which transaction and leaf,
and its sighash type. `Build`, `Sign`, `PassOn` are the parties; a copy may be
altered on its way (`Bent`). `Spend` merges two copies and starts the call with
the checkpoints of any transaction, as the code checks those against each other
only. The server answers with any of `Replies` and `ServerCheckpoints`, and a
record of an older version holds any of `OldRecords`. That `witness_utxo` names
the output really spent is assumed, as the code assumes it. Timeouts, store
failures and overlapping calls are `SpendProtocol`'s; here each save succeeds.

`FileSpendStore` is the file backend at the grain of system calls, over a file
system in which a name or a file's content is only sure to survive a power loss
after its `fsync`. `home` is the store's own directory, which `new` creates and
whose parent nothing syncs; the other variables are the two names of one id and
the inodes they lead to. `DurableRecord` is a record that is written, that may
turn out to be an older one until a write has settled, and that outlives a stop
of the machine; `FileSpendStore` is shown to implement it, and that a save which
returned `Ok` stays is `SavedSurvives`. `SpendProtocol` has the same record as
`store`, what a stop may bring back as `undo`, and each call of the store as one
step, `Write`: `ok` is a `DurableRecord!Write` and its `Settle`, `dirty` with
`undone` a `Write` that has not settled, `clean` neither, and `PowerLoss` is
`Stop`. That the two descriptions agree is by inspection; no refinement between
them is checked. A process that dies inside a write is in `SpendProtocol` a
failed write followed by `Crash` or `PowerLoss`.

`Refresh` follows one refresh of one escrow VTXO, called again and again;
`BatchServer`, which it extends, is the server's side: the queued intent
(`held`), the running batch and its phase, and the event stream.

| Variable | Code |
|---|---|
| `pc` | the request under way or the loop in `settle_delegate`, `execute_refresh`, `refresh_escrow` |
| `retry`, `tries` | the second registration; attempts of `delete_intent` |
| `intent` | `intent_id` |
| `my` | `step`, `batch_id`, the two chunk lists, the number of aggregated nonces; and the batch of the request under way |
| `open`, `stream` | the subscription and its unread events |
| `outcome` | how the last call ended |
| `late` | requests the call gave up on that may still arrive |
| `calm` | history to be: from here on nothing fails (liveness only) |

One action per request and per event handler. Tree signatures are stored by
the code but never read, heartbeats and aggregated nonces only logged: they are
left out. The check that the own cosigner is among the batch's is part of
`Break`, the failures of the ceremony's own bookkeeping. Identifiers of intents
and batches are used again only when nobody holds them.

`RefreshPromise` is what the application may rely on: the VTXO is settled at
most once, `Ok` only if it was, an error either way, every call answers, and
repeated calls settle it in the end. `RefreshRefinement` maps the refresh to it;
a call that still withdraws its intent has not answered yet.

`VtxoLookup` has one client, its cached `server::Info`, several callers and a
server whose signer rotates. A contract is its server key, since nothing else
differs between candidates. `call[t]` holds the local variables of a call across
its await: the copy of the info, then the result. `Connect`, `GetInfo`,
`StoreInfo` are `connect`; `Look` and `ReadInfo` are what runs before the await
of a lookup, `Found`, `Built`, `Prepared` and `Fails` what runs after it;
`info_refresh_hook` is the hook of `EscrowClient::new`. The spends and refreshes
of others are reduced to what a lookup sees of them. `current`, `quiet` and
`steady` are history.

`ReleasePlan` is `plan_release` as an operator, a chain of early returns like
the code, between a quote and the operations that turn a plan into outputs. Sums
and the partition into fees kept and discarded are folds over the fees, with the
width of the machine.

`RubyClient` has the threads of a Ruby program: Ruby's global lock, the mutex
`RbClient::inner`, and for each thread the stack of calls it is in, since a
store callback may call the client again. Both a spend and a status query call
the store: the spend from inside `block_on`, the status query before it takes
the mutex (`looking`).

Each module whose name ends in `Proofs` has the theorems of section 4 about the
module it extends; `SpendSequentialProofs` has those about `SpendProtocol` under
the rule of one call per id.

`MCSpend`, `MCSigning`, `MCFileSpendStore`, `MCRefresh` and `MCVtxoLookup` give
the constants their values. Operators marked "variant" are mutated forms of the
definition that follows them, the errors each property is tested against.

## 3. Runs

Two transactions suffice to tell "this one" from "another one", two calls for
an overlap, and two or three attempts for a retry after a cleared attempt; the
other data sets are finite in the code too. `CHECK_DEADLOCK FALSE` in the spend
runs: with all attempts used and the record pruned the application has nothing
left to do.

| Run | Bounds | Shows |
|---|---|---|
| `spend_sequential` | 1 call at a time, 3 attempts, both write failures, repeated `finalize` accepted | the record and the server agree; nothing is lost, rebound or cleared too early; commitment stored first; a spend whose signatures are recorded completes; the protocol implements `SpendPromise` |
| `spend_concurrent` | 2 calls and 2 transactions (symmetric), 2 attempts, every write failure and power loss, `remove_if` and `save_if` as load, compare, write | safety of funds, honest records and honest `Ok`, and when a record falls back a stage, even when the one-call rule is broken |
| `signing` | 1 spend or 1 old record, 2 transactions (symmetric), 1 altered copy, 4 delays, every choice of the 4 keys up to renaming | exactly the documented signers can spend; signatures leave only after the server's key has signed; the recorded transactions are fully signed |
| `file_store` | 2 records, 4 inodes (the target, the temporary file, an open one and one only the disk still knows), symmetric; the directory there before or not | whole loads, durable saves, `DurableRecord` |
| `refresh` | 2 intents, 2 batches, 2 tree nodes, 2 deletion attempts | `Ok` is honest, other batches do not move the ceremony, it breaks only when the server has moved on; the refresh implements `RefreshPromise`; repeated calls settle the VTXO once nothing fails |
| `lookup_rotation` | 3 signers, one of them a party's key, 2 outpoints, 1 caller, symmetric | from a current cache nothing unspent is missed, inputs have the contract that locks them, refreshes move to the signer |
| `lookup_status` | 1 signer, 2 outpoints (one spent offchain), 2 callers | the status of an escrow is of one moment |
| `release_plan` | 1 or 2 VTXOs, up to 3 fees, amounts of 4 bits, 3 dust limits | outputs add up, no dust, quotes hold, delegation does not cost the buyer |
| `ruby_client` | 2 threads, 2 store calls in a spend, calls nested to depth 3 | no deadlock of the two locks, each method returns |

Why these bounds. The theorems of section 4 cover both forms of `remove_if` and
`save_if`; the runs have the one-step form in `spend_sequential` (one call, so
it makes no difference there) and `shared_token`, the other in
`spend_concurrent` and `dirty_store`. `spend_sequential` leaves out power losses
that undo a failed write, since `AcceptedIsRecorded` is false with them (see
below). The refresh needs the own batch and somebody else's, the own intent and
a stale one, and identifiers are used again once nobody holds them; two nodes
tell "all nonces" from "some". `HasDelete` is TRUE: a refresh without the delete
intent, which the module allows too, is blocked by a stale intent until the
server drops it. A rotation chain of two honest signers with a third key that
cannot form a contract shows current, deprecated, retired and skipped
candidates; `lookup_status` needs no rotation, for the two reads do not depend
on the signer, but it needs a second caller whose refresh settles the outpoint.
In `signing` a second transaction is needed for evidence, signatures and
checkpoints of another one, and one altered copy for each kind of wrong entry in
each place a merge can meet it; the delays are zero, disabled, one block, and
zero units of 512 seconds. `CHECK_DEADLOCK FALSE` there: the one spend ends, and
options that `validate` refuses give no contract at all. Amounts of 4 bits have
both sides of every boundary: dust, dust less one, a fee equal to the escrow,
and with 8 + 8 the width. Depth 3 is a call from a callback of a call from a
callback; deadlock is checked in `ruby_client`. In the lookup runs
`CHECK_DEADLOCK FALSE` allows the end where all signers are used and nobody
calls.

Runs that refute a statement of the documentation:

| Run | What happens |
|---|---|
| `dirty_store` | two writes that fail after taking effect make the last-chance save put a submitted record over the finalized one (`client.rs:787-790`) |
| `shared_token` | a call that resumes a record keeps its token, so a first attempt that is rejected deletes the submitted record the other call wrote (`client.rs:728-730`), although `client.rs:498-499` says the token keeps it from that |
| `stale_refresh` | after a rotation a refresh is prepared from the cached info and pays to the former signer, although `refresh.rs:4-6` says the active one. It holds from a current cache (`RefreshMovesToActive`) |

Seen while modelling and not run, as they are matters of wording or of inputs
that do not occur: a record found at `submitting` is submitted again, where
`client.rs:451` has the call jump to finalization; an accepted submit whose
answer is lost is finalized by no resume, where `spend_store.rs:4-7` asks for
recovery and `client.rs:471-478` concedes the limit; a server list of another
length than the parties' fails the merge after the submit was accepted
(`Merge`, `client.rs:757`), although `client.rs:524-526` has everything that
could make it fail validated before; a save may fail after the rename, the next
call find the record and send its submit without saving it again
(`client.rs:664-698`), and a power loss take the record while the request is
out, although `spend_store.rs:3-6` has a crash after the request recoverable
(with "undone" in its `StoreFaults` TLC refutes `AcceptedIsRecorded` in
`spend_sequential`); in a build without overflow
checks `lib.rs:42` lets fees wrap that add up to 2^64 (`OverflowChecks = FALSE`
makes TLC refute `Conserves`); the fresh path does not check that the
checkpoints are the ark transaction's inputs (`client.rs:527-548`), which a
resume does (`client.rs:643-658`): with another transaction's checkpoints
`CommitmentBeforeRelease` holds only up to `mixed`; a merge keeps what its base
has (`spend.rs:353-357`), so a false entry in the base, or in the server's list,
shadows a party's signature, and the parties' lists are gone after the upgrade
(`PayoutHeld` and `FinalComplete` say which copies they need); `validate`
accepts a delay that is not zero as a word but has zero units
(`contract.rs:59-62`), so that any two parties can leave at once; nothing syncs
the parent of a directory `FileSpendStore::new` has created
(`spend_store.rs:190-195`), so that on a file system that does not do so by
itself a power loss soon after can take the directory and with it a record of
which `spend_store.rs:226-227` says "The record is durable when this returns"
(`SavedSurvives` excepts that loss); and the binding's documentation has
`remove(id)` called after finalization (`ruby-ext/src/lib.rs:347`), which the
code does on a rejection only.

Fairness. Nothing in the client retries by itself, so progress is the
application's: `Fairness` assumes that it keeps calling resume, that a dead
process is restarted, and that server and store, however often they fail or the
deadline passes, succeed again and again (strong fairness of the successful
outcome). Weak fairness covers the steps a running call takes on its own. The
steps before the record reaches the submitted stage need none and get none.
`SubmittedIsFinalized` also assumes that arkd answers a repeated `finalize` with
success (`FinalizeTwice`; it may still answer with an error). Without that the
property fails: if the answer to `finalize` is lost, every retry is refused and
the record stays submitted although the spend is done. The code cannot tell the
two cases apart.

`refresh` assumes weak fairness of the call's own steps, of the deadline, of the
server, and that failures cease at some point (`CalmDown`), which is what
"settles once nothing fails" means. Then requests are answered, the server waits
for a confirmation or a participant it can expect, drops unconfirmed intents,
starts no batch between a registration and its subscription, and the deadline,
longer than a batch, strikes only a call no batch will ever name. The last two
are not in the code's hands: the code registers before it subscribes, so a batch
that starts in between is missed, and then the deadline ends the call. Before
`calm` all of that happens. The deadline is assumed enabled, as it is by default
(`DEFAULT_REFRESH_TIMEOUT`); with `refresh_timeout` off `KeepsRefreshPromise` is
not claimed. An error is no proof that nothing was settled: the model reaches
states where the batch completed and the call fails, and no property denies it.

`ruby_client` assumes that Ruby gives each thread its turn and takes it away
again (strong fairness, its timer), that store code ends, at each depth of
nesting whatever it calls deeper, and weak fairness of the methods; requests end
by their own timeouts. Methods that wait for the mutex are not assumed to get
it.

`AcceptedIsRecorded`, `KeepsPromise` and the other properties of
`spend_sequential` need the documented rule of one call per id; with two calls a
second attempt may overwrite the record of an accepted one. They also need
failed writes whose effect lasts: after a power loss that undoes one the id is
free and the server may hold its transaction. A save after each resume at
`submitting` would close that gap.

## 4. Proofs

For every property of section 3 that is not liveness a theorem says that it
holds for all values of the constants, any number of calls, transactions,
signers, batches, files, threads or fees; the runs check the same on small
instances, and they come first: a formula TLC refutes is not worth a proof. The
proofs use the named `ASSUME`s of the modules, and the hypothesis in the table
where it names one.

| Module | Theorem | Property | Hypothesis |
|---|---|---|---|
| `SpendProtocolProofs` | `TypeCorrect` | `TypeOK` | |
| | `ReleaseNeedsCommitment` | `NoReleaseWithoutCommitment` | |
| | `RecordTrusted` | `RecordNotAheadOfServer` | |
| | `OkTrusted` | `OkMeansFinalized` | |
| | `FallsBackRarely` | `FallsBackOnlyFromFinalized` | |
| `SpendSequentialProofs` | `NothingStranded` | `AcceptedIsRecorded` | `OneCall`, `EffectsLast` |
| | `BindingIsForGood` | `BoundForGood` | `OneCall`, `EffectsLast` |
| | `ClearingIsSafe` | `ClearedOnlyIfFree` | `OneCall`, `EffectsLast` |
| | `EvidenceIsKept` | `EvidenceNeverLost` | `OneCall`, `EffectsLast` |
| | `CommitmentIsFirst` | `CommitmentOnDiskFirst` | `OneCall`, `EffectsLast` |
| | `PromiseIsKept` | `KeepsPromise`, the refinement of `SpendPromise` | `OneCall`, `EffectsLast` |
| `FileSpendStoreProofs` | `TypeCorrect` | `TypeOK` | |
| | `LoadsWholeRecords` | `LoadsWhole` | |
| | `OkIsDurable` | `SavedSurvives` | |
| | `FilesImplementRecord` | `ImplementsRecord`, the refinement of `DurableRecord` | |
| `EscrowSigningProofs` | `OnlyDocumentedSpenders` | `TwoOfThree` | |
| | `TypeCorrect` | `TypeOK` | `NoneApart` |
| | `ServerCommitsFirst` | `CommitmentBeforeRelease` | `NoneApart` |
| | `PayoutIsHeld` | `PayoutHeld` | `NoneApart` |
| | `FinalIsComplete` | `FinalComplete` | `NoneApart` |
| `RefreshProofs` | `TypeCorrect` | `TypeOK` | |
| | `OkIsSettled` | `OkMeansRefreshed` | |
| | `OthersKeptOut` | `OnlyOurBatch` | |
| | `ChecksFailBehind` | `BreaksOnlyBehind` | |
| | `PromiseSafety` | `KeepsRefreshPromise` without its fairness: each step is one of `RefreshPromise` or a stutter | |
| `VtxoLookupProofs` | `TypeCorrect` | `TypeOK` | |
| | `StatusConsistent` | `StatusIsASnapshot` | |
| | `BuiltOnLock` | `SpendsWhatLocks` | |
| | `NothingMissed` | `FindsAll` | |
| | `RefreshedForActive` | `RefreshMovesToActive` | |
| `ReleasePlanProofs` | `NoDust` | `NoDustOutput` | |
| | `QuotesHold` | `QuoteHolds` | |
| | `MoneyIsConserved` | `Conserves` | `SumsFit` |
| | `DelegationIsNoWorse` | `DelegationPaysNoLess` | `SumsFit` |
| `RubyClientProofs` | `TypeCorrect` | `TypeOK` | |
| | `NoRubyHoldsTheLock` | `NoRubyUnderLock` | |

The hypotheses. `OneCall` says that the set of calls has one member, which may
call any number of times: the rule of `client.rs:495-499`. With two members a
second attempt may overwrite the record of an accepted one. `EffectsLast` says
that a power loss does not undo what a failed write did; section 3 shows why it
is needed. `NoneApart` says that `None` is neither a PSBT nor a record,
which the module means by it and TLA+ leaves open. `SumsFit` says that the build
panics on overflow, or that the fees of a release never add up to more than an
amount can hold; `lib.rs:42` needs the one or the other.

The arguments, one module at a time:

**`SpendProtocolProofs`.** The three commitment invariants are not inductive on
their own: a save copies a call's memory to the record, a resume copies it back,
and a finalize is sent from memory. `CommitInv` adds `CallerSound`, which says of
every call's memory what `NotAhead` says of the record, and of the later points
of a call that the memory carries the server's signature or that the spend was
finalized; and `ServerSound`, that the server co-signs only what it has accepted.
The argument rests on the server's side only moving forward (`Forward`): what is
true of the server stays true, so a record or a memory, once right, can be
written at any later time by any call, and what a power loss brings back was
right when it was written (`StoreSound`, over `store` and `undo`). That is why
overlapping calls and lost writes do not harm these properties.
`FallsBackRarely` rests on `TokenInv`. The server signs once, so while a call has
its signatures and has not seen them saved no other call has them so, and a
record or memory that carries them got there by a save of that call that failed
after it took effect: it is that call's record but for the stage (`OneHolder`).
Until a call has saved its first record nothing else, not even what a power loss
may bring back, carries its token (`FreshToken`). A save over a record of the
same token therefore writes the same signatures again, and lowers the stage only
from finalized (`StagesInOrder`); `dirty_store` has such a fall.

**`SpendSequentialProofs`.** `SeqInv` compares, at each point of the only call,
the record to the call's memory (`CallMatchesRecord`): it is absent before the
first save, equal while the submit is out, and from then on equal or without the
signatures whose save failed. With it, as long as a first attempt may
clear its record the server holds nothing (`NothingHeld`), a request that may
still arrive is for the recorded transaction (`LateIsRecorded`), and
`SubmittingHasNoEvidence`. `StepMovesRecord`
then says that each step moves the record in one of six ways (`RecordMove`), from
which the action properties follow, and with the server's side the refinement.

**`FileSpendStoreProofs`.** `FileInv`: every file the target name leads to, or may
lead to after a power loss, or that a reader has open, is whole and on the disk
(`WholeFiles`); the temporary file is none of them (`TmpApart`), which is why
truncating it harms nobody; and at each step of a save the writer has done what
comes before (`WriterProgress`). `OkIsDurable` and the refinement follow.

**`EscrowSigningProofs`.** `OnlyDocumentedSpenders` proves that joining the
lightest nodes loses no script whatever the weights and ends with one node, by
induction on the number of nodes; that the tree therefore commits to exactly the
six leaves; and that under Bitcoin's rules these give the documented signer sets.
For the rest, `SigningInv` says of each copy what its signatures can be, the
altered entry included (`CopiesInv`); of a record at `submitting` that it has the
parties' copies of one checkpoint, of its own ark transaction or of one known to
be another's, with the signatures that unaltered copies bring (`SubmittingInv`,
`CleanInv`); of a later record that whatever its evidence shows of the server's
key the server has signed (`AcceptedInv`); and of the call that it finalizes only
from such a record (`CallInv`). Records of older versions are in it from the start.

**`RefreshProofs`.** The handlers compare few batch identifiers, so that the
properties rest on where the ceremony and the server stand. `AnnouncedInv`
and `ConfirmInv` say what can be ahead before and while the call confirms, and
`CeremonyInv` what can be after it: the confirmation was taken for the batch the
call was announced, and the events ahead in the stream are what the server has said of
that batch since, at each step of the ceremony (`Along`); or it was
taken for a later batch, and then the next event breaks the ceremony or says that
the announced batch failed (`Behind`). `Faithful` gives, for one step, what the
action properties and the refinement need.

**`VtxoLookupProofs`.** `LookupInv`: `TypeOK`, and for every call `CallFacts`. A
status call that saw no pending spend either began when its outpoints were quiet,
or one of them is gone from the listing or will be before the answer, which is
what remains true while others record, clear and complete spends. A call's
inputs, and the outpoints it asks for, are funded, and the lock of a funded
outpoint never changes. Steps that leave a call alone are treated once
(`CallKeepsFacts`). `NothingMissed` and `RefreshedForActive` use `CacheInv`: the
info a call read at a time when the cache was current still has the server's
signer and lists all that the server does, for a server that has not rotated
since only takes signers off its list; and nothing is paid to a contract that
cannot be formed (`LocksForm`), so a candidate that is skipped hides nothing.

**`ReleasePlanProofs`.** Sums over fees are folds with the width of the machine.
The library's induction theorems take an operator as a parameter, which the
provers cannot instantiate; the proofs go by the least counterexample instead
(`LeastNumber`, `UpTo`, from `NatLessThanWellFounded`), once over the
definition of a fold (`FoldExists`, `FoldRuns`), and then for each fold:
`TotalFollows`, `KeptFollows`, `TotalOfConcat`, and `KeptFacts`, that what
`plan_release` keeps and what it discards add up to what it was given, with no
kept fee under the limit. `QuoteInv` ties the quote and the outputs to the same
amounts due. A plan that was made needs no hypothesis for its dust, since the
checks come after the sums.

**`RubyClientProofs`.** `ClientInv`: the thread that holds the mutex has Ruby's lock and
is in native code, between taking the mutex and dropping the guard, which only a
`connect` keeps while it waits; and a `connect` never calls a store. Hence no
Ruby code runs under the mutex.

Model-checked only: liveness, which the proof system does not support
(`SubmittedIsFinalized`, `MethodsReturn`, the fairness part of
`KeepsRefreshPromise`), and that no state deadlocks. The statements that runs
refute have no theorem.

## 5. Not modelled

- More than one id: records are separate files or rows and outputs.
- Overlapping writers of one id in `FileSpendStore`: they share the temporary
  file; the documentation forbids them and promises nothing about them.
  `SpendProtocol` has overlapping calls over a store whose single writes are
  atomic.
- A prune by the application that fails halfway.
- Damage to records at rest other than the two kinds a resume checks for; such a
  record is part of `Init`.
- Partial lists of checkpoints: the resume accepts a stored list that is a part
  of the transaction's inputs (`client.rs:646-658`); lists are complete or not.
- Two refreshes at a time over common inputs: a deletion drops every queued
  intent over an input, another call's too (`refresh.rs:260-261`). `Refresh` has
  one call at a time, and late deletions of a former one.
- Several VTXOs in one ceremony: their forfeits are one request.
- The wrapping of sums in ark-core, to which the outputs of a plan go.
- Amounts and dates in lookups, and the lookups that answer with what is
  spendable offchain alone: `find_escrow_vtxo`, `find_spendable_escrow_vtxos`,
  `find_spendable_escrow_vtxo_by_outpoint`. They share `list_candidate_vtxos` with
  the modelled ones.
- Several checkpoints in one spend, and a copy altered twice.
- The signatures on refresh intents (`sign_refresh`), and the expiry of the
  delete proof after a day (`refresh.rs:21-29`): a refused deletion is a failure
  like any other until failures cease, and the application is assumed to prepare
  the material anew in time.
- The encodings, and the binding's conversions.

## 6. Plan

1. (done) `SpendProtocol`, its promise, the file store, the first proofs.
2. (done) `Refresh` with `BatchServer`; `VtxoLookup` with its first proofs;
   `ReleasePlan`; `RubyClient`.
3. (done) `EscrowContract` and `EscrowSigning`; the promise of the refresh; the
   promise of the spend under every store failure; status queries in `RubyClient`;
   the store's directory in `FileSpendStore`.
4. (done) The proofs of every safety property and of the refinements, but for
   the fairness of `RefreshPromise`.
5. The signing of refresh intents and the age of the delete proof, in `Refresh`.
6. Overlapping saves of one id in `FileSpendStore`, which share the temporary
   file, and a `remove` retried after its directory sync failed.
7. Two refreshes over common inputs, and two `connect`s whose answers are stored
   in the other order.
8. A refinement between `DurableRecord` and the store of `SpendProtocol`.
