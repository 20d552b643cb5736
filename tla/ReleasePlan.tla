---------------------------- MODULE ReleasePlan ----------------------------
(***************************************************************************)
(* What a release pays: plan_release (lib.rs) and the three operations     *)
(* that turn a plan into outputs, build_release_tx and build_refund_tx     *)
(* (spend.rs) and prepare_release_delegate (delegate.rs), after a quote    *)
(* the caller got earlier (RbClient::quote_release).  Amounts have the     *)
(* width of the program's: they are below AmountLimit, and sums wrap or    *)
(* panic there as the build has it.                                        *)
(***************************************************************************)
EXTENDS Naturals, Sequences, SequencesExt

CONSTANTS
    AmountLimit,    \* 2^64 in the program
    OverflowChecks, \* whether the build panics on overflow or wraps
    VtxoAmounts,    \* the amounts an escrow VTXO may have
    FeeAmounts,     \* the amounts a fee output may ask for
    Dusts,          \* the dust limits the server may announce
    MaxFees         \* bound: fee outputs of one release

ASSUME AmountsAssumption ==
    /\ AmountLimit \in Nat \ {0}
    /\ OverflowChecks \in BOOLEAN
    /\ MaxFees \in Nat
    /\ VtxoAmounts \cup FeeAmounts \cup Dusts \subseteq 0 .. AmountLimit - 1
    \* VTXOs hold money there is: far less than 2^64 satoshis.  Fees are asked.
    /\ \A a, b \in VtxoAmounts : a + b < AmountLimit

VARIABLES
    vtxos,          \* the amounts of the escrow's VTXOs
    fee_outputs,    \* the fees the parties have agreed on so far
    dust,           \* info.dust in the client's cache
    quote,          \* the last quote for these fees
    built           \* the last outputs built for these fees

vars == <<vtxos, fee_outputs, dust, quote, built>>

Modes == {"Offchain", "Delegate"}
Nothing == [op |-> "none"]

-----------------------------------------------------------------------------
(* Arithmetic and the plan.                                                *)

Total(amounts) == FoldLeft(LAMBDA a, b : a + b, 0, amounts)

\* The sum of Amounts, which are u64, where it does not panic.
AmountSum(amounts) == Total(amounts) % AmountLimit

Panics(amounts) == OverflowChecks /\ Total(amounts) >= AmountLimit

\* variant: an output one below the limit is kept.
IsSubDustByTwo(amount, limit) == amount + 1 < limit

IsSubDust(amount, limit) == amount < limit

\* The partition of the fees of a delegation, one fee after the other.
Discarded(fees, mode, limit) ==
    IF mode = "Offchain" THEN <<>>
    ELSE FoldLeft(LAMBDA out, a : IF IsSubDust(a, limit) THEN Append(out, a) ELSE out,
                  <<>>, fees)

Kept(fees, limit) ==
    FoldLeft(LAMBDA kept, a : IF IsSubDust(a, limit) THEN kept ELSE Append(kept, a),
             <<>>, fees)

\* variant: sub-dust fee outputs are left out of every release.
EffectiveInEveryMode(fees, mode, limit) == Kept(fees, limit)

\* variant: sub-dust fee outputs are raised to the limit.
EffectiveRaised(fees, mode, limit) ==
    [i \in DOMAIN fees |-> IF mode = "Delegate" /\ fees[i] < limit THEN limit ELSE fees[i]]

Effective(fees, mode, limit) == IF mode = "Offchain" THEN fees ELSE Kept(fees, limit)

\* variant: the buyer pays for the discarded fee outputs as well.
ChargedAll(fees, mode, limit) == fees

Charged(fees, mode, limit) == Effective(fees, mode, limit)

Refused(why) == [res |-> why]

\* ReleasePlan, or why there is none.
plan_release(total, fees, mode, limit) ==
    LET fee == AmountSum(Charged(fees, mode, limit)) IN
    IF Panics(Charged(fees, mode, limit)) THEN Refused("overflow")
    ELSE IF fee > total THEN Refused("fee exceeds amount")
    ELSE IF total - fee < limit THEN Refused("dust exceeds payout")
    ELSE [res |-> "ok", buyer_amount |-> total - fee,
          effective |-> Effective(fees, mode, limit),
          discarded |-> Discarded(fees, mode, limit)]

Planned(plan) == plan.res = "ok"

\* What a release in either mode spends: one VTXO, or all of them.
Spent(mode) == IF mode = "Offchain" THEN <<Head(vtxos)>> ELSE vtxos

Plan(mode) == plan_release(AmountSum(Spent(mode)), fee_outputs, mode, dust)

-----------------------------------------------------------------------------
Init ==
    /\ vtxos \in {<<a>> : a \in VtxoAmounts} \cup {<<a, b>> : a, b \in VtxoAmounts}
    /\ fee_outputs = <<>>
    /\ dust \in Dusts
    /\ quote = Nothing
    /\ built = Nothing

\* Another fee output; what was quoted and built before is void.
AddFee(amount) ==
    /\ Len(fee_outputs) < MaxFees
    /\ fee_outputs' = Append(fee_outputs, amount)
    /\ quote' = Nothing
    /\ built' = Nothing
    /\ UNCHANGED <<vtxos, dust>>

\* The client's info is fetched again, from a server that was reconfigured.
ChangeDust(limit) ==
    /\ limit # dust
    /\ dust' = limit
    /\ UNCHANGED <<vtxos, fee_outputs, quote, built>>

quote_release(mode) ==
    /\ quote' = [op |-> mode, plan |-> Plan(mode)]
    /\ UNCHANGED <<vtxos, fee_outputs, dust, built>>

\* The outputs of a plan: the buyer's first, then one for each fee.
Release(mode) ==
    /\ Planned(Plan(mode))
    /\ built' = [op |-> mode, limit |-> dust, spent |-> Total(Spent(mode)),
                 outputs |-> <<Plan(mode).buyer_amount>> \o Plan(mode).effective]
    /\ UNCHANGED <<vtxos, fee_outputs, dust, quote>>

build_release_tx == Release("Offchain")
prepare_release_delegate == Release("Delegate")

build_refund_tx ==
    /\ built' = [op |-> "Refund", limit |-> dust, spent |-> Head(vtxos),
                 outputs |-> <<Head(vtxos)>>]
    /\ UNCHANGED <<vtxos, fee_outputs, dust, quote>>

Next ==
    \/ \E amount \in FeeAmounts : AddFee(amount)
    \/ \E limit \in Dusts : ChangeDust(limit)
    \/ \E mode \in Modes : quote_release(mode)
    \/ build_release_tx \/ prepare_release_delegate \/ build_refund_tx

Spec == Init /\ [][Next]_vars

-----------------------------------------------------------------------------
(* Properties.                                                             *)

\* The outputs pay out exactly what the inputs hold, "escrow amount minus
\* fee" to the buyer and the rest to the fees (plan_release and its callers).
Conserves ==
    built # Nothing => Total(built.outputs) = built.spent

\* A settlement has no output below the dust limit it was prepared with, the
\* buyer's included, and an offchain release none to the buyer.
NoDustOutput ==
    built.op \in Modes =>
      \A i \in DOMAIN built.outputs :
        i = 1 \/ built.op = "Delegate" => built.outputs[i] >= built.limit

\* A quote for an offchain release is what the release then pays, fee by fee,
\* although the dust limit may have changed in between.
QuoteHolds ==
    built.op = "Offchain" /\ quote.op = "Offchain" /\ Planned(quote.plan) =>
      built.outputs = <<quote.plan.buyer_amount>> \o quote.plan.effective

\* Leaving sub-dust fees out is to the buyer's benefit: a single VTXO that can
\* be released offchain can be released by delegation, for no less.
DelegationPaysNoLess ==
    Len(vtxos) = 1 /\ Planned(Plan("Offchain")) =>
      Planned(Plan("Delegate")) /\ Plan("Delegate").buyer_amount >= Plan("Offchain").buyer_amount
=============================================================================
