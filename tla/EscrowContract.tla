--------------------------- MODULE EscrowContract ---------------------------
(***************************************************************************)
(* The contract an escrow output is locked to (escrow/src/contract.rs): its *)
(* options, the rules they must keep, the leaf scripts and the tree.        *)
(* Operators only; a script is the delay it asks for and the keys it checks *)
(* in order.                                                                *)
(***************************************************************************)
EXTENDS Naturals, Sequences, FiniteSets

CONSTANTS
    Keys,       \* public keys
    NoDelay,    \* a script without a delay
    MaxDelay    \* bound: the lock value of a delay

ASSUME DelayAssumption == MaxDelay \in Nat

Parties == {"seller", "buyer", "arbiter"}
Roles == Parties \cup {"server"}

(* bitcoin::Sequence: the flag that disables the relative lock, the flag    *)
(* for units of 512 seconds, and the lock value.                            *)
Delays == [disabled : BOOLEAN, seconds : BOOLEAN, value : 0 .. MaxDelay]

ASSUME NoDelayAssumption == NoDelay \notin Delays

EscrowOptions == [keys : [Roles -> Keys], unilateral_exit_delay : Delays]

Leaf(delay, keys) == [delay |-> delay, keys |-> keys]

-----------------------------------------------------------------------------
(* Sequence::to_consensus_u32 () = 0.                                       *)
IsZero(delay) == ~delay.disabled /\ ~delay.seconds /\ delay.value = 0

DistinctKeys(o) == \A r, s \in Roles : r # s => o.keys[r] # o.keys[s]

(* variant: the disable flag is not looked at.                              *)
NonZeroDelay(o) == ~IsZero(o.unilateral_exit_delay)

RelativeDelay(o) ==
    ~IsZero(o.unilateral_exit_delay) /\ ~o.unilateral_exit_delay.disabled

validate(o) == DistinctKeys(o) /\ RelativeDelay(o)

collaborative_3of3(o, p, q) ==
    Leaf(NoDelay, <<o.keys[p], o.keys[q], o.keys["server"]>>)

unilateral_2of2(o, p, q) ==
    Leaf(o.unilateral_exit_delay, <<o.keys[p], o.keys[q]>>)

SignerSets == {"BuyerArbiter", "SellerArbiter", "SellerBuyer"}

Pair(set) == CASE set = "BuyerArbiter" -> <<"buyer", "arbiter">>
               [] set = "SellerArbiter" -> <<"seller", "arbiter">>
               [] set = "SellerBuyer" -> <<"seller", "buyer">>

(* SignerSet::script.                                                       *)
script(set, o) == collaborative_3of3(o, Pair(set)[1], Pair(set)[2])

tapscripts(o) ==
    {script(set, o) : set \in SignerSets}
        \cup {unilateral_2of2(o, Pair(set)[1], Pair(set)[2]) : set \in SignerSets}

-----------------------------------------------------------------------------
(* The tree.  A node has a weight and the leaves under it, with their depth. *)

Lightest(nodes) == CHOOSE n \in nodes : \A m \in nodes : n.weight <= m.weight

Branch(a, b) ==
    [weight |-> a.weight + b.weight,
     leaves |-> {[l EXCEPT !.depth = @ + 1] : l \in a.leaves \cup b.leaves}]

(* The two lightest nodes become one.                                       *)
Combined(nodes) ==
    LET b == Lightest(nodes)
        a == Lightest(nodes \ {b})
    IN (nodes \ {a, b}) \cup {Branch(a, b)}

GoesOn(nodes) == Cardinality(nodes) >= 2

(* One round of the loop; six scripts take five, and another would change   *)
(* nothing.                                                                 *)
Joined(nodes) == IF GoesOn(nodes) THEN Combined(nodes) ELSE nodes

build_taproot(o) ==
    LET first == {[weight |-> 1, leaves |-> {[script |-> s, depth |-> 0]}] :
                    s \in tapscripts(o)}
        root == Lightest(Joined(Joined(Joined(Joined(Joined(first))))))
    IN root.leaves

(* The leaves control_block finds.                                          *)
Committed(o) == {l.script : l \in build_taproot(o)}

-----------------------------------------------------------------------------
(* Bitcoin script: OP_CSV is a no-op on a value with the disable flag, and  *)
(* each CHECKSIG asks for a signature by its key.                           *)
Opens(leaf, signers, age) ==
    /\ \A i \in DOMAIN leaf.keys : leaf.keys[i] \in signers
    /\ \/ leaf.delay = NoDelay
       \/ leaf.delay.disabled
       \/ age >= leaf.delay.value

CanSpend(leaves, signers, age) == \E leaf \in leaves : Opens(leaf, signers, age)
=============================================================================
