------------------------- MODULE EscrowSigningProofs -------------------------
(***************************************************************************)
(* Proofs about EscrowContract and EscrowSigning: who can spend an escrow  *)
(* output, and what the signatures on record are worth, for every set of   *)
(* keys, delays, transactions and options.                                 *)
(***************************************************************************)
EXTENDS EscrowSigning, FiniteSetTheorems, WellFoundedInduction, TLAPS

USE OptionsAssumption, RogueAssumption, SpendsAssumption, DelayAssumption, NoDelayAssumption

-----------------------------------------------------------------------------
(* The tree.  Whatever the weights, joining the two lightest nodes keeps    *)
(* every script, and one node is left at the end.                           *)

LEMMA LeastNatural ==
    ASSUME NEW S \in SUBSET Nat, S # {}
    PROVE  \E n \in S : \A m \in S : n <= m
<1>. DEFINE R == OpToRel(<, Nat)
<1>1. IsWellFoundedOn(R, Nat)
  BY NatLessThanWellFounded
<1>2. \A m, n \in Nat : <<m, n>> \in R <=> m < n
  BY DEF OpToRel
<1>3. S \subseteq Nat
  OBVIOUS
<1>. HIDE DEF R
<1>4. PICK n \in S : \A m \in S : <<m, n>> \notin R
  BY <1>1, <1>3, WFMin, ZenonT(20)
<1>5. n \in Nat /\ \A m \in S : m \in Nat /\ ~(m < n)
  BY <1>2, <1>3, <1>4
<1>6. \A m \in S : n <= m
  BY <1>5
<1>. QED
  BY <1>6

LEMMA AddedOne ==
    ASSUME NEW S, IsFiniteSet(S), NEW x
    PROVE  IsFiniteSet(S \cup {x}) /\ Cardinality(S \cup {x}) <= Cardinality(S) + 1
<1>1. Cardinality(S) \in Nat
  BY FS_CardinalityType
<1>2. /\ IsFiniteSet(S \cup {x})
      /\ Cardinality(S \cup {x}) = IF x \in S THEN Cardinality(S) ELSE Cardinality(S) + 1
  BY FS_AddElement, Zenon
<1>. QED
  BY <1>1, <1>2

(* What the loop works on: at least one node and at most n, each with a     *)
(* weight.                                                                  *)
NodesUpTo(nodes, n) ==
    /\ IsFiniteSet(nodes) /\ nodes # {} /\ Cardinality(nodes) <= n
    /\ \A node \in nodes :
          node = [weight |-> node.weight, leaves |-> node.leaves] /\ node.weight \in Nat

Scripts(nodes) == {l.script : l \in UNION {node.leaves : node \in nodes}}

IsLeaves(nodes) ==
    \A node \in nodes : \A l \in node.leaves :
        l = [script |-> l.script, depth |-> l.depth]

LEMMA LightestIsNode ==
    ASSUME NEW nodes, NEW n \in Nat, NodesUpTo(nodes, n)
    PROVE  Lightest(nodes) \in nodes
<1>. DEFINE W == {node.weight : node \in nodes}
<1>1. W \in SUBSET Nat /\ W # {}
  BY DEF NodesUpTo
<1>2. PICK w \in W : \A v \in W : w <= v
  BY <1>1, LeastNatural
<1>3. \E node \in nodes : \A m \in nodes : node.weight <= m.weight
  BY <1>2
<1>. QED
  BY <1>3 DEF Lightest

LEMMA BranchScripts ==
    ASSUME NEW a, NEW b, IsLeaves({a, b}), a.weight \in Nat, b.weight \in Nat
    PROVE  LET c == Branch(a, b)
           IN /\ c = [weight |-> c.weight, leaves |-> c.leaves] /\ c.weight \in Nat
              /\ IsLeaves({c})
              /\ Scripts({c}) = Scripts({a, b})
<1>. DEFINE c == Branch(a, b)
            Deeper(l) == [l EXCEPT !.depth = @ + 1]
<1>1. c.leaves = {Deeper(l) : l \in a.leaves \cup b.leaves}
  BY DEF Branch
<1>2. \A l \in a.leaves \cup b.leaves :
         Deeper(l) = [script |-> l.script, depth |-> l.depth + 1]
  BY DEF IsLeaves
<1>3. c = [weight |-> c.weight, leaves |-> c.leaves] /\ c.weight \in Nat
  BY DEF Branch
<1>. HIDE DEF c, Deeper
<1>4. IsLeaves({c})
  BY <1>1, <1>2 DEF IsLeaves
<1>5. Scripts({c}) = {l.script : l \in c.leaves}
  BY DEF Scripts
<1>6. Scripts({a, b}) = {l.script : l \in a.leaves \cup b.leaves}
  BY DEF Scripts
<1>7. {l.script : l \in c.leaves} = {l.script : l \in a.leaves \cup b.leaves}
  BY <1>1, <1>2
<1>. QED
  BY <1>3, <1>4, <1>5, <1>6, <1>7 DEF c

LEMMA JoinedKeeps ==
    ASSUME NEW nodes, NEW n \in Nat, NodesUpTo(nodes, n + 1), IsLeaves(nodes), n > 0
    PROVE  /\ NodesUpTo(Joined(nodes), n)
           /\ IsLeaves(Joined(nodes))
           /\ Scripts(Joined(nodes)) = Scripts(nodes)
<1>0. Cardinality(nodes) \in Nat
  BY FS_CardinalityType DEF NodesUpTo
<1>1. CASE ~GoesOn(nodes)
  BY <1>0, <1>1 DEF Joined, GoesOn, NodesUpTo
<1>2. CASE GoesOn(nodes)
  <2>. DEFINE b == Lightest(nodes)
              a == Lightest(nodes \ {b})
              c == Branch(a, b)
              rest == nodes \ {a, b}
  <2>1. b \in nodes
    BY LightestIsNode
  <2>2. IsFiniteSet(nodes \ {b}) /\ Cardinality(nodes \ {b}) = Cardinality(nodes) - 1
    BY <2>1, FS_RemoveElement DEF NodesUpTo
  <2>3. nodes \ {b} # {}
    BY <1>0, <1>2, <2>2, FS_EmptySet DEF GoesOn
  <2>4. a \in nodes \ {b}
    <3>. HIDE DEF b
    <3>1. NodesUpTo(nodes \ {b}, n)
      BY <1>0, <2>2, <2>3 DEF NodesUpTo
    <3>. QED
      BY <3>1, LightestIsNode
  <2>. HIDE DEF a, b
  <2>5. IsFiniteSet(rest) /\ Cardinality(rest) = Cardinality(nodes) - 2
    <3>1. rest = (nodes \ {b}) \ {a}
      OBVIOUS
    <3>. QED
      BY <1>0, <2>2, <2>4, <3>1, FS_RemoveElement
  <2>6. Joined(nodes) = rest \cup {c}
    <3>1. Joined(nodes) = Combined(nodes)
      BY <1>2, Zenon DEF Joined
    <3>2. Combined(nodes) = rest \cup {c}
      BY Zenon DEF Combined, a, b
    <3>. QED
      BY <3>1, <3>2
  <2>7. IsFiniteSet(rest \cup {c}) /\ Cardinality(rest \cup {c}) <= Cardinality(rest) + 1
    BY <2>5, AddedOne, Zenon
  <2>8. /\ c = [weight |-> c.weight, leaves |-> c.leaves] /\ c.weight \in Nat
        /\ IsLeaves({c}) /\ Scripts({c}) = Scripts({a, b})
    <3>1. IsLeaves({a, b}) /\ a.weight \in Nat /\ b.weight \in Nat
      BY <2>1, <2>4 DEF IsLeaves, NodesUpTo
    <3>. QED
      BY <3>1, BranchScripts
  <2>. HIDE DEF c
  <2>9. NodesUpTo(rest \cup {c}, n)
    <3>1. Cardinality(rest \cup {c}) <= n
      BY <1>0, <2>5, <2>7, FS_CardinalityType DEF NodesUpTo
    <3>. QED
      BY <2>7, <2>8, <3>1 DEF NodesUpTo
  <2>10. IsLeaves(rest \cup {c})
    BY <2>8 DEF IsLeaves
  <2>11. \A S, T : Scripts(S \cup T) = Scripts(S) \cup Scripts(T)
    BY DEF Scripts
  <2>12. Scripts(rest \cup {c}) = Scripts(nodes)
    <3>1. rest \cup {a, b} = nodes
      BY <2>1, <2>4
    <3>2. Scripts(rest \cup {a, b}) = Scripts(rest) \cup Scripts({a, b})
      BY <2>11
    <3>3. Scripts(rest \cup {c}) = Scripts(rest) \cup Scripts({c})
      BY <2>11
    <3>. QED
      BY <2>8, <3>1, <3>2, <3>3
  <2>. QED
    BY <2>6, <2>9, <2>10, <2>12
<1>. QED
  BY <1>1, <1>2

LEMMA AtMostSix ==
    ASSUME NEW x1, NEW x2, NEW x3, NEW x4, NEW x5, NEW x6
    PROVE  /\ IsFiniteSet({x1, x2, x3, x4, x5, x6})
           /\ Cardinality({x1, x2, x3, x4, x5, x6}) <= 6
<1>. DEFINE T1 == {x1}
            T2 == T1 \cup {x2}
            T3 == T2 \cup {x3}
            T4 == T3 \cup {x4}
            T5 == T4 \cup {x5}
            T6 == T5 \cup {x6}
<1>1. IsFiniteSet(T1) /\ Cardinality(T1) = 1
  BY FS_Singleton
<1>2. IsFiniteSet(T2) /\ Cardinality(T2) <= Cardinality(T1) + 1
  BY <1>1, AddedOne, Zenon
<1>3. IsFiniteSet(T3) /\ Cardinality(T3) <= Cardinality(T2) + 1
  BY <1>2, AddedOne, Zenon
<1>4. IsFiniteSet(T4) /\ Cardinality(T4) <= Cardinality(T3) + 1
  BY <1>3, AddedOne, Zenon
<1>5. IsFiniteSet(T5) /\ Cardinality(T5) <= Cardinality(T4) + 1
  BY <1>4, AddedOne, Zenon
<1>6. IsFiniteSet(T6) /\ Cardinality(T6) <= Cardinality(T5) + 1
  BY <1>5, AddedOne, Zenon
<1>7. T6 = {x1, x2, x3, x4, x5, x6}
  OBVIOUS
<1>. HIDE DEF T1, T2, T3, T4, T5, T6
<1>8. /\ Cardinality(T2) \in Nat /\ Cardinality(T3) \in Nat /\ Cardinality(T4) \in Nat
      /\ Cardinality(T5) \in Nat /\ Cardinality(T6) \in Nat
  BY <1>2, <1>3, <1>4, <1>5, <1>6, FS_CardinalityType
<1>9. Cardinality(T6) <= 6
  BY <1>1, <1>2, <1>3, <1>4, <1>5, <1>6, <1>8
<1>. QED
  BY <1>6, <1>7, <1>9

(* The tree commits to the six scripts of the contract and to nothing else. *)
LEMMA TreeHasAllScripts ==
    ASSUME NEW o PROVE Committed(o) = tapscripts(o)
<1>. DEFINE Node(s) == [weight |-> 1, leaves |-> {[script |-> s, depth |-> 0]}]
            n0 == {Node(s) : s \in tapscripts(o)}
            n1 == Joined(n0)
            n2 == Joined(n1)
            n3 == Joined(n2)
            n4 == Joined(n3)
            n5 == Joined(n4)
<1>1. PICK x1, x2, x3, x4, x5, x6 : tapscripts(o) = {x1, x2, x3, x4, x5, x6}
  <2>1. tapscripts(o) =
           {script("BuyerArbiter", o), script("SellerArbiter", o), script("SellerBuyer", o),
            unilateral_2of2(o, Pair("BuyerArbiter")[1], Pair("BuyerArbiter")[2]),
            unilateral_2of2(o, Pair("SellerArbiter")[1], Pair("SellerArbiter")[2]),
            unilateral_2of2(o, Pair("SellerBuyer")[1], Pair("SellerBuyer")[2])}
    BY DEF tapscripts, SignerSets
  <2>. QED
    BY <2>1
<1>2. n0 = {Node(x1), Node(x2), Node(x3), Node(x4), Node(x5), Node(x6)}
  BY <1>1
<1>3. NodesUpTo(n0, 6)
  <2>. HIDE DEF Node, n0
  <2>1. IsFiniteSet(n0) /\ Cardinality(n0) <= 6
    BY <1>2, AtMostSix, ZenonT(30)
  <2>2. n0 # {}
    BY <1>2
  <2>. USE DEF Node, n0
  <2>3. \A node \in n0 :
           node = [weight |-> node.weight, leaves |-> node.leaves] /\ node.weight \in Nat
    OBVIOUS
  <2>. QED
    BY <2>1, <2>2, <2>3 DEF NodesUpTo
<1>4. IsLeaves(n0)
  BY DEF IsLeaves
<1>5. Scripts(n0) = tapscripts(o)
  <2>1. ASSUME NEW x \in Scripts(n0) PROVE x \in tapscripts(o)
    <3>1. PICK node \in n0 : \E l \in node.leaves : x = l.script
      BY DEF Scripts
    <3>2. PICK s \in tapscripts(o) : node = Node(s)
      BY <3>1
    <3>3. PICK l \in node.leaves : x = l.script
      BY <3>1
    <3>4. l = [script |-> s, depth |-> 0]
      BY <3>2, <3>3
    <3>. QED
      BY <3>2, <3>3, <3>4
  <2>2. ASSUME NEW s \in tapscripts(o) PROVE s \in Scripts(n0)
    <3>1. Node(s) \in n0 /\ [script |-> s, depth |-> 0] \in Node(s).leaves
      OBVIOUS
    <3>2. [script |-> s, depth |-> 0].script = s
      OBVIOUS
    <3>. HIDE DEF n0, Node
    <3>. QED
      BY <3>1, <3>2 DEF Scripts
  <2>. QED
    BY <2>1, <2>2
<1>. HIDE DEF n0
<1>6. NodesUpTo(n1, 5) /\ IsLeaves(n1) /\ Scripts(n1) = Scripts(n0)
  BY <1>3, <1>4, JoinedKeeps
<1>. HIDE DEF n1
<1>7. NodesUpTo(n2, 4) /\ IsLeaves(n2) /\ Scripts(n2) = Scripts(n1)
  BY <1>6, JoinedKeeps
<1>. HIDE DEF n2
<1>8. NodesUpTo(n3, 3) /\ IsLeaves(n3) /\ Scripts(n3) = Scripts(n2)
  BY <1>7, JoinedKeeps
<1>. HIDE DEF n3
<1>9. NodesUpTo(n4, 2) /\ IsLeaves(n4) /\ Scripts(n4) = Scripts(n3)
  BY <1>8, JoinedKeeps
<1>. HIDE DEF n4
<1>10. NodesUpTo(n5, 1) /\ IsLeaves(n5) /\ Scripts(n5) = Scripts(n4)
  BY <1>9, JoinedKeeps
<1>11. Committed(o) = {l.script : l \in Lightest(n5).leaves}
  BY DEF Committed, build_taproot, n4, n3, n2, n1, n0
<1>. HIDE DEF n5
<1>12. Lightest(n5) \in n5
  BY <1>10, LightestIsNode
<1>13. n5 = {Lightest(n5)}
  <2>1. IsFiniteSet(n5) /\ Cardinality(n5) \in Nat /\ Cardinality(n5) <= 1
    BY <1>10, FS_CardinalityType DEF NodesUpTo
  <2>2. Cardinality(n5) # 0
    BY <2>1, <1>12, FS_EmptySet
  <2>3. Cardinality(n5) = 1
    BY <2>1, <2>2
  <2>. QED
    BY <1>12, <2>1, <2>3, FS_Singleton
<1>14. Scripts(n5) = {l.script : l \in Lightest(n5).leaves}
  BY <1>13 DEF Scripts
<1>. QED
  BY <1>5, <1>6, <1>7, <1>8, <1>9, <1>10, <1>11, <1>14

-----------------------------------------------------------------------------
(* Who can spend.                                                          *)

LEMMA TwoParties ==
    ASSUME NEW T \in SUBSET Parties
    PROVE  Cardinality(T) >= 2 <=>
              \E set \in SignerSets : Pair(set)[1] \in T /\ Pair(set)[2] \in T
<1>1. IsFiniteSet(Parties)
  <2>1. Parties = ({"seller"} \cup {"buyer"}) \cup {"arbiter"}
    BY DEF Parties
  <2>2. IsFiniteSet({"seller"})
    BY FS_Singleton
  <2>3. IsFiniteSet({"seller"} \cup {"buyer"})
    BY <2>2, FS_AddElement, Zenon
  <2>4. IsFiniteSet(({"seller"} \cup {"buyer"}) \cup {"arbiter"})
    BY <2>3, FS_AddElement, Zenon
  <2>. QED
    BY <2>1, <2>4, Zenon
<1>2. IsFiniteSet(T) /\ Cardinality(T) \in Nat
  BY <1>1, FS_Subset, FS_CardinalityType
<1>3. ASSUME NEW a, NEW b, a # b, a \in T, b \in T PROVE Cardinality(T) >= 2
  <2>1. IsFiniteSet({a}) /\ Cardinality({a}) = 1
    BY FS_Singleton
  <2>2. Cardinality({a} \cup {b}) = 2
    <3>1. Cardinality({a} \cup {b}) =
              IF b \in {a} THEN Cardinality({a}) ELSE Cardinality({a}) + 1
      BY <2>1, FS_AddElement, Zenon
    <3>. QED
      BY <1>3, <2>1, <3>1
  <2>3. Cardinality({a} \cup {b}) <= Cardinality(T)
    BY <1>2, <1>3, FS_Subset
  <2>. QED
    BY <1>2, <2>2, <2>3
<1>4. ASSUME NEW x, T \subseteq {x} PROVE Cardinality(T) <= 1
  <2>1. IsFiniteSet({x}) /\ Cardinality({x}) = 1
    BY FS_Singleton
  <2>. QED
    BY <1>4, <2>1, FS_Subset
<1>5. (\E set \in SignerSets : Pair(set)[1] \in T /\ Pair(set)[2] \in T) <=>
         \/ "buyer" \in T /\ "arbiter" \in T
         \/ "seller" \in T /\ "arbiter" \in T
         \/ "seller" \in T /\ "buyer" \in T
  BY DEF SignerSets, Pair
<1>6. (\E set \in SignerSets : Pair(set)[1] \in T /\ Pair(set)[2] \in T) => Cardinality(T) >= 2
  BY <1>3, <1>5
<1>7. ~(\E set \in SignerSets : Pair(set)[1] \in T /\ Pair(set)[2] \in T) =>
         T \subseteq {"seller"} \/ T \subseteq {"buyer"} \/ T \subseteq {"arbiter"}
  BY <1>5 DEF Parties
<1>8. ~(\E set \in SignerSets : Pair(set)[1] \in T /\ Pair(set)[2] \in T) => Cardinality(T) <= 1
  BY <1>4, <1>7
<1>. QED
  BY <1>2, <1>6, <1>8

(* With validated options a leaf opens to the keys of its pair, with the    *)
(* server's at once or without it after the delay.                          *)
LEMMA LeavesOpen ==
    ASSUME NEW o \in EscrowOptions, validate(o), NEW roles \in SUBSET Roles, NEW age \in Nat,
           NEW set \in SignerSets
    PROVE  LET keys == {o.keys[r] : r \in roles}
               both == Pair(set)[1] \in roles /\ Pair(set)[2] \in roles
           IN /\ Opens(script(set, o), keys, age) <=> both /\ "server" \in roles
              /\ Opens(unilateral_2of2(o, Pair(set)[1], Pair(set)[2]), keys, age) <=>
                    both /\ age >= o.unilateral_exit_delay.value
<1>. DEFINE keys == {o.keys[r] : r \in roles}
            p == Pair(set)[1]
            q == Pair(set)[2]
<1>1. p \in Roles /\ q \in Roles /\ "server" \in Roles
  BY DEF SignerSets, Pair, Roles, Parties
<1>2. \A r \in Roles : o.keys[r] \in keys <=> r \in roles
  BY DEF validate, DistinctKeys
<1>3. o.unilateral_exit_delay # NoDelay /\ ~o.unilateral_exit_delay.disabled
  BY DEF EscrowOptions, validate, RelativeDelay
<1>. HIDE DEF keys, p, q
<1>4. Opens(script(set, o), keys, age) <=>
         o.keys[p] \in keys /\ o.keys[q] \in keys /\ o.keys["server"] \in keys
  <2>1. script(set, o) = [delay |-> NoDelay, keys |-> <<o.keys[p], o.keys[q], o.keys["server"]>>]
    BY DEF script, collaborative_3of3, Leaf, p, q
  <2>2. DOMAIN <<o.keys[p], o.keys[q], o.keys["server"]>> = 1 .. 3
    OBVIOUS
  <2>. QED
    BY <2>1, <2>2 DEF Opens
<1>5. Opens(unilateral_2of2(o, p, q), keys, age) <=>
         o.keys[p] \in keys /\ o.keys[q] \in keys /\ age >= o.unilateral_exit_delay.value
  <2>1. unilateral_2of2(o, p, q) =
           [delay |-> o.unilateral_exit_delay, keys |-> <<o.keys[p], o.keys[q]>>]
    BY DEF unilateral_2of2, Leaf
  <2>2. DOMAIN <<o.keys[p], o.keys[q]>> = 1 .. 2
    OBVIOUS
  <2>. QED
    BY <1>3, <2>1, <2>2 DEF Opens
<1>. QED
  BY <1>1, <1>2, <1>4, <1>5 DEF keys, p, q

(* The options that pass validation give exactly the documented spenders.   *)
LEMMA ValidatedIsTwoOfThree ==
    ASSUME NEW o \in EscrowOptions, validate(o), NEW roles \in SUBSET Roles, NEW age \in Nat
    PROVE  CanSpend(Committed(o), {o.keys[r] : r \in roles}, age) <=>
              /\ Cardinality(roles \cap Parties) >= 2
              /\ "server" \in roles \/ age >= o.unilateral_exit_delay.value
<1>. DEFINE keys == {o.keys[r] : r \in roles}
            both(set) == Pair(set)[1] \in roles /\ Pair(set)[2] \in roles
            passed == age >= o.unilateral_exit_delay.value
<1>1. CanSpend(Committed(o), keys, age) <=>
         \E set \in SignerSets :
            \/ Opens(script(set, o), keys, age)
            \/ Opens(unilateral_2of2(o, Pair(set)[1], Pair(set)[2]), keys, age)
  BY TreeHasAllScripts DEF CanSpend, tapscripts
<1>2. \A set \in SignerSets :
         /\ Opens(script(set, o), keys, age) <=> both(set) /\ "server" \in roles
         /\ Opens(unilateral_2of2(o, Pair(set)[1], Pair(set)[2]), keys, age) <=>
               both(set) /\ passed
  BY LeavesOpen
<1>3. Cardinality(roles \cap Parties) >= 2 <=>
         \E set \in SignerSets :
            Pair(set)[1] \in roles \cap Parties /\ Pair(set)[2] \in roles \cap Parties
  <2>1. roles \cap Parties \in SUBSET Parties
    OBVIOUS
  <2>. QED
    BY <2>1, TwoParties
<1>4. \A set \in SignerSets : Pair(set)[1] \in Parties /\ Pair(set)[2] \in Parties
  BY DEF SignerSets, Pair, Parties
<1>. HIDE DEF keys, passed
<1>5. (\E set \in SignerSets : both(set)) <=> Cardinality(roles \cap Parties) >= 2
  BY <1>3, <1>4
<1>. HIDE DEF both
<1>6. CanSpend(Committed(o), keys, age) <=>
         Cardinality(roles \cap Parties) >= 2 /\ ("server" \in roles \/ passed)
  BY <1>1, <1>2, <1>5
<1>. QED
  BY <1>6 DEF keys, passed

Setup == contract \in EscrowOptions /\ validate(contract) /\ signer_set \in SignerSets

LEMMA SetupAlways == Spec => []Setup
<1>1. Init => Setup
  BY DEF Init, Setup
<1>2. Setup /\ [Next]_vars => Setup'
  <2>. SUFFICES ASSUME Setup, [Next]_vars PROVE Setup'
    OBVIOUS
  <2>1. UNCHANGED setup
    BY DEF Next, Build, Sign, PassOn, Spend, ResumeSubmitting, ResumeSubmitted, SendSubmit,
       SubmitRejected, SubmitUnclear, SubmitAccepted, Finalize, Crash, Prune, vars
  <2>. QED
    BY <2>1 DEF setup, Setup
<1>. QED
  BY <1>1, <1>2, PTL DEF Spec

(* Exactly the documented signers can spend: with the server any two of the *)
(* three parties at once, without it any two of them once the delay is over, *)
(* and nobody else at any time (docs/protocol.md; contract.rs:9-12).        *)
THEOREM OnlyDocumentedSpenders == Spec => []TwoOfThree
<1>1. Setup => TwoOfThree
  <2>. SUFFICES ASSUME Setup, NEW roles \in SUBSET Roles, NEW age \in 0 .. MaxDelay
                PROVE  CanSpend(Committed(contract), {contract.keys[r] : r \in roles}, age)
                          <=> /\ Cardinality(roles \cap Parties) >= 2
                              /\ "server" \in roles \/ age >= contract.unilateral_exit_delay.value
    BY DEF TwoOfThree
  <2>1. age \in Nat /\ contract \in EscrowOptions /\ validate(contract)
    BY DEF Setup
  <2>. QED
    BY <2>1, ValidatedIsTwoOfThree
<1>. QED
  BY <1>1, SetupAlways, PTL

-----------------------------------------------------------------------------
(* None is a value of its own: no PSBT and no record.                       *)
NoneApart ==
    /\ \A tx, leaf, sigs : None # [tx |-> tx, leaf |-> leaf, sigs |-> sigs]
    /\ \A stage, tx, ark, unsigned, party, evidence, final :
          None # [stage |-> stage, tx |-> tx, ark |-> ark, unsigned |-> unsigned,
                  party |-> party, evidence |-> evidence, final |-> final]

(* What the proofs know of a PSBT.  The leaves and the server's key are     *)
(* parameters, so that these operators speak of no variable.                *)
ArkTxs == {Ark(t) : t \in Txs}
CheckpointTxs == {Checkpoint(t) : t \in Txs}
AnyKeys == Keys \cup {Rogue}
Leaves == {SpendLeaf, ForeignLeaf}

Shaped(psbt) == psbt = [tx |-> psbt.tx, leaf |-> psbt.leaf, sigs |-> psbt.sigs]

AnySigs(leaves) ==
    [by : AnyKeys, tx : ArkTxs \cup CheckpointTxs, leaf : leaves, type : {"Default", "All"}]

Typed(psbt, leaves) ==
    /\ Shaped(psbt)
    /\ psbt.tx \in ArkTxs \cup CheckpointTxs
    /\ psbt.leaf \in leaves
    /\ DOMAIN psbt.sigs \subseteq AnyKeys \X leaves
    /\ \A s \in DOMAIN psbt.sigs : psbt.sigs[s] \in AnySigs(leaves)

(* A copy of the parties: whatever was done to it, no entry is by the       *)
(* server's key, and every entry names the Default sighash.                 *)
PartyCopy(psbt, leaves, key) ==
    /\ Typed(psbt, leaves)
    /\ \A s \in DOMAIN psbt.sigs : psbt.sigs[s].by # key /\ psbt.sigs[s].type = "Default"

(* Every entry is a signature by the key it stands under.                   *)
Honest(psbt) == \A s \in DOMAIN psbt.sigs : Verifies(psbt.sigs[s], s[1], psbt)

RecordShaped ==
    record = [stage |-> record.stage, tx |-> record.tx, ark |-> record.ark,
              unsigned |-> record.unsigned, party |-> record.party,
              evidence |-> record.evidence, final |-> record.final]

GoodCopy(copy, leaves, key) ==
    /\ copy = [ark |-> copy.ark, checkpoint |-> copy.checkpoint]
    /\ PartyCopy(copy.ark, leaves, key) /\ copy.ark.tx \in ArkTxs
    /\ PartyCopy(copy.checkpoint, leaves, key) /\ copy.checkpoint.tx \in CheckpointTxs

(* The inductive invariant, part by part.                                   *)
CopiesInv ==
    /\ copies = [p \in Parties |-> copies[p]]
    /\ \A p \in Parties : copies[p] # None => GoodCopy(copies[p], Leaves, ServerKey)

(* A record under submission has the parties' copies of one checkpoint, of  *)
(* its own ark transaction or of one that is known to be another's.         *)
SubmittingInv ==
    record # None /\ record.stage = "Submitting" =>
        /\ RecordShaped
        /\ record.evidence = None /\ record.final = None
        /\ PartyCopy(record.ark, Leaves, ServerKey) /\ record.ark.tx \in ArkTxs
        /\ \E u \in Txs :
              /\ record.unsigned = Unsigned(Checkpoint(u))
              /\ \A p \in Signers :
                    PartyCopy(record.party[p], Leaves, ServerKey) /\ record.party[p].tx = Checkpoint(u)
              /\ record.ark.tx = Ark(u) \/ u \in mixed

(* What the clean copies were still shows in the record.                    *)
CleanInv ==
    record # None /\ record.stage = "Submitting" =>
        /\ "ark" \in clean => /\ record.ark.leaf = SpendLeaf
                              /\ \A p \in Signers : HasSig(record.ark, contract.keys[p])
        /\ "checkpoint" \in clean =>
              \A p \in Signers : /\ record.party[p].leaf = SpendLeaf
                                 /\ HasSig(record.party[p], contract.keys[p])
                                 /\ Honest(record.party[p])

(* Whatever the evidence shows of the server's key, the server has signed.  *)
AcceptedInv ==
    record # None /\ record.stage # "Submitting" =>
        /\ RecordShaped /\ record.stage \in {"Submitted", "Finalized"}
        /\ record.ark = None
        /\ record.evidence # None => Typed(record.evidence, Leaves)
        /\ record.final # None /\ Typed(record.final, Leaves) /\ record.final.tx \in CheckpointTxs
        /\ ServerSigned(record.evidence) \subseteq cosigned

CallInv ==
    /\ at \in {"idle", "submit", "sent", "finalize"}
    /\ at \in {"submit", "sent"} => record # None /\ record.stage = "Submitting"
    /\ at = "finalize" => /\ record # None /\ record.stage = "Submitted"
                          /\ record.final.tx.of \in cosigned \cup mixed

ServerInv ==
    /\ cosigned \subseteq Txs /\ mixed \subseteq Txs
    /\ seen \subseteq [key : Keys, of : Txs]
    /\ CommitmentBeforeRelease

SigningInv ==
    /\ Setup
    /\ CopiesInv /\ SubmittingInv /\ CleanInv /\ AcceptedInv /\ CallInv /\ ServerInv
    /\ PayoutHeld /\ FinalComplete
-----------------------------------------------------------------------------
(* The operators on PSBTs.                                                  *)

LEMMA PutFacts ==
    ASSUME NEW psbt, NEW key, NEW sig, Shaped(psbt)
    PROVE  LET q == Put(psbt, key, sig)
               slot == <<key, psbt.leaf>>
           IN /\ Shaped(q) /\ q.tx = psbt.tx /\ q.leaf = psbt.leaf
              /\ DOMAIN q.sigs = DOMAIN psbt.sigs \cup {slot}
              /\ q.sigs[slot] = sig
              /\ \A s \in DOMAIN psbt.sigs : s # slot => q.sigs[s] = psbt.sigs[s]
<1>. DEFINE slot == <<key, psbt.leaf>>
            sigs == [s \in DOMAIN psbt.sigs \cup {slot} |->
                        IF s = slot THEN sig ELSE psbt.sigs[s]]
<1>1. Put(psbt, key, sig) = [tx |-> psbt.tx, leaf |-> psbt.leaf, sigs |-> sigs]
  BY DEF Put, Shaped
<1>2. /\ DOMAIN sigs = DOMAIN psbt.sigs \cup {slot}
      /\ sigs[slot] = sig
      /\ \A s \in DOMAIN psbt.sigs : s # slot => sigs[s] = psbt.sigs[s]
  OBVIOUS
<1>. HIDE DEF sigs
<1>. QED
  BY <1>1, <1>2 DEF Shaped, slot

LEMMA PutTyped ==
    ASSUME NEW psbt, NEW leaves, Typed(psbt, leaves),
           NEW key \in AnyKeys, NEW sig \in AnySigs(leaves)
    PROVE  Typed(Put(psbt, key, sig), leaves)
<1>. DEFINE q == Put(psbt, key, sig)
            slot == <<key, psbt.leaf>>
<1>1. Shaped(psbt) /\ psbt.leaf \in leaves /\ slot \in AnyKeys \X leaves
  BY DEF Typed
<1>2. /\ Shaped(q) /\ q.tx = psbt.tx /\ q.leaf = psbt.leaf
      /\ DOMAIN q.sigs = DOMAIN psbt.sigs \cup {slot}
      /\ q.sigs[slot] = sig
      /\ \A s \in DOMAIN psbt.sigs : s # slot => q.sigs[s] = psbt.sigs[s]
  BY <1>1, PutFacts
<1>. HIDE DEF q, slot
<1>3. Typed(q, leaves)
  BY <1>1, <1>2 DEF Typed
<1>. QED
  BY <1>3 DEF q

LEMMA PutCopy ==
    ASSUME NEW psbt, NEW leaves, NEW server_key, PartyCopy(psbt, leaves, server_key),
           NEW key \in AnyKeys, NEW sig \in AnySigs(leaves),
           sig.by # server_key, sig.type = "Default"
    PROVE  PartyCopy(Put(psbt, key, sig), leaves, server_key)
<1>. DEFINE q == Put(psbt, key, sig)
            slot == <<key, psbt.leaf>>
<1>1. Typed(psbt, leaves) /\ Shaped(psbt)
  BY DEF PartyCopy, Typed
<1>2. /\ DOMAIN q.sigs = DOMAIN psbt.sigs \cup {slot}
      /\ q.sigs[slot] = sig
      /\ \A s \in DOMAIN psbt.sigs : s # slot => q.sigs[s] = psbt.sigs[s]
  BY <1>1, PutFacts
<1>3. Typed(q, leaves)
  BY <1>1, PutTyped
<1>. HIDE DEF q, slot
<1>4. PartyCopy(q, leaves, server_key)
  BY <1>2, <1>3 DEF PartyCopy
<1>. QED
  BY <1>4 DEF q

LEMMA SigFacts ==
    ASSUME NEW psbt, NEW leaves, Typed(psbt, leaves),
           NEW key \in AnyKeys, NEW type \in {"Default", "All"}
    PROVE  /\ Sig(key, psbt, type) \in AnySigs(leaves)
           /\ Sig(key, psbt, type).by = key /\ Sig(key, psbt, type).type = type
BY DEF Sig, AnySigs, Typed

LEMMA UnsignedFacts ==
    ASSUME NEW leaves, NEW server_key, NEW tx \in ArkTxs \cup CheckpointTxs, NEW leaf \in leaves
    PROVE  LET psbt == Psbt(tx, leaf)
           IN /\ PartyCopy(psbt, leaves, server_key)
              /\ psbt.tx = tx /\ psbt.leaf = leaf /\ DOMAIN psbt.sigs = {}
<1>1. DOMAIN [s \in {} |-> None] = {}
  OBVIOUS
<1>. QED
  BY <1>1 DEF Psbt, PartyCopy, Typed, Shaped

LEMMA SignTyped ==
    ASSUME NEW psbt, NEW leaves, Typed(psbt, leaves), NEW key \in AnyKeys
    PROVE  /\ Typed(sign(psbt, key), leaves)
           /\ sign(psbt, key).tx = psbt.tx /\ sign(psbt, key).leaf = psbt.leaf
<1>1. Sig(key, psbt, "Default") \in AnySigs(leaves)
  BY SigFacts
<1>2. Shaped(psbt)
  BY DEF Typed
<1>3. sign(psbt, key) = Put(psbt, key, Sig(key, psbt, "Default"))
  BY DEF sign
<1>4. Typed(Put(psbt, key, Sig(key, psbt, "Default")), leaves)
  BY <1>1, PutTyped
<1>. DEFINE sig == Sig(key, psbt, "Default")
            q == Put(psbt, key, sig)
<1>. HIDE DEF sig
<1>5. Shaped(q) /\ q.tx = psbt.tx /\ q.leaf = psbt.leaf /\ q.sigs[<<key, psbt.leaf>>] = sig
  BY <1>2, PutFacts
<1>. USE DEF sig
<1>. QED
  BY <1>3, <1>4, <1>5

LEMMA SignCopy ==
    ASSUME NEW psbt, NEW leaves, NEW server_key, PartyCopy(psbt, leaves, server_key),
           NEW key \in AnyKeys, key # server_key
    PROVE  /\ PartyCopy(sign(psbt, key), leaves, server_key)
           /\ sign(psbt, key).tx = psbt.tx
<1>1. Typed(psbt, leaves)
  BY DEF PartyCopy
<1>2. /\ Sig(key, psbt, "Default") \in AnySigs(leaves)
      /\ Sig(key, psbt, "Default").by # server_key
      /\ Sig(key, psbt, "Default").type = "Default"
  BY <1>1, SigFacts
<1>. QED
  BY <1>1, <1>2, PutCopy, SignTyped DEF sign

LEMMA MergeFacts ==
    ASSUME NEW base, NEW other, Shaped(base)
    PROVE  LET q == merge_ark_tx_sigs(base, other)
           IN /\ Shaped(q) /\ q.tx = base.tx /\ q.leaf = base.leaf
              /\ DOMAIN q.sigs = DOMAIN base.sigs \cup DOMAIN other.sigs
              /\ \A s \in DOMAIN base.sigs : q.sigs[s] = base.sigs[s]
              /\ \A s \in DOMAIN other.sigs :
                    s \notin DOMAIN base.sigs => q.sigs[s] = other.sigs[s]
<1>. DEFINE sigs == [s \in DOMAIN base.sigs \cup DOMAIN other.sigs |->
                        IF s \in DOMAIN base.sigs THEN base.sigs[s] ELSE other.sigs[s]]
<1>1. merge_ark_tx_sigs(base, other) = [tx |-> base.tx, leaf |-> base.leaf, sigs |-> sigs]
  BY DEF merge_ark_tx_sigs, Shaped
<1>2. /\ DOMAIN sigs = DOMAIN base.sigs \cup DOMAIN other.sigs
      /\ \A s \in DOMAIN base.sigs : sigs[s] = base.sigs[s]
      /\ \A s \in DOMAIN other.sigs : s \notin DOMAIN base.sigs => sigs[s] = other.sigs[s]
  OBVIOUS
<1>. HIDE DEF sigs
<1>. QED
  BY <1>1, <1>2 DEF Shaped

LEMMA MergeTyped ==
    ASSUME NEW leaves, NEW base, NEW other, Typed(base, leaves), Typed(other, leaves)
    PROVE  Typed(merge_ark_tx_sigs(base, other), leaves)
<1>. DEFINE q == merge_ark_tx_sigs(base, other)
<1>1. /\ Shaped(q) /\ q.tx = base.tx /\ q.leaf = base.leaf
      /\ DOMAIN q.sigs = DOMAIN base.sigs \cup DOMAIN other.sigs
      /\ \A s \in DOMAIN base.sigs : q.sigs[s] = base.sigs[s]
      /\ \A s \in DOMAIN other.sigs : s \notin DOMAIN base.sigs => q.sigs[s] = other.sigs[s]
  BY MergeFacts DEF Typed
<1>. HIDE DEF q
<1>2. Typed(q, leaves)
  BY <1>1 DEF Typed
<1>. QED
  BY <1>2 DEF q

LEMMA MergeCopy ==
    ASSUME NEW leaves, NEW server_key, NEW base, NEW other,
           PartyCopy(base, leaves, server_key), PartyCopy(other, leaves, server_key)
    PROVE  PartyCopy(merge_ark_tx_sigs(base, other), leaves, server_key)
<1>. DEFINE q == merge_ark_tx_sigs(base, other)
<1>1. /\ DOMAIN q.sigs = DOMAIN base.sigs \cup DOMAIN other.sigs
      /\ \A s \in DOMAIN base.sigs : q.sigs[s] = base.sigs[s]
      /\ \A s \in DOMAIN other.sigs : s \notin DOMAIN base.sigs => q.sigs[s] = other.sigs[s]
  BY MergeFacts DEF PartyCopy, Typed
<1>2. Typed(q, leaves)
  BY MergeTyped DEF PartyCopy
<1>. HIDE DEF q
<1>3. PartyCopy(q, leaves, server_key)
  BY <1>1, <1>2 DEF PartyCopy
<1>. QED
  BY <1>3 DEF q

LEMMA PutKeepsSig ==
    ASSUME NEW psbt, NEW key, NEW other, NEW sig, Shaped(psbt), key # other, HasSig(psbt, key)
    PROVE  HasSig(Put(psbt, other, sig), key)
<1>. DEFINE q == Put(psbt, other, sig)
            slot == <<other, psbt.leaf>>
<1>1. <<key, psbt.leaf>> # slot
  OBVIOUS
<1>2. /\ q.tx = psbt.tx /\ q.leaf = psbt.leaf
      /\ DOMAIN q.sigs = DOMAIN psbt.sigs \cup {slot}
      /\ q.sigs[slot] = sig
      /\ \A s \in DOMAIN psbt.sigs : s # slot => q.sigs[s] = psbt.sigs[s]
  BY PutFacts
<1>. HIDE DEF q, slot
<1>3. HasSig(q, key)
  BY <1>1, <1>2 DEF HasSig, HasEntry, Entry, Verifies
<1>. QED
  BY <1>3 DEF q

(* A merge has a signature when the base has it, or the other copy has it   *)
(* and the base has no entry in its place.                                  *)
LEMMA MergeHasSig ==
    ASSUME NEW base, NEW other, NEW key, Shaped(base), base.tx = other.tx,
           \/ HasSig(base, key)
           \/ base.leaf = other.leaf /\ ~HasEntry(base, key) /\ HasSig(other, key)
    PROVE  HasSig(merge_ark_tx_sigs(base, other), key)
<1>. DEFINE q == merge_ark_tx_sigs(base, other)
<1>1. /\ q.tx = base.tx /\ q.leaf = base.leaf
      /\ DOMAIN q.sigs = DOMAIN base.sigs \cup DOMAIN other.sigs
      /\ \A s \in DOMAIN base.sigs : q.sigs[s] = base.sigs[s]
      /\ \A s \in DOMAIN other.sigs : s \notin DOMAIN base.sigs => q.sigs[s] = other.sigs[s]
  BY MergeFacts
<1>. HIDE DEF q
<1>2. HasSig(q, key)
  BY <1>1 DEF HasSig, HasEntry, Entry, Verifies
<1>. QED
  BY <1>2 DEF q

(* A copy whose entries are all honest has the signature of any key it has  *)
(* an entry of.                                                             *)
LEMMA HonestHasSig ==
    ASSUME NEW psbt, NEW key, NEW leaves, NEW server_key,
           PartyCopy(psbt, leaves, server_key), Honest(psbt), HasEntry(psbt, key)
    PROVE  HasSig(psbt, key)
<1>1. <<key, psbt.leaf>>[1] = key
  OBVIOUS
<1>. QED
  BY <1>1 DEF PartyCopy, Honest, HasEntry, HasSig, Entry

-----------------------------------------------------------------------------
(* The keys and leaves of a valid contract.                                 *)

LEMMA SetupFacts ==
    ASSUME Setup
    PROVE  /\ Signers \subseteq Parties
           /\ \A p \in Roles : contract.keys[p] \in Keys
           /\ \A p \in Parties : contract.keys[p] # ServerKey
           /\ ServerKey \in Keys /\ ServerKey # Rogue /\ Rogue \in AnyKeys
           /\ SpendLeaf \in Leaves /\ ForeignLeaf \in Leaves
           /\ SpendLeaf.keys = <<contract.keys[Pair(signer_set)[1]],
                                 contract.keys[Pair(signer_set)[2]], ServerKey>>
           /\ Pair(signer_set)[1] # Pair(signer_set)[2]
           /\ PartyKeys \subseteq Keys
<1>1. Signers \subseteq Parties /\ Pair(signer_set)[1] # Pair(signer_set)[2]
  BY DEF Setup, Signers, SignerSets, Pair, Parties
<1>2. \A p \in Roles : contract.keys[p] \in Keys
  BY DEF Setup, EscrowOptions
<1>3. \A p \in Parties : contract.keys[p] # contract.keys["server"]
  BY DEF Setup, validate, DistinctKeys, Roles, Parties
<1>4. SpendLeaf.keys = <<contract.keys[Pair(signer_set)[1]],
                         contract.keys[Pair(signer_set)[2]], ServerKey>>
  BY DEF SpendLeaf, script, collaborative_3of3, Leaf, ServerKey
<1>. QED
  BY <1>1, <1>2, <1>3, <1>4, RogueAssumption DEF ServerKey, Leaves, AnyKeys, Roles, PartyKeys

LEMMA SetupStays ==
    ASSUME UNCHANGED setup
    PROVE  /\ SpendLeaf' = SpendLeaf /\ ForeignLeaf' = ForeignLeaf /\ Leaves' = Leaves
           /\ ServerKey' = ServerKey /\ Signers' = Signers /\ PartyKeys' = PartyKeys
           /\ contract' = contract /\ signer_set' = signer_set
           /\ Setup => Setup'
BY DEF setup, SpendLeaf, ForeignLeaf, Leaves, ServerKey, Signers, PartyKeys, Setup

(* What the server has signed to make a PSBT.                               *)
LEMMA ServerSignedMember ==
    ASSUME NEW psbt, psbt # None
    PROVE  \A t : t \in ServerSigned(psbt) <=>
              /\ t \in Txs
              /\ \E k \in DOMAIN psbt.sigs, type \in {"Default", "All"} :
                    psbt.sigs[k] =
                       [by |-> ServerKey, tx |-> Ark(t), leaf |-> SpendLeaf, type |-> type]
<1>. DEFINE ours == [by : {ServerKey}, tx : {Ark(t) : t \in Txs},
                     leaf : {SpendLeaf}, type : {"Default", "All"}]
<1>1. \A t : Ark(t).of = t
  BY DEF Ark
<1>2. ServerSigned(psbt) = {s.tx.of : s \in {psbt.sigs[k] : k \in DOMAIN psbt.sigs} \cap ours}
  BY DEF ServerSigned
<1>3. \A s : s \in ours <=> \E t \in Txs, type \in {"Default", "All"} :
          s = [by |-> ServerKey, tx |-> Ark(t), leaf |-> SpendLeaf, type |-> type]
  OBVIOUS
<1>. HIDE DEF ours
<1>4. ASSUME NEW t PROVE t \in ServerSigned(psbt) <=>
          \E k \in DOMAIN psbt.sigs : psbt.sigs[k] \in ours /\ psbt.sigs[k].tx.of = t
  BY <1>2
<1>. QED
  BY <1>1, <1>3, <1>4

LEMMA ServerSignedTxs ==
    ASSUME NEW psbt
    PROVE  ServerSigned(psbt) \subseteq Txs
<1>1. CASE psbt = None
  BY <1>1 DEF ServerSigned
<1>2. CASE psbt # None
  BY <1>2, ServerSignedMember
<1>. QED
  BY <1>1, <1>2

(* A reply that verifies shows that the server's key signed the local copy. *)
LEMMA VerifiedIsSigned ==
    ASSUME Setup, NEW local, NEW reply, NEW t \in Txs, local.tx = Ark(t), reply # None,
           Typed(reply, Leaves), verify_server_ark_tx_sig(local, reply)
    PROVE  /\ t \in ServerSigned(reply)
           /\ local.leaf = SpendLeaf
           /\ <<ServerKey, SpendLeaf>> \in DOMAIN reply.sigs
           /\ reply.sigs[<<ServerKey, SpendLeaf>>].type = "Default"
           /\ Verifies(reply.sigs[<<ServerKey, SpendLeaf>>], ServerKey, local)
<1>1. local.leaf = SpendLeaf /\ LeafServerKey(local) = ServerKey
  BY SetupFacts DEF verify_server_ark_tx_sig, LeafCommitted, LeafServerKey
<1>. DEFINE sig == reply.sigs[<<ServerKey, SpendLeaf>>]
<1>2. /\ <<ServerKey, SpendLeaf>> \in DOMAIN reply.sigs
      /\ sig.type = "Default" /\ Verifies(sig, ServerKey, local)
  BY <1>1 DEF verify_server_ark_tx_sig
<1>3. sig = [by |-> ServerKey, tx |-> Ark(t), leaf |-> SpendLeaf, type |-> "Default"]
  <2>1. sig \in AnySigs(Leaves)
    BY <1>2 DEF Typed
  <2>2. sig = [by |-> sig.by, tx |-> sig.tx, leaf |-> sig.leaf, type |-> sig.type]
    BY <2>1 DEF AnySigs
  <2>. QED
    BY <1>1, <1>2, <2>2 DEF Verifies
<1>4. t \in ServerSigned(reply)
  BY <1>2, <1>3, ServerSignedMember
<1>. QED
  BY <1>1, <1>2, <1>4
-----------------------------------------------------------------------------
(* Old records, replies and the server's checkpoints are typed.             *)

LEMMA UnsignedCopy ==
    ASSUME Setup, NEW tx \in ArkTxs \cup CheckpointTxs
    PROVE  /\ PartyCopy(Unsigned(tx), Leaves, ServerKey) /\ Typed(Unsigned(tx), Leaves)
           /\ Unsigned(tx).tx = tx /\ Unsigned(tx).leaf = SpendLeaf /\ DOMAIN Unsigned(tx).sigs = {}
<1>1. SpendLeaf \in Leaves
  BY SetupFacts
<1>2. Unsigned(tx) = Psbt(tx, SpendLeaf)
  BY DEF Unsigned
<1>. DEFINE psbt == Psbt(tx, SpendLeaf)
<1>3. /\ PartyCopy(psbt, Leaves, ServerKey)
      /\ psbt.tx = tx /\ psbt.leaf = SpendLeaf /\ DOMAIN psbt.sigs = {}
  BY <1>1, UnsignedFacts
<1>. QED
  BY <1>2, <1>3 DEF PartyCopy

LEMMA OldRecordFacts ==
    ASSUME NoneApart, Setup, NEW rec \in OldRecords
    PROVE  /\ rec = [stage |-> rec.stage, tx |-> rec.tx, ark |-> rec.ark,
                     unsigned |-> rec.unsigned, party |-> rec.party,
                     evidence |-> rec.evidence, final |-> rec.final]
           /\ rec.stage = "Submitted" /\ rec.ark = None
           /\ rec.evidence # None => Typed(rec.evidence, Leaves)
           /\ rec.final # None /\ Typed(rec.final, Leaves) /\ rec.final.tx \in CheckpointTxs
<1>. DEFINE k1 == SpendLeaf.keys[1]
            k2 == SpendLeaf.keys[2]
            both(psbt) == sign(sign(psbt, k1), k2)
<1>0. k1 \in AnyKeys /\ k2 \in AnyKeys /\ ServerKey \in AnyKeys /\ Rogue \in AnyKeys
  BY SetupFacts DEF AnyKeys, Parties, Roles, Signers
<1>1. SpendLeaf \in Leaves /\ ForeignLeaf \in Leaves
  BY SetupFacts
<1>2. PICK t \in Txs, u \in Txs, e \in UNION {OldEvidence(v) : v \in Txs} :
          rec = [stage |-> "Submitted", tx |-> Ark(t), ark |-> None, unsigned |-> None,
                 party |-> None, evidence |-> e,
                 final |-> sign(both(Unsigned(Checkpoint(u))), ServerKey)]
  BY DEF OldRecords
<1>10. PICK v \in Txs : e \in OldEvidence(v)
  BY <1>2
<1>. HIDE DEF k1, k2
<1>3. \A tx \in ArkTxs \cup CheckpointTxs :
          /\ Typed(both(Unsigned(tx)), Leaves)
          /\ both(Unsigned(tx)).tx = tx /\ both(Unsigned(tx)).leaf = SpendLeaf
  <2>. SUFFICES ASSUME NEW tx \in ArkTxs \cup CheckpointTxs
                PROVE  /\ Typed(both(Unsigned(tx)), Leaves)
                       /\ both(Unsigned(tx)).tx = tx /\ both(Unsigned(tx)).leaf = SpendLeaf
    OBVIOUS
  <2>1. Typed(Unsigned(tx), Leaves) /\ Unsigned(tx).tx = tx /\ Unsigned(tx).leaf = SpendLeaf
    BY UnsignedCopy
  <2>2. /\ Typed(sign(Unsigned(tx), k1), Leaves)
        /\ sign(Unsigned(tx), k1).tx = tx /\ sign(Unsigned(tx), k1).leaf = SpendLeaf
    BY <1>0, <2>1, SignTyped
  <2>. QED
    BY <1>0, <2>2, SignTyped
<1>4. /\ Typed(rec.final, Leaves) /\ rec.final.tx = Checkpoint(u)
  <2>1. Checkpoint(u) \in ArkTxs \cup CheckpointTxs
    BY DEF CheckpointTxs
  <2>. HIDE DEF both
  <2>. QED
    BY <1>0, <1>2, <1>3, <2>1, SignTyped
<1>5. rec.final # None
  BY <1>4 DEF NoneApart, Typed, Shaped
<1>6. e # None => Typed(e, Leaves)
  <2>. DEFINE parties == both(Unsigned(Ark(v)))
              foreign == Psbt(Ark(v), ForeignLeaf)
  <2>1. e \in {None, parties, Put(parties, ServerKey, Sig(Rogue, parties, "Default")),
               Put(parties, ServerKey, Sig(ServerKey, parties, "All")),
               sign(foreign, Rogue), sign(foreign, ServerKey), sign(parties, ServerKey)}
    BY <1>10 DEF OldEvidence, k1, k2
  <2>2. Ark(v) \in ArkTxs \cup CheckpointTxs
    BY DEF ArkTxs
  <2>3. Typed(parties, Leaves)
    BY <1>3, <2>2
  <2>4. Typed(foreign, Leaves)
    BY <1>1, <2>2, UnsignedFacts DEF PartyCopy
  <2>. HIDE DEF parties, foreign, both
  <2>5. /\ Sig(Rogue, parties, "Default") \in AnySigs(Leaves)
        /\ Sig(ServerKey, parties, "All") \in AnySigs(Leaves)
    BY <1>0, <2>3, SigFacts
  <2>6. /\ Typed(Put(parties, ServerKey, Sig(Rogue, parties, "Default")), Leaves)
        /\ Typed(Put(parties, ServerKey, Sig(ServerKey, parties, "All")), Leaves)
    BY <1>0, <2>3, <2>5, PutTyped
  <2>7. Typed(sign(foreign, Rogue), Leaves) /\ Typed(sign(foreign, ServerKey), Leaves)
    BY <1>0, <2>4, SignTyped
  <2>8. Typed(sign(parties, ServerKey), Leaves)
    BY <1>0, <2>3, SignTyped
  <2>. QED
    BY <2>1, <2>3, <2>6, <2>7, <2>8
<1>7. rec.final.tx \in CheckpointTxs
  BY <1>4 DEF CheckpointTxs
<1>. HIDE DEF both
<1>8. rec.stage = "Submitted" /\ rec.ark = None /\ rec.evidence = e
  BY <1>2
<1>9. rec = [stage |-> rec.stage, tx |-> rec.tx, ark |-> rec.ark,
             unsigned |-> rec.unsigned, party |-> rec.party,
             evidence |-> rec.evidence, final |-> rec.final]
  BY <1>2
<1>. QED
  BY <1>4, <1>5, <1>6, <1>7, <1>8, <1>9

LEMMA ReplyFacts ==
    ASSUME NoneApart, Setup, NEW reply \in Replies
    PROVE  Typed(reply, Leaves) /\ reply # None
<1>1. SpendLeaf \in Leaves /\ ServerKey \in AnyKeys /\ Rogue \in AnyKeys
  BY SetupFacts DEF AnyKeys
<1>2. \A u \in Txs : Ark(u) \in ArkTxs \cup CheckpointTxs
  BY DEF ArkTxs
<1>. DEFINE AllSigs == [by : {ServerKey, Rogue}, tx : {Ark(t) : t \in Txs},
                        leaf : {SpendLeaf, ForeignLeaf}, type : {"Default", "All"}]
<1>3. ASSUME NEW u \in Txs, reply = Unsigned(Ark(u)) PROVE Typed(reply, Leaves) /\ reply # None
  <2>1. Typed(reply, Leaves)
    BY <1>2, <1>3, UnsignedCopy
  <2>. QED
    BY <2>1 DEF Typed, Shaped, NoneApart
<1>4. ASSUME NEW u \in Txs, NEW k \in {ServerKey, Rogue}, NEW l \in {SpendLeaf, ForeignLeaf},
             NEW sig \in AllSigs,
             reply = [tx |-> Ark(u), leaf |-> SpendLeaf, sigs |-> [s \in {<<k, l>>} |-> sig]]
      PROVE  Typed(reply, Leaves) /\ reply # None
  <2>1. Shaped(reply) /\ reply.tx = Ark(u) /\ reply.leaf = SpendLeaf
    BY <1>4 DEF Shaped
  <2>2. DOMAIN reply.sigs = {<<k, l>>} /\ \A s \in DOMAIN reply.sigs : reply.sigs[s] = sig
    BY <1>4
  <2>3. sig \in AnySigs(Leaves) /\ <<k, l>> \in AnyKeys \X Leaves
    BY <1>1 DEF AnySigs, Leaves, ArkTxs
  <2>. QED
    BY <1>1, <1>2, <2>1, <2>2, <2>3 DEF Typed, NoneApart, Shaped
<1>5. \/ \E u \in Txs : reply = Unsigned(Ark(u))
      \/ \E u \in Txs, k \in {ServerKey, Rogue}, l \in {SpendLeaf, ForeignLeaf}, sig \in AllSigs :
            reply = [tx |-> Ark(u), leaf |-> SpendLeaf, sigs |-> [s \in {<<k, l>>} |-> sig]]
  <2>1. Replies =
          {Unsigned(Ark(u)) : u \in Txs}
            \cup {[tx |-> Ark(u), leaf |-> SpendLeaf, sigs |-> [s \in {<<k, l>>} |-> sig]] :
                    u \in Txs, k \in {ServerKey, Rogue}, l \in {SpendLeaf, ForeignLeaf},
                    sig \in AllSigs}
    BY DEF Replies
  <2>. HIDE DEF AllSigs
  <2>. DEFINE OneEntry(u, k, l, sig) ==
                [tx |-> Ark(u), leaf |-> SpendLeaf, sigs |-> [s \in {<<k, l>>} |-> sig]]
  <2>2. Replies =
          {Unsigned(Ark(u)) : u \in Txs}
            \cup {OneEntry(u, k, l, sig) : u \in Txs, k \in {ServerKey, Rogue},
                                        l \in {SpendLeaf, ForeignLeaf}, sig \in AllSigs}
    BY <2>1
  <2>. HIDE DEF OneEntry
  <2>3. \/ \E u \in Txs : reply = Unsigned(Ark(u))
        \/ \E u \in Txs, k \in {ServerKey, Rogue}, l \in {SpendLeaf, ForeignLeaf}, sig \in AllSigs :
              reply = OneEntry(u, k, l, sig)
    BY <2>2
  <2>. QED
    BY <2>3 DEF OneEntry
<1>. HIDE DEF AllSigs
<1>. QED
  BY <1>3, <1>4, <1>5, Zenon

(* Altering a copy on its way leaves it a copy of the parties.              *)
LEMMA BentFacts ==
    ASSUME Setup, NEW psbt, PartyCopy(psbt, Leaves, ServerKey), NEW c \in Bent(psbt)
    PROVE  PartyCopy(c, Leaves, ServerKey) /\ c.tx = psbt.tx
<1>1. /\ ServerKey \in AnyKeys /\ Rogue \in AnyKeys /\ Rogue # ServerKey
      /\ PartyKeys \subseteq AnyKeys
      /\ ForeignLeaf \in Leaves
  BY SetupFacts DEF AnyKeys
<1>2. Typed(psbt, Leaves) /\ Shaped(psbt)
  BY DEF PartyCopy, Typed
<1>3. CASE c = [psbt EXCEPT !.leaf = ForeignLeaf]
  <2>1. c = [tx |-> psbt.tx, leaf |-> ForeignLeaf, sigs |-> psbt.sigs]
    BY <1>2, <1>3 DEF Shaped
  <2>. QED
    BY <1>1, <1>2, <2>1 DEF PartyCopy, Typed, Shaped
<1>4. ASSUME NEW k \in PartyKeys \cup {ServerKey}, c = Put(psbt, k, Sig(Rogue, psbt, "Default"))
      PROVE  PartyCopy(c, Leaves, ServerKey) /\ c.tx = psbt.tx
  <2>. DEFINE sig == Sig(Rogue, psbt, "Default")
  <2>1. sig \in AnySigs(Leaves) /\ sig.by # ServerKey /\ sig.type = "Default"
    BY <1>1, <1>2, SigFacts
  <2>2. k \in AnyKeys
    BY <1>1
  <2>. HIDE DEF sig
  <2>3. PartyCopy(Put(psbt, k, sig), Leaves, ServerKey)
    BY <2>1, <2>2, PutCopy
  <2>. DEFINE q == Put(psbt, k, sig)
  <2>4. Shaped(q) /\ q.tx = psbt.tx /\ q.leaf = psbt.leaf /\ q.sigs[<<k, psbt.leaf>>] = sig
    BY <1>2, PutFacts
  <2>. QED
    BY <1>4, <2>3, <2>4 DEF sig
<1>. QED
  BY <1>3, <1>4 DEF Bent

LEMMA ServerCheckpointFacts ==
    ASSUME NoneApart, Setup, NEW cp \in ServerCheckpoints
    PROVE  Typed(cp, Leaves)
<1>1. ServerKey \in AnyKeys /\ Rogue \in AnyKeys /\ SpendLeaf \in Leaves
  BY SetupFacts DEF AnyKeys
<1>2. PICK k \in {ServerKey, Rogue}, u \in Txs :
          \E psbt \in {Unsigned(Checkpoint(u))} \cup Bent(Unsigned(Checkpoint(u))) :
              cp = sign(psbt, k)
  BY DEF ServerCheckpoints
<1>5. PICK psbt \in {Unsigned(Checkpoint(u))} \cup Bent(Unsigned(Checkpoint(u))) :
          cp = sign(psbt, k)
  BY <1>2
<1>6. Checkpoint(u) \in ArkTxs \cup CheckpointTxs
  BY DEF CheckpointTxs
<1>7. PartyCopy(Psbt(Checkpoint(u), SpendLeaf), Leaves, ServerKey)
  BY <1>1, <1>6, UnsignedFacts, Zenon
<1>3. PartyCopy(Unsigned(Checkpoint(u)), Leaves, ServerKey)
  BY <1>7 DEF Unsigned
<1>4. Typed(psbt, Leaves)
  BY <1>3, BentFacts DEF PartyCopy
<1>. QED
  BY <1>1, <1>4, <1>5, SignTyped

LEMMA SigningInit == ASSUME NoneApart, Init PROVE SigningInv
<1>1. Setup
  BY DEF Init, Setup, validate
<1>2. CopiesInv
  <2>1. copies = [p \in Parties |-> None]
    BY DEF Init
  <2>. QED
    BY <2>1 DEF CopiesInv
<1>3. record = None \/ record \in OldRecords
  BY DEF Init
<1>4. SubmittingInv /\ CleanInv
  BY <1>1, <1>3, OldRecordFacts DEF SubmittingInv, CleanInv
<1>5. AcceptedInv
  BY <1>1, <1>3, OldRecordFacts DEF AcceptedInv, RecordShaped, Init
<1>6. CallInv /\ PayoutHeld /\ FinalComplete
  BY DEF CallInv, PayoutHeld, FinalComplete, Init
<1>7. ServerInv
  BY ServerSignedTxs DEF ServerInv, CommitmentBeforeRelease, Init
<1>. QED
  BY <1>1, <1>2, <1>4, <1>5, <1>6, <1>7 DEF SigningInv
-----------------------------------------------------------------------------
(* What a step keeps because it leaves alone what it is about.              *)

RecordInv == SubmittingInv /\ CleanInv /\ AcceptedInv /\ PayoutHeld /\ FinalComplete

LEMMA RecordKept ==
    ASSUME RecordInv, UNCHANGED <<setup, record, clean, proper, mixed>>,
           cosigned \subseteq cosigned'
    PROVE  RecordInv'
<1>. USE SetupStays
<1>1. SubmittingInv'
  BY DEF RecordInv, SubmittingInv, RecordShaped, Unsigned
<1>2. CleanInv'
  BY DEF RecordInv, CleanInv
<1>3. ServerSigned(record.evidence)' = ServerSigned(record.evidence)
  BY DEF ServerSigned
<1>4. AcceptedInv'
  BY <1>3 DEF RecordInv, AcceptedInv, RecordShaped
<1>5. /\ Complete(record.evidence)' = Complete(record.evidence)
      /\ Complete(record.final)' = Complete(record.final)
  BY DEF Complete
<1>6. PayoutHeld' /\ FinalComplete'
  BY <1>5 DEF RecordInv, PayoutHeld, FinalComplete
<1>. QED
  BY <1>1, <1>2, <1>4, <1>6 DEF RecordInv

LEMMA NoRecord ==
    ASSUME record' = None
    PROVE  RecordInv'
BY DEF RecordInv, SubmittingInv, CleanInv, AcceptedInv, PayoutHeld, FinalComplete

LEMMA CopiesKept ==
    ASSUME CopiesInv, UNCHANGED <<setup, copies>>
    PROVE  CopiesInv'
BY SetupStays DEF CopiesInv

LEMMA CopyTaken ==
    ASSUME CopiesInv, UNCHANGED setup, NEW p \in Parties, NEW copy,
           GoodCopy(copy, Leaves, ServerKey), copies' = [copies EXCEPT ![p] = copy]
    PROVE  CopiesInv'
<1>1. copies' = [q \in Parties |-> IF q = p THEN copy ELSE copies[q]]
  BY DEF CopiesInv
<1>2. copies' = [q \in Parties |-> copies'[q]]
  BY <1>1
<1>3. \A q \in Parties : copies'[q] # None => GoodCopy(copies'[q], Leaves, ServerKey)
  BY <1>1 DEF CopiesInv
<1>. QED
  BY <1>2, <1>3, SetupStays DEF CopiesInv

(* A step of the parties is right when the copies are.                      *)
LEMMA PartyStep ==
    ASSUME SigningInv, UNCHANGED <<setup, call, record, history, server>>, CopiesInv'
    PROVE  SigningInv'
<1>1. RecordInv'
  BY RecordKept DEF SigningInv, RecordInv, history, server
<1>2. Setup'
  BY SetupStays DEF SigningInv
<1>3. CallInv' /\ ServerInv'
  BY DEF SigningInv, CallInv, ServerInv, CommitmentBeforeRelease, call, history, server
<1>. QED
  BY <1>1, <1>2, <1>3 DEF SigningInv, RecordInv

LEMMA BuildStep ==
    ASSUME NoneApart, SigningInv, NEW p \in Signers, NEW t \in Txs, Build(p, t)
    PROVE  SigningInv'
<1>. DEFINE copy == [ark |-> Unsigned(Ark(t)), checkpoint |-> Unsigned(Checkpoint(t))]
<1>1. Setup /\ p \in Parties
  BY SetupFacts DEF SigningInv
<1>2. Ark(t) \in ArkTxs /\ Checkpoint(t) \in CheckpointTxs
  BY DEF ArkTxs, CheckpointTxs
<1>3. GoodCopy(copy, Leaves, ServerKey)
  BY <1>1, <1>2, UnsignedCopy DEF GoodCopy
<1>4. copies' = [copies EXCEPT ![p] = copy] /\ UNCHANGED setup
  BY DEF Build
<1>. HIDE DEF copy
<1>5. CopiesInv'
  BY <1>1, <1>3, <1>4, CopyTaken DEF SigningInv
<1>. QED
  BY <1>5, PartyStep DEF Build

LEMMA SignStep ==
    ASSUME NoneApart, SigningInv, NEW p \in Signers, Sign(p)
    PROVE  SigningInv'
<1>. DEFINE key == contract.keys[p]
            copy == [ark |-> sign(copies[p].ark, key),
                     checkpoint |-> sign(copies[p].checkpoint, key)]
<1>1. Setup /\ p \in Parties /\ key \in AnyKeys /\ key # ServerKey
  BY SetupFacts DEF SigningInv, AnyKeys, Roles
<1>2. GoodCopy(copies[p], Leaves, ServerKey)
  BY <1>1 DEF SigningInv, CopiesInv, Sign
<1>3. copies' = [copies EXCEPT ![p] = copy] /\ UNCHANGED setup
  BY DEF Sign
<1>. HIDE DEF key
<1>4. GoodCopy(copy, Leaves, ServerKey)
  BY <1>1, <1>2, SignCopy DEF GoodCopy
<1>. HIDE DEF copy
<1>5. CopiesInv'
  BY <1>1, <1>3, <1>4, CopyTaken DEF SigningInv
<1>. QED
  BY <1>5, PartyStep DEF Sign

LEMMA PassOnStep ==
    ASSUME NoneApart, SigningInv, NEW p \in Signers, NEW q \in Signers, PassOn(p, q)
    PROVE  SigningInv'
<1>1. Setup /\ p \in Parties /\ q \in Parties
  BY SetupFacts DEF SigningInv
<1>2. GoodCopy(copies[p], Leaves, ServerKey)
  BY <1>1 DEF SigningInv, CopiesInv, PassOn
<1>3. ASSUME copies' = [copies EXCEPT ![q] = copies[p]] PROVE CopiesInv'
  BY <1>1, <1>2, <1>3, CopyTaken DEF SigningInv, PassOn
<1>4. ASSUME NEW c \in Bent(copies[p].ark),
             copies' = [copies EXCEPT ![q] = [copies[p] EXCEPT !.ark = c]]
      PROVE  CopiesInv'
  <2>. DEFINE copy == [ark |-> c, checkpoint |-> copies[p].checkpoint]
  <2>1. [copies[p] EXCEPT !.ark = c] = copy
    BY <1>2 DEF GoodCopy
  <2>2. GoodCopy(copy, Leaves, ServerKey)
    BY <1>1, <1>2, BentFacts DEF GoodCopy
  <2>. HIDE DEF copy
  <2>. QED
    BY <1>1, <1>4, <2>1, <2>2, CopyTaken DEF SigningInv, PassOn
<1>5. ASSUME NEW c \in Bent(copies[p].checkpoint),
             copies' = [copies EXCEPT ![q] = [copies[p] EXCEPT !.checkpoint = c]]
      PROVE  CopiesInv'
  <2>. DEFINE copy == [ark |-> copies[p].ark, checkpoint |-> c]
  <2>1. [copies[p] EXCEPT !.checkpoint = c] = copy
    BY <1>2 DEF GoodCopy
  <2>2. GoodCopy(copy, Leaves, ServerKey)
    BY <1>1, <1>2, BentFacts DEF GoodCopy
  <2>. HIDE DEF copy
  <2>. QED
    BY <1>1, <1>5, <2>1, <2>2, CopyTaken DEF SigningInv, PassOn
<1>6. CopiesInv'
  BY <1>3, <1>4, <1>5 DEF PassOn
<1>. QED
  BY <1>6, PartyStep DEF PassOn

-----------------------------------------------------------------------------
(* The steps of the call.                                                   *)

(* A step that leaves copies and record alone.                              *)
LEMMA CallStep ==
    ASSUME SigningInv, UNCHANGED <<setup, copies, record, history>>,
           cosigned \subseteq cosigned', CallInv', ServerInv'
    PROVE  SigningInv'
<1>1. RecordInv'
  BY RecordKept DEF SigningInv, RecordInv, history
<1>2. Setup' /\ CopiesInv'
  BY SetupStays, CopiesKept DEF SigningInv
<1>. QED
  BY <1>1, <1>2 DEF SigningInv, RecordInv

(* A record is removed.                                                     *)
LEMMA RemovalStep ==
    ASSUME SigningInv, UNCHANGED <<setup, copies, history, server>>, record' = None, at' = "idle"
    PROVE  SigningInv'
<1>1. RecordInv'
  BY NoRecord
<1>2. Setup' /\ CopiesInv'
  BY SetupStays, CopiesKept DEF SigningInv
<1>3. CallInv' /\ ServerInv'
  BY DEF SigningInv, CallInv, ServerInv, CommitmentBeforeRelease, history, server
<1>. QED
  BY <1>1, <1>2, <1>3 DEF SigningInv, RecordInv

LEMMA ResumeSubmittedStep ==
    ASSUME NoneApart, SigningInv, ResumeSubmitted
    PROVE  SigningInv'
<1>1. Setup
  BY DEF SigningInv
<1>2. /\ record # None /\ record.stage = "Submitted"
      /\ record.evidence # None /\ Typed(record.evidence, Leaves)
      /\ record.final.tx \in CheckpointTxs /\ ServerSigned(record.evidence) \subseteq cosigned
  BY DEF SigningInv, AcceptedInv, ResumeSubmitted, EvidenceHolds
<1>3. PICK u \in Txs : record.final.tx = Checkpoint(u)
  BY <1>2 DEF CheckpointTxs
<1>4. record.final.tx.of = u
  BY <1>3 DEF Checkpoint
<1>5. record.evidence.tx = Ark(u) /\ verify_server_ark_tx_sig(record.evidence, record.evidence)
  BY <1>4 DEF ResumeSubmitted, EvidenceHolds
<1>6. u \in cosigned
  BY <1>1, <1>2, <1>5, VerifiedIsSigned
<1>7. CallInv'
  BY <1>2, <1>4, <1>6 DEF CallInv, ResumeSubmitted, server, history
<1>8. ServerInv'
  BY DEF SigningInv, ServerInv, CommitmentBeforeRelease, ResumeSubmitted, server, history
<1>. QED
  BY <1>7, <1>8, CallStep DEF ResumeSubmitted, signing, server

(* What a finalize or a submit sends of the parties' signatures.            *)
LEMMA PartySigsFacts ==
    ASSUME Setup, NEW psbt, NEW s \in PartySigs(psbt)
    PROVE  s.of = psbt.tx.of /\ s = [key |-> s.key, of |-> s.of] /\ s.key \in Keys
BY SetupFacts DEF PartySigs

LEMMA SendSubmitStep ==
    ASSUME NoneApart, SigningInv, SendSubmit
    PROVE  SigningInv'
<1>1. Setup /\ record # None /\ record.stage = "Submitting"
  BY DEF SigningInv, CallInv, SendSubmit
<1>2. PICK u \in Txs : record.unsigned = Unsigned(Checkpoint(u))
  BY <1>1 DEF SigningInv, SubmittingInv
<1>3. DOMAIN record.unsigned.sigs = {}
  BY <1>1, <1>2, UnsignedCopy DEF CheckpointTxs
<1>4. PartySigs(record.unsigned) = {}
  BY <1>3 DEF PartySigs, HasSig, HasEntry
<1>5. seen' = seen
  BY <1>4 DEF SendSubmit
<1>6. CallInv' /\ ServerInv'
  BY <1>1, <1>5 DEF SigningInv, CallInv, ServerInv, CommitmentBeforeRelease, SendSubmit, history
<1>. QED
  BY <1>6, CallStep DEF SendSubmit, signing

LEMMA FinalizeStep ==
    ASSUME NoneApart, SigningInv, Finalize
    PROVE  SigningInv'
<1>1. /\ Setup /\ record # None /\ record.stage = "Submitted"
      /\ record.final.tx.of \in cosigned \cup mixed /\ AcceptedInv
  BY DEF SigningInv, CallInv, Finalize
<1>2. ServerInv'
  <2>1. cosigned \subseteq Txs /\ mixed \subseteq Txs /\ UNCHANGED <<cosigned, mixed>>
    BY DEF SigningInv, ServerInv, Finalize, history
  <2>2. \A s \in PartySigs(record.final) :
           s \in [key : Keys, of : Txs] /\ s.of \in cosigned \cup mixed
    BY <1>1, <2>1, PartySigsFacts
  <2>. QED
    BY <2>1, <2>2 DEF SigningInv, ServerInv, CommitmentBeforeRelease, Finalize
<1>3. CASE UNCHANGED record
  <2>1. CallInv'
    BY DEF CallInv, Finalize
  <2>. QED
    BY <1>2, <1>3, <2>1, CallStep DEF Finalize, signing
<1>4. CASE record' = [record EXCEPT !.stage = "Finalized"]
  <2>1. record' = [stage |-> "Finalized", tx |-> record.tx, ark |-> record.ark,
                   unsigned |-> record.unsigned, party |-> record.party,
                   evidence |-> record.evidence, final |-> record.final]
    BY <1>1, <1>4 DEF AcceptedInv, RecordShaped
  <2>2. /\ record'.stage = "Finalized" /\ record'.ark = record.ark
        /\ record'.evidence = record.evidence /\ record'.final = record.final
        /\ RecordShaped'
    BY <2>1 DEF RecordShaped
  <2>. USE SetupStays
  <2>3. Setup' /\ CopiesInv' /\ UNCHANGED <<cosigned, clean, proper, setup>>
    BY CopiesKept DEF SigningInv, Finalize, signing, history
  <2>4. SubmittingInv' /\ CleanInv' /\ CallInv'
    BY <2>2 DEF SubmittingInv, CleanInv, CallInv, Finalize
  <2>5. ServerSigned(record.evidence)' = ServerSigned(record.evidence)
    BY <2>2, <2>3 DEF ServerSigned
  <2>6. AcceptedInv'
    BY <1>1, <2>2, <2>3, <2>5 DEF AcceptedInv
  <2>7. /\ Complete(record.evidence)' = Complete(record.evidence)
        /\ Complete(record.final)' = Complete(record.final)
    BY <2>2, <2>3 DEF Complete
  <2>8. PayoutHeld' /\ FinalComplete'
    BY <1>1, <2>2, <2>3, <2>7 DEF SigningInv, PayoutHeld, FinalComplete
  <2>. QED
    BY <1>2, <2>3, <2>4, <2>6, <2>8 DEF SigningInv
<1>. QED
  BY <1>3, <1>4 DEF Finalize
(* The call takes the copies into its record.                               *)
LEMMA SpendStep ==
    ASSUME NoneApart, SigningInv, NEW base \in Signers, NEW other \in Signers, NEW u \in Txs,
           base # other, Spend(base, other, u)
    PROVE  SigningInv'
<1>. DEFINE merged == merge_ark_tx_sigs(copies[base].ark, copies[other].ark)
            party == [p \in Signers |-> copies[p].checkpoint]
            unsigned == Unsigned(Checkpoint(u))
<1>1. /\ Setup /\ base \in Parties /\ other \in Parties
      /\ \A p \in Signers : p \in Parties /\ (p = base \/ p = other)
  BY SetupFacts DEF SigningInv, Signers
<1>2. /\ copies[base] # None /\ copies[other] # None
      /\ copies[base].ark.tx = copies[other].ark.tx
      /\ \A p \in Signers : copies[p].checkpoint.tx = Checkpoint(u)
  BY DEF Spend, Mergeable
<1>3. \A p \in Signers : GoodCopy(copies[p], Leaves, ServerKey)
  BY <1>1, <1>2 DEF SigningInv, CopiesInv
<1>4. /\ PartyCopy(merged, Leaves, ServerKey)
      /\ merged.tx = copies[base].ark.tx /\ merged.leaf = copies[base].ark.leaf
      /\ merged.tx \in ArkTxs
  <2>1. /\ PartyCopy(copies[base].ark, Leaves, ServerKey)
        /\ PartyCopy(copies[other].ark, Leaves, ServerKey)
    BY <1>3 DEF GoodCopy
  <2>2. Shaped(copies[base].ark) /\ copies[base].ark.tx \in ArkTxs
    BY <1>3 DEF GoodCopy, PartyCopy, Typed
  <2>. QED
    BY <2>1, <2>2, MergeCopy, MergeFacts
<1>5. ASSUME Clean("ark")
      PROVE  merged.leaf = SpendLeaf /\ \A p \in Signers : HasSig(merged, contract.keys[p])
  <2>1. \A p \in Signers : /\ copies[p].ark.leaf = SpendLeaf
                           /\ HasSig(copies[p].ark, contract.keys[p]) /\ Honest(copies[p].ark)
    BY <1>5 DEF Clean, Honest
  <2>. DEFINE a == copies[base].ark
              b == copies[other].ark
  <2>2. PartyCopy(a, Leaves, ServerKey) /\ Shaped(a) /\ a.tx = b.tx /\ a.leaf = b.leaf
    BY <1>2, <1>3, <2>1 DEF GoodCopy, PartyCopy, Typed
  <2>3. HasSig(a, contract.keys[base]) /\ HasSig(b, contract.keys[other]) /\ Honest(a)
    BY <2>1
  <2>. HIDE DEF a, b
  <2>4. HasSig(merge_ark_tx_sigs(a, b), contract.keys[base])
    BY <2>2, <2>3, MergeHasSig
  <2>5. HasSig(a, contract.keys[other]) \/ ~HasEntry(a, contract.keys[other])
    BY <2>2, <2>3, HonestHasSig
  <2>6. HasSig(merge_ark_tx_sigs(a, b), contract.keys[other])
    BY <2>2, <2>3, <2>5, MergeHasSig
  <2>. QED
    BY <1>1, <1>4, <2>1, <2>4, <2>6 DEF a, b
<1>. HIDE DEF merged
<1>6. record' = [stage |-> "Submitting", tx |-> merged.tx, ark |-> merged, unsigned |-> unsigned,
                 party |-> party, evidence |-> None, final |-> None]
  BY DEF Spend, NewRecord, merged
<1>7. /\ RecordShaped' /\ record'.stage = "Submitting" /\ record'.ark = merged
      /\ record'.unsigned = unsigned /\ record'.evidence = None /\ record'.final = None
      /\ \A p \in Signers : record'.party[p] = copies[p].checkpoint
  BY <1>6 DEF RecordShaped
<1>8. record' # None
  BY <1>6 DEF NoneApart
<1>. HIDE DEF party, unsigned
<1>9. mixed \subseteq mixed' /\ mixed' \subseteq Txs /\ (merged.tx = Ark(u) \/ u \in mixed')
  BY <1>4 DEF Spend, SigningInv, ServerInv
<1>10. UNCHANGED setup /\ SpendLeaf' = SpendLeaf /\ Leaves' = Leaves /\ ServerKey' = ServerKey
       /\ Signers' = Signers /\ contract' = contract /\ Setup'
  BY <1>1, SetupStays DEF Spend
<1>11. SubmittingInv'
  <2>1. \A p \in Signers : PartyCopy(copies[p].checkpoint, Leaves, ServerKey)
    BY <1>3 DEF GoodCopy
  <2>2. unsigned = Unsigned(Checkpoint(u))' /\ Checkpoint(u)' = Checkpoint(u) /\ Ark(u)' = Ark(u)
    BY <1>10 DEF unsigned, Unsigned
  <2>. QED
    BY <1>2, <1>4, <1>7, <1>9, <1>10, <2>1, <2>2 DEF SubmittingInv
<1>12. CleanInv'
  <2>1. "ark" \in clean' => Clean("ark")
    BY DEF Spend
  <2>2. "checkpoint" \in clean' =>
           \A p \in Signers : /\ copies[p].checkpoint.leaf = SpendLeaf
                              /\ HasSig(copies[p].checkpoint, contract.keys[p])
                              /\ Honest(copies[p].checkpoint)
    BY DEF Spend, Clean, Honest
  <2>. QED
    BY <1>5, <1>7, <1>10, <2>1, <2>2 DEF CleanInv
<1>13. AcceptedInv' /\ PayoutHeld' /\ FinalComplete'
  BY <1>7 DEF AcceptedInv, PayoutHeld, FinalComplete
<1>14. CopiesInv'
  <2>1. copies' = [p \in Parties |-> None]
    BY DEF Spend
  <2>. QED
    BY <2>1 DEF CopiesInv
<1>15. CallInv'
  BY <1>7, <1>8 DEF CallInv, Spend
<1>16. ServerInv'
  BY <1>9 DEF SigningInv, ServerInv, CommitmentBeforeRelease, Spend, server
<1>. QED
  BY <1>10, <1>11, <1>12, <1>13, <1>14, <1>15, <1>16 DEF SigningInv

(* The server accepts: the record gets the evidence and the merged          *)
(* checkpoint.                                                              *)
LEMMA AcceptedStep ==
    ASSUME NoneApart, SigningInv, NEW reply \in Replies, SubmitAccepted(reply)
    PROVE  SigningInv'
<1>. DEFINE ark == record.ark
            party == record.party
            k1 == contract.keys[Pair(signer_set)[1]]
            k2 == contract.keys[Pair(signer_set)[2]]
            p1 == Pair(signer_set)[1]
            p2 == Pair(signer_set)[2]
<1>1. Setup /\ record # None /\ record.stage = "Submitting"
  BY DEF SigningInv, CallInv, SubmitAccepted
<1>2. PICK cp \in ServerCheckpoints :
         /\ \A p \in Signers : Mergeable(cp, party[p])
         /\ record' = Upgraded(record, reply, cp)
         /\ proper' = (cp = sign(Unsigned(cp.tx), ServerKey))
  BY DEF SubmitAccepted
<1>3. /\ RecordShaped /\ PartyCopy(ark, Leaves, ServerKey) /\ ark.tx \in ArkTxs
  BY <1>1 DEF SigningInv, SubmittingInv
<1>4. PICK u \in Txs :
         /\ \A p \in Signers : PartyCopy(party[p], Leaves, ServerKey) /\ party[p].tx = Checkpoint(u)
         /\ ark.tx = Ark(u) \/ u \in mixed
  BY <1>1 DEF SigningInv, SubmittingInv
<1>5. PICK t \in Txs : ark.tx = Ark(t)
  BY <1>3 DEF ArkTxs
<1>6. Typed(reply, Leaves) /\ reply # None /\ Typed(cp, Leaves)
  BY <1>1, ReplyFacts, ServerCheckpointFacts
<1>. DEFINE slot == <<ServerKey, SpendLeaf>>
            sig == reply.sigs[slot]
            evidence == Put(ark, ServerKey, sig)
            step == merge_ark_tx_sigs(cp, party[p1])
            final == merge_ark_tx_sigs(step, party[p2])
<1>7. /\ t \in ServerSigned(reply) /\ ark.leaf = SpendLeaf /\ slot \in DOMAIN reply.sigs
      /\ sig.type = "Default" /\ Verifies(sig, ServerKey, ark)
  BY <1>1, <1>5, <1>6, VerifiedIsSigned DEF SubmitAccepted
<1>8. Canonical(ark, reply) = evidence
  BY <1>1, <1>7, SetupFacts DEF Canonical, LeafServerKey
<1>9. record' = [stage |-> "Submitted", tx |-> record.tx, ark |-> None, unsigned |-> None,
                 party |-> None, evidence |-> evidence, final |-> final]
  BY <1>2, <1>3, <1>8 DEF RecordShaped, Upgraded, merge_all_checkpoint_sigs
<1>10. /\ p1 \in Signers /\ p2 \in Signers /\ k1 # ServerKey /\ k2 # ServerKey
       /\ ServerKey \in AnyKeys /\ k1 = contract.keys[p1] /\ k2 = contract.keys[p2] /\ k1 # k2
       /\ SpendLeaf.keys = <<k1, k2, ServerKey>>
  <2>1. p1 \in Parties /\ p2 \in Parties /\ p1 # p2 /\ p1 \in Roles /\ p2 \in Roles
    BY <1>1, SetupFacts DEF Signers, Roles
  <2>. QED
    BY <1>1, <2>1, SetupFacts DEF Signers, AnyKeys, Setup, validate, DistinctKeys
<1>11. UNCHANGED setup /\ SpendLeaf' = SpendLeaf /\ Leaves' = Leaves /\ ServerKey' = ServerKey
       /\ Signers' = Signers /\ contract' = contract /\ Setup'
  BY <1>1, SetupStays DEF SubmitAccepted
<1>. HIDE DEF ark, party, k1, k2, p1, p2, slot, sig, evidence, step, final

<1>20. /\ Typed(evidence, Leaves) /\ Shaped(evidence)
       /\ DOMAIN evidence.sigs = DOMAIN ark.sigs \cup {slot}
       /\ evidence.tx = ark.tx /\ evidence.leaf = SpendLeaf /\ evidence.sigs[slot] = sig
       /\ \A s \in DOMAIN ark.sigs : s # slot => evidence.sigs[s] = ark.sigs[s]
  <2>1. sig \in AnySigs(Leaves)
    BY <1>6, <1>7 DEF Typed, sig
  <2>2. Typed(ark, Leaves) /\ Shaped(ark)
    BY <1>3 DEF PartyCopy, Typed
  <2>3. slot = <<ServerKey, ark.leaf>>
    BY <1>7 DEF slot
  <2>4. Typed(evidence, Leaves)
    BY <1>10, <2>1, <2>2, PutTyped DEF evidence
  <2>. QED
    BY <1>7, <2>2, <2>3, <2>4, PutFacts DEF evidence
<1>21. evidence # None
  BY <1>20 DEF Shaped, NoneApart
<1>22. ServerSigned(evidence) \subseteq ServerSigned(reply)
  <2>. SUFFICES ASSUME NEW v \in ServerSigned(evidence) PROVE v \in ServerSigned(reply)
    OBVIOUS
  <2>. DEFINE made(type) == [by |-> ServerKey, tx |-> Ark(v), leaf |-> SpendLeaf, type |-> type]
  <2>1. v \in Txs /\ \E k \in DOMAIN evidence.sigs, type \in {"Default", "All"} :
                        evidence.sigs[k] = made(type)
    BY <1>21, ServerSignedMember
  <2>2. PICK k \in DOMAIN evidence.sigs, type \in {"Default", "All"} : evidence.sigs[k] = made(type)
    BY <2>1
  <2>3. k = slot
    <3>1. made(type).by = ServerKey
      OBVIOUS
    <3>. QED
      BY <1>3, <1>20, <2>2, <3>1 DEF PartyCopy
  <2>4. reply.sigs[slot] = made(type)
    BY <1>20, <2>2, <2>3 DEF sig
  <2>. QED
    BY <1>6, <1>7, <2>1, <2>4, ServerSignedMember
<1>23. HasSig(evidence, ServerKey)
  BY <1>7, <1>20 DEF HasSig, HasEntry, Entry, Verifies, slot
<1>24. ASSUME "ark" \in clean PROVE Complete(evidence)
  <2>1. HasSig(ark, k1) /\ HasSig(ark, k2) /\ Shaped(ark)
    BY <1>1, <1>3, <1>10, <1>24 DEF SigningInv, CleanInv, PartyCopy, Typed, ark
  <2>2. HasSig(evidence, k1) /\ HasSig(evidence, k2)
    BY <1>10, <2>1, PutKeepsSig DEF evidence
  <2>. QED
    BY <1>10, <1>20, <1>21, <1>23, <2>2 DEF Complete

<1>30. /\ Typed(step, Leaves) /\ Shaped(step) /\ step.tx = cp.tx /\ step.leaf = cp.leaf
       /\ DOMAIN step.sigs = DOMAIN cp.sigs \cup DOMAIN party[p1].sigs
       /\ Typed(final, Leaves) /\ final.tx = cp.tx /\ final.leaf = cp.leaf
  <2>1. Typed(party[p1], Leaves) /\ Typed(party[p2], Leaves) /\ Shaped(cp)
    BY <1>4, <1>6, <1>10 DEF PartyCopy, Typed
  <2>2. Typed(step, Leaves)
    BY <1>6, <2>1, MergeTyped DEF step
  <2>3. /\ Shaped(step) /\ step.tx = cp.tx /\ step.leaf = cp.leaf
        /\ DOMAIN step.sigs = DOMAIN cp.sigs \cup DOMAIN party[p1].sigs
    BY <2>1, MergeFacts DEF step
  <2>4. Typed(final, Leaves) /\ final.tx = step.tx /\ final.leaf = step.leaf
    BY <2>1, <2>2, <2>3, MergeTyped, MergeFacts DEF final
  <2>. QED
    BY <2>2, <2>3, <2>4
<1>31. cp.tx = Checkpoint(u) /\ party[p1].tx = cp.tx /\ party[p2].tx = cp.tx
  BY <1>2, <1>4, <1>10 DEF Mergeable
<1>32. final # None
  BY <1>30 DEF Typed, Shaped, NoneApart
<1>33. ASSUME "checkpoint" \in clean, cp = sign(Unsigned(cp.tx), ServerKey) PROVE Complete(final)
  <2>1. /\ \A p \in Signers : /\ party[p].leaf = SpendLeaf /\ Honest(party[p])
                              /\ HasSig(party[p], contract.keys[p])
    BY <1>1, <1>33 DEF SigningInv, CleanInv, party
  <2>. DEFINE plain == Unsigned(cp.tx)
              own == Sig(ServerKey, plain, "Default")
  <2>2. cp.tx \in ArkTxs \cup CheckpointTxs
    BY <1>31 DEF CheckpointTxs
  <2>3. Shaped(plain) /\ plain.tx = cp.tx /\ plain.leaf = SpendLeaf /\ DOMAIN plain.sigs = {}
    BY <1>1, <2>2, UnsignedCopy DEF Typed
  <2>4. own.by = ServerKey /\ own.tx = cp.tx /\ own.leaf = SpendLeaf /\ own.type = "Default"
    BY <2>3 DEF Sig
  <2>5. cp = Put(plain, ServerKey, own)
    BY <1>33 DEF sign
  <2>. HIDE DEF plain, own
  <2>6. <<ServerKey, plain.leaf>> = slot
    BY <2>3 DEF slot
  <2>7. cp.leaf = SpendLeaf /\ DOMAIN cp.sigs = {slot} /\ cp.sigs[slot] = own
    BY <2>3, <2>5, <2>6, PutFacts
  <2>8. HasSig(cp, ServerKey) /\ Shaped(cp) /\ ~HasEntry(cp, k1) /\ ~HasEntry(cp, k2)
    BY <1>6, <1>10, <2>4, <2>7 DEF HasSig, HasEntry, Entry, Verifies, slot, Typed
  <2>9. HasSig(step, ServerKey) /\ HasSig(step, k1)
    BY <1>10, <1>31, <2>1, <2>7, <2>8, MergeHasSig DEF step
  <2>10. HasSig(final, ServerKey) /\ HasSig(final, k1)
    BY <1>30, <1>31, <2>9, MergeHasSig DEF final
  <2>11. HasSig(final, k2)
    <3>1. HasSig(party[p2], k2) /\ step.leaf = party[p2].leaf /\ step.tx = party[p2].tx
      BY <1>10, <1>30, <1>31, <2>1, <2>7
    <3>2. CASE HasEntry(party[p1], k2)
      <4>1. HasSig(party[p1], k2) /\ cp.leaf = party[p1].leaf
        BY <1>4, <1>10, <2>1, <2>7, <3>2, HonestHasSig
      <4>2. HasSig(step, k2)
        BY <1>31, <2>8, <4>1, MergeHasSig DEF step
      <4>. QED
        BY <1>30, <3>1, <4>2, MergeHasSig DEF final
    <3>3. CASE ~HasEntry(party[p1], k2)
      <4>1. ~HasEntry(step, k2)
        BY <1>10, <1>30, <2>1, <2>7, <2>8, <3>3 DEF HasEntry
      <4>. QED
        BY <1>30, <3>1, <4>1, MergeHasSig DEF final
    <3>. QED
      BY <3>2, <3>3
  <2>. QED
    BY <1>10, <1>30, <1>32, <2>7, <2>10, <2>11 DEF Complete

<1>40. /\ record'.stage = "Submitted" /\ record'.ark = None /\ record'.evidence = evidence
       /\ record'.final = final /\ RecordShaped'
  BY <1>9 DEF RecordShaped
<1>41. record' # None
  BY <1>9 DEF NoneApart
<1>42. cosigned' = cosigned \cup ServerSigned(reply) /\ UNCHANGED <<copies, clean, mixed, seen>>
       /\ at' = "finalize"
  BY DEF SubmitAccepted, signing
<1>44. AcceptedInv'
  <2>1. ServerSigned(record.evidence)' = ServerSigned(evidence)
    BY <1>11, <1>40 DEF ServerSigned
  <2>2. final.tx \in CheckpointTxs
    BY <1>30, <1>31 DEF CheckpointTxs
  <2>. QED
    BY <1>11, <1>20, <1>22, <1>30, <1>32, <1>40, <1>42, <2>1, <2>2 DEF AcceptedInv
<1>45. SubmittingInv' /\ CleanInv'
  BY <1>40 DEF SubmittingInv, CleanInv
<1>46. PayoutHeld' /\ FinalComplete'
  <2>1. Complete(record.evidence)' = Complete(evidence) /\ Complete(record.final)' = Complete(final)
    BY <1>11, <1>40 DEF Complete
  <2>. QED
    BY <1>2, <1>24, <1>33, <1>42, <2>1 DEF PayoutHeld, FinalComplete
<1>47. final.tx.of \in cosigned' \cup mixed
  <2>1. final.tx.of = u
    BY <1>30, <1>31 DEF Checkpoint
  <2>2. Ark(t) = Ark(u) => t = u
    BY DEF Ark
  <2>. QED
    BY <1>4, <1>5, <1>7, <1>42, <2>1, <2>2
<1>48. CallInv'
  BY <1>40, <1>41, <1>42, <1>47 DEF CallInv
<1>49. ServerInv'
  BY <1>42, ServerSignedTxs DEF SigningInv, ServerInv, CommitmentBeforeRelease
<1>50. CopiesInv'
  BY <1>11, <1>42, CopiesKept DEF SigningInv
<1>. QED
  BY <1>11, <1>44, <1>45, <1>46, <1>48, <1>49, <1>50 DEF SigningInv
LEMMA SigningNext == ASSUME NoneApart, SigningInv, [Next]_vars PROVE SigningInv'
<1>1. CASE UNCHANGED vars
  <2>1. CopiesInv'
    BY <1>1, CopiesKept DEF vars, signing, SigningInv
  <2>. QED
    BY <1>1, <2>1, PartyStep DEF vars
<1>2. CASE Next
  <2>1. ASSUME NEW p \in Signers, NEW t \in Txs, Build(p, t) PROVE SigningInv'
    BY <2>1, BuildStep
  <2>2. ASSUME NEW p \in Signers, Sign(p) PROVE SigningInv'
    BY <2>2, SignStep
  <2>3. ASSUME NEW p \in Signers, NEW q \in Signers, PassOn(p, q) PROVE SigningInv'
    BY <2>3, PassOnStep
  <2>4. ASSUME NEW p \in Signers, NEW q \in Signers, NEW u \in Txs, p # q, Spend(p, q, u)
        PROVE  SigningInv'
    BY <2>4, SpendStep
  <2>5. CASE ResumeSubmitting
    <3>1. CallInv' /\ ServerInv'
      BY <2>5 DEF ResumeSubmitting, SigningInv, CallInv, ServerInv, CommitmentBeforeRelease,
                  history, server
    <3>. QED
      BY <2>5, <3>1, CallStep DEF ResumeSubmitting, signing, server
  <2>6. CASE ResumeSubmitted
    BY <2>6, ResumeSubmittedStep
  <2>7. CASE SendSubmit
    BY <2>7, SendSubmitStep
  <2>8. CASE SubmitRejected
    <3>1. CASE first
      BY <2>8, <3>1, RemovalStep DEF SubmitRejected, signing
    <3>2. CASE ~first
      <4>1. CallInv' /\ ServerInv'
        BY <2>8, <3>2 DEF SubmitRejected, SigningInv, CallInv, ServerInv, CommitmentBeforeRelease,
                          history, server
      <4>. QED
        BY <2>8, <3>2, <4>1, CallStep DEF SubmitRejected, signing, server
    <3>. QED
      BY <3>1, <3>2
  <2>9. ASSUME NEW reply \in Replies, SubmitUnclear(reply) PROVE SigningInv'
    <3>1. CallInv' /\ ServerInv'
      BY <2>9, ServerSignedTxs DEF SubmitUnclear, SigningInv, CallInv, ServerInv,
         CommitmentBeforeRelease, history
    <3>. QED
      BY <2>9, <3>1, CallStep DEF SubmitUnclear, signing
  <2>10. ASSUME NEW reply \in Replies, SubmitAccepted(reply) PROVE SigningInv'
    BY <2>10, AcceptedStep
  <2>11. CASE Finalize
    BY <2>11, FinalizeStep
  <2>12. CASE Crash
    <3>1. CallInv' /\ ServerInv'
      BY <2>12 DEF Crash, SigningInv, CallInv, ServerInv, CommitmentBeforeRelease, history, server
    <3>. QED
      BY <2>12, <3>1, CallStep DEF Crash, signing, server
  <2>13. CASE Prune
    BY <2>13, RemovalStep DEF Prune, signing, call
  <2>. QED
    BY <1>2, <2>1, <2>2, <2>3, <2>4, <2>5, <2>6, <2>7, <2>8, <2>9, <2>10, <2>11, <2>12, <2>13
       DEF Next
<1>. QED
  BY <1>1, <1>2

LEMMA SigningAlways == ASSUME NoneApart PROVE Spec => []SigningInv
<1>1. Init => SigningInv
  BY SigningInit
<1>2. SigningInv /\ [Next]_vars => SigningInv'
  BY SigningNext
<1>. QED
  BY <1>1, <1>2, PTL DEF Spec

-----------------------------------------------------------------------------
(* Types, and the parts a record has at each stage (PendingSpend,           *)
(* spend.rs).                                                               *)
THEOREM TypeCorrect == ASSUME NoneApart PROVE Spec => []TypeOK
<1>1. SigningInv => TypeOK
  <2>. SUFFICES ASSUME SigningInv PROVE TypeOK
    OBVIOUS
  <2>0. \A psbt : Typed(psbt, Leaves) => IsPsbt(psbt)
    BY DEF Typed, IsPsbt, ArkTxs, CheckpointTxs, Leaves, AnyKeys
  <2>1. \A p \in Parties : copies[p] # None => IsPsbt(copies[p].ark) /\ IsPsbt(copies[p].checkpoint)
    BY <2>0 DEF SigningInv, CopiesInv, GoodCopy, PartyCopy
  <2>2. ASSUME record # None
        PROVE  /\ record.stage \in {"Submitting", "Submitted", "Finalized"}
               /\ OptPsbt(record.ark) /\ OptPsbt(record.evidence) /\ OptPsbt(record.final)
               /\ (record.stage = "Submitting") = (record.final = None)
    <3>1. CASE record.stage = "Submitting"
      BY <2>0, <2>2, <3>1 DEF SigningInv, SubmittingInv, PartyCopy, OptPsbt
    <3>2. CASE record.stage # "Submitting"
      BY <2>0, <2>2, <3>2 DEF SigningInv, AcceptedInv, OptPsbt
    <3>. QED
      BY <3>1, <3>2
  <2>. QED
    BY <2>1, <2>2 DEF TypeOK, SigningInv, Setup, CallInv, ServerInv
<1>. QED
  BY <1>1, SigningAlways, PTL

(* A party's signature on a checkpoint reaches the server only after the    *)
(* server's own key has signed the ark transaction that spends it, whatever *)
(* leaf, signature or transaction copies and replies carry and whatever an  *)
(* old record holds, unless the application supplied that checkpoint with   *)
(* another transaction (docs/protocol.md, "Security invariant").            *)
THEOREM ServerCommitsFirst == ASSUME NoneApart PROVE Spec => []CommitmentBeforeRelease
<1>1. SigningInv => CommitmentBeforeRelease
  BY DEF SigningInv, ServerInv
<1>. QED
  BY <1>1, SigningAlways, PTL

(* From the moment the record shows the submit accepted, the parties hold   *)
(* an ark transaction that is fully signed, so that the payout does not     *)
(* depend on the server any more (spend_store.rs:40-43, spend.rs:223-239).  *)
THEOREM PayoutIsHeld == ASSUME NoneApart PROVE Spec => []PayoutHeld
<1>1. SigningInv => PayoutHeld
  BY DEF SigningInv
<1>. QED
  BY <1>1, SigningAlways, PTL

(* The checkpoint a finalize sends is fully signed, when the server's copy  *)
(* was (client.rs:1101-1104).                                               *)
THEOREM FinalIsComplete == ASSUME NoneApart PROVE Spec => []FinalComplete
<1>1. SigningInv => FinalComplete
  BY DEF SigningInv
<1>. QED
  BY <1>1, SigningAlways, PTL
===============================================================================
