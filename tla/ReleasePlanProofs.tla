------------------------- MODULE ReleasePlanProofs -------------------------
(***************************************************************************)
(* Proofs about ReleasePlan for any amounts and any number of fee outputs. *)
(* The sum and the partition of the fees are folds; what a fold computes   *)
(* is proved by induction over the length of the sequence, in the form     *)
(* that a set of naturals with 0 and every successor is Nat.  That form    *)
(* comes from the least element of a set of naturals, a library theorem    *)
(* without an operator parameter.                                          *)
(***************************************************************************)
EXTENDS ReleasePlan, WellFoundedInduction, TLAPS

-----------------------------------------------------------------------------
(* Induction.                                                              *)

\* A set of naturals that is not empty has a least element.
LEMMA LeastNumber ==
  ASSUME NEW T \in SUBSET Nat, T # {}
  PROVE  \E n \in T : \A m \in T : n <= m
<1> DEFINE Less == {p \in Nat \X Nat : p[1] < p[2]}
<1>1. IsWellFoundedOn(Less, Nat)
  BY NatLessThanWellFounded DEF OpToRel
<1>2. \E x \in T : \A y \in T : <<y, x>> \notin Less
  <2> HIDE DEF Less
  <2> QED BY <1>1, WFMin
<1>3. \A x, y \in T : <<y, x>> \notin Less => x <= y
  OBVIOUS
<1> QED BY <1>2, <1>3

\* A set of naturals with 0 and every successor has them all.
LEMMA Induction ==
  ASSUME NEW T \in SUBSET Nat, 0 \in T, \A n \in Nat : n \in T => n + 1 \in T
  PROVE  T = Nat
<1> SUFFICES ASSUME Nat \ T # {} PROVE FALSE
  OBVIOUS
<1>1. PICK n \in Nat \ T : \A m \in Nat \ T : n <= m
  BY LeastNumber
<1>2. n # 0 /\ n - 1 \in Nat
  BY <1>1
<1>3. n - 1 \in T
  BY <1>1, <1>2
<1>4. n \in T
  BY <1>2, <1>3
<1> QED BY <1>1, <1>4

\* A set of indices that is not empty has a greatest one.
LEMMA MaxIsGreatest ==
  ASSUME NEW n \in Nat, NEW t \in SUBSET (1 .. n), t # {}
  PROVE  Max(t) \in t /\ \A m \in t : m <= Max(t)
<1> DEFINE D == {n - m : m \in t}
<1>1. D \in SUBSET Nat /\ D # {}
  <2>1. \A m \in t : n - m \in Nat
    OBVIOUS
  <2> QED BY <2>1
<1>2. PICK d \in D : \A e \in D : d <= e
  <2> HIDE DEF D
  <2> QED BY <1>1, LeastNumber
<1>3. PICK x \in t : d = n - x
  OBVIOUS
<1>4. \A m \in t : x >= m
  <2> TAKE m \in t
  <2>1. n - m \in D
    OBVIOUS
  <2>2. n - x <= n - m
    BY <1>2, <1>3, <2>1
  <2>3. n \in Int /\ x \in Int /\ m \in Int
    OBVIOUS
  <2> HIDE DEF D
  <2> QED BY <2>2, <2>3
<1> HIDE DEF D
<1> QED BY <1>4 DEF Max

-----------------------------------------------------------------------------
(* Folds.  MapThenFoldSet defines a function over sets of indices that     *)
(* takes the greatest index away; G is the operator that is folded.        *)

\* iter is that function.
Folding(iter, base, G, s) ==
    \A t \in SUBSET DOMAIN s :
      iter[t] = IF t = {} THEN base ELSE G[<<iter[t \ {Max(t)}], s[Max(t)]>>]

\* There is such a function, so that the definition by recursion is met.
LEMMA FoldExists ==
  ASSUME NEW A, NEW B, NEW base \in A, NEW G \in [A \X B -> A], NEW s \in Seq(B)
  PROVE  \E iter \in [SUBSET DOMAIN s -> A] : Folding(iter, base, G, s)
<1> DEFINE
      Good(n, iter) ==
        /\ iter \in [SUBSET (1 .. n) -> A]
        /\ \A t \in SUBSET (1 .. n) :
             iter[t] = IF t = {} THEN base ELSE G[<<iter[t \ {Max(t)}], s[Max(t)]>>]
      T == {n \in Nat : n <= Len(s) => \E iter : Good(n, iter)}
<1>1. 0 \in T
  <2>1. Good(0, [t \in SUBSET (1 .. 0) |-> base])
    <3>1. 1 .. 0 = {}
      OBVIOUS
    <3> QED BY <3>1
  <2> HIDE DEF Good
  <2> QED BY <2>1
<1>2. ASSUME NEW n \in Nat, n \in T PROVE n + 1 \in T
  <2> SUFFICES ASSUME n + 1 <= Len(s) PROVE \E iter : Good(n + 1, iter)
    <3> HIDE DEF Good
    <3> QED OBVIOUS
  <2>1. PICK f : Good(n, f)
    <3> HIDE DEF Good
    <3> QED BY <1>2
  <2> DEFINE g == [t \in SUBSET (1 .. n + 1) |->
                    IF n + 1 \in t THEN G[<<f[t \ {n + 1}], s[n + 1]>>] ELSE f[t]]
  <2>2. \A t \in SUBSET (1 .. n + 1) : t \ {n + 1} \in SUBSET (1 .. n)
    OBVIOUS
  <2>3. \A t \in SUBSET (1 .. n) : t \in SUBSET (1 .. n + 1) /\ g[t] = f[t]
    OBVIOUS
  <2>4. s[n + 1] \in B
    OBVIOUS
  <2>5. g \in [SUBSET (1 .. n + 1) -> A]
    <3>1. ASSUME NEW t \in SUBSET (1 .. n + 1)
          PROVE  (IF n + 1 \in t THEN G[<<f[t \ {n + 1}], s[n + 1]>>] ELSE f[t]) \in A
      <4>1. CASE n + 1 \in t
        <5>1. f[t \ {n + 1}] \in A
          BY <2>1, <2>2
        <5> QED BY <4>1, <5>1, <2>4
      <4>2. CASE n + 1 \notin t
        <5>1. t \in SUBSET (1 .. n)
          BY <4>2, <2>2
        <5> QED BY <4>2, <5>1, <2>1
      <4> QED BY <4>1, <4>2
    <3> QED BY <3>1
  <2>6. ASSUME NEW t \in SUBSET (1 .. n + 1)
        PROVE  g[t] = IF t = {} THEN base ELSE G[<<g[t \ {Max(t)}], s[Max(t)]>>]
    <3>1. CASE n + 1 \in t
      <4>1. Max(t) = n + 1
        <5>1. n + 1 \in Nat /\ t # {}
          BY <3>1
        <5>2. Max(t) \in t /\ n + 1 <= Max(t)
          BY ONLY <3>1, <5>1, MaxIsGreatest, n \in Nat, t \in SUBSET (1 .. n + 1)
        <5>3. Max(t) \in 1 .. n + 1
          BY ONLY <5>2, t \in SUBSET (1 .. n + 1)
        <5> QED BY ONLY <5>2, <5>3, n \in Nat
      <4>2. g[t \ {n + 1}] = f[t \ {n + 1}]
        BY <2>2, <2>3
      <4>3. g[t] = G[<<f[t \ {n + 1}], s[n + 1]>>]
        BY <3>1
      <4> HIDE DEF g
      <4> QED BY <3>1, <4>1, <4>2, <4>3
    <3>2. CASE n + 1 \notin t
      <4>1. t \in SUBSET (1 .. n)
        BY <3>2, <2>2
      <4>2. t \ {Max(t)} \in SUBSET (1 .. n)
        BY <4>1
      <4> HIDE DEF g
      <4> QED BY <4>1, <4>2, <2>1, <2>3
    <3> QED BY <3>1, <3>2
  <2>7. Good(n + 1, g)
    <3> HIDE DEF g
    <3> QED BY <2>5, <2>6
  <2> HIDE DEF Good, g
  <2> QED BY <2>7
<1>3. T = Nat
  <2> HIDE DEF T
  <2>1. T \in SUBSET Nat
    BY DEF T
  <2> QED BY <1>1, <1>2, <2>1, Induction
<1>4. \E iter : Good(Len(s), iter)
  <2> HIDE DEF Good
  <2>1. Len(s) \in T
    <3> HIDE DEF T
    <3> QED BY <1>3
  <2> QED BY <2>1
<1>5. DOMAIN s = 1 .. Len(s)
  OBVIOUS
<1> QED BY <1>4, <1>5 DEF Folding

\* Induction up to a bound.
LEMMA UpTo ==
  ASSUME NEW N \in Nat, NEW T \in SUBSET (0 .. N), 0 \in T,
         \A n \in 1 .. N : n - 1 \in T => n \in T
  PROVE  \A n \in 0 .. N : n \in T
<1> DEFINE U == {n \in Nat : n <= N => n \in T}
<1>1. 0 \in U
  OBVIOUS
<1>2. ASSUME NEW n \in Nat, n \in U PROVE n + 1 \in U
  <2> SUFFICES ASSUME n + 1 <= N PROVE n + 1 \in T
    OBVIOUS
  <2>1. n \in T
    BY <1>2
  <2>2. n + 1 \in 1 .. N /\ (n + 1) - 1 = n
    OBVIOUS
  <2> QED BY <2>1, <2>2
<1>3. U = Nat
  <2> HIDE DEF U
  <2>1. U \in SUBSET Nat
    BY DEF U
  <2> QED BY <1>1, <1>2, <2>1, Induction
<1> QED BY <1>3

\* The greatest index of a prefix, and the prefix before it.
LEMMA FirstNumbers ==
  ASSUME NEW n \in Nat, n # 0
  PROVE  /\ 1 .. n # {} /\ Max(1 .. n) = n
         /\ (1 .. n) \ {n} = 1 .. n - 1
<1>1. n \in 1 .. n
  OBVIOUS
<1>2. Max(1 .. n) \in 1 .. n /\ n <= Max(1 .. n)
  BY <1>1, MaxIsGreatest
<1>3. Max(1 .. n) = n
  BY ONLY <1>2, n \in Nat
<1>4. (1 .. n) \ {n} = 1 .. n - 1
  BY ONLY n \in Nat, n # 0
<1> QED BY ONLY <1>1, <1>3, <1>4

\* iter folds G wherever its values are of the type A that G takes.
Running(iter, A, base, G, s) ==
    /\ iter[{}] = base
    /\ \A t \in SUBSET DOMAIN s :
         t # {} /\ iter[t \ {Max(t)}] \in A =>
           iter[t] = G[<<iter[t \ {Max(t)}], s[Max(t)]>>]

\* f goes through s and gathers the result, one element after the other.
RunOf(f, base, G, s, result) ==
    /\ f[0] = base
    /\ \A n \in 1 .. Len(s) : f[n] = G[<<f[n - 1], s[n]>>]
    /\ result = f[Len(s)]

\* A fold's result is gathered from the first element to the last.
LEMMA FoldRuns ==
  ASSUME NEW A, NEW B, NEW base \in A, NEW G \in [A \X B -> A], NEW s \in Seq(B),
         NEW iter, Running(iter, A, base, G, s)
  PROVE  \E f \in [0 .. Len(s) -> A] : RunOf(f, base, G, s, iter[DOMAIN s])
<1> DEFINE f == [n \in 0 .. Len(s) |-> iter[1 .. n]]
           T == {n \in 0 .. Len(s) : f[n] \in A}
<1>1. Len(s) \in Nat /\ DOMAIN s = 1 .. Len(s) /\ \A n \in 1 .. Len(s) : s[n] \in B
  OBVIOUS
<1>2. f[0] = base
  <2>1. 1 .. 0 = {} /\ 0 \in 0 .. Len(s)
    BY <1>1
  <2> QED BY <2>1 DEF Running
<1>3. ASSUME NEW n \in 1 .. Len(s), f[n - 1] \in A
      PROVE  f[n] = G[<<f[n - 1], s[n]>>]
  <2>1. /\ 1 .. n \in SUBSET DOMAIN s /\ n \in Nat /\ n # 0
        /\ n \in 0 .. Len(s) /\ n - 1 \in 0 .. Len(s)
    BY <1>1
  <2>2. 1 .. n # {} /\ Max(1 .. n) = n /\ (1 .. n) \ {n} = 1 .. n - 1
    BY ONLY <2>1, FirstNumbers
  <2>3. f[n] = iter[1 .. n] /\ f[n - 1] = iter[1 .. n - 1]
    BY <2>1
  <2> HIDE DEF f
  <2>4. iter[(1 .. n) \ {n}] \in A
    BY <1>3, <2>2, <2>3
  <2>5. \A t \in SUBSET DOMAIN s :
          t # {} /\ iter[t \ {Max(t)}] \in A =>
            iter[t] = G[<<iter[t \ {Max(t)}], s[Max(t)]>>]
    BY DEF Running
  <2>6. iter[1 .. n] = G[<<iter[1 .. n - 1], s[n]>>]
    BY <2>1, <2>2, <2>4, <2>5, Zenon
  <2> QED BY <2>3, <2>6
<1>4. \A n \in 0 .. Len(s) : n \in T
  <2>1. 0 \in T
    BY <1>1, <1>2
  <2>2. ASSUME NEW n \in 1 .. Len(s), n - 1 \in T PROVE n \in T
    <3>1. n \in 0 .. Len(s) /\ n - 1 \in 0 .. Len(s) /\ s[n] \in B
      BY <1>1
    <3> HIDE DEF f
    <3> QED BY <1>3, <2>2, <3>1
  <2>3. T \in SUBSET (0 .. Len(s))
    OBVIOUS
  <2> HIDE DEF T
  <2> QED BY <1>1, <2>1, <2>2, <2>3, UpTo
<1>5. \A n \in 0 .. Len(s) : f[n] \in A
  BY <1>4
<1>6. f \in [0 .. Len(s) -> A]
  BY <1>5
<1>7. \A n \in 1 .. Len(s) : f[n] = G[<<f[n - 1], s[n]>>]
  <2>1. \A n \in 1 .. Len(s) : n - 1 \in 0 .. Len(s)
    BY <1>1
  <2> HIDE DEF f
  <2> QED BY <1>3, <1>5, <2>1
<1>8. iter[DOMAIN s] = f[Len(s)]
  BY <1>1
<1> HIDE DEF f
<1> QED BY <1>2, <1>6, <1>7, <1>8 DEF RunOf

-----------------------------------------------------------------------------
(* Total and Kept.                                                         *)

\* Total adds one amount after the other.
LEMMA TotalFollows ==
  ASSUME NEW s \in Seq(Nat)
  PROVE  \E f \in [0 .. Len(s) -> Nat] :
           /\ f[0] = 0
           /\ \A n \in 1 .. Len(s) : f[n] = f[n - 1] + s[n]
           /\ Total(s) = f[Len(s)]
<1> DEFINE
      Add == [p \in Nat \X Nat |-> p[1] + p[2]]
      Folds(iter) == iter = [t \in SUBSET DOMAIN s |->
                               IF t = {} THEN 0 ELSE iter[t \ {Max(t)}] + s[Max(t)]]
      sum == CHOOSE iter : Folds(iter)
<1>1. Len(s) \in Nat /\ DOMAIN s = 1 .. Len(s) /\ \A n \in 1 .. Len(s) : s[n] \in Nat
  OBVIOUS
<1>2. \A t \in SUBSET DOMAIN s : t # {} => s[Max(t)] \in Nat
  BY <1>1, MaxIsGreatest
<1>3. Add \in [Nat \X Nat -> Nat]
  OBVIOUS
<1>4. \A a, b \in Nat : Add[<<a, b>>] = a + b
  OBVIOUS
<1> HIDE DEF Add
<1>5. \E iter : Folds(iter)
  <2>1. PICK iter \in [SUBSET DOMAIN s -> Nat] : Folding(iter, 0, Add, s)
    BY <1>3, FoldExists
  <2>2. ASSUME NEW t \in SUBSET DOMAIN s
        PROVE  iter[t] = IF t = {} THEN 0 ELSE iter[t \ {Max(t)}] + s[Max(t)]
    BY <1>2, <1>4, <2>1 DEF Folding
  <2> QED BY <2>2
<1>6. Folds(sum)
  <2> HIDE DEF Folds
  <2> QED BY <1>5
<1>7. Total(s) = sum[DOMAIN s]
  BY DEF Total, FoldLeft, MapThenFoldSet
<1> HIDE DEF sum
<1>8. Running(sum, Nat, 0, Add, s)
  <2>1. {} \in SUBSET DOMAIN s /\ sum[{}] = 0
    BY <1>6
  <2>2. ASSUME NEW t \in SUBSET DOMAIN s, t # {}, sum[t \ {Max(t)}] \in Nat
        PROVE  sum[t] = Add[<<sum[t \ {Max(t)}], s[Max(t)]>>]
    <3>1. sum[t] = sum[t \ {Max(t)}] + s[Max(t)]
      BY <1>6, <2>2
    <3> HIDE DEF Folds
    <3> QED BY <1>2, <1>4, <2>2, <3>1
  <2> HIDE DEF Folds
  <2> QED BY <2>1, <2>2 DEF Running
<1>9. PICK f \in [0 .. Len(s) -> Nat] : RunOf(f, 0, Add, s, sum[DOMAIN s])
  BY <1>3, <1>8, FoldRuns
<1>10. ASSUME NEW n \in 1 .. Len(s) PROVE f[n] = f[n - 1] + s[n]
  <2>1. n - 1 \in 0 .. Len(s) /\ s[n] \in Nat
    BY <1>1
  <2> QED BY <1>4, <1>9, <2>1 DEF RunOf
<1> QED BY <1>7, <1>9, <1>10 DEF RunOf

\* Kept appends the amounts that are not below the limit, in their order.
LEMMA KeptFollows ==
  ASSUME NEW s \in Seq(Nat), NEW limit \in Nat
  PROVE  \E f \in [0 .. Len(s) -> Seq(Nat)] :
           /\ f[0] = <<>>
           /\ \A n \in 1 .. Len(s) :
                f[n] = IF s[n] < limit THEN f[n - 1] ELSE Append(f[n - 1], s[n])
           /\ Kept(s, limit) = f[Len(s)]
<1> DEFINE
      Keep == [p \in Seq(Nat) \X Nat |-> IF p[2] < limit THEN p[1] ELSE Append(p[1], p[2])]
      Folds(iter) == iter = [t \in SUBSET DOMAIN s |->
                               IF t = {} THEN <<>>
                               ELSE IF s[Max(t)] < limit THEN iter[t \ {Max(t)}]
                                    ELSE Append(iter[t \ {Max(t)}], s[Max(t)])]
      kept == CHOOSE iter : Folds(iter)
<1>1. Len(s) \in Nat /\ DOMAIN s = 1 .. Len(s) /\ \A n \in 1 .. Len(s) : s[n] \in Nat
  OBVIOUS
<1>2. \A t \in SUBSET DOMAIN s : t # {} => s[Max(t)] \in Nat
  BY <1>1, MaxIsGreatest
<1>3. Keep \in [Seq(Nat) \X Nat -> Seq(Nat)]
  OBVIOUS
<1>4. \A k \in Seq(Nat), a \in Nat :
        Keep[<<k, a>>] = IF a < limit THEN k ELSE Append(k, a)
  OBVIOUS
<1> HIDE DEF Keep
<1>5. \E iter : Folds(iter)
  <2>1. <<>> \in Seq(Nat)
    OBVIOUS
  <2>2. PICK iter \in [SUBSET DOMAIN s -> Seq(Nat)] : Folding(iter, <<>>, Keep, s)
    BY <1>3, <2>1, FoldExists
  <2>3. ASSUME NEW t \in SUBSET DOMAIN s
        PROVE  iter[t] = IF t = {} THEN <<>>
                         ELSE IF s[Max(t)] < limit THEN iter[t \ {Max(t)}]
                              ELSE Append(iter[t \ {Max(t)}], s[Max(t)])
    BY <1>2, <1>4, <2>2 DEF Folding
  <2> QED BY <2>3
<1>6. Folds(kept)
  <2> HIDE DEF Folds
  <2> QED BY <1>5
<1>7. Kept(s, limit) = kept[DOMAIN s]
  BY DEF Kept, IsSubDust, FoldLeft, MapThenFoldSet
<1> HIDE DEF kept
<1>8. Running(kept, Seq(Nat), <<>>, Keep, s)
  <2>1. {} \in SUBSET DOMAIN s /\ kept[{}] = <<>>
    BY <1>6
  <2>2. ASSUME NEW t \in SUBSET DOMAIN s, t # {}, kept[t \ {Max(t)}] \in Seq(Nat)
        PROVE  kept[t] = Keep[<<kept[t \ {Max(t)}], s[Max(t)]>>]
    <3>1. kept[t] = IF s[Max(t)] < limit THEN kept[t \ {Max(t)}]
                    ELSE Append(kept[t \ {Max(t)}], s[Max(t)])
      BY <1>6, <2>2
    <3> HIDE DEF Folds
    <3> QED BY <1>2, <1>4, <2>2, <3>1
  <2> HIDE DEF Folds
  <2> QED BY <2>1, <2>2 DEF Running
<1>9. PICK f \in [0 .. Len(s) -> Seq(Nat)] : RunOf(f, <<>>, Keep, s, kept[DOMAIN s])
  <2>1. <<>> \in Seq(Nat)
    OBVIOUS
  <2> QED BY <1>3, <1>8, <2>1, FoldRuns
<1>10. ASSUME NEW n \in 1 .. Len(s)
       PROVE  f[n] = IF s[n] < limit THEN f[n - 1] ELSE Append(f[n - 1], s[n])
  <2>1. n - 1 \in 0 .. Len(s) /\ s[n] \in Nat
    BY <1>1
  <2> QED BY <1>4, <1>9, <2>1 DEF RunOf
<1> QED BY <1>7, <1>9, <1>10 DEF RunOf
\* The buyer's output first, then the fees.
LEMMA TotalOfConcat ==
  ASSUME NEW s \in Seq(Nat), NEW b \in Nat
  PROVE  Total(<<b>> \o s) = b + Total(s)
<1> DEFINE u == <<b>> \o s
           N == Len(s)
<1>1. /\ u \in Seq(Nat) /\ N \in Nat /\ Len(u) = N + 1
      /\ u[1] = b /\ \A n \in 1 .. N : u[n + 1] = s[n] /\ s[n] \in Nat
  OBVIOUS
<1>2. PICK f \in [0 .. N -> Nat] :
        /\ f[0] = 0
        /\ \A n \in 1 .. N : f[n] = f[n - 1] + s[n]
        /\ Total(s) = f[N]
  BY TotalFollows
<1> HIDE DEF u
<1>3. PICK g \in [0 .. N + 1 -> Nat] :
        /\ g[0] = 0
        /\ \A n \in 1 .. N + 1 : g[n] = g[n - 1] + u[n]
        /\ Total(u) = g[N + 1]
  BY <1>1, TotalFollows
<1> HIDE DEF N
<1> DEFINE T == {n \in 0 .. N : g[n + 1] = b + f[n]}
<1>4. 0 \in T
  <2>1. g[0 + 1] = g[0] + u[1]
    BY <1>1, <1>3
  <2> QED BY <1>1, <1>2, <1>3, <2>1
<1>5. ASSUME NEW n \in 1 .. N, n - 1 \in T PROVE n \in T
  <2>1. n \in Nat /\ n + 1 \in 1 .. N + 1 /\ n - 1 \in 0 .. N /\ n \in 0 .. N
    BY <1>1
  <2>2. g[n + 1] = g[n] + s[n]
    <3>1. g[n + 1] = g[(n + 1) - 1] + u[n + 1]
      BY <1>3, <2>1
    <3>2. (n + 1) - 1 = n
      BY <2>1
    <3> QED BY <1>1, <3>1, <3>2
  <2>3. g[n] = b + f[n - 1]
    BY <1>5, <2>1
  <2>4. f[n] = f[n - 1] + s[n] /\ f[n - 1] \in Nat /\ s[n] \in Nat
    BY <1>1, <1>2, <2>1
  <2>5. g[n + 1] = b + f[n]
    BY ONLY <2>2, <2>3, <2>4, b \in Nat
  <2> QED BY <2>1, <2>5
<1>6. \A n \in 0 .. N : n \in T
  <2>1. T \in SUBSET (0 .. N)
    OBVIOUS
  <2> HIDE DEF T
  <2> QED BY <1>1, <1>4, <1>5, <2>1, UpTo
<1>7. g[N + 1] = b + f[N]
  <2>1. N \in T
    BY <1>1, <1>6
  <2> QED BY <2>1
<1> QED BY <1>2, <1>3, <1>7 DEF u

\* One more amount.
LEMMA TotalOfAppend ==
  ASSUME NEW s \in Seq(Nat), NEW a \in Nat
  PROVE  Total(Append(s, a)) = Total(s) + a
<1> DEFINE u == Append(s, a)
           N == Len(s)
<1>1. /\ u \in Seq(Nat) /\ N \in Nat /\ Len(u) = N + 1
      /\ u[N + 1] = a /\ \A n \in 1 .. N : u[n] = s[n] /\ s[n] \in Nat
  OBVIOUS
<1>2. PICK f \in [0 .. N -> Nat] :
        /\ f[0] = 0
        /\ \A n \in 1 .. N : f[n] = f[n - 1] + s[n]
        /\ Total(s) = f[N]
  BY TotalFollows
<1> HIDE DEF u
<1>3. PICK g \in [0 .. N + 1 -> Nat] :
        /\ g[0] = 0
        /\ \A n \in 1 .. N + 1 : g[n] = g[n - 1] + u[n]
        /\ Total(u) = g[N + 1]
  BY <1>1, TotalFollows
<1> HIDE DEF N
<1> DEFINE T == {n \in 0 .. N : g[n] = f[n]}
<1>4. 0 \in T
  BY <1>1, <1>2, <1>3
<1>5. ASSUME NEW n \in 1 .. N, n - 1 \in T PROVE n \in T
  <2>1. n \in 1 .. N + 1 /\ n - 1 \in 0 .. N /\ n \in 0 .. N
    BY <1>1
  <2>2. g[n] = g[n - 1] + s[n] /\ g[n - 1] = f[n - 1] /\ f[n] = f[n - 1] + s[n]
    BY <1>1, <1>2, <1>3, <1>5, <2>1
  <2> QED BY <2>1, <2>2
<1>6. \A n \in 0 .. N : n \in T
  <2>1. T \in SUBSET (0 .. N)
    OBVIOUS
  <2> HIDE DEF T
  <2> QED BY <1>1, <1>4, <1>5, <2>1, UpTo
<1>7. g[N] = f[N]
  <2>1. N \in T
    BY <1>1, <1>6
  <2> QED BY <2>1
<1>8. g[N + 1] = g[N] + a
  <2>1. N + 1 \in 1 .. N + 1 /\ (N + 1) - 1 = N
    BY <1>1
  <2> QED BY <1>1, <1>3, <2>1
<1> QED BY <1>2, <1>3, <1>7, <1>8 DEF u

\* No amount, one and two.
LEMMA TotalOfShort ==
  ASSUME NEW a \in Nat, NEW b \in Nat
  PROVE  Total(<<>>) = 0 /\ Total(<<a>>) = a /\ Total(<<a, b>>) = a + b
<1>1. Total(<<>>) = 0
  <2>1. <<>> \in Seq(Nat) /\ Len(<<>>) = 0
    OBVIOUS
  <2> QED BY <2>1, TotalFollows
<1>2. <<a>> = Append(<<>>, a) /\ <<a, b>> = Append(<<a>>, b)
  OBVIOUS
<1>3. <<>> \in Seq(Nat) /\ <<a>> \in Seq(Nat)
  OBVIOUS
<1>4. Total(<<a>>) = 0 + a
  BY <1>1, <1>2, <1>3, TotalOfAppend
<1>5. Total(<<a, b>>) = Total(<<a>>) + b
  BY <1>2, <1>3, TotalOfAppend
<1> QED BY <1>1, <1>4, <1>5

\* A sum of amounts is a number.
LEMMA TotalIsNatural ==
  ASSUME NEW s \in Seq(Nat)
  PROVE  Total(s) \in Nat
<1>1. Len(s) \in 0 .. Len(s)
  OBVIOUS
<1> QED BY <1>1, TotalFollows

\* What is kept is amounts at or above the limit, worth no more than all.
LEMMA KeptFacts ==
  ASSUME NEW s \in Seq(Nat), NEW limit \in Nat
  PROVE  /\ Kept(s, limit) \in Seq(Nat)
         /\ \A i \in DOMAIN Kept(s, limit) : Kept(s, limit)[i] >= limit
         /\ Total(Kept(s, limit)) <= Total(s)
<1> DEFINE N == Len(s)
<1>1. N \in Nat /\ \A n \in 1 .. N : s[n] \in Nat
  OBVIOUS
<1>2. PICK f \in [0 .. N -> Nat] :
        /\ f[0] = 0
        /\ \A n \in 1 .. N : f[n] = f[n - 1] + s[n]
        /\ Total(s) = f[N]
  BY TotalFollows
<1>3. PICK k \in [0 .. N -> Seq(Nat)] :
        /\ k[0] = <<>>
        /\ \A n \in 1 .. N : k[n] = IF s[n] < limit THEN k[n - 1] ELSE Append(k[n - 1], s[n])
        /\ Kept(s, limit) = k[N]
  BY KeptFollows
<1> HIDE DEF N
<1> DEFINE T == {n \in 0 .. N : /\ \A i \in DOMAIN k[n] : k[n][i] >= limit
                                /\ Total(k[n]) <= f[n]}
<1>4. 0 \in T
  <2>1. Total(k[0]) <= f[0]
    <3>1. Total(<<>>) = 0
      BY TotalOfShort, 0 \in Nat
    <3> QED BY <1>2, <1>3, <3>1
  <2> QED BY <1>1, <1>3, <2>1
<1>5. ASSUME NEW n \in 1 .. N, n - 1 \in T PROVE n \in T
  <2>1. n - 1 \in 0 .. N /\ n \in 0 .. N /\ s[n] \in Nat
    BY <1>1
  <2>2. /\ k[n - 1] \in Seq(Nat) /\ Total(k[n - 1]) \in Nat
        /\ Total(k[n - 1]) <= f[n - 1] /\ f[n - 1] \in Nat
        /\ f[n] = f[n - 1] + s[n]
        /\ \A i \in DOMAIN k[n - 1] : k[n - 1][i] >= limit
    BY <1>2, <1>3, <1>5, <2>1, TotalIsNatural
  <2>3. CASE s[n] < limit
    <3>1. k[n] = k[n - 1]
      BY <1>3, <2>3
    <3>2. Total(k[n]) <= f[n]
      BY <2>1, <2>2, <3>1
    <3> QED BY <2>1, <2>2, <3>1, <3>2
  <2>4. CASE ~(s[n] < limit)
    <3>1. k[n] = Append(k[n - 1], s[n])
      BY <1>3, <2>4
    <3>2. Total(k[n]) = Total(k[n - 1]) + s[n]
      BY <2>1, <2>2, <3>1, TotalOfAppend
    <3>3. Total(k[n]) <= f[n]
      BY ONLY <2>1, <2>2, <3>2
    <3>4. \A i \in DOMAIN k[n] : k[n][i] >= limit
      <4> DEFINE p == k[n - 1]
      <4>1. p \in Seq(Nat) /\ k[n] = Append(p, s[n]) /\ s[n] \in Nat /\ s[n] >= limit
            /\ \A i \in DOMAIN p : p[i] >= limit
        BY <2>1, <2>2, <2>4, <3>1
      <4> HIDE DEF p
      <4> TAKE i \in DOMAIN k[n]
      <4>2. i \in DOMAIN p \/ i = Len(p) + 1
        BY <4>1
      <4> QED BY <4>1, <4>2
    <3> QED BY <2>1, <3>3, <3>4
  <2> QED BY <2>3, <2>4
<1>6. \A n \in 0 .. N : n \in T
  <2>1. T \in SUBSET (0 .. N)
    OBVIOUS
  <2> HIDE DEF T
  <2> QED BY <1>1, <1>4, <1>5, <2>1, UpTo
<1>7. N \in T /\ N \in 0 .. N
  BY <1>1, <1>6
<1> QED BY <1>2, <1>3, <1>7
-----------------------------------------------------------------------------
(* The plan.                                                               *)

\* The types of what a plan is made from.
Amounts ==
    /\ vtxos \in {<<a>> : a \in VtxoAmounts} \cup {<<a, b>> : a, b \in VtxoAmounts}
    /\ fee_outputs \in Seq(FeeAmounts) /\ Len(fee_outputs) <= MaxFees
    /\ dust \in Dusts

\* A sum of the fees that a release may have does not wrap unseen: the build
\* panics, or there is not that much money in the fees.
SumsFit ==
    \/ OverflowChecks
    \/ \A fees \in Seq(FeeAmounts) : Len(fees) <= MaxFees => Total(fees) < AmountLimit

\* The width of an amount leaves smaller numbers alone.
LEMMA Modulo ==
  ASSUME NEW x \in Nat
  PROVE  /\ x % AmountLimit \in Nat
         /\ x < AmountLimit => x % AmountLimit = x
BY AmountsAssumption

\* The VTXOs' amounts and their sum have the width of an amount.
LEMMA Widths ==
  ASSUME Amounts
  PROVE  /\ vtxos \in Seq(Nat) /\ fee_outputs \in Seq(Nat) /\ dust \in Nat
         /\ Head(vtxos) \in Nat /\ Head(vtxos) < AmountLimit
         /\ Total(vtxos) \in Nat /\ Total(vtxos) < AmountLimit
         /\ Len(vtxos) = 1 => vtxos = <<Head(vtxos)>>
<1>1. /\ VtxoAmounts \subseteq Nat /\ FeeAmounts \subseteq Nat /\ Dusts \subseteq Nat
      /\ \A a \in VtxoAmounts : a < AmountLimit
      /\ \A a, b \in VtxoAmounts : a + b < AmountLimit
  BY AmountsAssumption
<1>4. fee_outputs \in Seq(Nat) /\ dust \in Nat
  <2>1. fee_outputs \in Seq(FeeAmounts) /\ dust \in Dusts
    BY DEF Amounts
  <2>2. /\ fee_outputs = [i \in 1 .. Len(fee_outputs) |-> fee_outputs[i]]
        /\ Len(fee_outputs) \in Nat
        /\ \A i \in 1 .. Len(fee_outputs) : fee_outputs[i] \in FeeAmounts
    BY ONLY <2>1
  <2>3. \A i \in 1 .. Len(fee_outputs) : fee_outputs[i] \in Nat
    BY <1>1, <2>2
  <2>4. [i \in 1 .. Len(fee_outputs) |-> fee_outputs[i]] \in Seq(Nat)
    BY ONLY <2>2, <2>3
  <2> QED BY <1>1, <2>1, <2>2, <2>4
<1>2. CASE \E a \in VtxoAmounts : vtxos = <<a>>
  <2>1. PICK a \in VtxoAmounts : vtxos = <<a>>
    BY <1>2
  <2>2. a \in Nat /\ a < AmountLimit /\ Total(vtxos) = a
    BY <1>1, <2>1, TotalOfShort
  <2>3. vtxos \in Seq(Nat) /\ Head(vtxos) = a
    BY <2>1, <2>2
  <2> QED BY <1>4, <2>1, <2>2, <2>3
<1>3. CASE \E a, b \in VtxoAmounts : vtxos = <<a, b>>
  <2>1. PICK a \in VtxoAmounts, b \in VtxoAmounts : vtxos = <<a, b>>
    BY <1>3
  <2>2. a \in Nat /\ b \in Nat /\ a < AmountLimit /\ a + b < AmountLimit
    BY <1>1
  <2>3. Total(vtxos) = a + b
    BY <2>1, <2>2, TotalOfShort
  <2>4. vtxos \in Seq(Nat) /\ Head(vtxos) = a /\ Len(vtxos) = 2
    BY <2>1, <2>2
  <2> QED BY <1>4, <2>2, <2>3, <2>4
<1> QED BY <1>2, <1>3 DEF Amounts

\* What a release spends does not wrap.
LEMMA SpentIsTotal ==
  ASSUME Amounts, NEW mode
  PROVE  /\ Total(Spent(mode)) \in Nat
         /\ AmountSum(Spent(mode)) = Total(Spent(mode))
<1>1. Total(Spent(mode)) \in Nat /\ Total(Spent(mode)) < AmountLimit
  <2>1. Total(<<Head(vtxos)>>) = Head(vtxos)
    BY Widths, TotalOfShort
  <2> QED BY <2>1, Widths DEF Spent
<1> QED BY <1>1, Modulo DEF AmountSum

\* The fees that are paid are worth no more than the fees agreed on.
LEMMA EffectiveFacts ==
  ASSUME NEW fees \in Seq(Nat), NEW mode, NEW limit \in Nat
  PROVE  /\ Effective(fees, mode, limit) \in Seq(Nat)
         /\ Total(Effective(fees, mode, limit)) \in Nat
         /\ Total(Effective(fees, mode, limit)) <= Total(fees)
         /\ AmountSum(Effective(fees, mode, limit)) \in Nat
<1>1. Effective(fees, mode, limit) \in Seq(Nat)
  BY KeptFacts DEF Effective
<1>2. Total(Effective(fees, mode, limit)) \in Nat /\ Total(fees) \in Nat
  BY <1>1, TotalIsNatural
<1>3. Total(Effective(fees, mode, limit)) <= Total(fees)
  <2>1. CASE mode = "Offchain"
    BY <1>2, <2>1 DEF Effective
  <2>2. CASE mode # "Offchain"
    BY <2>2, KeptFacts DEF Effective
  <2> QED BY <2>1, <2>2
<1> QED BY <1>1, <1>2, <1>3, Modulo DEF AmountSum

\* When plan_release makes a plan, and which.
LEMMA PlanIs ==
  ASSUME NEW total \in Nat, NEW fees \in Seq(Nat), NEW mode, NEW limit \in Nat,
         NEW eff, eff = Effective(fees, mode, limit),
         NEW plan, plan = plan_release(total, fees, mode, limit)
  PROVE  /\ Planned(plan) <=> /\ ~Panics(eff) /\ AmountSum(eff) <= total
                              /\ total - AmountSum(eff) >= limit
         /\ Planned(plan) => /\ plan.buyer_amount = total - AmountSum(eff)
                             /\ plan.effective = eff
<1> DEFINE fee == AmountSum(eff)
           out == Discarded(fees, mode, limit)
<1>1. fee \in Nat
  BY EffectiveFacts
<1>2. plan = IF Panics(eff) THEN [res |-> "overflow"]
             ELSE IF fee > total THEN [res |-> "fee exceeds amount"]
             ELSE IF total - fee < limit THEN [res |-> "dust exceeds payout"]
             ELSE [res |-> "ok", buyer_amount |-> total - fee,
                   effective |-> eff, discarded |-> out]
  BY DEF plan_release, Refused, Charged
<1> HIDE DEF fee, out
<1>3. CASE Panics(eff)
  BY <1>2, <1>3 DEF Planned, fee
<1>4. CASE ~Panics(eff) /\ fee > total
  <2>1. plan = [res |-> "fee exceeds amount"]
    BY ONLY <1>2, <1>4
  <2>2. plan.res # "ok"
    BY ONLY <2>1
  <2>3. ~(fee <= total)
    BY ONLY <1>1, <1>4, total \in Nat
  <2> QED BY ONLY <2>2, <2>3 DEF Planned, fee
<1>5. CASE ~Panics(eff) /\ ~(fee > total) /\ total - fee < limit
  <2>1. plan = [res |-> "dust exceeds payout"]
    BY ONLY <1>2, <1>5
  <2>2. plan.res # "ok"
    BY ONLY <2>1
  <2>3. ~(total - fee >= limit)
    BY ONLY <1>1, <1>5, total \in Nat, limit \in Nat
  <2> QED BY ONLY <2>2, <2>3 DEF Planned, fee
<1>6. CASE ~Panics(eff) /\ ~(fee > total) /\ ~(total - fee < limit)
  <2>1. plan = [res |-> "ok", buyer_amount |-> total - fee,
                effective |-> eff, discarded |-> out]
    BY ONLY <1>2, <1>6
  <2>2. plan.res = "ok" /\ plan.buyer_amount = total - fee /\ plan.effective = eff
    BY ONLY <2>1
  <2>3. fee <= total /\ total - fee >= limit
    BY ONLY <1>1, <1>6, total \in Nat, limit \in Nat
  <2> QED BY ONLY <1>6, <2>2, <2>3 DEF Planned, fee
<1> QED BY ONLY <1>3, <1>4, <1>5, <1>6

\* The sum in a plan is the sum of its fees.
LEMMA NothingWraps ==
  ASSUME SumsFit, Amounts, NEW mode,
         NEW eff, eff = Effective(fee_outputs, mode, dust), ~Panics(eff)
  PROVE  AmountSum(eff) = Total(eff)
<1>1. /\ fee_outputs \in Seq(Nat) /\ dust \in Nat /\ Total(eff) \in Nat
      /\ Total(eff) <= Total(fee_outputs) /\ Total(fee_outputs) \in Nat
  BY Widths, EffectiveFacts, TotalIsNatural
<1>2. AmountLimit \in Nat
  BY AmountsAssumption
<1>3. Total(eff) < AmountLimit
  <2>1. CASE OverflowChecks
    BY <1>1, <1>2, <2>1 DEF Panics
  <2>2. CASE \A fees \in Seq(FeeAmounts) : Len(fees) <= MaxFees => Total(fees) < AmountLimit
    <3>1. Total(fee_outputs) < AmountLimit
      BY <2>2 DEF Amounts
    <3> QED BY ONLY <1>1, <1>2, <3>1
  <2> QED BY <2>1, <2>2 DEF SumsFit
<1> QED BY <1>1, <1>3, Modulo DEF AmountSum
-----------------------------------------------------------------------------
(* The steps.                                                              *)

\* The types hold in every state.
LEMMA AmountsHold == Spec => []Amounts
<1>1. Init => Amounts
  BY AmountsAssumption DEF Init, Amounts
<1>2. Amounts /\ [Next]_vars => Amounts'
  <2> SUFFICES ASSUME Amounts, [Next]_vars PROVE Amounts'
    OBVIOUS
  <2>1. ASSUME NEW amount \in FeeAmounts, AddFee(amount) PROVE Amounts'
    <3>1. fee_outputs' \in Seq(FeeAmounts) /\ Len(fee_outputs') = Len(fee_outputs) + 1
      BY <2>1 DEF AddFee, Amounts
    <3>2. Len(fee_outputs) \in Nat /\ Len(fee_outputs) < MaxFees /\ MaxFees \in Nat
      BY <2>1, AmountsAssumption DEF AddFee, Amounts
    <3>3. Len(fee_outputs') <= MaxFees
      BY ONLY <3>1, <3>2
    <3> QED BY <2>1, <3>1, <3>3 DEF AddFee, Amounts
  <2>2. ASSUME NEW limit \in Dusts, ChangeDust(limit) PROVE Amounts'
    BY <2>2 DEF ChangeDust, Amounts
  <2>3. ASSUME UNCHANGED <<vtxos, fee_outputs, dust>> PROVE Amounts'
    BY <2>3 DEF Amounts
  <2> QED BY <2>1, <2>2, <2>3 DEF Next, vars, quote_release, Release, build_release_tx,
                                 prepare_release_delegate, build_refund_tx
<1> QED BY <1>1, <1>2, PTL DEF Spec

\* What a release builds, in terms of the fees that are paid.
LEMMA ReleaseIs ==
  ASSUME Amounts, NEW mode \in Modes, Release(mode)
  PROVE  \E eff \in Seq(Nat) :
           /\ eff = Effective(fee_outputs, mode, dust)
           /\ ~Panics(eff)
           /\ AmountSum(eff) \in Nat /\ AmountSum(eff) <= Total(Spent(mode))
           /\ Total(Spent(mode)) - AmountSum(eff) >= dust
           /\ built' = [op |-> mode, limit |-> dust, spent |-> Total(Spent(mode)),
                        outputs |-> <<Total(Spent(mode)) - AmountSum(eff)>> \o eff]
<1> DEFINE eff == Effective(fee_outputs, mode, dust)
           total == Total(Spent(mode))
           plan == plan_release(total, fee_outputs, mode, dust)
<1>1. eff \in Seq(Nat) /\ AmountSum(eff) \in Nat
  BY Widths, EffectiveFacts
<1>2. total \in Nat /\ Plan(mode) = plan
  BY SpentIsTotal DEF Plan
<1>3. Planned(plan) /\ built' = [op |-> mode, limit |-> dust, spent |-> total,
                                 outputs |-> <<plan.buyer_amount>> \o plan.effective]
  BY <1>2 DEF Release
<1>4. /\ ~Panics(eff) /\ AmountSum(eff) <= total /\ total - AmountSum(eff) >= dust
      /\ plan.buyer_amount = total - AmountSum(eff) /\ plan.effective = eff
  <2> HIDE DEF eff, total, plan
  <2>1. fee_outputs \in Seq(Nat) /\ dust \in Nat
    BY Widths
  <2>2. eff = Effective(fee_outputs, mode, dust)
    BY DEF eff
  <2>3. plan = plan_release(total, fee_outputs, mode, dust)
    BY DEF plan
  <2> QED BY <1>2, <1>3, <2>1, <2>2, <2>3, PlanIs
<1> HIDE DEF eff, total, plan
<1>5. eff = Effective(fee_outputs, mode, dust) /\ total = Total(Spent(mode))
  BY DEF eff, total
<1> QED BY <1>1, <1>3, <1>4, <1>5

-----------------------------------------------------------------------------
\* No output of a settlement is below the dust limit it was prepared with, and
\* the buyer's of an offchain release neither: plan_release's check of the
\* payout and its partition of the fees, with or without overflow checks.
THEOREM NoDust == Spec => []NoDustOutput
<1>1. Init => NoDustOutput
  BY DEF Init, NoDustOutput, Nothing, Modes
<1>2. Amounts /\ NoDustOutput /\ [Next]_vars => NoDustOutput'
  <2> SUFFICES ASSUME Amounts, NoDustOutput, [Next]_vars PROVE NoDustOutput'
    OBVIOUS
  <2>1. ASSUME NEW mode \in Modes, Release(mode) PROVE NoDustOutput'
    <3>1. PICK eff \in Seq(Nat) :
            /\ eff = Effective(fee_outputs, mode, dust)
            /\ AmountSum(eff) \in Nat /\ AmountSum(eff) <= Total(Spent(mode))
            /\ Total(Spent(mode)) - AmountSum(eff) >= dust
            /\ built' = [op |-> mode, limit |-> dust, spent |-> Total(Spent(mode)),
                         outputs |-> <<Total(Spent(mode)) - AmountSum(eff)>> \o eff]
      BY <2>1, ReleaseIs
    <3> DEFINE paid == Total(Spent(mode)) - AmountSum(eff)
    <3>2. paid >= dust /\ paid \in Nat /\ dust \in Nat
      <4>1. Total(Spent(mode)) \in Nat /\ dust \in Nat
        BY SpentIsTotal, Widths
      <4> QED BY <3>1, <4>1
    <3>3. mode = "Delegate" => \A i \in DOMAIN eff : eff[i] >= dust
      <4>1. mode = "Delegate" => eff = Kept(fee_outputs, dust)
        BY <3>1 DEF Effective
      <4> QED BY <4>1, Widths, KeptFacts
    <3>4. built'.op = mode /\ built'.limit = dust /\ built'.outputs = <<paid>> \o eff
      BY <3>1
    <3> HIDE DEF paid
    <3>5. ASSUME NEW i \in DOMAIN (<<paid>> \o eff), i = 1 \/ mode = "Delegate"
          PROVE  (<<paid>> \o eff)[i] >= dust
      <4>1. CASE i = 1
        BY <3>2, <4>1
      <4>2. CASE i # 1 /\ mode = "Delegate"
        <5>1. i - 1 \in DOMAIN eff /\ (<<paid>> \o eff)[i] = eff[i - 1]
          BY <3>2, <4>2
        <5> QED BY <3>3, <4>2, <5>1
      <4> QED BY <3>5, <4>1, <4>2
    <3> QED BY <3>4, <3>5 DEF NoDustOutput
  <2>2. ASSUME build_refund_tx PROVE NoDustOutput'
    BY <2>2 DEF build_refund_tx, NoDustOutput, Modes
  <2>3. ASSUME built' = Nothing PROVE NoDustOutput'
    BY <2>3 DEF NoDustOutput, Nothing, Modes
  <2>4. ASSUME UNCHANGED built PROVE NoDustOutput'
    BY <2>4 DEF NoDustOutput
  <2> QED BY <2>1, <2>2, <2>3, <2>4 DEF Next, vars, AddFee, ChangeDust, quote_release,
                                 build_release_tx, prepare_release_delegate, Modes
<1> QED BY <1>1, <1>2, AmountsHold, PTL DEF Spec

\* A release's outputs pay out exactly what its inputs hold, for every set of
\* fees whose sum cannot wrap unseen.
THEOREM MoneyIsConserved ==
  ASSUME SumsFit
  PROVE  Spec => []Conserves
<1>1. Init => Conserves
  BY DEF Init, Conserves
<1>2. Amounts /\ Conserves /\ [Next]_vars => Conserves'
  <2> SUFFICES ASSUME Amounts, Conserves, [Next]_vars PROVE Conserves'
    OBVIOUS
  <2>1. ASSUME NEW mode \in Modes, Release(mode) PROVE Conserves'
    <3>1. PICK eff \in Seq(Nat) :
            /\ eff = Effective(fee_outputs, mode, dust)
            /\ ~Panics(eff)
            /\ AmountSum(eff) \in Nat /\ AmountSum(eff) <= Total(Spent(mode))
            /\ built' = [op |-> mode, limit |-> dust, spent |-> Total(Spent(mode)),
                         outputs |-> <<Total(Spent(mode)) - AmountSum(eff)>> \o eff]
      BY <2>1, ReleaseIs
    <3> DEFINE total == Total(Spent(mode))
               paid == total - AmountSum(eff)
    <3>2. total \in Nat /\ paid \in Nat /\ Total(eff) \in Nat
      <4>1. total \in Nat
        BY SpentIsTotal
      <4> QED BY <3>1, <4>1, TotalIsNatural
    <3>3. AmountSum(eff) = Total(eff)
      BY <3>1, NothingWraps
    <3>4. built'.spent = total /\ built'.outputs = <<paid>> \o eff
      BY <3>1
    <3>5. paid + Total(eff) = total
      <4> HIDE DEF total
      <4> QED BY <3>2, <3>3
    <3> HIDE DEF total, paid
    <3>6. Total(<<paid>> \o eff) = total
      BY <3>2, <3>5, TotalOfConcat
    <3> QED BY <3>4, <3>6 DEF Conserves
  <2>2. ASSUME build_refund_tx PROVE Conserves'
    <3>1. Total(<<Head(vtxos)>>) = Head(vtxos)
      BY Widths, TotalOfShort
    <3> QED BY <2>2, <3>1 DEF build_refund_tx, Conserves
  <2>3. ASSUME built' = Nothing PROVE Conserves'
    BY <2>3 DEF Conserves
  <2>4. ASSUME UNCHANGED built PROVE Conserves'
    BY <2>4 DEF Conserves
  <2> QED BY <2>1, <2>2, <2>3, <2>4 DEF Next, vars, AddFee, ChangeDust, quote_release,
                                 build_release_tx, prepare_release_delegate, Modes
<1> QED BY <1>1, <1>2, AmountsHold, PTL DEF Spec
-----------------------------------------------------------------------------
\* What an offchain release pays, while the fees agreed on stay the same.
Due == <<Total(<<Head(vtxos)>>) - AmountSum(fee_outputs)>> \o fee_outputs

\* A quote and a release that are there both pay what is due for these fees;
\* quote_release and build_release_tx need not have seen the same dust limit.
QuoteInv ==
    /\ quote.op = "Offchain" /\ Planned(quote.plan) =>
         <<quote.plan.buyer_amount>> \o quote.plan.effective = Due
    /\ built.op = "Offchain" => built.outputs = Due

\* An offchain plan does not depend on the dust limit, if there is one.
LEMMA OffchainPlanIs ==
  ASSUME Amounts, NEW plan, plan = Plan("Offchain"), Planned(plan)
  PROVE  <<plan.buyer_amount>> \o plan.effective = Due
<1> DEFINE total == Total(<<Head(vtxos)>>)
           eff == Effective(fee_outputs, "Offchain", dust)
<1>1. Spent("Offchain") = <<Head(vtxos)>> /\ eff = fee_outputs
  BY DEF Spent, Effective
<1>2. total \in Nat /\ plan = plan_release(total, fee_outputs, "Offchain", dust)
  BY <1>1, SpentIsTotal DEF Plan
<1>3. fee_outputs \in Seq(Nat) /\ dust \in Nat
  BY Widths
<1> HIDE DEF total
<1>4. plan.buyer_amount = total - AmountSum(eff) /\ plan.effective = eff
  BY <1>2, <1>3, PlanIs
<1> QED BY <1>1, <1>4 DEF Due, total

\* A quote for an offchain release is what the release pays, output by output,
\* although the dust limit may change between quote_release and build_release_tx.
THEOREM QuotesHold == Spec => []QuoteHolds
<1>1. Init => QuoteInv
  BY DEF Init, QuoteInv, Nothing
<1>2. Amounts /\ QuoteInv /\ [Next]_vars => QuoteInv'
  <2> SUFFICES ASSUME Amounts, QuoteInv, [Next]_vars PROVE QuoteInv'
    OBVIOUS
  <2>1. ASSUME NEW amount \in FeeAmounts, AddFee(amount) PROVE QuoteInv'
    BY <2>1 DEF AddFee, QuoteInv, Nothing
  <2>2. ASSUME NEW limit \in Dusts, ChangeDust(limit) PROVE QuoteInv'
    BY <2>2 DEF ChangeDust, QuoteInv, Due
  <2>3. ASSUME NEW mode \in Modes, quote_release(mode) PROVE QuoteInv'
    <3>1. Due' = Due /\ built' = built /\ quote'.op = mode /\ quote'.plan = Plan(mode)
      BY <2>3 DEF quote_release, Due
    <3>2. mode = "Offchain" /\ Planned(quote'.plan) =>
            <<quote'.plan.buyer_amount>> \o quote'.plan.effective = Due
      BY <3>1, OffchainPlanIs
    <3> QED BY <3>1, <3>2 DEF QuoteInv, Planned
  <2>4. ASSUME NEW mode \in Modes, Release(mode) PROVE QuoteInv'
    <3>1. Due' = Due /\ quote' = quote
      BY <2>4 DEF Release, Due
    <3>2. /\ Planned(Plan(mode)) /\ built'.op = mode
          /\ built'.outputs = <<Plan(mode).buyer_amount>> \o Plan(mode).effective
      BY <2>4 DEF Release
    <3>3. mode = "Offchain" => built'.outputs = Due
      BY <3>2, OffchainPlanIs
    <3> QED BY <3>1, <3>2, <3>3 DEF QuoteInv, Planned
  <2>5. ASSUME build_refund_tx PROVE QuoteInv'
    BY <2>5 DEF build_refund_tx, QuoteInv, Due, Planned
  <2>6. ASSUME UNCHANGED vars PROVE QuoteInv'
    BY <2>6 DEF vars, QuoteInv, Due, Planned
  <2> QED BY <2>1, <2>2, <2>3, <2>4, <2>5, <2>6 DEF Next, build_release_tx,
                                 prepare_release_delegate, Modes
<1>3. QuoteInv => QuoteHolds
  BY DEF QuoteInv, QuoteHolds
<1> QED BY <1>1, <1>2, <1>3, AmountsHold, PTL DEF Spec

\* A single VTXO that can be released offchain can be released by delegation,
\* and the buyer gets no less: plan_release discards fees, and what is left is
\* worth no more.
THEOREM DelegationIsNoWorse ==
  ASSUME SumsFit
  PROVE  Spec => []DelegationPaysNoLess
<1>1. Amounts => DelegationPaysNoLess
  <2> SUFFICES ASSUME Amounts, Len(vtxos) = 1, Planned(Plan("Offchain"))
               PROVE  /\ Planned(Plan("Delegate"))
                      /\ Plan("Delegate").buyer_amount >= Plan("Offchain").buyer_amount
    BY DEF DelegationPaysNoLess
  <2> DEFINE total == Total(vtxos)
             off == Effective(fee_outputs, "Offchain", dust)
             del == Effective(fee_outputs, "Delegate", dust)
  <2>1. /\ fee_outputs \in Seq(Nat) /\ dust \in Nat /\ total \in Nat
        /\ off = fee_outputs /\ Total(off) \in Nat /\ Total(del) \in Nat
        /\ Total(del) <= Total(off) /\ AmountSum(del) \in Nat
    <3>1. fee_outputs \in Seq(Nat) /\ dust \in Nat /\ total \in Nat
      BY Widths
    <3>2. off = fee_outputs
      BY DEF Effective
    <3>3. Total(off) \in Nat
      BY <3>1, <3>2, TotalIsNatural
    <3>4. /\ Total(del) \in Nat /\ Total(del) <= Total(fee_outputs)
          /\ AmountSum(del) \in Nat
      BY <3>1, EffectiveFacts
    <3> QED BY <3>1, <3>2, <3>3, <3>4
  <2>2. /\ Plan("Offchain") = plan_release(total, fee_outputs, "Offchain", dust)
        /\ Plan("Delegate") = plan_release(total, fee_outputs, "Delegate", dust)
    <3>1. Spent("Offchain") = vtxos /\ Spent("Delegate") = vtxos
      BY Widths DEF Spent
    <3>2. AmountSum(vtxos) = total
      BY <3>1, SpentIsTotal
    <3> QED BY <3>1, <3>2 DEF Plan
  <2>3. off = Effective(fee_outputs, "Offchain", dust)
    OBVIOUS
  <2>4. del = Effective(fee_outputs, "Delegate", dust)
    OBVIOUS
  <2> HIDE DEF total, off, del
  <2>5. /\ ~Panics(off) /\ AmountSum(off) <= total /\ total - AmountSum(off) >= dust
        /\ Plan("Offchain").buyer_amount = total - AmountSum(off)
    BY <2>1, <2>2, <2>3, PlanIs
  <2>6. AmountSum(off) = Total(off)
    BY <2>3, <2>5, NothingWraps
  <2>7. ~Panics(del)
    <3>1. AmountLimit \in Nat
      BY AmountsAssumption
    <3> QED BY <2>1, <2>5, <3>1 DEF Panics
  <2>8. AmountSum(del) = Total(del)
    BY <2>4, <2>7, NothingWraps
  <2>9. /\ AmountSum(del) <= total /\ total - AmountSum(del) >= dust
        /\ total - AmountSum(del) >= total - AmountSum(off)
    BY ONLY <2>1, <2>5, <2>6, <2>8
  <2>10. /\ Planned(Plan("Delegate"))
         /\ Plan("Delegate").buyer_amount = total - AmountSum(del)
    BY <2>1, <2>2, <2>4, <2>7, <2>9, PlanIs
  <2> QED BY <2>5, <2>9, <2>10
<1> QED BY <1>1, AmountsHold, PTL
===============================================================================
