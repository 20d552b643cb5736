-------------------------- MODULE RubyClientProofs --------------------------
(***************************************************************************)
(* Proofs about the threads that share one client (RubyClient), for any    *)
(* number of threads, any depth of nesting and any number of store calls.  *)
(*                                                                         *)
(* The mutex is held only by the running thread, and only in native code:  *)
(* between inner.lock() and the release of the guard, which only a connect *)
(* keeps while it waits, and a connect never calls a store.                *)
(***************************************************************************)
EXTENDS RubyClient, SequenceTheorems, TLAPS

(* Only a spend has store calls left to make.                               *)
Frames == {f \in Frame : f.op # "spend" => f.left = 0}

(* The holder runs, and is in native code.                                  *)
Holds(t) ==
    /\ gvl = t
    /\ \/ In(t, "locked")
       \/ In(t, "block_on") /\ Last(calls[t]).op = "connect"

ClientInv ==
    /\ gvl \in Threads \cup {NoThread}
    /\ inner \in Threads \cup {NoThread}
    /\ poisoned \in BOOLEAN
    /\ calls \in [Threads -> Seq(Frames)]
    /\ \A t \in Threads : Len(calls[t]) <= Depth
    /\ \A t \in Threads : inner = t => Holds(t)

-----------------------------------------------------------------------------
(* Stacks of calls.                                                         *)

LEMMA StackFacts ==
    ASSUME NEW S, NEW s \in Seq(S), s # <<>>
    PROVE  /\ Last(s) \in S
           /\ Len(s) \in Nat \ {0}
           /\ Front(s) \in Seq(S)
           /\ Len(Front(s)) = Len(s) - 1
<1>1. Len(s) \in Nat \ {0}
  OBVIOUS
<1>2. Last(s) \in S
  BY <1>1 DEF Last
<1>3. SubSeq(s, 1, Len(s) - 1) \in Seq(S) /\ Len(SubSeq(s, 1, Len(s) - 1)) = Len(s) - 1
  <2>. DEFINE n == Len(s) - 1
  <2>1. \A i \in 1 .. n : s[i] \in S
    BY <1>1, ElementOfSeq
  <2>2. n \in Nat /\ n \in Int /\ 1 \in Int
    BY <1>1
  <2>. HIDE DEF n
  <2>3. SubSeq(s, 1, n) \in Seq(S) /\ Len(SubSeq(s, 1, n)) = n
    BY <2>1, <2>2, SubSeqProperties
  <2>. QED
    BY <2>3 DEF n
<1>. QED
  BY <1>1, <1>2, <1>3 DEF Front

LEMMA PushFacts ==
    ASSUME NEW S, NEW s \in Seq(S), NEW f \in S
    PROVE  /\ Append(s, f) \in Seq(S)
           /\ Len(Append(s, f)) = Len(s) + 1
           /\ Append(s, f) # <<>>
           /\ Last(Append(s, f)) = f
BY DEF Last

LEMMA FrameFacts ==
    ASSUME NEW f \in Frames
    PROVE  /\ f = [op |-> f.op, at |-> f.at, left |-> f.left]
           /\ f.op \in Ops /\ f.left \in 0 .. Callbacks
           /\ f.op # "spend" => f.left = 0
           /\ f.at \in {"block_on", "ruby"} => f.op # "brief"
<1>1. f \in Frame /\ (f.op # "spend" => f.left = 0)
  BY DEF Frames
<1>2. CASE f \in [op : Ops, at : {"entered", "locked"}, left : 0 .. Callbacks]
  BY <1>1, <1>2
<1>3. CASE f \in [op : {"status"}, at : {"looking"}, left : {0}]
  BY <1>1, <1>3, RubyAssumption DEF Ops
<1>4. CASE f \in [op : Ops \ {"brief"}, at : {"block_on"}, left : 0 .. Callbacks]
  BY <1>1, <1>4
<1>5. CASE f \in [op : {"spend"}, at : {"ruby"}, left : 0 .. Callbacks]
  BY <1>1, <1>5 DEF Ops
<1>. QED
  BY <1>1, <1>2, <1>3, <1>4, <1>5 DEF Frame

-----------------------------------------------------------------------------
(* What the three ways to change the stacks do.                             *)

LEMMA LeaveFacts ==
    ASSUME ClientInv, NEW t \in Threads, calls[t] # <<>>, Leave(t)
    PROVE  /\ calls' \in [Threads -> Seq(Frames)]
           /\ \A u \in Threads : Len(calls'[u]) <= Depth
           /\ \A u \in Threads : u # t => calls'[u] = calls[u]
<1>1. calls' = [calls EXCEPT ![t] = Front(calls[t])] /\ calls[t] \in Seq(Frames)
  BY DEF Leave, ClientInv
<1>2. Front(calls[t]) \in Seq(Frames) /\ Len(Front(calls[t])) = Len(calls[t]) - 1
      /\ Len(calls[t]) \in Nat
  BY <1>1, StackFacts
<1>. QED
  BY <1>1, <1>2, RubyAssumption DEF ClientInv

LEMMA ReplaceFacts ==
    ASSUME ClientInv, NEW t \in Threads, calls[t] # <<>>, NEW f \in Frames, Replace(t, f)
    PROVE  /\ calls' \in [Threads -> Seq(Frames)]
           /\ \A u \in Threads : Len(calls'[u]) <= Depth
           /\ \A u \in Threads : u # t => calls'[u] = calls[u]
           /\ calls'[t] # <<>> /\ Last(calls'[t]) = f
<1>1. calls' = [calls EXCEPT ![t] = Append(Front(calls[t]), f)] /\ calls[t] \in Seq(Frames)
  BY DEF Replace, ClientInv
<1>2. Front(calls[t]) \in Seq(Frames) /\ Len(Front(calls[t])) = Len(calls[t]) - 1
      /\ Len(calls[t]) \in Nat
  BY <1>1, StackFacts
<1>. DEFINE s == Append(Front(calls[t]), f)
<1>3. s \in Seq(Frames) /\ Len(s) = Len(calls[t]) /\ s # <<>> /\ Last(s) = f
  BY <1>2, PushFacts
<1>. HIDE DEF s
<1>4. calls' = [calls EXCEPT ![t] = s]
  BY <1>1 DEF s
<1>. QED
  BY <1>3, <1>4 DEF ClientInv

LEMMA MoveFacts ==
    ASSUME ClientInv, NEW t \in Threads, calls[t] # <<>>, NEW at, MoveTo(t, at),
           \/ at \in {"entered", "locked"}
           \/ at = "block_on" /\ Last(calls[t]).op # "brief"
    PROVE  /\ calls' \in [Threads -> Seq(Frames)]
           /\ \A u \in Threads : Len(calls'[u]) <= Depth
           /\ \A u \in Threads : u # t => calls'[u] = calls[u]
           /\ calls'[t] # <<>>
           /\ Last(calls'[t]).at = at /\ Last(calls'[t]).op = Last(calls[t]).op
<1>. DEFINE f == Last(calls[t])
            g == [op |-> f.op, at |-> at, left |-> f.left]
<1>1. f \in Frames
  BY StackFacts DEF ClientInv
<1>2. [f EXCEPT !.at = at] = g /\ f.op \in Ops /\ f.left \in 0 .. Callbacks
      /\ (f.op # "spend" => f.left = 0)
  BY <1>1, FrameFacts
<1>3. g \in Frames
  BY <1>2 DEF Frames, Frame, Ops
<1>4. Replace(t, g)
  BY <1>2 DEF MoveTo
<1>. HIDE DEF f
<1>5. g.at = at /\ g.op = f.op
  OBVIOUS
<1>. HIDE DEF g
<1>. QED
  BY <1>3, <1>4, <1>5, ReplaceFacts DEF f

-----------------------------------------------------------------------------
LEMMA ClientInit == Init => ClientInv
<1>. SUFFICES ASSUME Init PROVE ClientInv
  OBVIOUS
<1>1. <<>> \in Seq(Frames) /\ Len(<<>>) = 0
  OBVIOUS
<1>2. calls \in [Threads -> Seq(Frames)] /\ \A t \in Threads : Len(calls[t]) <= Depth
  <2>1. calls = [t \in Threads |-> <<>>]
    BY DEF Init
  <2>2. \A t \in Threads : calls[t] = <<>>
    BY <2>1
  <2>3. \A t \in Threads : Len(calls[t]) <= Depth
    <3>1. \A t \in Threads : Len(calls[t]) = 0
      BY <1>1, <2>2, Zenon
    <3>2. 0 <= Depth
      BY RubyAssumption
    <3>. QED
      BY <3>1, <3>2
  <2>4. calls \in [Threads -> Seq(Frames)]
    BY <1>1, <2>1, Zenon
  <2>. QED
    BY <2>3, <2>4
<1>3. \A t \in Threads : inner # t
  BY RubyAssumption DEF Init
<1>. QED
  BY <1>2, <1>3 DEF Init, ClientInv

(* Once t lets go of the mutex nobody holds it; while it is t's, it is      *)
(* nobody else's.                                                           *)
LEMMA Released ==
    ASSUME ClientInv, NEW t \in Threads, gvl = t, Unlock(t)
    PROVE  inner' = NoThread
BY RubyAssumption DEF ClientInv, Holds, Unlock

LEMMA Apart ==
    ASSUME ClientInv, NEW t \in Threads, gvl = t, NEW u \in Threads, inner = u
    PROVE  u = t
BY DEF ClientInv, Holds

LEMMA ClientStep ==
    ASSUME ClientInv, NEW t \in Threads,
           \/ Yield(t) \/ Resume(t)
           \/ \E op \in Ops : Enter(t, op)
           \/ Method(t) \/ CallStore(t) \/ StoreReturns(t)
    PROVE  ClientInv'
<1>. USE RubyAssumption
<1>1. CASE Yield(t)
  <2>1. inner = NoThread
    BY <1>1 DEF Yield, ClientInv, Holds, RunsRuby, In
  <2>. QED
    BY <1>1, <2>1 DEF Yield, ClientInv
<1>2. CASE Resume(t)
  <2>1. inner = NoThread
    BY <1>2 DEF Resume, ClientInv, Holds
  <2>. QED
    BY <1>2, <2>1 DEF Resume, ClientInv
<1>3. ASSUME NEW op \in Ops, Enter(t, op) PROVE ClientInv'
  <2>1. inner = NoThread
    BY <1>3, Apart DEF Enter, ClientInv, Holds, RunsRuby, In
  <2>. DEFINE f == [op |-> op, at |-> IF op = "status" THEN "looking" ELSE "entered",
                    left |-> IF op = "spend" THEN Callbacks ELSE 0]
  <2>2. f \in Frames
    BY DEF Frames, Frame, Ops
  <2>3. calls' = [calls EXCEPT ![t] = Append(calls[t], f)] /\ calls[t] \in Seq(Frames)
        /\ Len(calls[t]) < Depth
    BY <1>3 DEF Enter, ClientInv
  <2>. HIDE DEF f
  <2>4. Append(calls[t], f) \in Seq(Frames) /\ Len(Append(calls[t], f)) = Len(calls[t]) + 1
        /\ Len(calls[t]) \in Nat
    BY <2>2, <2>3, PushFacts
  <2>5. calls' \in [Threads -> Seq(Frames)] /\ \A u \in Threads : Len(calls'[u]) <= Depth
    BY <2>3, <2>4 DEF ClientInv
  <2>. QED
    BY <1>3, <2>1, <2>5 DEF Enter, ClientInv
<1>4. CASE Lock(t)
  <2>1. gvl = t /\ calls[t] # <<>> /\ Last(calls[t]).at = "entered"
    BY <1>4 DEF Lock, In
  <2>2. inner = NoThread
    BY <2>1, Apart DEF ClientInv, Holds, In
  <2>3. CASE Leave(t) /\ UNCHANGED inner
    BY <1>4, <2>1, <2>2, <2>3, LeaveFacts DEF Lock, ClientInv
  <2>4. CASE inner' = t /\ MoveTo(t, "locked")
    <3>1. /\ calls' \in [Threads -> Seq(Frames)] /\ \A u \in Threads : Len(calls'[u]) <= Depth
          /\ calls'[t] # <<>> /\ Last(calls'[t]).at = "locked"
      BY <2>1, <2>4, MoveFacts
    <3>2. UNCHANGED <<gvl, poisoned>>
      BY <1>4 DEF Lock
    <3>. QED
      BY <2>1, <2>4, <3>1, <3>2 DEF ClientInv, Holds, In
  <2>. QED
    BY <1>4, <2>3, <2>4 DEF Lock
<1>5. CASE Brief(t)
  <2>1. gvl = t /\ calls[t] # <<>> /\ Leave(t) /\ Unlock(t) /\ UNCHANGED <<gvl, poisoned>>
    BY <1>5 DEF Brief, In
  <2>. QED
    BY <2>1, LeaveFacts, Released DEF ClientInv
<1>6. CASE BlockOn(t)
  <2>1. gvl = t /\ calls[t] # <<>> /\ MoveTo(t, "block_on") /\ Last(calls[t]).op # "brief"
        /\ UNCHANGED <<gvl, poisoned>>
    BY <1>6 DEF BlockOn, In, Waits
  <2>2. /\ calls' \in [Threads -> Seq(Frames)] /\ \A u \in Threads : Len(calls'[u]) <= Depth
        /\ calls'[t] # <<>> /\ Last(calls'[t]).at = "block_on"
        /\ Last(calls'[t]).op = Last(calls[t]).op
    BY <2>1, MoveFacts
  <2>3. CASE Last(calls[t]).op = "connect"
    <3>1. inner' = inner
      BY <1>6, <2>3 DEF BlockOn, LocksThroughout
    <3>2. \A u \in Threads : inner' = u => u = t
      BY <2>1, <3>1, Apart
    <3>. QED
      BY <2>1, <2>2, <2>3, <3>1, <3>2 DEF ClientInv, Holds, In
  <2>4. CASE Last(calls[t]).op # "connect"
    <3>1. inner' = NoThread
      BY <1>6, <2>1, <2>4, Released DEF BlockOn, LocksThroughout
    <3>. QED
      BY <2>1, <2>2, <3>1 DEF ClientInv
  <2>. QED
    BY <2>3, <2>4
<1>7. CASE Panic(t)
  <2>1. gvl = t /\ calls[t] # <<>> /\ Leave(t) /\ Unlock(t) /\ UNCHANGED gvl
        /\ poisoned' \in BOOLEAN
    BY <1>7 DEF Panic, In, LocksThroughout
  <2>. QED
    BY <2>1, LeaveFacts, Released DEF ClientInv
<1>8. CASE CallStore(t)
  <2>. DEFINE f == Last(calls[t])
              g == [op |-> f.op, at |-> "ruby", left |-> f.left - 1]
  <2>1. gvl = t /\ calls[t] # <<>> /\ f.at = "block_on" /\ f.left > 0
        /\ UNCHANGED <<gvl, inner, poisoned>>
    BY <1>8 DEF CallStore, In
  <2>2. f \in Frames
    BY <2>1, StackFacts DEF ClientInv
  <2>3. /\ f = [op |-> f.op, at |-> f.at, left |-> f.left]
        /\ f.op = "spend" /\ f.left \in 0 .. Callbacks
    BY <2>1, <2>2, FrameFacts
  <2>4. inner = NoThread
    BY <2>1, <2>3, Apart DEF ClientInv, Holds, In
  <2>5. g \in Frames
    BY <2>1, <2>3 DEF Frames, Frame, Ops
  <2>6. [f EXCEPT !.at = "ruby", !.left = OneFewer(f.left)] = g
    <3>1. OneFewer(f.left) = f.left - 1
      BY DEF OneFewer
    <3>. HIDE DEF f
    <3>2. ASSUME NEW h, h = [f EXCEPT !.at = "ruby", !.left = OneFewer(f.left)] PROVE h = g
      BY <2>3, <3>1, <3>2
    <3>. QED
      BY <3>2
  <2>7. Replace(t, g)
    BY <1>8, <2>6 DEF CallStore
  <2>. HIDE DEF f, g
  <2>. QED
    BY <2>1, <2>4, <2>5, <2>7, ReplaceFacts DEF ClientInv
<1>9. CASE StoreReturns(t)
  <2>1. /\ gvl = t /\ calls[t] # <<>> /\ UNCHANGED <<gvl, inner, poisoned>>
        /\ Last(calls[t]).at \in {"ruby", "looking"}
        /\ \/ MoveTo(t, "block_on") /\ Last(calls[t]).at = "ruby"
           \/ MoveTo(t, "entered")
    BY <1>9 DEF StoreReturns, In
  <2>2. inner = NoThread
    BY <2>1, Apart DEF ClientInv, Holds, In
  <2>3. Last(calls[t]).at = "ruby" => Last(calls[t]).op # "brief"
    <3>1. Last(calls[t]) \in Frames
      BY <2>1, StackFacts DEF ClientInv
    <3>. QED
      BY <3>1, FrameFacts
  <2>4. calls' \in [Threads -> Seq(Frames)] /\ \A u \in Threads : Len(calls'[u]) <= Depth
    BY <2>1, <2>3, MoveFacts
  <2>. QED
    BY <2>1, <2>2, <2>4 DEF ClientInv
<1>10. CASE Return(t)
  <2>1. gvl = t /\ calls[t] # <<>> /\ Leave(t) /\ Unlock(t) /\ UNCHANGED <<gvl, poisoned>>
    BY <1>10 DEF Return, In
  <2>. QED
    BY <2>1, LeaveFacts, Released DEF ClientInv
<1>. QED
  BY <1>1, <1>2, <1>3, <1>4, <1>5, <1>6, <1>7, <1>8, <1>9, <1>10 DEF Method

LEMMA ClientAlways == Spec => []ClientInv
<1>1. Init => ClientInv
  BY ClientInit
<1>2. ClientInv /\ [Next]_vars => ClientInv'
  <2>1. ClientInv /\ UNCHANGED vars => ClientInv'
    BY DEF ClientInv, Holds, In, vars
  <2>. QED
    BY <2>1, ClientStep DEF Next
<1>. QED
  BY <1>1, <1>2, PTL DEF Spec

-----------------------------------------------------------------------------
(* Types: which calls reach the runtime, and which call a store back.       *)
THEOREM TypeCorrect == Spec => []TypeOK
<1>1. ClientInv => TypeOK
  <2>. SUFFICES ASSUME ClientInv PROVE TypeOK
    OBVIOUS
  <2>1. Frames \subseteq Frame
    BY DEF Frames
  <2>2. \A t \in Threads : calls[t] \in Seq(Frame)
    BY <2>1, SeqMonotonic DEF ClientInv
  <2>. QED
    BY <2>2 DEF ClientInv, TypeOK
<1>. QED
  BY <1>1, ClientAlways, PTL

(* No Ruby code runs while a thread holds the mutex: the next thread to ask *)
(* for it would wait with the global lock that the holder needs to go on    *)
(* (the clones of RbClient's methods).                                      *)
THEOREM NoRubyHoldsTheLock == Spec => []NoRubyUnderLock
<1>1. ClientInv => NoRubyUnderLock
  BY DEF ClientInv, NoRubyUnderLock, Holds, RunsRuby, In
<1>. QED
  BY <1>1, ClientAlways, PTL
=============================================================================
