----------------------------- MODULE RubyClient -----------------------------
(***************************************************************************)
(* The threads of a Ruby program that share one ArkEscrow::Client          *)
(* (RbClient in ruby-ext).  A method runs with Ruby's global lock, takes   *)
(* the mutex around the EscrowClient and waits for both without giving up  *)
(* the global lock; only the Ruby code of a custom store, which a spend or *)
(* a status query calls back, lets other threads in.                       *)
(***************************************************************************)
EXTENDS Naturals, Sequences

CONSTANTS
    Threads,        \* Ruby threads
    NoThread,       \* nobody
    Callbacks,      \* bound: store calls of one spend (the code makes each once)
    Depth           \* bound: calls within calls of one thread

ASSUME RubyAssumption ==
    /\ NoThread \notin Threads
    /\ Callbacks \in Nat /\ Depth \in Nat

VARIABLES
    gvl,            \* the thread that runs, with Ruby's global lock
    inner,          \* the holder of RbClient::inner
    poisoned,       \* a panic happened with inner held
    calls           \* the calls each thread is in, innermost last

vars == <<gvl, inner, poisoned, calls>>

\* brief: a setter, server_pk, unilateral_exit_delay, quote_release.
\* query: find_*, build_*, prepare_refresh, refresh_escrow and the like.
\* spend: spend_escrow_offchain, resume_pending_spend.
\* status: get_escrow_vtxo_status, which loads the record first of all.
Ops == {"brief", "connect", "query", "spend", "status"}
Frame ==
    [op : Ops, at : {"entered", "locked"}, left : 0 .. Callbacks]
      \cup [op : {"status"}, at : {"looking"}, left : {0}]
      \cup [op : Ops \ {"brief"}, at : {"block_on"}, left : 0 .. Callbacks]
      \cup [op : {"spend"}, at : {"ruby"}, left : 0 .. Callbacks]

TypeOK ==
    /\ gvl \in Threads \cup {NoThread}
    /\ inner \in Threads \cup {NoThread}
    /\ poisoned \in BOOLEAN
    /\ \A t \in Threads : calls[t] \in Seq(Frame) /\ Len(calls[t]) <= Depth

-----------------------------------------------------------------------------
Last(s) == s[Len(s)]
Front(s) == SubSeq(s, 1, Len(s) - 1)
In(t, at) == calls[t] # <<>> /\ Last(calls[t]).at = at

RunsRuby(t) == calls[t] = <<>> \/ In(t, "ruby") \/ In(t, "looking")
OnRuntime(t) == \E i \in DOMAIN calls[t] : calls[t][i].at \in {"block_on", "ruby"}

Replace(t, frame) == calls' = [calls EXCEPT ![t] = Append(Front(@), frame)]
Leave(t) == calls' = [calls EXCEPT ![t] = Front(@)]
MoveTo(t, at) == Replace(t, [Last(calls[t]) EXCEPT !.at = at])
Unlock(t) == inner' = IF inner = t THEN NoThread ELSE inner

\* variant: every method ends on the runtime.
AllWait(op) == TRUE

\* The methods that wait for the network.
Waits(op) == op # "brief"

\* variant: the guard lives as long as the call.
LocksAll(op) == Waits(op)

\* connect needs the client itself; every other method works on a clone.
LocksThroughout(op) == op = "connect"

Init ==
    /\ gvl = NoThread
    /\ inner = NoThread
    /\ poisoned = FALSE
    /\ calls = [t \in Threads |-> <<>>]

-----------------------------------------------------------------------------
(* Ruby's scheduler.                                                       *)

Yield(t) ==
    /\ gvl = t /\ RunsRuby(t)
    /\ gvl' = NoThread
    /\ UNCHANGED <<inner, poisoned, calls>>

Resume(t) ==
    /\ gvl = NoThread
    /\ gvl' = t
    /\ UNCHANGED <<inner, poisoned, calls>>

-----------------------------------------------------------------------------
(* The methods.                                                            *)

\* From the program, or from the store's code in the middle of another call.
Enter(t, op) ==
    /\ gvl = t /\ RunsRuby(t)
    /\ Len(calls[t]) < Depth
    /\ calls' = [calls EXCEPT ![t] =
                   Append(@, [op |-> op,
                              at |-> IF op = "status" THEN "looking" ELSE "entered",
                              left |-> IF op = "spend" THEN Callbacks ELSE 0])]
    /\ UNCHANGED <<gvl, inner, poisoned>>

\* inner.lock(): an error if poisoned, else a wait that keeps the global lock.
Lock(t) ==
    /\ gvl = t /\ In(t, "entered")
    /\ \/ poisoned /\ Leave(t) /\ UNCHANGED inner
       \/ /\ ~poisoned /\ inner = NoThread
          /\ inner' = t
          /\ MoveTo(t, "locked")
    /\ UNCHANGED <<gvl, poisoned>>

Brief(t) ==
    /\ gvl = t /\ In(t, "locked") /\ ~Waits(Last(calls[t]).op)
    /\ Leave(t) /\ Unlock(t)
    /\ UNCHANGED <<gvl, poisoned>>

\* rt.block_on, with the guard dropped before unless the call keeps it.
BlockOn(t) ==
    /\ gvl = t /\ In(t, "locked") /\ Waits(Last(calls[t]).op)
    /\ ~OnRuntime(t)
    /\ MoveTo(t, "block_on")
    /\ IF LocksThroughout(Last(calls[t]).op) THEN UNCHANGED inner ELSE Unlock(t)
    /\ UNCHANGED <<gvl, poisoned>>

\* rt.block_on from a callback of another block_on of this thread panics; a
\* guard that is held poisons the mutex as it is dropped.
Panic(t) ==
    /\ gvl = t /\ In(t, "locked") /\ Waits(Last(calls[t]).op)
    /\ OnRuntime(t)
    /\ Leave(t) /\ Unlock(t)
    /\ poisoned' = LocksThroughout(Last(calls[t]).op)
    /\ UNCHANGED gvl

\* variant: a store call is made again and again.
AskedAgain(left) == left

\* A spend makes each of its store calls once: load, save, upgrade or remove,
\* mark finalized.
OneFewer(left) == left - 1

\* CallbackSpendStore: save, load, remove, remove_if, save_if.
CallStore(t) ==
    /\ gvl = t /\ In(t, "block_on") /\ Last(calls[t]).left > 0
    /\ Replace(t, [Last(calls[t]) EXCEPT !.at = "ruby", !.left = OneFewer(@)])
    /\ UNCHANGED <<gvl, inner, poisoned>>

StoreReturns(t) ==
    /\ gvl = t
    /\ \/ In(t, "ruby") /\ MoveTo(t, "block_on")
       \/ In(t, "looking") /\ MoveTo(t, "entered")
    /\ UNCHANGED <<gvl, inner, poisoned>>

\* The future is ready, its own timeout at the latest.
Return(t) ==
    /\ gvl = t /\ In(t, "block_on")
    /\ Leave(t) /\ Unlock(t)
    /\ UNCHANGED <<gvl, poisoned>>

Method(t) == Lock(t) \/ Brief(t) \/ BlockOn(t) \/ Panic(t) \/ Return(t)

Next ==
    \E t \in Threads :
        \/ Yield(t) \/ Resume(t)
        \/ \E op \in Ops : Enter(t, op)
        \/ Method(t) \/ CallStore(t) \/ StoreReturns(t)

Spec == Init /\ [][Next]_vars

\* Methods proceed unless they wait for the mutex; Ruby gives every thread its
\* turn and takes it away again (its timer), a store's code comes to its end,
\* at each depth of nesting whatever is called deeper in the meantime.
Fairness ==
    \A t \in Threads :
        /\ WF_vars(Method(t))
        /\ SF_vars(Resume(t)) /\ SF_vars(Yield(t))
        /\ \A d \in 1 .. Depth : SF_vars(Len(calls[t]) = d /\ StoreReturns(t))

FairSpec == Spec /\ Fairness

-----------------------------------------------------------------------------
(* Properties.                                                             *)

\* No Ruby code runs while a thread holds the mutex: the next thread to ask
\* for it would wait with the global lock that the holder needs to go on
\* (the clones of RbClient's methods).
NoRubyUnderLock ==
    \A t \in Threads : inner = t => gvl = t /\ ~RunsRuby(t)

\* Every method returns, whatever other threads and store callbacks call in
\* the meantime.
MethodsReturn ==
    \A t \in Threads : calls[t] # <<>> ~> calls[t] = <<>>
=============================================================================
