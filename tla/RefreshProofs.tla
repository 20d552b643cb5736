---------------------------- MODULE RefreshProofs ----------------------------
(***************************************************************************)
(* Proofs about the refresh (Refresh), for any number of intents, batches  *)
(* and tree nodes.                                                         *)
(*                                                                         *)
(* The handlers compare no batch identifiers; what keeps the events of     *)
(* other batches out is where the ceremony and the running batch stand.    *)
(* The invariant follows the batch the ceremony was announced: either the  *)
(* confirmation was taken for it, and then the events ahead in the stream  *)
(* are exactly what the batch has said since, up to its end; or it was     *)
(* taken for a later batch, and then the next event breaks the ceremony or *)
(* tells it that the announced batch has failed.                           *)
(***************************************************************************)
EXTENDS RefreshRefinement, SequenceTheorems, TLAPS

-----------------------------------------------------------------------------
(* The inductive invariant.                                                 *)

(* The ceremony's variables, by value.                                      *)
At(step, batch, vtxo, connector, nonces, asked) ==
    [step |-> step, batch |-> batch, vtxo |-> vtxo, connector |-> connector,
     nonces |-> nonces, asked |-> asked]

ServerInv ==
    /\ running = NoBatch <=> phase = "none"
    /\ confirmed => inBatch
    /\ inBatch => held # NoIntent
    /\ held # NoIntent => refreshedIn = NoBatch
    /\ open <=> pc \in CeremonyPoints
    /\ ~open => stream = <<>>

Own(e) == e.batch = my.batch

(* What may follow the announcement of a batch nobody has confirmed.        *)
Unconfirmed(e, b) == e.batch = b /\ e.kind \in {"TreeSigningStarted", "BatchFailed"}

(* Before the confirmation, an announcement ahead is either the last event, *)
(* and its batch still waits for confirmations, or it went on without.      *)
AnnouncedInv ==
    /\ pc \in {"subscribe", "confirm"} \/ (pc = "loop" /\ my.step = "Start") => ~confirmed
    /\ pc = "loop" /\ my.step = "Start" =>
          /\ my = NewCeremony
          /\ \A i \in DOMAIN stream : stream[i].kind = "BatchStarted" =>
                LET b == stream[i].batch
                IN  IF i = Len(stream)
                    THEN running = b /\ phase = "confirming"
                    ELSE Unconfirmed(stream[i + 1], b) /\ ~(running = b /\ phase = "confirming")

(* The announced batch was read; the client is going to confirm.            *)
ConfirmInv ==
    pc = "confirm" =>
        /\ my.batch \in Batches
        /\ my = At("Start", my.batch, "none", "none", 0, my.batch)
        /\ stream = <<>> <=> (running = my.batch /\ phase = "confirming")
        /\ stream # <<>> => Unconfirmed(stream[1], my.batch)

(* The confirmation was taken for a later batch.                            *)
Behind ==
    /\ pc = "loop"
    /\ my = At("BatchStarted", my.batch, "none", "none", 0, NoBatch)
    /\ running # my.batch
    /\ stream # <<>> /\ Unconfirmed(stream[1], my.batch)

(* n events of the batch are ahead, and then its end if it has ended.       *)
Waiting(n, finalized) ==
    /\ n \in 0 .. Len(stream)
    /\ \A i \in 1 .. n : Own(stream[i])
    /\ IF running = my.batch
       THEN confirmed /\ Len(stream) = n
       ELSE /\ ~confirmed /\ n < Len(stream)
            /\ Own(stream[n + 1])
            /\ \/ stream[n + 1].kind = "BatchFailed"
               \/ finalized /\ stream[n + 1].kind = "BatchFinalized" /\ refreshedIn = my.batch

Phase(phases) == running = my.batch => phase \in phases

(* Where the ceremony stands, step by step, in its batch.                   *)
BeforeTree ==
    /\ pc = "loop"
    /\ my = At("BatchStarted", my.batch, "none", "none", 0, NoBatch)
    /\ \/ Waiting(0, FALSE) /\ Phase({"confirming"})
       \/ /\ Waiting(2, FALSE) /\ Phase({"nonces"})
          /\ stream[1].kind = "VtxoTx" /\ stream[2].kind = "TreeSigningStarted"

WithTree ==
    /\ pc = "loop"
    /\ my = At("BatchStarted", my.batch, "some", "none", 0, NoBatch)
    /\ Waiting(1, FALSE) /\ Phase({"nonces"})
    /\ stream[1].kind = "TreeSigningStarted"

SendsNonces ==
    /\ pc = "nonces"
    /\ my = At("BatchStarted", my.batch, "taken", "none", 0, my.batch)
    /\ Waiting(0, FALSE) /\ Phase({"nonces"})

CountsNonces ==
    /\ pc = "loop"
    /\ my.nonces \in 0 .. Nodes - 1
    /\ my = At("BatchSigningStarted", my.batch, "taken", "none", my.nonces, NoBatch)
    /\ Waiting(Nodes - my.nonces, FALSE) /\ Phase({"signing"})
    /\ \A i \in 1 .. Nodes - my.nonces : stream[i].kind = "TreeNonces"

SendsSignatures ==
    /\ pc = "signatures"
    /\ my = At("BatchSigningStarted", my.batch, "taken", "none", Nodes, my.batch)
    /\ Waiting(0, FALSE) /\ Phase({"signing"})

AwaitsFinalization ==
    /\ pc = "loop"
    /\ my = At("BatchSigningStarted", my.batch, "taken", "none", Nodes, NoBatch)
    /\ Phase({"forfeits"})
    /\ \/ Waiting(1, TRUE) /\ stream[1].kind = "BatchFinalization"
       \/ /\ Waiting(2, TRUE)
          /\ stream[1].kind = "ConnectorTx" /\ stream[2].kind = "BatchFinalization"

WithConnectors ==
    /\ pc = "loop"
    /\ my = At("BatchSigningStarted", my.batch, "taken", "some", Nodes, NoBatch)
    /\ Phase({"forfeits"})
    /\ Waiting(1, TRUE) /\ stream[1].kind = "BatchFinalization"

SendsForfeits ==
    /\ pc = "forfeits"
    /\ my = At("BatchSigningStarted", my.batch, "taken", "taken", Nodes, my.batch)
    /\ Waiting(0, TRUE) /\ Phase({"forfeits"})

AwaitsEnd ==
    /\ pc = "loop"
    /\ my = At("Finalized", my.batch, "taken", "taken", Nodes, NoBatch)
    /\ Waiting(0, TRUE) /\ Phase({"forfeits", "finalizing"})

Along ==
    \/ BeforeTree \/ WithTree \/ SendsNonces \/ CountsNonces \/ SendsSignatures
    \/ AwaitsFinalization \/ WithConnectors \/ SendsForfeits \/ AwaitsEnd

CeremonyInv ==
    pc \in {"nonces", "signatures", "forfeits"} \/ (pc = "loop" /\ my.step # "Start") =>
        /\ my.batch \in Batches
        /\ Behind \/ Along

CallInv ==
    /\ pc \notin CeremonyPoints => my = NewCeremony
    /\ pc \notin {"idle", "withdraw"} => outcome = "none"
    /\ pc = "withdraw" => outcome \notin {"none", "ok"}

RefreshInv ==
    /\ TypeOK /\ ServerInv /\ CallInv /\ AnnouncedInv /\ ConfirmInv /\ CeremonyInv
-----------------------------------------------------------------------------
(* Streams.                                                                 *)

LEMMA ReadFacts ==
    ASSUME NEW S, NEW s \in Seq(S), s # <<>>
    PROVE  /\ Head(s) = s[1] /\ s[1] \in S /\ Len(s) \in Nat \ {0}
           /\ Tail(s) \in Seq(S) /\ Len(Tail(s)) = Len(s) - 1
           /\ \A i \in 1 .. Len(s) - 1 : Tail(s)[i] = s[i + 1]
<1>1. Head(s) = s[1] /\ Len(s) \in Nat \ {0}
  OBVIOUS
<1>2. s[1] \in S
  BY <1>1, ElementOfSeq
<1>3. /\ Tail(s) \in Seq(S) /\ Len(Tail(s)) = Len(s) - 1
      /\ \A i \in 1 .. Len(Tail(s)) : Tail(s)[i] = s[i + 1]
  BY HeadTailProperties
<1>. QED
  BY <1>1, <1>2, <1>3

LEMMA AppendFacts ==
    ASSUME NEW S, NEW s \in Seq(S), NEW e \in Seq(S)
    PROVE  /\ s \o e \in Seq(S) /\ Len(s \o e) = Len(s) + Len(e)
           /\ Len(s) \in Nat /\ Len(e) \in Nat
           /\ \A i \in 1 .. Len(s) : (s \o e)[i] = s[i]
           /\ \A i \in 1 .. Len(e) : (s \o e)[Len(s) + i] = e[i]
<1>1. /\ s \o e \in Seq(S) /\ Len(s \o e) = Len(s) + Len(e)
      /\ Len(s) \in Nat /\ Len(e) \in Nat
      /\ \A i \in 1 .. Len(s) + Len(e) :
            (s \o e)[i] = IF i <= Len(s) THEN s[i] ELSE e[i - Len(s)]
  BY ConcatProperties
<1>. QED
  BY <1>1

LEMMA EventFacts ==
    ASSUME NEW kind \in Kinds, NEW b \in Batches
    PROVE  /\ Event(kind, b) \in Events
           /\ Event(kind, b).kind = kind /\ Event(kind, b).batch = b
BY DEF Event, Events

LEMMA OneEvent ==
    ASSUME NEW S, NEW e \in S
    PROVE  <<e>> \in Seq(S) /\ Len(<<e>>) = 1 /\ <<e>>[1] = e
OBVIOUS

LEMMA TwoEvents ==
    ASSUME NEW S, NEW e \in S, NEW f \in S
    PROVE  <<e, f>> \in Seq(S) /\ Len(<<e, f>>) = 2 /\ <<e, f>>[1] = e /\ <<e, f>>[2] = f
OBVIOUS

LEMMA NonceEvents ==
    ASSUME NEW b \in Batches
    PROVE  LET events == [n \in 1 .. Nodes |-> Event("TreeNonces", b)]
           IN /\ events \in Seq(Events) /\ Len(events) = Nodes
              /\ \A n \in 1 .. Nodes : events[n].kind = "TreeNonces" /\ events[n].batch = b
<1>1. Event("TreeNonces", b) \in Events /\ Event("TreeNonces", b).kind = "TreeNonces"
      /\ Event("TreeNonces", b).batch = b
  BY EventFacts DEF Kinds
<1>. DEFINE events == [n \in 1 .. Nodes |-> Event("TreeNonces", b)]
<1>2. events \in Seq(Events) /\ Len(events) = Nodes
  BY <1>1, NodesAssumption, IsASeq, LenProperties
<1>3. \A n \in 1 .. Nodes : events[n] = Event("TreeNonces", b)
  OBVIOUS
<1>. HIDE DEF events
<1>4. \A n \in 1 .. Nodes : events[n].kind = "TreeNonces" /\ events[n].batch = b
  BY <1>1, <1>3
<1>. QED
  BY <1>2, <1>4 DEF events

(* What an event does to the streams of the types.                          *)
LEMMA EmitFacts ==
    ASSUME TypeOK, open' \in BOOLEAN, NEW events \in Seq(Events), Emit(events)
    PROVE  /\ stream' \in Seq(Events)
           /\ ~open' => stream' = <<>>
           /\ open' => /\ stream' = stream \o events
                       /\ Len(stream') = Len(stream) + Len(events)
                       /\ Len(stream) \in Nat /\ Len(events) \in Nat
                       /\ \A i \in 1 .. Len(stream) : stream'[i] = stream[i]
                       /\ \A i \in 1 .. Len(events) : stream'[Len(stream) + i] = events[i]
<1>1. stream \in Seq(Events)
  BY DEF TypeOK, ServerTypeOK
<1>2. CASE ~open'
  <2>1. stream' = <<>>
    BY <1>2 DEF Emit
  <2>2. <<>> \in Seq(Events)
    OBVIOUS
  <2>. QED
    BY <1>2, <2>1, <2>2
<1>3. CASE open'
  <2>1. stream' = stream \o events
    BY <1>3 DEF Emit
  <2>. QED
    BY <1>1, <1>3, <2>1, AppendFacts
<1>. QED
  BY <1>2, <1>3

LEMMA EmitNothing ==
    ASSUME TypeOK, open' = open, ServerInv, Emit(<<>>)
    PROVE  stream' = stream
<1>1. stream \in Seq(Events)
  BY DEF TypeOK, ServerTypeOK
<1>2. stream \o <<>> = stream
  BY <1>1, ConcatEmptySeq
<1>. QED
  BY <1>2 DEF Emit, ServerInv

-----------------------------------------------------------------------------
(* The server's own steps, as far as the client can tell.                   *)

(* A step appends one or two events about its batch.                        *)
Moves(events) ==
    /\ events \in Seq(Events) /\ Len(events) \in 1 .. 2
    /\ Emit(events)
    /\ UNCHANGED <<open, pc, my, outcome>>
    /\ \/ /\ phase = "none" /\ phase' = "confirming" /\ ~confirmed'
          /\ running' \in Batches \ {my.batch} /\ running' \notin Streamed("batch")
          /\ refreshedIn' = refreshedIn
          /\ Len(events) = 1 /\ events[1].kind = "BatchStarted" /\ events[1].batch = running'
       \/ /\ phase = "confirming" /\ phase' = "nonces"
          /\ UNCHANGED <<running, confirmed, refreshedIn>>
          /\ \A i \in 1 .. Len(events) : events[i].batch = running
          /\ IF confirmed THEN Len(events) = 2 /\ events[1].kind = "VtxoTx"
                               /\ events[2].kind = "TreeSigningStarted"
                          ELSE Len(events) = 1 /\ events[1].kind = "TreeSigningStarted"
       \/ /\ phase = "nonces" /\ ~confirmed /\ phase' = "finalizing"
          /\ UNCHANGED <<running, confirmed, refreshedIn>>
          /\ Len(events) = 1 /\ events[1].kind = "BatchFinalization" /\ events[1].batch = running
       \/ /\ phase \in {"finalizing", "forfeits"} /\ phase' = "none" /\ ~confirmed'
          /\ running' = NoBatch
          /\ refreshedIn' = IF confirmed THEN running ELSE refreshedIn
          /\ Len(events) = 1 /\ events[1].kind = "BatchFinalized" /\ events[1].batch = running
       \/ /\ phase # "none" /\ phase' = "none" /\ ~confirmed'
          /\ running' = NoBatch /\ refreshedIn' = refreshedIn
          /\ Len(events) = 1 /\ events[1].kind = "BatchFailed" /\ events[1].batch = running

LEMMA ServerMoves ==
    ASSUME TypeOK, ServerInv, Server
    PROVE  /\ \E events : Moves(events)
           /\ (confirmed' => inBatch') /\ (inBatch' => held' # NoIntent)
           /\ held' \in Intents \union {NoIntent} /\ inBatch' \in BOOLEAN
           /\ connectors' \in BOOLEAN /\ confirmed' \in BOOLEAN
           /\ (running' = NoBatch <=> phase' = "none")
           /\ (held' # NoIntent => refreshedIn' = NoBatch)
           /\ running' \in Batches \union {NoBatch} /\ refreshedIn' \in Batches \union {NoBatch}
           /\ UNCHANGED <<calm, callVars, late>>
<1>. DEFINE Goal ==
              /\ \E events : Moves(events)
              /\ (confirmed' => inBatch') /\ (inBatch' => held' # NoIntent)
              /\ held' \in Intents \union {NoIntent} /\ inBatch' \in BOOLEAN
              /\ connectors' \in BOOLEAN /\ confirmed' \in BOOLEAN
              /\ (running' = NoBatch <=> phase' = "none")
              /\ (held' # NoIntent => refreshedIn' = NoBatch)
              /\ running' \in Batches \union {NoBatch} /\ refreshedIn' \in Batches \union {NoBatch}
              /\ UNCHANGED <<calm, callVars, late>>
<1>0. UNCHANGED <<callVars, late>> /\ UNCHANGED <<pc, my, outcome>>
  BY DEF Server, callVars
<1>1. phase # "none" => running \in Batches
  BY DEF TypeOK, ServerTypeOK, ServerInv
<1>2. ASSUME NEW b \in Batches \ {my.batch}, StartBatch(b, pc = "subscribe") PROVE Goal
  <2>1. PICK in \in BOOLEAN :
          /\ in => Queued
          /\ inBatch' = in
          /\ Emit(<<[kind |-> "BatchStarted", batch |-> b,
                     intent |-> IF in THEN held ELSE NoIntent]>>)
    BY <1>2 DEF StartBatch
  <2>. DEFINE e == [kind |-> "BatchStarted", batch |-> b, intent |-> IF in THEN held ELSE NoIntent]
  <2>2. e \in Events /\ e.kind = "BatchStarted" /\ e.batch = b
    BY DEF Events, Kinds, TypeOK, ServerTypeOK
  <2>. HIDE DEF e
  <2>3. <<e>> \in Seq(Events) /\ Len(<<e>>) = 1 /\ <<e>>[1] = e
    BY <2>2, OneEvent
  <2>4. Emit(<<e>>)
    BY <2>1 DEF e
  <2>5. Moves(<<e>>)
    BY <1>0, <1>2, <2>2, <2>3, <2>4 DEF Moves, StartBatch
  <2>6. b # NoBatch
    BY NoBatchAssumption
  <2>. QED
    BY <1>0, <1>2, <2>1, <2>5, <2>6 DEF StartBatch, Queued, TypeOK, ServerTypeOK, ServerInv
<1>3. ASSUME NEW expected, CloseConfirmation(expected) PROVE Goal
  <2>. DEFINE v == Event("VtxoTx", running)
              t == Event("TreeSigningStarted", running)
              events == IF confirmed THEN <<v, t>> ELSE <<t>>
  <2>1. /\ v \in Events /\ v.kind = "VtxoTx" /\ v.batch = running
        /\ t \in Events /\ t.kind = "TreeSigningStarted" /\ t.batch = running
    BY <1>1, <1>3, EventFacts DEF CloseConfirmation, Kinds
  <2>2. Emit(events)
    BY <1>3 DEF CloseConfirmation
  <2>. HIDE DEF v, t
  <2>3. CASE confirmed
    <3>1. /\ <<v, t>> \in Seq(Events) /\ Len(<<v, t>>) = 2
          /\ <<v, t>>[1] = v /\ <<v, t>>[2] = t
      BY <2>1, TwoEvents
    <3>2. Moves(<<v, t>>)
      BY <1>0, <1>3, <2>1, <2>2, <2>3, <3>1 DEF Moves, CloseConfirmation
    <3>. QED
      BY <1>0, <1>3, <2>3, <3>2 DEF CloseConfirmation, TypeOK, ServerTypeOK, ServerInv, queueVars
  <2>4. CASE ~confirmed
    <3>1. <<t>> \in Seq(Events) /\ Len(<<t>>) = 1 /\ <<t>>[1] = t
      BY <2>1, OneEvent
    <3>2. Moves(<<t>>)
      BY <1>0, <1>3, <2>1, <2>2, <2>4, <3>1 DEF Moves, CloseConfirmation
    <3>. QED
      BY <1>0, <1>3, <2>4, <3>2 DEF CloseConfirmation, Drop, TypeOK, ServerTypeOK, ServerInv,
         queueVars
  <2>. QED
    BY <2>3, <2>4 DEF TypeOK, ServerTypeOK
<1>4. CASE RunWithout
  <2>. DEFINE e == Event("BatchFinalization", running)
  <2>1. e \in Events /\ e.kind = "BatchFinalization" /\ e.batch = running
    BY <1>1, <1>4, EventFacts DEF RunWithout, Kinds
  <2>2. Emit(<<e>>)
    BY <1>4 DEF RunWithout
  <2>. HIDE DEF e
  <2>3. <<e>> \in Seq(Events) /\ Len(<<e>>) = 1 /\ <<e>>[1] = e
    BY <2>1, OneEvent
  <2>4. Moves(<<e>>)
    BY <1>0, <1>4, <2>1, <2>2, <2>3 DEF Moves, RunWithout
  <2>. QED
    BY <1>0, <1>4, <2>4 DEF RunWithout, TypeOK, ServerTypeOK, ServerInv, queueVars
<1>5. CASE FinalizeBatch
  <2>. DEFINE e == Event("BatchFinalized", running)
  <2>1. e \in Events /\ e.kind = "BatchFinalized" /\ e.batch = running
    BY <1>1, <1>5, EventFacts DEF FinalizeBatch, Kinds
  <2>2. Emit(<<e>>)
    BY <1>5 DEF FinalizeBatch
  <2>. HIDE DEF e
  <2>3. <<e>> \in Seq(Events) /\ Len(<<e>>) = 1 /\ <<e>>[1] = e
    BY <2>1, OneEvent
  <2>4. refreshedIn' = IF confirmed THEN running ELSE refreshedIn
    BY <1>5 DEF FinalizeBatch, ServerInv
  <2>5. Moves(<<e>>)
    BY <1>0, <1>5, <2>1, <2>2, <2>3, <2>4 DEF Moves, FinalizeBatch
  <2>6. held' # NoIntent => ~confirmed /\ held # NoIntent
    BY <1>5 DEF FinalizeBatch, Drop, Requeue, ServerInv, queueVars
  <2>7. /\ confirmed' = FALSE /\ inBatch' = FALSE /\ connectors' = FALSE
        /\ running' = NoBatch /\ phase' = "none"
        /\ held' \in Intents \union {NoIntent} /\ UNCHANGED calm
    BY <1>5 DEF FinalizeBatch, Drop, Requeue, TypeOK, ServerTypeOK, queueVars
  <2>. QED
    BY <1>0, <2>4, <2>5, <2>6, <2>7 DEF TypeOK, ServerTypeOK, ServerInv
<1>6. ASSUME NEW expected, FailBatch(expected) PROVE Goal
  <2>. DEFINE e == Event("BatchFailed", running)
  <2>1. e \in Events /\ e.kind = "BatchFailed" /\ e.batch = running
    BY <1>1, <1>6, EventFacts DEF FailBatch, Kinds
  <2>2. Emit(<<e>>)
    BY <1>6 DEF FailBatch
  <2>. HIDE DEF e
  <2>3. <<e>> \in Seq(Events) /\ Len(<<e>>) = 1 /\ <<e>>[1] = e
    BY <2>1, OneEvent
  <2>4. Moves(<<e>>)
    BY <1>0, <1>6, <2>1, <2>2, <2>3 DEF Moves, FailBatch
  <2>. QED
    BY <1>0, <1>6, <2>4 DEF FailBatch, Drop, Requeue, TypeOK, ServerTypeOK, ServerInv, queueVars
<1>. QED
  BY <1>2, <1>3, <1>4, <1>5, <1>6 DEF Server

(* The first events of the stream stay where they are.                      *)
LEMMA MovesAppend ==
    ASSUME TypeOK, ServerInv, pc \in CeremonyPoints, NEW events, Moves(events)
    PROVE  /\ stream' \in Seq(Events) /\ Len(stream) \in Nat /\ Len(events) \in 1 .. 2
           /\ Len(stream') = Len(stream) + Len(events)
           /\ \A i \in 1 .. Len(stream) : stream'[i] = stream[i]
           /\ \A i \in 1 .. Len(events) : stream'[Len(stream) + i] = events[i]
           /\ stream' # <<>> /\ (stream = <<>> <=> Len(stream) = 0)
           /\ Len(stream') \in Nat /\ Len(stream') > Len(stream)
<1>1. open' /\ open' \in BOOLEAN
  BY DEF ServerInv, Moves, TypeOK, ServerTypeOK
<1>2. /\ stream' \in Seq(Events) /\ Len(stream) \in Nat /\ Len(events) \in 1 .. 2
      /\ Len(stream') = Len(stream) + Len(events)
      /\ \A i \in 1 .. Len(stream) : stream'[i] = stream[i]
      /\ \A i \in 1 .. Len(events) : stream'[Len(stream) + i] = events[i]
  BY <1>1, EmitFacts DEF Moves
<1>3. stream \in Seq(Events)
  BY DEF TypeOK, ServerTypeOK
<1>4. \A m, k \in Nat : k \in 1 .. 2 => m + k \in Nat /\ m + k > m
  OBVIOUS
<1>5. Len(events) \in Nat
  BY <1>2
<1>6. Len(stream') \in Nat /\ Len(stream') > Len(stream)
  BY <1>2, <1>4, <1>5
<1>. QED
  BY <1>2, <1>3, <1>6, EmptySeq

LEMMA AnnouncedServer ==
    ASSUME RefreshInv, NEW events, Moves(events)
    PROVE  AnnouncedInv'
<1>1. confirmed' => confirmed
  BY DEF Moves
<1>2. pc' = pc /\ my' = my
  BY DEF Moves
<1>3. ASSUME pc = "loop", my.step = "Start"
      PROVE  \A i \in DOMAIN stream' : stream'[i].kind = "BatchStarted" =>
                LET b == stream'[i].batch
                IN  IF i = Len(stream')
                    THEN running' = b /\ phase' = "confirming"
                    ELSE Unconfirmed(stream'[i + 1], b) /\ ~(running' = b /\ phase' = "confirming")
  <2>. SUFFICES ASSUME NEW i \in DOMAIN stream', stream'[i].kind = "BatchStarted"
                PROVE  IF i = Len(stream')
                       THEN running' = stream'[i].batch /\ phase' = "confirming"
                       ELSE /\ Unconfirmed(stream'[i + 1], stream'[i].batch)
                            /\ ~(running' = stream'[i].batch /\ phase' = "confirming")
    OBVIOUS
  <2>1. /\ stream' \in Seq(Events) /\ Len(stream) \in Nat /\ Len(events) \in 1 .. 2
        /\ Len(stream') = Len(stream) + Len(events)
        /\ \A j \in 1 .. Len(stream) : stream'[j] = stream[j]
        /\ \A j \in 1 .. Len(events) : stream'[Len(stream) + j] = events[j]
    BY <1>3, MovesAppend DEF CeremonyPoints, RefreshInv
  <2>2. i \in 1 .. Len(stream')
    BY <2>1, LenProperties
  <2>3. \A j \in 1 .. Len(stream) :
           stream[j].kind = "BatchStarted" =>
              IF j = Len(stream)
              THEN running = stream[j].batch /\ phase = "confirming"
              ELSE Unconfirmed(stream[j + 1], stream[j].batch)
    <3>1. DOMAIN stream = 1 .. Len(stream)
      BY LenProperties DEF RefreshInv, TypeOK, ServerTypeOK
    <3>. QED
      BY <1>3, <3>1 DEF RefreshInv, AnnouncedInv
  <2>4. CASE i < Len(stream)
    <3>1. stream'[i] = stream[i] /\ stream'[i + 1] = stream[i + 1]
      BY <2>1, <2>2, <2>4
    <3>2. Unconfirmed(stream'[i + 1], stream'[i].batch) /\ i # Len(stream')
      BY <2>1, <2>2, <2>3, <2>4, <3>1
    <3>3. stream[i].batch \in Streamed("batch")
      <4>1. i \in DOMAIN stream
        BY <2>2, <2>4, LenProperties DEF RefreshInv, TypeOK, ServerTypeOK
      <4>. QED
        BY <4>1 DEF Streamed
    <3>4. ~(running' = stream[i].batch /\ phase' = "confirming")
      BY <3>3 DEF Moves
    <3>. QED
      BY <3>1, <3>2, <3>4
  <2>5. CASE i = Len(stream)
    <3>1. stream'[i] = stream[i] /\ stream'[i + 1] = events[1] /\ i # Len(stream')
      BY <2>1, <2>2, <2>5
    <3>2. running = stream[i].batch /\ phase = "confirming" /\ ~confirmed
      BY <1>3, <2>2, <2>3, <2>5, <3>1 DEF RefreshInv, AnnouncedInv
    <3>3. Unconfirmed(events[1], running) /\ phase' # "confirming"
      BY <3>2 DEF Moves, Unconfirmed
    <3>. QED
      BY <3>1, <3>2, <3>3
  <2>6. CASE i > Len(stream)
    <3>. DEFINE j == i - Len(stream)
    <3>1. j \in 1 .. Len(events) /\ i = Len(stream) + j
      BY <2>1, <2>2, <2>6
    <3>2. events[j].kind = "BatchStarted"
      BY <2>1, <3>1
    <3>3. j = 1 \/ j = 2
      BY <2>1, <3>1
    <3>4. Len(events) = 1 /\ running' = events[1].batch /\ phase' = "confirming"
      BY <3>1, <3>2, <3>3 DEF Moves
    <3>. QED
      BY <2>1, <3>1, <3>4
  <2>. QED
    BY <2>1, <2>2, <2>4, <2>5, <2>6
<1>. QED
  BY <1>1, <1>2, <1>3 DEF RefreshInv, AnnouncedInv

LEMMA ConfirmServer ==
    ASSUME RefreshInv, NEW events, Moves(events)
    PROVE  ConfirmInv'
<1>1. pc' = pc /\ my' = my
  BY DEF Moves
<1>. SUFFICES ASSUME pc = "confirm"
              PROVE  /\ stream' # <<>> /\ ~(running' = my.batch /\ phase' = "confirming")
                     /\ Unconfirmed(stream'[1], my.batch)
  BY <1>1 DEF RefreshInv, ConfirmInv, Unconfirmed
<1>2. /\ Len(stream) \in Nat /\ Len(events) \in 1 .. 2
      /\ \A i \in 1 .. Len(stream) : stream'[i] = stream[i]
      /\ \A i \in 1 .. Len(events) : stream'[Len(stream) + i] = events[i]
      /\ stream' # <<>> /\ (stream = <<>> <=> Len(stream) = 0)
  BY MovesAppend DEF CeremonyPoints, RefreshInv
<1>3. ~(running' = my.batch /\ phase' = "confirming")
  BY DEF Moves
<1>4. CASE stream # <<>>
  <2>1. stream'[1] = stream[1]
    BY <1>2, <1>4
  <2>. QED
    BY <1>2, <1>3, <1>4, <2>1 DEF RefreshInv, ConfirmInv
<1>5. CASE stream = <<>>
  <2>1. running = my.batch /\ phase = "confirming" /\ ~confirmed
    BY <1>5 DEF RefreshInv, ConfirmInv, AnnouncedInv
  <2>2. Unconfirmed(events[1], my.batch)
    BY <2>1 DEF Moves, Unconfirmed
  <2>3. stream'[1] = events[1]
    BY <1>2, <1>5
  <2>. QED
    BY <1>2, <1>3, <2>2, <2>3
<1>. QED
  BY <1>4, <1>5

(* A step about another batch leaves what is ahead as it is.                *)
LEMMA WaitingElsewhere ==
    ASSUME RefreshInv, pc \in CeremonyPoints, NEW events, Moves(events), running # my.batch,
           NEW n \in Nat, NEW finalized \in BOOLEAN, Waiting(n, finalized), my.batch \in Batches
    PROVE  /\ Waiting(n, finalized)' /\ running' # my.batch
           /\ \A i \in 1 .. n : stream'[i] = stream[i]
<1>1. /\ Len(stream) \in Nat /\ Len(stream') \in Nat /\ Len(stream') > Len(stream)
      /\ \A i \in 1 .. Len(stream) : stream'[i] = stream[i]
  BY MovesAppend DEF RefreshInv
<1>2. running' # my.batch /\ my' = my
  BY NoBatchAssumption DEF Moves
<1>3. ~confirmed /\ ~confirmed' /\ refreshedIn' = refreshedIn
  BY DEF Waiting, Moves
<1>4. n \in 0 .. Len(stream) /\ n < Len(stream)
  BY DEF Waiting
<1>5. \A i \in 1 .. n + 1 : stream'[i] = stream[i]
  BY <1>1, <1>4
<1>. QED
  BY <1>1, <1>2, <1>3, <1>4, <1>5 DEF Waiting, Own

(* The batch ends.                                                          *)
LEMMA WaitingEnds ==
    ASSUME RefreshInv, pc \in CeremonyPoints, NEW events, Moves(events), running = my.batch,
           NEW n \in Nat, NEW finalized \in BOOLEAN, Waiting(n, finalized), my.batch \in Batches,
           phase' = "none", finalized \/ phase \notin {"finalizing", "forfeits"}
    PROVE  /\ Waiting(n, finalized)' /\ running' # my.batch
           /\ \A i \in 1 .. n : stream'[i] = stream[i]
<1>1. /\ Len(stream) \in Nat /\ Len(stream') = Len(stream) + Len(events)
      /\ Len(events) \in 1 .. 2
      /\ \A i \in 1 .. Len(stream) : stream'[i] = stream[i]
      /\ \A i \in 1 .. Len(events) : stream'[Len(stream) + i] = events[i]
  BY MovesAppend DEF RefreshInv
<1>2. running' = NoBatch /\ running' # my.batch /\ my' = my /\ ~confirmed'
  BY NoBatchAssumption DEF Moves
<1>3. confirmed /\ Len(stream) = n /\ \A i \in 1 .. n : Own(stream[i])
  BY DEF Waiting
<1>4. /\ events[1].batch = my.batch
      /\ \/ events[1].kind = "BatchFailed"
         \/ finalized /\ events[1].kind = "BatchFinalized" /\ refreshedIn' = my.batch
  BY <1>3 DEF Moves
<1>5. stream'[n + 1] = events[1] /\ \A i \in 1 .. n : stream'[i] = stream[i]
  BY <1>1, <1>3
<1>. QED
  BY <1>1, <1>2, <1>3, <1>4, <1>5 DEF Waiting, Own

LEMMA BehindServer ==
    ASSUME RefreshInv, NEW events, Moves(events), Behind, my.batch \in Batches
    PROVE  Behind'
<1>1. pc \in CeremonyPoints
  BY DEF Behind, CeremonyPoints
<1>2. /\ Len(stream) \in Nat /\ stream' # <<>> /\ (stream = <<>> <=> Len(stream) = 0)
      /\ \A i \in 1 .. Len(stream) : stream'[i] = stream[i]
  BY <1>1, MovesAppend DEF RefreshInv
<1>3. stream'[1] = stream[1]
  BY <1>2 DEF Behind
<1>4. running' # my.batch
  BY NoBatchAssumption DEF Moves, Behind
<1>. QED
  BY <1>2, <1>3, <1>4 DEF Behind, Moves, Unconfirmed

LEMMA AlongServer ==
    ASSUME RefreshInv, NEW events, Moves(events), Along, my.batch \in Batches
    PROVE  Along'
<1>0. pc \in CeremonyPoints /\ pc' = pc /\ my' = my /\ Nodes \in Nat \ {0}
  BY NodesAssumption
     DEF Along, BeforeTree, WithTree, SendsNonces, CountsNonces, SendsSignatures,
         AwaitsFinalization, WithConnectors, SendsForfeits, AwaitsEnd, CeremonyPoints, Moves
(* Unless the confirmation is closed, the step ends the batch or is not     *)
(* about it.                                                                *)
<1>1. ASSUME NEW n \in Nat, NEW finalized \in BOOLEAN, Waiting(n, finalized),
             NEW phases, Phase(phases), phases \cap {"none", "confirming"} = {},
             finalized \/ phases \cap {"finalizing", "forfeits"} = {}
      PROVE  /\ Waiting(n, finalized)' /\ Phase(phases)'
             /\ \A i \in 1 .. n : stream'[i] = stream[i]
  <2>1. CASE running # my.batch
    BY <1>0, <1>1, <2>1, WaitingElsewhere DEF Phase
  <2>2. CASE running = my.batch
    <3>1. phase \in phases /\ confirmed
      BY <1>1, <2>2 DEF Phase, Waiting
    <3>2. phase' = "none"
      BY <1>1, <3>1 DEF Moves
    <3>. QED
      BY <1>0, <1>1, <2>2, <3>1, <3>2, WaitingEnds DEF Phase
  <2>. QED
    BY <2>1, <2>2
<1>2. CASE BeforeTree
  <2>1. CASE Waiting(0, FALSE) /\ Phase({"confirming"})
    <3>1. CASE running # my.batch
      BY <1>0, <1>2, <2>1, <3>1, WaitingElsewhere DEF Phase, Along, BeforeTree
    <3>2. CASE running = my.batch /\ phase' = "none"
      BY <1>0, <1>2, <2>1, <3>2, WaitingEnds DEF Phase, Along, BeforeTree
    <3>3. CASE running = my.batch /\ phase' # "none"
      <4>1. /\ Len(stream) \in Nat /\ Len(stream') = Len(stream) + Len(events)
            /\ \A i \in 1 .. Len(events) : stream'[Len(stream) + i] = events[i]
        BY <1>0, MovesAppend DEF RefreshInv
      <4>2. Len(stream) = 0 /\ confirmed /\ phase = "confirming"
        BY <2>1, <3>3 DEF Waiting, Phase
      <4>3. /\ phase' = "nonces" /\ running' = my.batch /\ confirmed' /\ Len(events) = 2
            /\ events[1].kind = "VtxoTx" /\ events[1].batch = my.batch
            /\ events[2].kind = "TreeSigningStarted" /\ events[2].batch = my.batch
        <5>1. /\ phase' = "nonces" /\ UNCHANGED <<running, confirmed>> /\ Len(events) = 2
              /\ events[1].kind = "VtxoTx" /\ events[2].kind = "TreeSigningStarted"
              /\ \A i \in 1 .. Len(events) : events[i].batch = running
          BY <3>3, <4>2 DEF Moves
        <5>2. 1 \in 1 .. Len(events) /\ 2 \in 1 .. Len(events)
          BY <5>1
        <5>. QED
          BY <3>3, <4>2, <5>1, <5>2
      <4>4. Len(stream') = 2 /\ stream'[1] = events[1] /\ stream'[2] = events[2]
        BY <4>1, <4>2, <4>3
      <4>5. \A i \in 1 .. 2 : i = 1 \/ i = 2
        OBVIOUS
      <4>6. Waiting(2, FALSE)' /\ Phase({"nonces"})'
        BY <1>0, <4>3, <4>4, <4>5 DEF Waiting, Phase, Own
      <4>. QED
        BY <1>0, <1>2, <4>3, <4>4, <4>6 DEF BeforeTree, Along
    <3>. QED
      BY <3>1, <3>2, <3>3
  <2>2. CASE /\ Waiting(2, FALSE) /\ Phase({"nonces"})
             /\ stream[1].kind = "VtxoTx" /\ stream[2].kind = "TreeSigningStarted"
    <3>1. Waiting(2, FALSE)' /\ Phase({"nonces"})' /\ \A i \in 1 .. 2 : stream'[i] = stream[i]
      BY <1>1, <2>2
    <3>2. stream'[1] = stream[1] /\ stream'[2] = stream[2]
      BY <3>1
    <3>. QED
      BY <1>0, <1>2, <2>2, <3>1, <3>2 DEF Along, BeforeTree
  <2>. QED
    BY <1>2, <2>1, <2>2 DEF BeforeTree
<1>3. CASE WithTree
  <2>1. Waiting(1, FALSE)' /\ Phase({"nonces"})' /\ \A i \in 1 .. 1 : stream'[i] = stream[i]
    BY <1>1, <1>3 DEF WithTree
  <2>2. stream'[1] = stream[1]
    BY <2>1
  <2>. QED
    BY <1>0, <1>3, <2>1, <2>2 DEF Along, WithTree
<1>4. CASE SendsNonces
  BY <1>0, <1>1, <1>4 DEF Along, SendsNonces
<1>5. CASE CountsNonces
  <2>1. PICK n \in Nat : n = Nodes - my.nonces
    BY <1>0, <1>5 DEF CountsNonces
  <2>2. Waiting(n, FALSE) /\ Phase({"signing"}) /\ \A i \in 1 .. n : stream[i].kind = "TreeNonces"
    BY <1>5, <2>1 DEF CountsNonces
  <2>3. Waiting(n, FALSE)' /\ Phase({"signing"})' /\ \A i \in 1 .. n : stream'[i] = stream[i]
    BY <1>1, <2>2
  <2>. QED
    BY <1>0, <1>5, <2>1, <2>2, <2>3 DEF Along, CountsNonces
<1>6. CASE SendsSignatures
  BY <1>0, <1>1, <1>6 DEF Along, SendsSignatures
<1>7. CASE AwaitsFinalization
  <2>1. CASE Waiting(1, TRUE) /\ stream[1].kind = "BatchFinalization"
    <3>1. Waiting(1, TRUE)' /\ Phase({"forfeits"})' /\ \A i \in 1 .. 1 : stream'[i] = stream[i]
      BY <1>1, <1>7, <2>1 DEF AwaitsFinalization
    <3>2. stream'[1] = stream[1]
      BY <3>1
    <3>. QED
      BY <1>0, <1>7, <2>1, <3>1, <3>2 DEF Along, AwaitsFinalization
  <2>2. CASE /\ Waiting(2, TRUE)
             /\ stream[1].kind = "ConnectorTx" /\ stream[2].kind = "BatchFinalization"
    <3>1. Waiting(2, TRUE)' /\ Phase({"forfeits"})' /\ \A i \in 1 .. 2 : stream'[i] = stream[i]
      BY <1>1, <1>7, <2>2 DEF AwaitsFinalization
    <3>2. stream'[1] = stream[1] /\ stream'[2] = stream[2]
      BY <3>1
    <3>. QED
      BY <1>0, <1>7, <2>2, <3>1, <3>2 DEF Along, AwaitsFinalization
  <2>. QED
    BY <1>7, <2>1, <2>2 DEF AwaitsFinalization
<1>8. CASE WithConnectors
  <2>1. Waiting(1, TRUE)' /\ Phase({"forfeits"})' /\ \A i \in 1 .. 1 : stream'[i] = stream[i]
    BY <1>1, <1>8 DEF WithConnectors
  <2>2. stream'[1] = stream[1]
    BY <2>1
  <2>. QED
    BY <1>0, <1>8, <2>1, <2>2 DEF Along, WithConnectors
<1>9. CASE SendsForfeits
  BY <1>0, <1>1, <1>9 DEF Along, SendsForfeits
<1>10. CASE AwaitsEnd
  BY <1>0, <1>1, <1>10 DEF Along, AwaitsEnd
<1>. QED
  BY <1>2, <1>3, <1>4, <1>5, <1>6, <1>7, <1>8, <1>9, <1>10 DEF Along

LEMMA ServerStep ==
    ASSUME RefreshInv, Server
    PROVE  RefreshInv'
<1>1. /\ \E events : Moves(events)
      /\ (confirmed' => inBatch') /\ (inBatch' => held' # NoIntent)
      /\ held' \in Intents \union {NoIntent} /\ inBatch' \in BOOLEAN
      /\ connectors' \in BOOLEAN /\ confirmed' \in BOOLEAN
      /\ (running' = NoBatch <=> phase' = "none") /\ (held' # NoIntent => refreshedIn' = NoBatch)
      /\ running' \in Batches \union {NoBatch} /\ refreshedIn' \in Batches \union {NoBatch}
      /\ UNCHANGED <<calm, callVars, late>>
  BY ServerMoves DEF RefreshInv
<1>2. PICK events : Moves(events)
  BY <1>1
<1>3. stream' \in Seq(Events) /\ (~open' => stream' = <<>>) /\ open' = open /\ phase' \in Phases
  <2>1. open' = open /\ open' \in BOOLEAN /\ events \in Seq(Events) /\ Emit(events)
    BY <1>2 DEF Moves, RefreshInv, TypeOK, ServerTypeOK
  <2>. QED
    BY <1>2, <2>1, EmitFacts DEF RefreshInv, Moves, Phases
<1>4. TypeOK'
  BY <1>1, <1>3 DEF RefreshInv, TypeOK, ServerTypeOK, callVars
<1>7. ServerInv'
  BY <1>1, <1>3 DEF RefreshInv, ServerInv, callVars
<1>8. CallInv'
  BY <1>1 DEF RefreshInv, CallInv, callVars
<1>5. AnnouncedInv' /\ ConfirmInv'
  BY <1>2, AnnouncedServer, ConfirmServer
<1>6. CeremonyInv'
  BY <1>1, <1>2, BehindServer, AlongServer DEF RefreshInv, CeremonyInv, callVars
<1>. QED
  BY <1>4, <1>5, <1>6, <1>7, <1>8 DEF RefreshInv
-----------------------------------------------------------------------------
(* What every step of the call has in common.                               *)

(* The part of the invariant that is the server's alone.                    *)
ServerSound ==
    /\ held \in Intents \union {NoIntent}
    /\ inBatch \in BOOLEAN /\ confirmed \in BOOLEAN /\ connectors \in BOOLEAN
    /\ running \in Batches \union {NoBatch} /\ phase \in Phases
    /\ refreshedIn \in Batches \union {NoBatch}
    /\ running = NoBatch <=> phase = "none"
    /\ confirmed => inBatch
    /\ inBatch => held # NoIntent
    /\ held # NoIntent => refreshedIn = NoBatch

LEMMA SoundFacts ==
    ASSUME RefreshInv
    PROVE  /\ ServerSound
           /\ UNCHANGED serverVars => ServerSound'
<1>1. ServerSound
  BY DEF ServerSound, RefreshInv, TypeOK, ServerTypeOK, ServerInv
<1>. QED
  BY <1>1 DEF ServerSound, serverVars, queueVars, batchVars

LEMMA NewCeremonyType == NewCeremony \in Ceremony /\ NewCeremony.step = "Start"
BY NodesAssumption DEF NewCeremony, Ceremony, Chunks

(* Outside of the ceremony little is said.                                  *)
LEMMA OutsideStep ==
    ASSUME RefreshInv, ServerSound',
           pc' \in Points \ CeremonyPoints, my' = NewCeremony, open' = FALSE, stream' = <<>>,
           pc' = "subscribe" => ~confirmed',
           pc' = "withdraw" => outcome' \notin {"none", "ok"},
           pc' \notin {"idle", "withdraw"} => outcome' = "none",
           retry' \in BOOLEAN, tries' \in 1 .. DeleteAttempts,
           intent' \in Intents \union {NoIntent}, outcome' \in Outcomes,
           calm' \in BOOLEAN, late' \subseteq {"register", "delete"}
    PROVE  RefreshInv'
<1>1. <<>> \in Seq(Events)
  OBVIOUS
<1>2. TypeOK'
  BY <1>1, NewCeremonyType DEF TypeOK, ServerTypeOK, ServerSound
<1>3. ServerInv'
  BY DEF ServerInv, ServerSound
<1>4. CallInv'
  BY DEF CallInv
<1>5. AnnouncedInv' /\ ConfirmInv' /\ CeremonyInv'
  BY DEF AnnouncedInv, ConfirmInv, CeremonyInv, CeremonyPoints
<1>. QED
  BY <1>2, <1>3, <1>4, <1>5 DEF RefreshInv

LEMMA FailStep ==
    ASSUME RefreshInv, NEW why \in {"stale", "broken", "failed"}, Fail(why), ServerSound',
           calm' \in BOOLEAN, late' \subseteq {"register", "delete"}
    PROVE  RefreshInv' /\ pc' \in {"idle", "withdraw"} /\ outcome' = why /\ my' = NewCeremony
<1>1. pc' \in {"idle", "withdraw"} /\ pc' \in Points \ CeremonyPoints
  BY DEF Fail, Points, CeremonyPoints
<1>2. my' = NewCeremony /\ open' = FALSE /\ stream' = <<>> /\ intent' = NoIntent /\ outcome' = why
  BY DEF Fail, LeaveCeremony
<1>3. retry' \in BOOLEAN /\ tries' \in 1 .. DeleteAttempts /\ outcome' \in Outcomes
  BY <1>2 DEF Fail, RefreshInv, TypeOK, Outcomes
<1>. QED
  BY <1>1, <1>2, <1>3, OutsideStep

(* The call stays in the ceremony.                                          *)
LEMMA InsideStep ==
    ASSUME RefreshInv, ServerSound', pc \in CeremonyPoints, pc' \in CeremonyPoints,
           my' \in Ceremony, stream' \in Seq(Events),
           UNCHANGED <<open, calm, late, retry, tries, intent, outcome>>
    PROVE  TypeOK' /\ ServerInv' /\ CallInv'
<1>1. TypeOK'
  BY DEF RefreshInv, TypeOK, ServerTypeOK, ServerSound, CeremonyPoints, Points
<1>2. ServerInv'
  BY DEF RefreshInv, ServerInv, ServerSound
<1>3. CallInv'
  BY DEF RefreshInv, CallInv, CeremonyPoints
<1>. QED
  BY <1>1, <1>2, <1>3

(* ... and past the confirmation.                                           *)
LEMMA AlongStep ==
    ASSUME RefreshInv, ServerSound', pc \in CeremonyPoints,
           pc' \in {"loop", "nonces", "signatures", "forfeits"},
           my' \in Ceremony, my'.step # "Start", my'.batch \in Batches,
           stream' \in Seq(Events),
           UNCHANGED <<open, calm, late, retry, tries, intent, outcome>>,
           Behind' \/ Along'
    PROVE  RefreshInv'
<1>1. pc' \in CeremonyPoints /\ pc' \notin {"confirm", "subscribe"}
  BY DEF CeremonyPoints
<1>2. TypeOK' /\ ServerInv' /\ CallInv'
  BY <1>1, InsideStep
<1>3. AnnouncedInv' /\ ConfirmInv' /\ CeremonyInv'
  BY <1>1 DEF AnnouncedInv, ConfirmInv, CeremonyInv
<1>. QED
  BY <1>2, <1>3 DEF RefreshInv

LEMMA AtFacts ==
    ASSUME NEW step, NEW batch, NEW vtxo, NEW connector, NEW nonces, NEW asked,
           NEW m, m = At(step, batch, vtxo, connector, nonces, asked)
    PROVE  /\ m.step = step /\ m.batch = batch /\ m.vtxo = vtxo /\ m.connector = connector
           /\ m.nonces = nonces /\ m.asked = asked
BY DEF At

LEMMA AtType ==
    ASSUME NEW step \in {"Start", "BatchStarted", "BatchSigningStarted", "Finalized"},
           NEW batch \in Batches, NEW vtxo \in Chunks, NEW connector \in Chunks,
           NEW nonces \in 0 .. Nodes, NEW asked \in Batches \union {NoBatch}
    PROVE  At(step, batch, vtxo, connector, nonces, asked) \in Ceremony
BY DEF At, Ceremony
-----------------------------------------------------------------------------
(* The steps outside of the ceremony, and those nobody notices.             *)

LEMMA QuietStep ==
    ASSUME RefreshInv, ServerSound',
           UNCHANGED <<running, phase, confirmed, refreshedIn, open, stream>>, UNCHANGED callVars,
           calm' \in BOOLEAN, late' \subseteq {"register", "delete"}
    PROVE  RefreshInv'
<1>1. UNCHANGED <<pc, retry, tries, intent, my, outcome>>
  BY DEF callVars
<1>2. TypeOK'
  BY <1>1 DEF RefreshInv, TypeOK, ServerTypeOK, ServerSound
<1>3. ServerInv' /\ CallInv'
  BY <1>1 DEF RefreshInv, ServerInv, ServerSound, CallInv
<1>4. AnnouncedInv' /\ ConfirmInv'
  BY <1>1 DEF RefreshInv, AnnouncedInv, ConfirmInv, Unconfirmed
<1>5. Behind' <=> Behind
  BY <1>1 DEF Behind, Unconfirmed
<1>6. \A n, finalized : Waiting(n, finalized)' <=> Waiting(n, finalized)
  BY <1>1 DEF Waiting, Own
<1>7. \A phases : Phase(phases)' <=> Phase(phases)
  BY <1>1 DEF Phase
<1>8. /\ BeforeTree' <=> BeforeTree
      /\ WithTree' <=> WithTree
      /\ SendsNonces' <=> SendsNonces
      /\ SendsSignatures' <=> SendsSignatures
      /\ AwaitsFinalization' <=> AwaitsFinalization
      /\ WithConnectors' <=> WithConnectors
      /\ SendsForfeits' <=> SendsForfeits
      /\ AwaitsEnd' <=> AwaitsEnd
      /\ CountsNonces' <=> CountsNonces
  BY <1>1, <1>6, <1>7 DEF BeforeTree, WithTree, SendsNonces, SendsSignatures, AwaitsFinalization,
     WithConnectors, SendsForfeits, AwaitsEnd, CountsNonces
<1>9. CeremonyInv'
  BY <1>1, <1>5, <1>8 DEF RefreshInv, CeremonyInv, Along
<1>. QED
  BY <1>2, <1>3, <1>4, <1>9 DEF RefreshInv
(* The queue holds the VTXO's intent at most once, and no settled one.      *)
LEMMA QueueFacts ==
    ASSUME RefreshInv, UNCHANGED batchVars, UNCHANGED refreshedIn
    PROVE  /\ UNCHANGED queueVars => ServerSound'
           /\ \A id \in Intents : Register(id) => ServerSound' /\ ~confirmed
           /\ DeleteQueued => ServerSound'
<1>1. ServerSound
  BY SoundFacts
<1>2. UNCHANGED queueVars => ServerSound'
  BY <1>1 DEF ServerSound, queueVars, batchVars
<1>3. ASSUME NEW id \in Intents, Register(id) PROVE ServerSound' /\ ~confirmed
  BY <1>1, <1>3, NoIntentAssumption DEF ServerSound, Register, batchVars
<1>4. DeleteQueued => ServerSound'
  BY <1>1 DEF ServerSound, DeleteQueued, Queued, Drop, batchVars
<1>. QED
  BY <1>2, <1>3, <1>4

LEMMA OutsideActions ==
    ASSUME RefreshInv,
           \/ Refresh \/ RegisterIntent \/ RegisterStale \/ RegisterFails \/ DeleteStale
           \/ Subscribe \/ StreamEnds \/ Deadline \/ Withdraw
    PROVE  RefreshInv'
<1>0. /\ calm \in BOOLEAN /\ late \subseteq {"register", "delete"} /\ retry \in BOOLEAN
      /\ tries \in 1 .. DeleteAttempts /\ intent \in Intents \union {NoIntent}
      /\ outcome \in Outcomes /\ pc \in Points
  BY DEF RefreshInv, TypeOK, ServerTypeOK
<1>1. /\ ServerSound
      /\ UNCHANGED serverVars => ServerSound'
  BY SoundFacts
<1>2. ASSUME pc \notin CeremonyPoints PROVE my = NewCeremony /\ open = FALSE /\ stream = <<>>
  BY <1>2 DEF RefreshInv, ServerInv, CallInv, TypeOK, ServerTypeOK
<1>12. pc \notin {"idle", "withdraw"} => outcome = "none"
  BY DEF RefreshInv, CallInv
<1>3. CASE Refresh
  <2>1. pc \notin CeremonyPoints /\ pc' \in Points \ CeremonyPoints /\ pc' = "register"
    BY <1>3 DEF Refresh, Points, CeremonyPoints
  <2>2. outcome' \in Outcomes /\ tries' \in 1 .. DeleteAttempts
    BY <1>3, DeleteAssumption DEF Refresh, Outcomes
  <2>. QED
    BY <1>0, <1>1, <1>2, <1>3, <2>1, <2>2, OutsideStep DEF Refresh
<1>4. CASE RegisterIntent
  <2>1. PICK id \in Intents :
          /\ Register(id)
          /\ \/ intent' = id /\ pc' = "subscribe"
                /\ UNCHANGED <<retry, tries, my, outcome, open, stream>>
             \/ Fail("failed")
    BY <1>4 DEF RegisterIntent
  <2>2. ServerSound' /\ ~confirmed /\ confirmed' = confirmed
    BY <1>4, <2>1, QueueFacts DEF RegisterIntent, batchVars
  <2>3. pc \notin CeremonyPoints /\ "subscribe" \in Points \ CeremonyPoints
    BY <1>4 DEF RegisterIntent, CeremonyPoints, Points
  <2>4. calm' = calm /\ late' = late
    BY <1>4 DEF RegisterIntent
  <2>5. CASE Fail("failed")
    BY <1>0, <2>2, <2>4, <2>5, FailStep
  <2>6. CASE ~Fail("failed")
    BY <1>0, <1>2, <1>4, <1>12, <2>1, <2>2, <2>3, <2>4, <2>6, OutsideStep DEF RegisterIntent
  <2>. QED
    BY <2>5, <2>6
<1>5. CASE RegisterStale
  <2>1. pc \notin CeremonyPoints /\ "delete" \in Points \ CeremonyPoints
    BY <1>5 DEF RegisterStale, CeremonyPoints, Points
  <2>2. ServerSound' /\ calm' = calm /\ late' = late
    BY <1>1, <1>5 DEF RegisterStale
  <2>3. CASE Fail("stale")
    BY <1>0, <2>2, <2>3, FailStep
  <2>4. CASE ~Fail("stale")
    BY <1>0, <1>2, <1>5, <1>12, <2>1, <2>2, <2>4, OutsideStep DEF RegisterStale
  <2>. QED
    BY <2>3, <2>4
<1>6. CASE RegisterFails
  BY <1>0, <1>1, <1>6, FailStep DEF RegisterFails
<1>7. CASE DeleteStale
  <2>1. pc \notin CeremonyPoints /\ {"delete", "register"} \subseteq Points \ CeremonyPoints
    BY <1>7 DEF DeleteStale, CeremonyPoints, Points
  <2>2. ServerSound' /\ calm' = calm /\ late' = late
    BY <1>7, QueueFacts DEF DeleteStale
  <2>3. CASE Fail("failed")
    BY <1>0, <2>2, <2>3, FailStep
  <2>4. CASE ~Fail("failed")
    <3>1. /\ pc' \in {"delete", "register"}
          /\ UNCHANGED <<retry, intent, my, outcome, open, stream>>
          /\ tries' = tries \/ (MoreTries /\ tries' = tries + 1)
      BY <1>7, <2>4 DEF DeleteStale
    <3>2. tries' \in 1 .. DeleteAttempts
      BY <1>0, <3>1, DeleteAssumption DEF MoreTries
    <3>. QED
      BY <1>0, <1>2, <1>7, <1>12, <2>1, <2>2, <3>1, <3>2, OutsideStep DEF DeleteStale
  <2>. QED
    BY <2>3, <2>4
<1>8. CASE Subscribe
  <2>1. ServerSound' /\ calm' = calm /\ late' = late
    BY <1>1, <1>8 DEF Subscribe
  <2>2. CASE Fail("failed")
    BY <1>0, <2>1, <2>2, FailStep
  <2>3. CASE ~Fail("failed")
    <3>1. /\ open' = TRUE /\ stream' = <<>> /\ my' = NewCeremony /\ pc' = "loop"
          /\ UNCHANGED <<retry, tries, intent, outcome>> /\ UNCHANGED serverVars
      BY <1>8, <2>3 DEF Subscribe
    <3>2. <<>> \in Seq(Events) /\ DOMAIN <<>> = {}
      OBVIOUS
    <3>3. TypeOK'
      BY <1>0, <2>1, <3>1, <3>2, NewCeremonyType DEF TypeOK, ServerTypeOK, ServerSound, Points
    <3>4. ServerInv' /\ CallInv'
      BY <1>8, <1>12, <2>1, <3>1 DEF Subscribe, ServerInv, ServerSound, CallInv, CeremonyPoints
    <3>5. ~confirmed /\ confirmed' = confirmed
      BY <1>8, <3>1 DEF Subscribe, RefreshInv, AnnouncedInv, serverVars, batchVars
    <3>6. AnnouncedInv'
      BY <3>1, <3>2, <3>5 DEF AnnouncedInv
    <3>7. ConfirmInv' /\ CeremonyInv'
      BY <3>1, NewCeremonyType DEF ConfirmInv, CeremonyInv
    <3>. QED
      BY <3>3, <3>4, <3>6, <3>7 DEF RefreshInv
  <2>. QED
    BY <2>2, <2>3
<1>9. CASE StreamEnds
  BY <1>0, <1>1, <1>9, FailStep DEF StreamEnds
<1>10. CASE Deadline
  <2>1. late' \subseteq {"register", "delete"}
    BY <1>0, <1>10 DEF Deadline
  <2>. QED
    BY <1>0, <1>1, <1>10, <2>1, FailStep DEF Deadline
<1>11. CASE Withdraw
  <2>1. pc \notin CeremonyPoints /\ "idle" \in Points \ CeremonyPoints
    BY <1>11 DEF Withdraw, CeremonyPoints, Points
  <2>2. ServerSound'
    BY <1>11, QueueFacts DEF Withdraw
  <2>3. late' \subseteq {"register", "delete"}
    BY <1>0, <1>11 DEF Withdraw
  <2>. QED
    BY <1>0, <1>2, <1>11, <2>1, <2>2, <2>3, OutsideStep DEF Withdraw
<1>. QED
  BY <1>3, <1>4, <1>5, <1>6, <1>7, <1>8, <1>9, <1>10, <1>11

LEMMA QuietActions ==
    ASSUME RefreshInv, LateRegister \/ LateDelete \/ LoseLate \/ CalmDown
    PROVE  RefreshInv' /\ UNCHANGED callVars
<1>0. calm \in BOOLEAN /\ late \subseteq {"register", "delete"}
  BY DEF RefreshInv, TypeOK, ServerTypeOK
<1>1. ServerSound'
  <2>1. CASE LateRegister
    BY <2>1, QueueFacts DEF LateRegister
  <2>2. CASE LateDelete
    BY <2>2, QueueFacts DEF LateDelete
  <2>3. CASE LoseLate \/ CalmDown
    BY <2>3, SoundFacts DEF LoseLate, CalmDown
  <2>. QED
    BY <2>1, <2>2, <2>3
<1>2. /\ UNCHANGED <<running, phase, confirmed, refreshedIn, open, stream>>
      /\ UNCHANGED callVars
  BY DEF LateRegister, LateDelete, LoseLate, CalmDown, batchVars, serverVars
<1>3. calm' \in BOOLEAN /\ late' \subseteq {"register", "delete"}
  BY <1>0 DEF LateRegister, LateDelete, LoseLate, CalmDown
<1>. QED
  BY <1>1, <1>2, <1>3, QuietStep
-----------------------------------------------------------------------------
(* The requests of the ceremony.                                            *)

LEMMA RefusedStep ==
    ASSUME RefreshInv, NEW takes, NotTaken(takes)
    PROVE  RefreshInv' /\ pc' # "loop"
<1>1. Fail("failed") /\ ServerSound' /\ calm' = calm /\ late' = late
  BY SoundFacts DEF NotTaken
<1>2. calm' \in BOOLEAN /\ late' \subseteq {"register", "delete"}
  BY <1>1 DEF RefreshInv, TypeOK, ServerTypeOK
<1>. QED
  BY <1>1, <1>2, FailStep

(* A request that was taken and whose answer arrived.                       *)
LEMMA AnsweredFacts ==
    ASSUME RefreshInv, NEW step, Taken(step), NEW events \in Seq(Events), Emit(events),
           ServerSound', pc \in CeremonyPoints
    PROVE  \/ RefreshInv' /\ pc' # "loop"
           \/ /\ my' = [my EXCEPT !.step = step, !.asked = NoBatch] /\ pc' = "loop"
              /\ UNCHANGED <<open, calm, late, retry, tries, intent, outcome, refreshedIn>>
              /\ stream' \in Seq(Events) /\ stream' = stream \o events
              /\ Len(stream) \in Nat /\ Len(stream') = Len(stream) + Len(events)
              /\ \A i \in 1 .. Len(stream) : stream'[i] = stream[i]
              /\ \A i \in 1 .. Len(events) : stream'[Len(stream) + i] = events[i]
<1>1. CASE Fail("failed")
  <2>1. calm' \in BOOLEAN /\ late' \subseteq {"register", "delete"}
    BY DEF Taken, RefreshInv, TypeOK, ServerTypeOK
  <2>. QED
    BY <1>1, <2>1, FailStep
<1>2. CASE Resume(step)
  <2>1. /\ my' = [my EXCEPT !.step = step, !.asked = NoBatch] /\ pc' = "loop"
        /\ UNCHANGED <<open, calm, late, retry, tries, intent, outcome, refreshedIn>>
    BY <1>2 DEF Resume, Taken
  <2>2. open' /\ open' \in BOOLEAN
    BY <2>1 DEF RefreshInv, ServerInv, TypeOK, ServerTypeOK
  <2>3. TypeOK
    BY DEF RefreshInv
  <2>. QED
    BY <2>1, <2>2, <2>3, EmitFacts
<1>. QED
  BY <1>1, <1>2 DEF Taken

LEMMA ConfirmStep ==
    ASSUME RefreshInv, ConfirmRegistration
    PROVE  RefreshInv' /\ my.asked = my.batch
<1>1. /\ my.batch \in Batches /\ my = At("Start", my.batch, "none", "none", 0, my.batch)
      /\ stream = <<>> <=> (running = my.batch /\ phase = "confirming")
      /\ stream # <<>> => Unconfirmed(stream[1], my.batch)
      /\ pc \in CeremonyPoints /\ stream \in Seq(Events)
  BY DEF ConfirmRegistration, RefreshInv, ConfirmInv, CeremonyPoints, TypeOK, ServerTypeOK
<1>2. my.asked = my.batch
  BY <1>1, AtFacts
<1>3. CASE NotTaken(Confirms(intent))
  BY <1>2, <1>3, RefusedStep
<1>4. CASE Taken("BatchStarted") /\ Confirm(intent)
  <2>1. /\ phase = "confirming" /\ inBatch /\ confirmed' = TRUE /\ Emit(<<>>)
        /\ UNCHANGED <<held, inBatch, running, phase, connectors, refreshedIn>>
    BY <1>4 DEF Taken, Confirm, Confirms, queueVars
  <2>2. ServerSound' /\ <<>> \in Seq(Events) /\ Len(<<>>) = 0
    BY <2>1, SoundFacts DEF ServerSound
  <2>3. CASE RefreshInv'
    BY <1>2, <2>3
  <2>4. CASE ~RefreshInv'
    <3>1. /\ my' = [my EXCEPT !.step = "BatchStarted", !.asked = NoBatch] /\ pc' = "loop"
          /\ UNCHANGED <<open, calm, late, retry, tries, intent, outcome, refreshedIn>>
          /\ stream' \in Seq(Events) /\ stream' = stream \o <<>>
      BY <1>1, <1>4, <2>1, <2>2, <2>4, AnsweredFacts
    <3>2. stream' = stream
      BY <1>1, <3>1, ConcatEmptySeq
    <3>3. my' = At("BatchStarted", my.batch, "none", "none", 0, NoBatch)
      <4>1. ASSUME NEW b, b = my.batch PROVE my' = At("BatchStarted", b, "none", "none", 0, NoBatch)
        <5>1. my = At("Start", b, "none", "none", 0, b)
          BY <1>1, <4>1
        <5>2. my' = [my EXCEPT !.step = "BatchStarted", !.asked = NoBatch]
          BY <3>1
        <5>. QED
          BY <5>1, <5>2 DEF At
      <4>. QED
        BY <4>1
    <3>4. my'.batch = my.batch /\ my'.step = "BatchStarted"
      BY <3>3, AtFacts
    <3>5. my' \in Ceremony
      BY <1>1, <3>3, AtType, NodesAssumption DEF Chunks
    <3>6. CASE running = my.batch
      <4>1. stream = <<>> /\ Len(stream) = 0
        BY <1>1, <2>1, <3>6
      <4>2. Waiting(0, FALSE)' /\ Phase({"confirming"})'
        BY <2>1, <3>2, <3>4, <3>6, <4>1 DEF Waiting, Phase, Own
      <4>3. BeforeTree'
        BY <3>1, <3>3, <3>4, <4>2 DEF BeforeTree
      <4>. QED
        BY <1>1, <1>2, <2>2, <3>1, <3>4, <3>5, <4>3, AlongStep DEF Along
    <3>7. CASE running # my.batch
      <4>1. Behind'
        BY <1>1, <2>1, <3>1, <3>2, <3>3, <3>4, <3>7 DEF Behind, Unconfirmed
      <4>. QED
        BY <1>1, <1>2, <2>2, <3>1, <3>4, <3>5, <4>1, AlongStep
    <3>. QED
      BY <3>6, <3>7
  <2>. QED
    BY <2>3, <2>4
<1>. QED
  BY <1>3, <1>4 DEF ConfirmRegistration

(* Behind a request the ceremony stands at one point only.                  *)
LEMMA AskingFacts ==
    ASSUME RefreshInv
    PROVE  /\ pc = "nonces" => SendsNonces
           /\ pc = "signatures" => SendsSignatures
           /\ pc = "forfeits" => SendsForfeits
           /\ pc \in {"nonces", "signatures", "forfeits"} =>
                my.batch \in Batches /\ my.asked = my.batch
<1>. SUFFICES ASSUME pc \in {"nonces", "signatures", "forfeits"}
              PROVE  /\ pc = "nonces" => SendsNonces
                     /\ pc = "signatures" => SendsSignatures
                     /\ pc = "forfeits" => SendsForfeits
                     /\ my.batch \in Batches /\ my.asked = my.batch
  OBVIOUS
<1>1. my.batch \in Batches /\ (Behind \/ Along)
  BY DEF RefreshInv, CeremonyInv
<1>2. /\ pc = "nonces" => SendsNonces
      /\ pc = "signatures" => SendsSignatures
      /\ pc = "forfeits" => SendsForfeits
  BY <1>1 DEF Behind, Along, BeforeTree, WithTree, SendsNonces, CountsNonces, SendsSignatures,
     AwaitsFinalization, WithConnectors, SendsForfeits, AwaitsEnd
<1>3. \E step, vtxo, connector, nonces : my = At(step, my.batch, vtxo, connector, nonces, my.batch)
  BY <1>2 DEF SendsNonces, SendsSignatures, SendsForfeits
<1>. QED
  BY <1>1, <1>2, <1>3, AtFacts
LEMMA NoncesStep ==
    ASSUME RefreshInv, SubmitTreeNonces
    PROVE  RefreshInv'
<1>1. SendsNonces /\ my.batch \in Batches /\ my.asked = my.batch /\ pc \in CeremonyPoints
  BY AskingFacts DEF SubmitTreeNonces, CeremonyPoints
<1>2. CASE NotTaken(WaitsForNonces(my.asked))
  BY <1>2, RefusedStep
<1>3. CASE Taken("BatchSigningStarted") /\ TakeNonces(my.asked)
  <2>. DEFINE events == [n \in 1 .. Nodes |-> Event("TreeNonces", my.batch)]
  <2>1. /\ phase = "nonces" /\ confirmed /\ running = my.batch /\ phase' = "signing"
        /\ UNCHANGED <<held, inBatch, running, confirmed, connectors, refreshedIn>>
    BY <1>1, <1>3 DEF Taken, TakeNonces, WaitsForNonces, queueVars
  <2>2. Emit(events)
    BY <1>1, <1>3 DEF TakeNonces
  <2>3. /\ events \in Seq(Events) /\ Len(events) = Nodes /\ Nodes \in Nat \ {0}
        /\ \A n \in 1 .. Nodes : events[n].kind = "TreeNonces" /\ events[n].batch = my.batch
    BY <1>1, NonceEvents, NodesAssumption
  <2>. HIDE DEF events
  <2>4. ServerSound'
    BY <2>1, SoundFacts DEF ServerSound, Phases
  <2>5. CASE ~RefreshInv'
    <3>1. /\ my' = [my EXCEPT !.step = "BatchSigningStarted", !.asked = NoBatch] /\ pc' = "loop"
          /\ UNCHANGED <<open, calm, late, retry, tries, intent, outcome, refreshedIn>>
          /\ stream' \in Seq(Events)
          /\ Len(stream) \in Nat /\ Len(stream') = Len(stream) + Len(events)
          /\ \A i \in 1 .. Len(events) : stream'[Len(stream) + i] = events[i]
      BY <1>1, <1>3, <2>2, <2>3, <2>4, <2>5, AnsweredFacts
    <3>2. Len(stream) = 0
      BY <1>1, <2>1 DEF SendsNonces, Waiting
    <3>3. Len(stream') = Nodes /\ \A i \in 1 .. Nodes : stream'[i] = events[i]
      BY <2>3, <3>1, <3>2
    <3>4. ASSUME NEW b, b = my.batch
          PROVE  my' = At("BatchSigningStarted", b, "taken", "none", 0, NoBatch)
      <4>1. my = At("BatchStarted", b, "taken", "none", 0, b)
        BY <1>1, <3>4 DEF SendsNonces
      <4>. QED
        BY <3>1, <4>1 DEF At
    <3>5. my' = At("BatchSigningStarted", my.batch, "taken", "none", 0, NoBatch)
      BY <3>4
    <3>6. my'.batch = my.batch /\ my'.step = "BatchSigningStarted" /\ my'.nonces = 0
      BY <3>5, AtFacts
    <3>7. my' \in Ceremony
      BY <1>1, <3>5, AtType, NodesAssumption DEF Chunks
    <3>8. Waiting(Nodes, FALSE)' /\ Phase({"signing"})'
      BY <2>1, <2>3, <3>3, <3>6 DEF Waiting, Phase, Own
    <3>9. CountsNonces'
      <4>1. Nodes - my'.nonces = Nodes /\ my'.nonces \in 0 .. Nodes - 1
        BY <2>3, <3>6
      <4>. QED
        BY <2>3, <3>1, <3>3, <3>5, <3>6, <3>8, <4>1 DEF CountsNonces, Waiting, Own
    <3>. QED
      BY <1>1, <2>4, <3>1, <3>6, <3>7, <3>9, AlongStep DEF Along
  <2>. QED
    BY <2>5
<1>. QED
  BY <1>2, <1>3 DEF SubmitTreeNonces

LEMMA SignaturesStep ==
    ASSUME RefreshInv, SubmitTreeSignatures
    PROVE  RefreshInv'
<1>1. SendsSignatures /\ my.batch \in Batches /\ my.asked = my.batch /\ pc \in CeremonyPoints
  BY AskingFacts DEF SubmitTreeSignatures, CeremonyPoints
<1>2. CASE NotTaken(WaitsForSignatures(my.asked))
  BY <1>2, RefusedStep
<1>3. CASE Taken("BatchSigningStarted") /\ TakeSignatures(my.asked)
  <2>. DEFINE c == Event("ConnectorTx", my.batch)
              f == Event("BatchFinalization", my.batch)
  <2>1. /\ phase = "signing" /\ running = my.batch /\ phase' = "forfeits" /\ connectors' \in BOOLEAN
        /\ UNCHANGED <<held, inBatch, running, confirmed, refreshedIn>>
    BY <1>1, <1>3 DEF Taken, TakeSignatures, WaitsForSignatures, queueVars
  <2>2. confirmed /\ Len(stream) = 0
    BY <1>1, <2>1 DEF SendsSignatures, Waiting
  <2>3. Emit(<<c, f>>) \/ Emit(<<f>>)
    BY <1>1, <1>3 DEF TakeSignatures
  <2>4. /\ c \in Events /\ c.kind = "ConnectorTx" /\ c.batch = my.batch
        /\ f \in Events /\ f.kind = "BatchFinalization" /\ f.batch = my.batch
    BY <1>1, EventFacts DEF Kinds
  <2>. HIDE DEF c, f
  <2>5. ServerSound'
    BY <2>1, SoundFacts DEF ServerSound, Phases
  <2>6. CASE ~RefreshInv'
    <3>1. /\ my' = [my EXCEPT !.step = "BatchSigningStarted", !.asked = NoBatch] /\ pc' = "loop"
          /\ UNCHANGED <<open, calm, late, retry, tries, intent, outcome, refreshedIn>>
          /\ stream' \in Seq(Events)
          /\ \/ Len(stream') = 2 /\ stream'[1] = c /\ stream'[2] = f
             \/ Len(stream') = 1 /\ stream'[1] = f
      <4>1. CASE Emit(<<c, f>>)
        <5>1. <<c, f>> \in Seq(Events) /\ Len(<<c, f>>) = 2 /\ <<c, f>>[1] = c /\ <<c, f>>[2] = f
          BY <2>4, TwoEvents
        <5>. DEFINE events == <<c, f>>
        <5>2. events \in Seq(Events) /\ Emit(events)
          BY <4>1, <5>1
        <5>. HIDE DEF events
        <5>3. /\ my' = [my EXCEPT !.step = "BatchSigningStarted", !.asked = NoBatch] /\ pc' = "loop"
              /\ UNCHANGED <<open, calm, late, retry, tries, intent, outcome, refreshedIn>>
              /\ stream' \in Seq(Events) /\ Len(stream') = Len(stream) + Len(events)
              /\ \A i \in 1 .. Len(events) : stream'[Len(stream) + i] = events[i]
          BY <1>1, <1>3, <2>5, <2>6, <5>2, AnsweredFacts
        <5>4. Len(events) = 2 /\ events[1] = c /\ events[2] = f
          BY <5>1 DEF events
        <5>. QED
          BY <2>2, <5>3, <5>4
      <4>2. CASE Emit(<<f>>)
        <5>1. <<f>> \in Seq(Events) /\ Len(<<f>>) = 1 /\ <<f>>[1] = f
          BY <2>4, OneEvent
        <5>. DEFINE events == <<f>>
        <5>2. events \in Seq(Events) /\ Emit(events)
          BY <4>2, <5>1
        <5>. HIDE DEF events
        <5>3. /\ my' = [my EXCEPT !.step = "BatchSigningStarted", !.asked = NoBatch] /\ pc' = "loop"
              /\ UNCHANGED <<open, calm, late, retry, tries, intent, outcome, refreshedIn>>
              /\ stream' \in Seq(Events) /\ Len(stream') = Len(stream) + Len(events)
              /\ \A i \in 1 .. Len(events) : stream'[Len(stream) + i] = events[i]
          BY <1>1, <1>3, <2>5, <2>6, <5>2, AnsweredFacts
        <5>4. Len(events) = 1 /\ events[1] = f
          BY <5>1 DEF events
        <5>. QED
          BY <2>2, <5>3, <5>4
      <4>. QED
        BY <2>3, <4>1, <4>2
    <3>2. ASSUME NEW b, b = my.batch
          PROVE  my' = At("BatchSigningStarted", b, "taken", "none", Nodes, NoBatch)
      <4>1. my = At("BatchSigningStarted", b, "taken", "none", Nodes, b)
        BY <1>1, <3>2 DEF SendsSignatures
      <4>. QED
        BY <3>1, <4>1 DEF At
    <3>3. my' = At("BatchSigningStarted", my.batch, "taken", "none", Nodes, NoBatch)
      BY <3>2
    <3>4. my'.batch = my.batch /\ my'.step = "BatchSigningStarted"
      BY <3>3, AtFacts
    <3>5. my' \in Ceremony
      BY <1>1, <3>3, AtType, NodesAssumption DEF Chunks
    <3>6. Phase({"forfeits"})'
      BY <2>1 DEF Phase
    <3>7. \A i \in 1 .. 2 : i = 1 \/ i = 2
      OBVIOUS
    <3>8. AwaitsFinalization'
      <4>1. CASE Len(stream') = 2 /\ stream'[1] = c /\ stream'[2] = f
        <5>1. Waiting(2, TRUE)'
          BY <2>1, <2>2, <2>4, <3>4, <3>7, <4>1 DEF Waiting, Own
        <5>. QED
          BY <2>4, <3>1, <3>3, <3>4, <3>6, <4>1, <5>1 DEF AwaitsFinalization
      <4>2. CASE Len(stream') = 1 /\ stream'[1] = f
        <5>1. Waiting(1, TRUE)'
          BY <2>1, <2>2, <2>4, <3>4, <4>2 DEF Waiting, Own
        <5>. QED
          BY <2>4, <3>1, <3>3, <3>4, <3>6, <4>2, <5>1 DEF AwaitsFinalization
      <4>. QED
        BY <3>1, <4>1, <4>2
    <3>. QED
      BY <1>1, <2>5, <3>1, <3>4, <3>5, <3>8, AlongStep DEF Along
  <2>. QED
    BY <2>6
<1>. QED
  BY <1>2, <1>3 DEF SubmitTreeSignatures

LEMMA ForfeitsStep ==
    ASSUME RefreshInv, SubmitSignedForfeitTxs
    PROVE  RefreshInv'
<1>1. SendsForfeits /\ my.batch \in Batches /\ my.asked = my.batch /\ pc \in CeremonyPoints
  BY AskingFacts DEF SubmitSignedForfeitTxs, CeremonyPoints
<1>2. CASE NotTaken(WaitsForForfeits)
  BY <1>2, RefusedStep
<1>3. CASE Taken("Finalized") /\ TakeForfeits
  <2>1. /\ phase = "forfeits" /\ confirmed /\ phase' = "finalizing" /\ Emit(<<>>)
        /\ UNCHANGED <<held, inBatch, running, confirmed, connectors, refreshedIn>>
    BY <1>3 DEF Taken, TakeForfeits, WaitsForForfeits, queueVars
  <2>2. running = my.batch /\ Len(stream) = 0
    BY <1>1, <2>1 DEF SendsForfeits, Waiting
  <2>3. ServerSound' /\ <<>> \in Seq(Events) /\ stream \in Seq(Events)
    BY <2>1, SoundFacts DEF ServerSound, Phases, RefreshInv, TypeOK, ServerTypeOK
  <2>4. CASE ~RefreshInv'
    <3>1. /\ my' = [my EXCEPT !.step = "Finalized", !.asked = NoBatch] /\ pc' = "loop"
          /\ UNCHANGED <<open, calm, late, retry, tries, intent, outcome, refreshedIn>>
          /\ stream' \in Seq(Events) /\ stream' = stream \o <<>>
      BY <1>1, <1>3, <2>1, <2>3, <2>4, AnsweredFacts
    <3>2. stream' = stream
      BY <2>3, <3>1, ConcatEmptySeq
    <3>3. ASSUME NEW b, b = my.batch
          PROVE  my' = At("Finalized", b, "taken", "taken", Nodes, NoBatch)
      <4>1. my = At("BatchSigningStarted", b, "taken", "taken", Nodes, b)
        BY <1>1, <3>3 DEF SendsForfeits
      <4>. QED
        BY <3>1, <4>1 DEF At
    <3>4. my' = At("Finalized", my.batch, "taken", "taken", Nodes, NoBatch)
      BY <3>3
    <3>5. my'.batch = my.batch /\ my'.step = "Finalized"
      BY <3>4, AtFacts
    <3>6. my' \in Ceremony
      BY <1>1, <3>4, AtType, NodesAssumption DEF Chunks
    <3>7. Waiting(0, TRUE)' /\ Phase({"forfeits", "finalizing"})'
      BY <2>1, <2>2, <3>2, <3>5 DEF Waiting, Phase, Own
    <3>8. AwaitsEnd'
      BY <3>1, <3>4, <3>5, <3>7 DEF AwaitsEnd
    <3>. QED
      BY <1>1, <2>3, <3>1, <3>5, <3>6, <3>8, AlongStep DEF Along
  <2>. QED
    BY <2>4
<1>. QED
  BY <1>2, <1>3 DEF SubmitSignedForfeitTxs
-----------------------------------------------------------------------------
(* The event loop.                                                          *)

Handler ==
    \/ OnBatchStarted \/ OnVtxoTx \/ OnConnectorTx \/ OnTreeSigningStarted
    \/ OnTreeNonces \/ OnBatchFinalization \/ OnBatchFinalized \/ OnBatchFailed

(* What the properties say of a step.                                       *)
Faithful ==
    /\ outcome' = "ok" /\ outcome # "ok" =>
         Head(stream).batch = refreshedIn /\ refreshedIn # NoBatch
    /\ outcome' = "broken" /\ outcome # "broken" => my.step # "Start" /\ my.batch # running
    /\ my'.step # my.step /\ pc' = "loop" =>
          my.batch = IF pc = "loop" THEN Head(stream).batch ELSE my.asked

LEMMA HandlerFacts ==
    ASSUME RefreshInv, Handler
    PROVE  /\ pc = "loop" /\ pc \in CeremonyPoints
           /\ stream \in Seq(Events) /\ stream # <<>> /\ Len(stream) \in Nat \ {0}
           /\ Head(stream) = stream[1] /\ stream[1] \in Events
           /\ Tail(stream) \in Seq(Events) /\ Len(Tail(stream)) = Len(stream) - 1
           /\ \A i \in 1 .. Len(stream) - 1 : Tail(stream)[i] = stream[i + 1]
           /\ UNCHANGED serverVars /\ ServerSound'
           /\ UNCHANGED <<held, inBatch, running, phase, confirmed, connectors, refreshedIn>>
<1>1. pc = "loop" /\ stream # <<>> /\ UNCHANGED serverVars
  BY DEF Handler, OnBatchStarted, OnVtxoTx, OnConnectorTx, OnTreeSigningStarted, OnTreeNonces,
     OnBatchFinalization, OnBatchFinalized, OnBatchFailed, Receives
<1>2. stream \in Seq(Events)
  BY DEF RefreshInv, TypeOK, ServerTypeOK
<1>3. /\ Head(stream) = stream[1] /\ stream[1] \in Events /\ Len(stream) \in Nat \ {0}
      /\ Tail(stream) \in Seq(Events) /\ Len(Tail(stream)) = Len(stream) - 1
      /\ \A i \in 1 .. Len(stream) - 1 : Tail(stream)[i] = stream[i + 1]
  BY <1>1, <1>2, ReadFacts
<1>4. ServerSound'
  BY <1>1, SoundFacts
<1>. QED
  BY <1>1, <1>2, <1>3, <1>4 DEF CeremonyPoints, serverVars, queueVars, batchVars

LEMMA HandlerFails ==
    ASSUME RefreshInv, Handler, NEW why \in {"broken", "failed"}, Fail(why),
           UNCHANGED <<calm, late>>, why = "broken" => my.step # "Start" /\ my.batch # running
    PROVE  RefreshInv' /\ Faithful
<1>1. calm' \in BOOLEAN /\ late' \subseteq {"register", "delete"} /\ ServerSound'
  BY HandlerFacts DEF RefreshInv, TypeOK, ServerTypeOK
<1>2. RefreshInv' /\ pc' \in {"idle", "withdraw"} /\ outcome' = why
  BY <1>1, FailStep
<1>. QED
  BY <1>2 DEF Faithful

(* Before a batch is announced, everything but its announcement is skipped. *)
LEMMA StartHandled ==
    ASSUME RefreshInv, Handler, my.step = "Start"
    PROVE  RefreshInv' /\ Faithful
<1>0. /\ pc = "loop" /\ pc \in CeremonyPoints
      /\ stream \in Seq(Events) /\ stream # <<>> /\ Len(stream) \in Nat \ {0}
      /\ Head(stream) = stream[1] /\ stream[1] \in Events
      /\ Tail(stream) \in Seq(Events) /\ Len(Tail(stream)) = Len(stream) - 1
      /\ \A i \in 1 .. Len(stream) - 1 : Tail(stream)[i] = stream[i + 1]
      /\ ServerSound'
      /\ UNCHANGED <<held, inBatch, running, phase, confirmed, connectors, refreshedIn>>
  BY HandlerFacts
<1>1. /\ ~confirmed /\ my = NewCeremony
      /\ \A i \in 1 .. Len(stream) : stream[i].kind = "BatchStarted" =>
            LET b == stream[i].batch
            IN  IF i = Len(stream)
                THEN running = b /\ phase = "confirming"
                ELSE Unconfirmed(stream[i + 1], b) /\ ~(running = b /\ phase = "confirming")
  <2>1. DOMAIN stream = 1 .. Len(stream)
    BY <1>0, LenProperties
  <2>. QED
    BY <1>0, <2>1 DEF RefreshInv, AnnouncedInv
<1>2. CASE Fail("failed") /\ UNCHANGED <<calm, late>>
  BY <1>2, HandlerFails
<1>3. CASE Continue(my)
  <2>1. /\ my' = my /\ stream' = Tail(stream)
        /\ UNCHANGED <<open, calm, late, pc, retry, tries, intent, outcome>>
    BY <1>3 DEF Continue, Consume
  <2>2. my' \in Ceremony /\ my'.step = "Start"
    BY <2>1 DEF RefreshInv, TypeOK
  <2>3. TypeOK' /\ ServerInv' /\ CallInv'
    BY <1>0, <2>1, <2>2, InsideStep
  <2>4. ASSUME NEW i \in DOMAIN stream', stream'[i].kind = "BatchStarted"
        PROVE  LET b == stream'[i].batch
               IN  IF i = Len(stream')
                   THEN running' = b /\ phase' = "confirming"
                   ELSE Unconfirmed(stream'[i + 1], b) /\ ~(running' = b /\ phase' = "confirming")
    <3>1. i \in 1 .. Len(stream) - 1
      BY <1>0, <2>1, LenProperties
    <3>2. /\ stream'[i] = stream[i + 1] /\ i + 1 \in 1 .. Len(stream)
          /\ i # Len(stream') =>
               i + 1 \in 1 .. Len(stream) - 1 /\ stream'[i + 1] = stream[i + 1 + 1]
          /\ i = Len(stream') <=> i + 1 = Len(stream)
      BY <1>0, <2>1, <3>1
    <3>. DEFINE j == i + 1
    <3>3. /\ j \in 1 .. Len(stream) /\ stream[j].kind = "BatchStarted"
          /\ stream[j] = stream'[i] /\ (i = Len(stream') <=> j = Len(stream))
          /\ j # Len(stream) => stream'[j] = stream[j + 1]
      BY <2>4, <3>2
    <3>. HIDE DEF j
    <3>4. IF j = Len(stream)
          THEN running = stream[j].batch /\ phase = "confirming"
          ELSE /\ Unconfirmed(stream[j + 1], stream[j].batch)
               /\ ~(running = stream[j].batch /\ phase = "confirming")
      BY <1>1, <3>3
    <3>5. j = i + 1
      BY DEF j
    <3>. QED
      BY <1>0, <3>3, <3>4, <3>5
  <2>5. AnnouncedInv'
    BY <1>0, <1>1, <2>1, <2>4 DEF AnnouncedInv
  <2>6. ConfirmInv' /\ CeremonyInv'
    BY <1>0, <2>1, <2>2 DEF ConfirmInv, CeremonyInv
  <2>. QED
    BY <2>1, <2>3, <2>5, <2>6 DEF RefreshInv, Faithful
<1>4. CASE /\ stream[1].kind = "BatchStarted"
           /\ Ask("confirm", [my EXCEPT !.batch = Head(stream).batch])
  <2>1. PICK b \in Batches : b = stream[1].batch
    BY <1>0 DEF Events
  <2>2. /\ my' = [[my EXCEPT !.batch = b] EXCEPT !.asked = b] /\ pc' = "confirm"
        /\ stream' = Tail(stream)
        /\ UNCHANGED <<open, calm, late, retry, tries, intent, outcome>>
    BY <1>0, <1>4, <2>1 DEF Ask, Consume
  <2>3. my' = At("Start", b, "none", "none", 0, b)
    BY <1>1, <2>2 DEF At, NewCeremony
  <2>4. my'.batch = b /\ my'.step = "Start"
    BY <2>3, AtFacts
  <2>5. my' \in Ceremony /\ pc' \in CeremonyPoints
    BY <2>2, <2>3, AtType, NodesAssumption DEF Chunks, CeremonyPoints
  <2>6. TypeOK' /\ ServerInv' /\ CallInv'
    BY <1>0, <2>2, <2>5, InsideStep
  <2>7. AnnouncedInv' /\ CeremonyInv'
    BY <1>0, <1>1, <2>2 DEF AnnouncedInv, CeremonyInv
  <2>8. 1 \in 1 .. Len(stream)
    BY <1>0
  <2>9. IF 1 = Len(stream)
        THEN running = b /\ phase = "confirming"
        ELSE Unconfirmed(stream[1 + 1], b) /\ ~(running = b /\ phase = "confirming")
    BY <1>1, <1>4, <2>1, <2>8
  <2>10. stream' = <<>> <=> 1 = Len(stream)
    BY <1>0, <2>2, EmptySeq
  <2>11. 1 # Len(stream) => stream'[1] = stream[1 + 1]
    BY <1>0, <2>2
  <2>12. ConfirmInv'
    BY <1>0, <2>1, <2>3, <2>4, <2>9, <2>10, <2>11 DEF ConfirmInv, Unconfirmed
  <2>. QED
    BY <2>2, <2>6, <2>7, <2>12 DEF RefreshInv, Faithful
<1>5. \/ Fail("failed") /\ UNCHANGED <<calm, late>>
      \/ Continue(my)
      \/ stream[1].kind = "BatchStarted" /\ Ask("confirm", [my EXCEPT !.batch = Head(stream).batch])
  BY <1>0 DEF Handler, OnBatchStarted, OnVtxoTx, OnConnectorTx, OnTreeSigningStarted, OnTreeNonces,
     OnBatchFinalization, OnBatchFinalized, OnBatchFailed, Receives, TakesTree, JoinsSigning,
     Signed,
     Finished
<1>. QED
  BY <1>2, <1>3, <1>4, <1>5
(* An event of the batch is read.                                           *)
LEMMA WaitingReads ==
    ASSUME RefreshInv, Handler, NEW m \in Nat, NEW n \in Nat, n = m + 1,
           NEW finalized \in BOOLEAN, Waiting(n, finalized),
           stream' = Tail(stream), my'.batch = my.batch
    PROVE  /\ Waiting(m, finalized)'
           /\ \A i \in 1 .. m : stream'[i] = stream[i + 1]
<1>1. /\ stream # <<>> /\ Len(stream) \in Nat \ {0}
      /\ Len(Tail(stream)) = Len(stream) - 1
      /\ \A i \in 1 .. Len(stream) - 1 : Tail(stream)[i] = stream[i + 1]
      /\ UNCHANGED <<running, confirmed, refreshedIn>>
  BY HandlerFacts
<1>2. /\ n \in 0 .. Len(stream) /\ \A i \in 1 .. n : Own(stream[i])
      /\ IF running = my.batch
         THEN confirmed /\ Len(stream) = n
         ELSE /\ ~confirmed /\ n < Len(stream) /\ Own(stream[n + 1])
              /\ \/ stream[n + 1].kind = "BatchFailed"
                 \/ finalized /\ stream[n + 1].kind = "BatchFinalized" /\ refreshedIn = my.batch
  BY DEF Waiting
<1>3. m \in 0 .. Len(stream) - 1
  <2>1. n \in 0 .. Len(stream) /\ Len(stream) \in Nat /\ m \in Nat /\ n = m + 1
    BY <1>1, <1>2
  <2>. QED
    BY ONLY <2>1
<1>4. \A i \in 1 .. m : stream'[i] = stream[i + 1] /\ i + 1 \in 1 .. n
  BY <1>1, <1>3
<1>5. n < Len(stream) => m + 1 \in 1 .. Len(stream) - 1 /\ stream'[m + 1] = stream[n + 1]
  BY <1>1, <1>3
<1>6. m \in 0 .. Len(stream') /\ (Len(stream) = n => Len(stream') = m)
      /\ (n < Len(stream) => m < Len(stream'))
  <2>1. /\ Len(stream') = Len(stream) - 1 /\ Len(stream) \in Nat \ {0}
        /\ m \in 0 .. Len(stream) - 1 /\ m \in Nat /\ n = m + 1
    BY <1>1, <1>3
  <2>. QED
    BY ONLY <2>1
<1>7. \A i \in 1 .. m : stream'[i].batch = my'.batch
  BY <1>2, <1>4 DEF Own
<1>. QED
  BY <1>1, <1>2, <1>4, <1>5, <1>6, <1>7 DEF Waiting, Own

(* Nothing is ahead but the end of the batch.                               *)
LEMMA EndReads ==
    ASSUME RefreshInv, Handler, NEW finalized \in BOOLEAN, Waiting(0, finalized)
    PROVE  /\ running # my.batch /\ Own(stream[1])
           /\ \/ stream[1].kind = "BatchFailed"
              \/ finalized /\ stream[1].kind = "BatchFinalized" /\ refreshedIn = my.batch
<1>1. Len(stream) \in Nat \ {0}
  BY HandlerFacts
<1>. QED
  BY <1>1 DEF Waiting

(* The own batch's failure ends the call.                                   *)
LEMMA OwnFailure ==
    ASSUME RefreshInv, Handler, stream[1].kind = "BatchFailed", Own(stream[1])
    PROVE  RefreshInv' /\ Faithful
<1>1. Head(stream) = stream[1]
  BY HandlerFacts
<1>2. Fail("failed") /\ UNCHANGED <<calm, late>>
  BY <1>1 DEF Handler, OnBatchStarted, OnVtxoTx, OnConnectorTx, OnTreeSigningStarted, OnTreeNonces,
     OnBatchFinalization, OnBatchFinalized, OnBatchFailed, Receives, Own
<1>. QED
  BY <1>2, HandlerFails

LEMMA BehindHandled ==
    ASSUME RefreshInv, Handler, Behind
    PROVE  RefreshInv' /\ Faithful
<1>1. Head(stream) = stream[1]
  BY HandlerFacts
<1>2. /\ my = At("BatchStarted", my.batch, "none", "none", 0, NoBatch) /\ running # my.batch
      /\ stream[1].batch = my.batch /\ stream[1].kind \in {"TreeSigningStarted", "BatchFailed"}
  BY DEF Behind, Unconfirmed
<1>3. my.step = "BatchStarted" /\ my.vtxo = "none"
  BY <1>2, AtFacts
<1>4. CASE stream[1].kind = "BatchFailed"
  BY <1>2, <1>4, OwnFailure DEF Own
<1>5. CASE stream[1].kind = "TreeSigningStarted"
  <2>1. Fail("broken") /\ UNCHANGED <<calm, late>>
    BY <1>1, <1>3, <1>5 DEF Handler, OnBatchStarted, OnVtxoTx, OnConnectorTx, OnTreeSigningStarted,
       OnTreeNonces, OnBatchFinalization, OnBatchFinalized, OnBatchFailed, Receives,
       JoinsSigning, Break
  <2>. QED
    BY <1>2, <1>3, <2>1, HandlerFails
<1>. QED
  BY <1>2, <1>4, <1>5

(* The handler took an event of the own batch into the ceremony.            *)
LEMMA AlongHandled ==
    ASSUME RefreshInv, Handler, my.batch \in Batches, Own(stream[1]),
           stream' = Tail(stream),
           UNCHANGED <<open, calm, late, retry, tries, intent, outcome>>,
           pc' \in {"loop", "nonces", "signatures", "forfeits"},
           my' \in Ceremony, my'.step # "Start", my'.batch = my.batch, Along'
    PROVE  RefreshInv' /\ Faithful
<1>1. /\ pc = "loop" /\ pc \in CeremonyPoints /\ Head(stream) = stream[1]
      /\ Tail(stream) \in Seq(Events) /\ ServerSound'
  BY HandlerFacts
<1>2. RefreshInv'
  BY <1>1, AlongStep
<1>. QED
  BY <1>1, <1>2 DEF Faithful, Own

LEMMA TreeHandled ==
    ASSUME RefreshInv, Handler, my.batch \in Batches, BeforeTree \/ WithTree
    PROVE  RefreshInv' /\ Faithful
<1>0. /\ Head(stream) = stream[1] /\ 1 \in 1 .. 1 /\ 1 \in 1 .. 2 /\ FALSE \in BOOLEAN
      /\ UNCHANGED <<running, phase, confirmed, refreshedIn>>
  BY HandlerFacts
<1>1. CASE BeforeTree /\ Waiting(0, FALSE)
  BY <1>1, EndReads, OwnFailure
<1>2. CASE /\ BeforeTree /\ Waiting(2, FALSE) /\ Phase({"nonces"})
           /\ stream[1].kind = "VtxoTx" /\ stream[2].kind = "TreeSigningStarted"
  <2>1. Own(stream[1])
    BY <1>0, <1>2 DEF Waiting
  <2>2. my = At("BatchStarted", my.batch, "none", "none", 0, NoBatch) /\ pc = "loop"
    BY <1>2 DEF BeforeTree
  <2>3. my.step = "BatchStarted" /\ my.vtxo = "none"
    BY <2>2, AtFacts
  <2>4. /\ my' = [my EXCEPT !.vtxo = "some"] /\ stream' = Tail(stream)
        /\ UNCHANGED <<open, calm, late, pc, retry, tries, intent, outcome>>
    BY <1>0, <1>2, <2>3 DEF Handler, OnBatchStarted, OnVtxoTx, OnConnectorTx, OnTreeSigningStarted,
       OnTreeNonces, OnBatchFinalization, OnBatchFinalized, OnBatchFailed, Receives, TakesTree,
       Continue, Consume
  <2>5. ASSUME NEW b, b = my.batch PROVE my' = At("BatchStarted", b, "some", "none", 0, NoBatch)
    <3>1. my = At("BatchStarted", b, "none", "none", 0, NoBatch)
      BY <2>2, <2>5
    <3>. QED
      BY <2>4, <3>1 DEF At
  <2>6. my' = At("BatchStarted", my.batch, "some", "none", 0, NoBatch)
    BY <2>5
  <2>7. my'.step = "BatchStarted" /\ my'.batch = my.batch
    BY <2>6, AtFacts
  <2>8. my' \in Ceremony
    BY <2>6, AtType, NodesAssumption DEF Chunks
  <2>9. Waiting(1, FALSE)' /\ stream'[1] = stream[2]
    <3>1. 1 \in Nat /\ 2 \in Nat /\ 2 = 1 + 1
      OBVIOUS
    <3>2. Waiting(1, FALSE)' /\ \A i \in 1 .. 1 : stream'[i] = stream[i + 1]
      BY <1>0, <1>2, <2>4, <2>7, <3>1, WaitingReads
    <3>. QED
      BY <1>0, <3>1, <3>2
  <2>10. Phase({"nonces"})'
    BY <1>0, <1>2, <2>7 DEF Phase
  <2>11. WithTree'
    BY <1>2, <2>2, <2>4, <2>6, <2>7, <2>9, <2>10 DEF WithTree
  <2>. QED
    BY <2>1, <2>2, <2>4, <2>7, <2>8, <2>11, AlongHandled DEF Along
<1>3. CASE WithTree
  <2>1. Own(stream[1]) /\ stream[1].kind = "TreeSigningStarted"
    BY <1>0, <1>3 DEF WithTree, Waiting
  <2>2. my = At("BatchStarted", my.batch, "some", "none", 0, NoBatch)
    BY <1>3 DEF WithTree
  <2>3. my.step = "BatchStarted" /\ my.vtxo = "some"
    BY <2>2, AtFacts
  <2>4. /\ my' = [[my EXCEPT !.vtxo = "taken"] EXCEPT !.asked = Head(stream).batch]
        /\ stream' = Tail(stream) /\ pc' = "nonces"
        /\ UNCHANGED <<open, calm, late, retry, tries, intent, outcome>>
    BY <1>0, <2>1, <2>3 DEF Handler, OnBatchStarted, OnVtxoTx, OnConnectorTx, OnTreeSigningStarted,
       OnTreeNonces, OnBatchFinalization, OnBatchFinalized, OnBatchFailed, Receives, JoinsSigning,
       Ask, Consume
  <2>5. ASSUME NEW b, b = my.batch PROVE my' = At("BatchStarted", b, "taken", "none", 0, b)
    <3>1. my = At("BatchStarted", b, "some", "none", 0, NoBatch)
      BY <2>2, <2>5
    <3>2. my' = [[my EXCEPT !.vtxo = "taken"] EXCEPT !.asked = b]
      BY <1>0, <2>1, <2>4, <2>5 DEF Own
    <3>. QED
      BY <3>1, <3>2 DEF At
  <2>6. my' = At("BatchStarted", my.batch, "taken", "none", 0, my.batch)
    BY <2>5
  <2>7. my'.step = "BatchStarted" /\ my'.batch = my.batch
    BY <2>6, AtFacts
  <2>8. my' \in Ceremony
    BY <2>6, AtType, NodesAssumption DEF Chunks
  <2>9. Waiting(0, FALSE)'
    <3>1. 0 \in Nat /\ 1 \in Nat /\ 1 = 0 + 1
      OBVIOUS
    <3>2. Waiting(1, FALSE)
      BY <1>3 DEF WithTree
    <3>. QED
      BY <1>0, <2>4, <2>7, <3>1, <3>2, WaitingReads
  <2>10. Phase({"nonces"})'
    BY <1>0, <1>3, <2>7 DEF Phase, WithTree
  <2>11. SendsNonces'
    BY <2>4, <2>6, <2>7, <2>9, <2>10 DEF SendsNonces
  <2>. QED
    BY <2>1, <2>4, <2>7, <2>8, <2>11, AlongHandled DEF Along
<1>. QED
  BY <1>1, <1>2, <1>3 DEF BeforeTree
LEMMA NoncesHandled ==
    ASSUME RefreshInv, Handler, my.batch \in Batches, CountsNonces
    PROVE  RefreshInv' /\ Faithful
<1>0. /\ Head(stream) = stream[1] /\ FALSE \in BOOLEAN /\ Nodes \in Nat \ {0}
      /\ UNCHANGED <<running, phase, confirmed, refreshedIn>> /\ pc = "loop"
  BY HandlerFacts, NodesAssumption
<1>1. PICK k \in 0 .. Nodes - 1 : k = my.nonces
  BY DEF CountsNonces
<1>2. PICK n \in Nat : n = Nodes - k
  BY <1>0, <1>1
<1>3. PICK m \in Nat : n = m + 1
  <2>1. n - 1 \in Nat /\ n = (n - 1) + 1
    BY <1>0, <1>1, <1>2
  <2>. QED
    BY <2>1
<1>4. /\ Waiting(n, FALSE) /\ Phase({"signing"})
      /\ \A i \in 1 .. n : stream[i].kind = "TreeNonces"
  BY <1>1, <1>2 DEF CountsNonces
<1>5. 1 \in 1 .. n
  BY <1>3
<1>6. stream[1].kind = "TreeNonces" /\ Own(stream[1])
  BY <1>4, <1>5 DEF Waiting
<1>7. my = At("BatchSigningStarted", my.batch, "taken", "none", k, NoBatch)
  BY <1>1 DEF CountsNonces
<1>8. my.step = "BatchSigningStarted" /\ my.nonces = k
  BY <1>7, AtFacts
<1>. DEFINE counted == [my EXCEPT !.nonces = @ + 1]
<1>9. ASSUME NEW b, b = my.batch
      PROVE  counted = At("BatchSigningStarted", b, "taken", "none", k + 1, NoBatch)
  <2>1. my = At("BatchSigningStarted", b, "taken", "none", k, NoBatch)
    BY <1>7, <1>9
  <2>. QED
    BY <2>1 DEF At
<1>10. counted = At("BatchSigningStarted", my.batch, "taken", "none", k + 1, NoBatch)
  BY <1>9
<1>. HIDE DEF counted
<1>11. counted.nonces = k + 1 /\ counted.batch = my.batch
  BY <1>10, AtFacts
<1>12. /\ IF k + 1 = Nodes
          THEN my' = [counted EXCEPT !.asked = Head(stream).batch] /\ pc' = "signatures"
          ELSE my' = counted /\ pc' = pc
       /\ stream' = Tail(stream)
       /\ UNCHANGED <<open, calm, late, retry, tries, intent, outcome>>
  <2>1. OnTreeNonces
    BY <1>0, <1>6 DEF Handler, OnBatchStarted, OnVtxoTx, OnConnectorTx, OnTreeSigningStarted,
       OnBatchFinalization, OnBatchFinalized, OnBatchFailed, Receives
  <2>2. IF AllNonces(counted.nonces) THEN Ask("signatures", counted) ELSE Continue(counted)
    BY <1>8, <2>1 DEF OnTreeNonces, counted
  <2>. QED
    BY <1>11, <2>2 DEF AllNonces, Ask, Continue, Consume
<1>13. CASE k + 1 = Nodes
  <2>1. ASSUME NEW b, b = my.batch
        PROVE  my' = At("BatchSigningStarted", b, "taken", "none", Nodes, b)
    <3>1. counted = At("BatchSigningStarted", b, "taken", "none", Nodes, NoBatch)
      BY <1>10, <1>13, <2>1
    <3>2. my' = [counted EXCEPT !.asked = b]
      BY <1>0, <1>6, <1>12, <1>13, <2>1 DEF Own
    <3>. QED
      BY <3>1, <3>2 DEF At
  <2>2. my' = At("BatchSigningStarted", my.batch, "taken", "none", Nodes, my.batch)
    BY <2>1
  <2>3. my'.step = "BatchSigningStarted" /\ my'.batch = my.batch
    BY <2>2, AtFacts
  <2>4. my' \in Ceremony
    BY <2>2, AtType, NodesAssumption DEF Chunks
  <2>5. m = 0
    BY <1>0, <1>1, <1>2, <1>3, <1>13
  <2>6. Waiting(m, FALSE)'
    BY <1>0, <1>3, <1>4, <1>12, <2>3, WaitingReads
  <2>7. Waiting(0, FALSE)' /\ Phase({"signing"})'
    BY <1>0, <1>4, <2>3, <2>5, <2>6 DEF Phase
  <2>8. SendsSignatures'
    BY <1>12, <1>13, <2>2, <2>3, <2>7 DEF SendsSignatures
  <2>. QED
    BY <1>6, <1>12, <1>13, <2>3, <2>4, <2>8, AlongHandled DEF Along
<1>14. CASE k + 1 # Nodes
  <2>1. my' = At("BatchSigningStarted", my.batch, "taken", "none", k + 1, NoBatch)
    BY <1>10, <1>12, <1>14
  <2>2. my'.step = "BatchSigningStarted" /\ my'.batch = my.batch /\ my'.nonces = k + 1
    BY <2>1, AtFacts
  <2>3. k + 1 \in 0 .. Nodes - 1 /\ k + 1 \in 0 .. Nodes /\ Nodes - (k + 1) = m
    BY <1>0, <1>1, <1>2, <1>3, <1>14
  <2>4. my' \in Ceremony
    BY <2>1, <2>3, AtType DEF Chunks
  <2>5. Waiting(m, FALSE)' /\ \A i \in 1 .. m : stream'[i] = stream[i + 1]
    BY <1>0, <1>3, <1>4, <1>12, <2>2, WaitingReads
  <2>6. \A i \in 1 .. m : i + 1 \in 1 .. n
    BY <1>3
  <2>7. \A i \in 1 .. m : stream'[i].kind = "TreeNonces"
    BY <1>4, <2>5, <2>6
  <2>8. Phase({"signing"})'
    BY <1>0, <1>4, <2>2 DEF Phase
  <2>9. Nodes - my'.nonces = m /\ my'.nonces \in 0 .. Nodes - 1
    BY <2>2, <2>3
  <2>10. CountsNonces'
    BY <1>0, <1>12, <1>14, <2>1, <2>2, <2>5, <2>7, <2>8, <2>9 DEF CountsNonces, Waiting, Own
  <2>. QED
    BY <1>0, <1>6, <1>12, <1>14, <2>2, <2>4, <2>10, AlongHandled DEF Along
<1>. QED
  BY <1>13, <1>14

LEMMA FinalizationHandled ==
    ASSUME RefreshInv, Handler, my.batch \in Batches, AwaitsFinalization \/ WithConnectors
    PROVE  RefreshInv' /\ Faithful
<1>0. /\ Head(stream) = stream[1] /\ 1 \in 1 .. 1 /\ 1 \in 1 .. 2 /\ TRUE \in BOOLEAN
      /\ UNCHANGED <<running, phase, confirmed, refreshedIn>> /\ pc = "loop"
      /\ 0 \in Nat /\ 1 \in Nat /\ 2 \in Nat /\ 1 = 0 + 1 /\ 2 = 1 + 1
  BY HandlerFacts
<1>1. CASE AwaitsFinalization /\ Waiting(1, TRUE) /\ stream[1].kind = "BatchFinalization"
  <2>1. Own(stream[1])
    BY <1>0, <1>1 DEF Waiting
  <2>2. my = At("BatchSigningStarted", my.batch, "taken", "none", Nodes, NoBatch)
    BY <1>1 DEF AwaitsFinalization
  <2>3. my.step = "BatchSigningStarted" /\ my.connector = "none"
    BY <2>2, AtFacts
  <2>4. /\ my' = [my EXCEPT !.connector = "taken", !.step = "Finalized"]
        /\ stream' = Tail(stream)
        /\ UNCHANGED <<open, calm, late, pc, retry, tries, intent, outcome>>
    BY <1>0, <1>1, <2>3 DEF Handler, OnBatchStarted, OnVtxoTx, OnConnectorTx, OnTreeSigningStarted,
       OnTreeNonces, OnBatchFinalization, OnBatchFinalized, OnBatchFailed, Receives, Signed,
       Continue, Consume
  <2>5. ASSUME NEW b, b = my.batch PROVE my' = At("Finalized", b, "taken", "taken", Nodes, NoBatch)
    <3>1. my = At("BatchSigningStarted", b, "taken", "none", Nodes, NoBatch)
      BY <2>2, <2>5
    <3>. QED
      BY <2>4, <3>1 DEF At
  <2>6. my' = At("Finalized", my.batch, "taken", "taken", Nodes, NoBatch)
    BY <2>5
  <2>7. my'.step = "Finalized" /\ my'.batch = my.batch
    BY <2>6, AtFacts
  <2>8. my' \in Ceremony
    BY <2>6, AtType, NodesAssumption DEF Chunks
  <2>9. Waiting(0, TRUE)'
    BY <1>0, <1>1, <2>4, <2>7, WaitingReads
  <2>10. Phase({"forfeits", "finalizing"})'
    BY <1>0, <1>1, <2>7 DEF Phase, AwaitsFinalization
  <2>11. AwaitsEnd'
    BY <1>0, <2>4, <2>6, <2>7, <2>9, <2>10 DEF AwaitsEnd
  <2>. QED
    BY <1>0, <2>1, <2>4, <2>7, <2>8, <2>11, AlongHandled DEF Along
<1>2. CASE /\ AwaitsFinalization /\ Waiting(2, TRUE)
           /\ stream[1].kind = "ConnectorTx" /\ stream[2].kind = "BatchFinalization"
  <2>1. Own(stream[1])
    BY <1>0, <1>2 DEF Waiting
  <2>2. my = At("BatchSigningStarted", my.batch, "taken", "none", Nodes, NoBatch)
    BY <1>2 DEF AwaitsFinalization
  <2>3. my.step = "BatchSigningStarted" /\ my.connector = "none"
    BY <2>2, AtFacts
  <2>4. /\ my' = [my EXCEPT !.connector = "some"] /\ stream' = Tail(stream)
        /\ UNCHANGED <<open, calm, late, pc, retry, tries, intent, outcome>>
    BY <1>0, <1>2, <2>3 DEF Handler, OnBatchStarted, OnVtxoTx, OnConnectorTx, OnTreeSigningStarted,
       OnTreeNonces, OnBatchFinalization, OnBatchFinalized, OnBatchFailed, Receives, TakesTree,
       Continue, Consume
  <2>5. ASSUME NEW b, b = my.batch
        PROVE  my' = At("BatchSigningStarted", b, "taken", "some", Nodes, NoBatch)
    <3>1. my = At("BatchSigningStarted", b, "taken", "none", Nodes, NoBatch)
      BY <2>2, <2>5
    <3>. QED
      BY <2>4, <3>1 DEF At
  <2>6. my' = At("BatchSigningStarted", my.batch, "taken", "some", Nodes, NoBatch)
    BY <2>5
  <2>7. my'.step = "BatchSigningStarted" /\ my'.batch = my.batch
    BY <2>6, AtFacts
  <2>8. my' \in Ceremony
    BY <2>6, AtType, NodesAssumption DEF Chunks
  <2>9. Waiting(1, TRUE)' /\ \A i \in 1 .. 1 : stream'[i] = stream[i + 1]
    BY <1>0, <1>2, <2>4, <2>7, WaitingReads
  <2>10. stream'[1] = stream[2]
    BY <1>0, <2>9
  <2>11. Phase({"forfeits"})'
    BY <1>0, <1>2, <2>7 DEF Phase, AwaitsFinalization
  <2>12. WithConnectors'
    BY <1>0, <1>2, <2>4, <2>6, <2>7, <2>9, <2>10, <2>11 DEF WithConnectors
  <2>. QED
    BY <1>0, <2>1, <2>4, <2>7, <2>8, <2>12, AlongHandled DEF Along
<1>3. CASE WithConnectors
  <2>1. Own(stream[1]) /\ stream[1].kind = "BatchFinalization"
    BY <1>0, <1>3 DEF WithConnectors, Waiting
  <2>2. my = At("BatchSigningStarted", my.batch, "taken", "some", Nodes, NoBatch)
    BY <1>3 DEF WithConnectors
  <2>3. my.step = "BatchSigningStarted" /\ my.connector = "some"
    BY <2>2, AtFacts
  <2>4. /\ my' = [[my EXCEPT !.connector = "taken"] EXCEPT !.asked = Head(stream).batch]
        /\ stream' = Tail(stream) /\ pc' = "forfeits"
        /\ UNCHANGED <<open, calm, late, retry, tries, intent, outcome>>
    BY <1>0, <2>1, <2>3 DEF Handler, OnBatchStarted, OnVtxoTx, OnConnectorTx, OnTreeSigningStarted,
       OnTreeNonces, OnBatchFinalization, OnBatchFinalized, OnBatchFailed, Receives, Signed,
       Ask, Consume
  <2>5. ASSUME NEW b, b = my.batch
        PROVE  my' = At("BatchSigningStarted", b, "taken", "taken", Nodes, b)
    <3>1. my = At("BatchSigningStarted", b, "taken", "some", Nodes, NoBatch)
      BY <2>2, <2>5
    <3>2. my' = [[my EXCEPT !.connector = "taken"] EXCEPT !.asked = b]
      BY <1>0, <2>1, <2>4, <2>5 DEF Own
    <3>. QED
      BY <3>1, <3>2 DEF At
  <2>6. my' = At("BatchSigningStarted", my.batch, "taken", "taken", Nodes, my.batch)
    BY <2>5
  <2>7. my'.step = "BatchSigningStarted" /\ my'.batch = my.batch
    BY <2>6, AtFacts
  <2>8. my' \in Ceremony
    BY <2>6, AtType, NodesAssumption DEF Chunks
  <2>9. Waiting(1, TRUE)
    BY <1>3 DEF WithConnectors
  <2>10. Waiting(0, TRUE)'
    BY <1>0, <2>4, <2>7, <2>9, WaitingReads
  <2>11. Phase({"forfeits"})'
    BY <1>0, <1>3, <2>7 DEF Phase, WithConnectors
  <2>12. SendsForfeits'
    BY <2>4, <2>6, <2>7, <2>10, <2>11 DEF SendsForfeits
  <2>. QED
    BY <2>1, <2>4, <2>7, <2>8, <2>12, AlongHandled DEF Along
<1>. QED
  BY <1>1, <1>2, <1>3 DEF AwaitsFinalization

LEMMA EndHandled ==
    ASSUME RefreshInv, Handler, my.batch \in Batches, AwaitsEnd
    PROVE  RefreshInv' /\ Faithful
<1>0. /\ Head(stream) = stream[1] /\ ServerSound'
      /\ calm \in BOOLEAN /\ late \subseteq {"register", "delete"} /\ retry \in BOOLEAN
      /\ tries \in 1 .. DeleteAttempts /\ pc = "loop"
  BY HandlerFacts DEF RefreshInv, TypeOK, ServerTypeOK
<1>1. /\ Own(stream[1])
      /\ \/ stream[1].kind = "BatchFailed"
         \/ stream[1].kind = "BatchFinalized" /\ refreshedIn = my.batch
  BY EndReads DEF AwaitsEnd
<1>2. my = At("Finalized", my.batch, "taken", "taken", Nodes, NoBatch)
  BY DEF AwaitsEnd
<1>3. my.step = "Finalized"
  BY <1>2, AtFacts
<1>4. CASE stream[1].kind = "BatchFailed"
  BY <1>1, <1>4, OwnFailure
<1>5. CASE stream[1].kind = "BatchFinalized" /\ refreshedIn = my.batch
  <2>1. /\ open' = FALSE /\ stream' = <<>> /\ my' = NewCeremony /\ intent' = NoIntent
        /\ outcome' = "ok" /\ pc' = "idle" /\ UNCHANGED <<retry, tries, calm, late>>
    BY <1>0, <1>3, <1>5 DEF Handler, OnBatchStarted, OnVtxoTx, OnConnectorTx, OnTreeSigningStarted,
       OnTreeNonces, OnBatchFinalization, OnBatchFinalized, OnBatchFailed, Receives, Finished,
       LeaveCeremony
  <2>2. pc' \in Points \ CeremonyPoints /\ outcome' \in Outcomes
    BY <2>1 DEF Points, CeremonyPoints, Outcomes
  <2>3. RefreshInv'
    BY <1>0, <2>1, <2>2, OutsideStep
  <2>4. refreshedIn # NoBatch /\ Head(stream).batch = refreshedIn
    BY <1>0, <1>1, <1>5, NoBatchAssumption DEF Own
  <2>. QED
    BY <2>1, <2>3, <2>4 DEF Faithful
<1>. QED
  BY <1>1, <1>4, <1>5

LEMMA HandlerStep ==
    ASSUME RefreshInv, Handler
    PROVE  RefreshInv' /\ Faithful
<1>1. pc = "loop"
  BY HandlerFacts
<1>2. CASE my.step = "Start"
  BY <1>2, StartHandled
<1>3. CASE my.step # "Start"
  <2>1. my.batch \in Batches /\ (Behind \/ Along)
    BY <1>1, <1>3 DEF RefreshInv, CeremonyInv
  <2>2. ~SendsNonces /\ ~SendsSignatures /\ ~SendsForfeits
    BY <1>1 DEF SendsNonces, SendsSignatures, SendsForfeits
  <2>. QED
    BY <2>1, <2>2, BehindHandled, TreeHandled, NoncesHandled, FinalizationHandled, EndHandled
       DEF Along
<1>. QED
  BY <1>2, <1>3
-----------------------------------------------------------------------------
(* The theorems.                                                            *)

LEMMA InitInv == Init => RefreshInv
<1>. SUFFICES ASSUME Init PROVE RefreshInv
  OBVIOUS
<1>1. <<>> \in Seq(Events)
  OBVIOUS
<1>2. 1 \in 1 .. DeleteAttempts
  BY DeleteAssumption
<1>3. TypeOK
  BY <1>1, <1>2, NewCeremonyType DEF Init, ServerInit, TypeOK, ServerTypeOK, Phases, Points,
     Outcomes
<1>4. ServerInv /\ CallInv
  BY DEF Init, ServerInit, ServerInv, CallInv, CeremonyPoints
<1>5. AnnouncedInv /\ ConfirmInv /\ CeremonyInv
  BY DEF Init, AnnouncedInv, ConfirmInv, CeremonyInv
<1>. QED
  BY <1>3, <1>4, <1>5 DEF RefreshInv

LEMMA NextStep ==
    ASSUME RefreshInv, Next
    PROVE  RefreshInv' /\ Faithful
<1>1. ASSUME UNCHANGED callVars PROVE Faithful
  BY <1>1 DEF callVars, Faithful
<1>2. CASE Server
  BY <1>1, <1>2, ServerStep DEF Server
<1>3. CASE LateRegister \/ LateDelete \/ LoseLate \/ CalmDown
  BY <1>1, <1>3, QuietActions
<1>4. CASE Handler
  BY <1>4, HandlerStep
<1>5. CASE \/ Refresh \/ RegisterIntent \/ RegisterStale \/ RegisterFails \/ DeleteStale
           \/ Subscribe \/ StreamEnds \/ Deadline \/ Withdraw
  <2>1. RefreshInv'
    BY <1>5, OutsideActions
  <2>2. outcome' \in {"none", "stale", "failed", outcome}
    BY <1>5 DEF Refresh, RegisterIntent, RegisterStale, RegisterFails, DeleteStale, Subscribe,
       StreamEnds, Deadline, Withdraw, Fail
  <2>3. pc' = "loop" => my' = my
    <3>1. pc' = "loop" => Subscribe /\ my' = NewCeremony
      BY <1>5 DEF Refresh, RegisterIntent, RegisterStale, RegisterFails, DeleteStale, Subscribe,
         StreamEnds, Deadline, Withdraw, Fail
    <3>2. Subscribe => my = NewCeremony
      BY DEF Subscribe, RefreshInv, CallInv, CeremonyPoints
    <3>. QED
      BY <3>1, <3>2
  <2>. QED
    BY <2>1, <2>2, <2>3 DEF Faithful
<1>6. CASE \/ ConfirmRegistration \/ SubmitTreeNonces \/ SubmitTreeSignatures
           \/ SubmitSignedForfeitTxs
  <2>1. RefreshInv'
    BY <1>6, ConfirmStep, NoncesStep, SignaturesStep, ForfeitsStep
  <2>2. outcome' \in {"failed", outcome} /\ pc # "loop"
    BY <1>6 DEF ConfirmRegistration, SubmitTreeNonces, SubmitTreeSignatures,
       SubmitSignedForfeitTxs, Taken, NotTaken, Resume, Fail
  <2>3. my.asked = my.batch
    BY <1>6, ConfirmStep, AskingFacts
       DEF SubmitTreeNonces, SubmitTreeSignatures, SubmitSignedForfeitTxs
  <2>. QED
    BY <2>1, <2>2, <2>3 DEF Faithful
<1>. QED
  BY <1>2, <1>3, <1>4, <1>5, <1>6 DEF Next, Call, Handler

LEMMA StutterStep ==
    ASSUME RefreshInv, UNCHANGED vars
    PROVE  RefreshInv' /\ Faithful
<1>1. /\ UNCHANGED serverVars /\ UNCHANGED callVars /\ UNCHANGED <<open, stream, calm, late>>
  BY DEF vars
<1>2. /\ calm' \in BOOLEAN /\ late' \subseteq {"register", "delete"} /\ ServerSound'
      /\ UNCHANGED <<running, phase, confirmed, refreshedIn, open, stream>>
  BY <1>1, SoundFacts DEF RefreshInv, TypeOK, ServerTypeOK, serverVars, batchVars
<1>3. RefreshInv'
  BY <1>1, <1>2, QuietStep
<1>. QED
  BY <1>1, <1>3 DEF callVars, Faithful

(* The inductive invariant holds throughout.                                *)
THEOREM Invariance == Spec => []RefreshInv
<1>1. RefreshInv /\ [Next]_vars => RefreshInv'
  BY NextStep, StutterStep
<1>. QED
  BY <1>1, InitInv, PTL DEF Spec

(* Every variable keeps its type, for any number of tree nodes, attempts    *)
(* and identifiers; above all, no more nonces are counted than the tree has *)
(* nodes (delegate.rs:349-364).                                             *)
THEOREM TypeCorrect == Spec => []TypeOK
<1>1. RefreshInv => TypeOK
  BY DEF RefreshInv
<1>. QED
  BY <1>1, Invariance, PTL

(* Ok is answered only when the batch the last event names has settled the  *)
(* VTXO, however events, requests and other batches interleave              *)
(* (delegate.rs:419-429).                                                   *)
THEOREM OkIsSettled == Spec => OkMeansRefreshed
<1>1. RefreshInv /\ [Next]_vars
         => [outcome' = "ok" /\ outcome # "ok" => Head(stream).batch = refreshedIn]_vars
  BY NextStep DEF Faithful
<1>. QED
  BY <1>1, Invariance, PTL DEF Spec, OkMeansRefreshed

(* Though the handlers compare no identifiers, the ceremony is moved on by  *)
(* the events and requests of the confirmed batch alone                     *)
(* (delegate.rs:221-429).                                                   *)
THEOREM OthersKeptOut == Spec => OnlyOurBatch
<1>1. RefreshInv /\ [Next]_vars
         => [my'.step # my.step /\ pc' = "loop" =>
                my.batch = IF pc = "loop" THEN Head(stream).batch ELSE my.asked]_vars
  BY NextStep DEF Faithful
<1>. QED
  BY <1>1, Invariance, PTL DEF Spec, OnlyOurBatch

(* The ceremony's own consistency checks fail only for a confirmation that  *)
(* was taken for a later batch (delegate.rs:221-242, 247-257, 285-293,      *)
(* 395-397).                                                                *)
THEOREM ChecksFailBehind == Spec => BreaksOnlyBehind
<1>1. RefreshInv /\ [Next]_vars
         => [outcome' = "broken" /\ outcome # "broken" =>
                my.step # "Start" /\ my.batch # running]_vars
  BY NextStep DEF Faithful
<1>. QED
  BY <1>1, Invariance, PTL DEF Spec, BreaksOnlyBehind

-----------------------------------------------------------------------------
(* The promise, but for its liveness.                                       *)

(* The VTXO is settled at most once, and by the server alone.               *)
LEMMA SettledOnce ==
    ASSUME RefreshInv, Next
    PROVE  \/ refreshedIn' = refreshedIn
           \/ Server /\ refreshedIn = NoBatch /\ refreshedIn' # NoBatch
<1>1. CASE Server
  <2>1. CASE FinalizeBatch /\ confirmed
    <3>1. refreshedIn = NoBatch /\ refreshedIn' = running /\ phase # "none"
      BY <2>1 DEF FinalizeBatch, RefreshInv, ServerInv
    <3>. QED
      BY <1>1, <3>1 DEF RefreshInv, ServerInv
  <2>2. CASE ~(FinalizeBatch /\ confirmed)
    BY <1>1, <2>2 DEF Server, StartBatch, CloseConfirmation, RunWithout, FinalizeBatch, FailBatch
  <2>. QED
    BY <2>1, <2>2
<1>2. CASE ~Server
  BY <1>2 DEF Next, Call, Refresh, RegisterIntent, RegisterStale, RegisterFails, DeleteStale,
     Subscribe,
     OnBatchStarted, OnVtxoTx, OnConnectorTx, OnTreeSigningStarted, OnTreeNonces,
     OnBatchFinalization,
     OnBatchFinalized, OnBatchFailed, StreamEnds, ConfirmRegistration, SubmitTreeNonces,
     SubmitTreeSignatures, SubmitSignedForfeitTxs, Taken, NotTaken, Deadline, Withdraw,
     LateRegister, LateDelete, LoseLate, CalmDown, serverVars
<1>. QED
  BY <1>1, <1>2

LEMMA PromiseStep ==
    ASSUME RefreshInv, RefreshInv', Next, Faithful
    PROVE  [Promise!Next]_Promise!vars
<1>1. CASE Server
  <2>1. UNCHANGED <<pc, outcome>>
    BY <1>1 DEF Server, callVars
  <2>. QED
    BY <1>1, <2>1, SettledOnce
       DEF Promise!Next, Promise!Settle, Promise!vars, Answered
<1>2. CASE Refresh
  <2>1. pc = "idle" /\ pc' = "register" /\ refreshedIn' = refreshedIn
    BY <1>2 DEF Refresh, serverVars
  <2>. QED
    BY <2>1 DEF Promise!Next, Promise!Call, Answered
<1>3. CASE ~Server /\ ~Refresh
  <2>1. refreshedIn' = refreshedIn
    BY <1>3, SettledOnce
  <2>2. CASE pc = "idle"
    <3>1. UNCHANGED <<pc, outcome>>
      BY <1>3, <2>2 DEF Next, Call, RegisterIntent, RegisterStale, RegisterFails, DeleteStale,
         Subscribe,
         OnBatchStarted, OnVtxoTx, OnConnectorTx, OnTreeSigningStarted, OnTreeNonces,
         OnBatchFinalization,
         OnBatchFinalized, OnBatchFailed, Receives, StreamEnds, ConfirmRegistration,
         SubmitTreeNonces,
         SubmitTreeSignatures, SubmitSignedForfeitTxs, Deadline, Running, Withdraw,
         LateRegister, LateDelete, LoseLate, CalmDown, callVars
    <3>. QED
      BY <2>1, <3>1 DEF Promise!vars, Answered
  <2>3. CASE pc # "idle" /\ pc' # "idle"
    BY <2>1, <2>3 DEF Promise!vars, Answered
  <2>4. CASE pc # "idle" /\ pc' = "idle"
    <3>1. outcome # "ok"
      BY <2>4 DEF RefreshInv, CallInv
    <3>2. outcome' # "none"
      BY <1>3, <2>4 DEF Next, Call, RegisterIntent, RegisterStale, RegisterFails, DeleteStale,
         Subscribe,
         OnBatchStarted, OnVtxoTx, OnConnectorTx, OnTreeSigningStarted, OnTreeNonces,
         OnBatchFinalization,
         OnBatchFinalized, OnBatchFailed, Receives, StreamEnds, ConfirmRegistration,
         SubmitTreeNonces,
         SubmitTreeSignatures, SubmitSignedForfeitTxs, Deadline, Withdraw, Fail, Taken, NotTaken,
         Resume, Continue, Ask, Break,
         LateRegister, LateDelete, LoseLate, CalmDown, callVars, RefreshInv, CallInv
    <3>3. CASE outcome' = "ok"
      <4>1. refreshedIn # NoBatch
        BY <3>1, <3>3 DEF Faithful
      <4>. QED
        BY <2>1, <2>4, <3>3, <4>1 DEF Promise!Next, Promise!Answer, Answered
    <3>4. CASE outcome' # "ok"
      BY <2>1, <2>4, <3>2, <3>4 DEF Promise!Next, Promise!Answer, Answered
    <3>. QED
      BY <3>3, <3>4
  <2>. QED
    BY <2>2, <2>3, <2>4
<1>. QED
  BY <1>1, <1>2, <1>3

(* The refresh takes no step its promise does not allow: the VTXO is        *)
(* settled at most once, every answer ends a call, and Ok is answered only  *)
(* for a settled VTXO (client.rs:357-421, refresh.rs:256-343).  That every  *)
(* call is answered is the promise's liveness, and is not claimed here.     *)
THEOREM PromiseSafety == Spec => Promise!Init /\ [][Promise!Next]_Promise!vars
<1>1. Init => Promise!Init
  BY DEF Init, ServerInit, Promise!Init, Answered
<1>2. RefreshInv /\ RefreshInv' /\ [Next]_vars => [Promise!Next]_Promise!vars
  <2>1. CASE UNCHANGED vars
    <3>1. UNCHANGED <<pc, outcome, refreshedIn>>
      BY <2>1 DEF vars, callVars, serverVars
    <3>. QED
      BY <3>1 DEF Promise!vars, Answered
  <2>. QED
    BY <2>1, NextStep, PromiseStep
<1>. QED
  BY <1>1, <1>2, Invariance, PTL DEF Spec
===============================================================================
