-------------------------- MODULE SpyPipelineProofs --------------------------
(***************************************************************************)
(* Proofs about SpyPipeline, for every set of tools, every server, every   *)
(* capacity and every bound.                                               *)
(*                                                                         *)
(* Every step of the pipeline is a start, a burst of a session, or the     *)
(* move of one event between two different places.  The lemmas about Move  *)
(* are proved once; the theorems combine them.                             *)
(***************************************************************************)
EXTENDS SpyPipeline, SequenceTheorems, FiniteSetTheorems, TLAPS

Sinks == {Exported, Trie, Dropped}

\* Every place the actions name is one of Places.
LEMMA PlaceNames ==
    /\ \A t \in Tools : Session(t) \in Places /\ Receiver(t) \in Places
    /\ \A d \in Detectors : EventChan(d) \in Places
    /\ \A d \in Detectors, w \in Tools : Worker(d, w) \in Places
    /\ EventCh \in Places /\ Entries \in Places
    /\ Sinks \subseteq Places
  BY DEF Places, Sinks

\* sendToConsumers finds exactly one detector for every tool with a session.
LEMMA RouteOfTool ==
    \A t \in Tools : \E d \in Detectors :
        /\ Route(t) = EventChan(d)
        /\ t \in Handled(d)
  <1> SUFFICES ASSUME NEW t \in Tools
               PROVE  \E d \in Detectors :
                         /\ Route(t) = EventChan(d)
                         /\ t \in Handled(d)
      OBVIOUS
  <1>1. CASE t = "cachestat"
    <2>1. GetDetectors(t) = {"mem"}
      BY <1>1 DEF GetDetectors, OwnedEvents, Detectors
    <2>2. Route(t) = EventChan("mem")
      BY <2>1 DEF Route
    <2>3. t \in Blocks("mem") \cap Forwarded
      BY <1>1 DEF Blocks, Forwarded
    <2> QED
      BY <2>2, <2>3 DEF Detectors, Handled
  <1>2. CASE t # "cachestat"
    <2>1. t \in {"offcpu", "oncpu", "syscall", "futexsnoop"}
      BY <1>2, ToolsAssumption DEF ToolNames
    <2>2. GetDetectors(t) = {"cpu"}
      BY <2>1 DEF GetDetectors, OwnedEvents, Detectors
    <2>3. Route(t) = EventChan("cpu")
      BY <2>2 DEF Route
    <2>4. t \in Stored("cpu") \cup (Blocks("cpu") \cap Forwarded)
      BY <2>1 DEF Stored, Blocks, Forwarded
    <2> QED
      BY <2>3, <2>4 DEF Detectors, Handled
  <1> QED
    BY <1>1, <1>2

\* ProcessEvent puts an event its detector handles in the exporter's channel
\* or, for an oncpu stack the cpu detector stores, in the trie.
LEMMA OutcomeOfTool ==
    \A d \in Detectors : \A t \in Handled(d) :
        \/ Outcome(d, t) = Trie /\ t \in Stored("cpu")
        \/ Outcome(d, t) = Entries /\ t \notin Stored("cpu")
  <1> SUFFICES ASSUME NEW d \in Detectors, NEW t \in Handled(d)
               PROVE  \/ Outcome(d, t) = Trie /\ t \in Stored("cpu")
                      \/ Outcome(d, t) = Entries /\ t \notin Stored("cpu")
    OBVIOUS
  <1>1. CASE d = "cpu"
    BY <1>1 DEF Outcome, Handled
  <1>2. CASE d = "mem"
    <2>1. t = "cachestat" /\ t \in Blocks(d) \cap Forwarded /\ Stored(d) = {}
      BY <1>2 DEF Handled, Stored, Blocks, Forwarded
    <2> QED
      BY <2>1 DEF Outcome, Stored
  <1>3. CASE d \in {"io", "net"}
    BY <1>3 DEF Handled, Stored, Blocks
  <1> QED
    BY <1>1, <1>2, <1>3 DEF Detectors

----------------------------------------------------------------------------
(***************************************************************************)
(* The move of an event.                                                   *)
(***************************************************************************)

\* The queues after a move: p has lost its head, q has gained it at its end.
LEMMA MoveEffect ==
    ASSUME TypeOK, NEW p \in Places, NEW q \in Places, p # q, Move(p, q)
    PROVE  /\ held[p] \in Seq(Event) /\ held[p] # <<>> /\ Head(held[p]) \in Event
           /\ DOMAIN held' = Places
           /\ held'[p] = Tail(held[p])
           /\ held'[q] = Append(held[q], Head(held[p]))
           /\ \A r \in Places \ {p, q} : held'[r] = held[r]
           /\ UNCHANGED <<started, made>>
  BY DEF Move, TypeOK

\* A move keeps the queues sequences of events.
LEMMA MoveTyped ==
    ASSUME TypeOK, NEW p \in Places, NEW q \in Places, p # q, Move(p, q)
    PROVE  TypeOK'
  <1>1. held' \in [Places -> Seq(Event)]
    <2>1. Tail(held[p]) \in Seq(Event) /\ Append(held[q], Head(held[p])) \in Seq(Event)
      BY MoveEffect DEF TypeOK
    <2> QED
      BY <2>1 DEF Move, TypeOK
  <1> QED
    BY <1>1 DEF TypeOK, Move

\* The moves the actions make: never out of a sink, never to Dropped, only
\* to a detector that handles the event, and to the sink meant for it.
Proper(p, q) ==
    /\ p \in Places /\ q \in Places /\ p # q
    /\ p \notin Sinks /\ q # Dropped
    /\ Move(p, q)
    /\ \A d \in Detectors : q \in AtDetector(d) => Head(held[p]).tool \in Handled(d)
    /\ q = Entries  => Head(held[p]).tool \notin Stored("cpu")
    /\ q = Trie     => Head(held[p]).tool \in Stored("cpu")
    /\ q = Exported => p = Entries

\* The events in the exporter's channel are none the trie was meant for.
EntriesRight ==
    \A p \in {Entries, Exported} : \A i \in DOMAIN held[p] :
        held[p][i].tool \notin Stored("cpu")

\* The inductive invariant behind the type and routing properties.
IInv == TypeOK /\ NoSilentDrop /\ EntriesRight

\* An event in the hands of a goroutine, or at the head of a channel.
LEMMA HeadTyped ==
    ASSUME TypeOK, NEW p \in Places, held[p] # <<>>
    PROVE  /\ held[p] \in Seq(Event)
           /\ Head(held[p]) \in Event /\ Head(held[p]).tool \in Tools
           /\ 1 \in DOMAIN held[p] /\ Head(held[p]) = held[p][1]
  <1>1. held[p] \in Seq(Event)
    BY DEF TypeOK
  <1>2. Head(held[p]) \in Event
    BY <1>1
  <1> QED
    BY <1>1, <1>2 DEF Event

\* Every step is a start, a burst, a proper move, or changes nothing.
LEMMA StepKinds ==
    ASSUME IInv, [Next]_vars
    PROVE  \/ \E t \in Tools : StartTool(t)
           \/ \E t \in Tools, k \in 1..MaxBurst : HandleEvent(t, k)
           \/ \E p, q \in Places : Proper(p, q)
           \/ UNCHANGED vars
  <1> USE DEF IInv
  <1> USE DEF Session, EventCh, Receiver, EventChan, Worker, Entries, Exported, Trie, Dropped
  <1>1. ASSUME NEW t \in Tools, SendEvent(t) PROVE Proper(Session(t), EventCh)
    BY <1>1, PlaceNames DEF SendEvent, Proper, Sinks, AtDetector
  <1>2. ASSUME NEW w \in Tools, ReceiveEvent(w) PROVE Proper(EventCh, Receiver(w))
    BY <1>2, PlaceNames DEF ReceiveEvent, Proper, Sinks, AtDetector
  <1>3. ASSUME NEW w \in Tools, SendToConsumers(w)
        PROVE  \E q \in Places : Proper(Receiver(w), q)
    <2>1. Head(held[Receiver(w)]).tool \in Tools
      <3>1. Receiver(w) \in Places /\ held[Receiver(w)] # <<>>
        BY <1>3, PlaceNames DEF SendToConsumers
      <3> QED
        BY <3>1, HeadTyped
    <2>2. PICK d \in Detectors :
              /\ Route(Head(held[Receiver(w)]).tool) = EventChan(d)
              /\ Head(held[Receiver(w)]).tool \in Handled(d)
      BY <2>1, RouteOfTool
    <2>3. Move(Receiver(w), EventChan(d))
      BY <1>3, <2>2 DEF SendToConsumers
    <2> QED
      BY <2>2, <2>3, PlaceNames DEF Proper, Sinks, AtDetector
  <1>4. ASSUME NEW d \in Detectors, NEW w \in Tools, ConsumeChanEvent(d, w)
        PROVE  Proper(EventChan(d), Worker(d, w))
    <2>1. Move(EventChan(d), Worker(d, w)) /\ held[EventChan(d)] # <<>>
      BY <1>4 DEF ConsumeChanEvent, Move
    <2>2. 1 \in DOMAIN held[EventChan(d)] /\ Head(held[EventChan(d)]) = held[EventChan(d)][1]
      BY <2>1, PlaceNames, HeadTyped
    <2>3. Head(held[EventChan(d)]).tool \in Handled(d)
      BY <2>2 DEF NoSilentDrop, AtDetector
    <2> QED
      BY <2>1, <2>3, PlaceNames DEF Proper, Sinks, AtDetector
  <1>5. ASSUME NEW d \in Detectors, NEW w \in Tools, ProcessEvent(d, w)
        PROVE  \E q \in Places : Proper(Worker(d, w), q)
    <2>1. held[Worker(d, w)] # <<>> /\ Worker(d, w) \in Places
      BY <1>5, PlaceNames DEF ProcessEvent
    <2>2. 1 \in DOMAIN held[Worker(d, w)] /\ Head(held[Worker(d, w)]) = held[Worker(d, w)][1]
      BY <2>1, HeadTyped
    <2>3. Head(held[Worker(d, w)]).tool \in Handled(d)
      BY <2>2 DEF NoSilentDrop, AtDetector
    <2>4. PICK q \in {Trie, Entries} :
              /\ q = Outcome(d, Head(held[Worker(d, w)]).tool)
              /\ q = Trie => Head(held[Worker(d, w)]).tool \in Stored("cpu")
              /\ q = Entries => Head(held[Worker(d, w)]).tool \notin Stored("cpu")
      BY <2>3, OutcomeOfTool
    <2>5. Move(Worker(d, w), q)
      BY <1>5, <2>4 DEF ProcessEvent
    <2> QED
      BY <2>1, <2>4, <2>5, PlaceNames DEF Proper, Sinks, AtDetector
  <1>6. ASSUME ExporterRun PROVE Proper(Entries, Exported)
    BY <1>6, PlaceNames DEF ExporterRun, Proper, Sinks, AtDetector
  <1>7. Idle => UNCHANGED vars
    BY DEF Idle
  <1> QED
    BY <1>1, <1>2, <1>3, <1>4, <1>5, <1>6, <1>7, PlaceNames
    DEF Next, SessionStep, ReceiverStep, DetectorStep, Sinks

\* What a burst adds: k new events, numbered on from made[t], at a place
\* that was empty.
LEMMA BurstEffect ==
    ASSUME TypeOK, NEW t \in Tools, NEW k \in 1..MaxBurst, HandleEvent(t, k)
    PROVE  /\ made[t] \in Nat /\ made[t] + k <= MaxEvents
           /\ made' = [made EXCEPT ![t] = made[t] + k]
           /\ held[Session(t)] = <<>>
           /\ held'[Session(t)] \in Seq(Event)
           /\ Len(held'[Session(t)]) = k
           /\ \A i \in 1..k : held'[Session(t)][i] = [tool |-> t, n |-> made[t] + i]
           /\ \A r \in Places \ {Session(t)} : held'[r] = held[r]
           /\ TypeOK'
  <1> DEFINE burst == [i \in 1..k |-> [tool |-> t, n |-> made[t] + i]]
  <1>1. made[t] \in Nat /\ k \in Nat /\ made[t] + k <= MaxEvents /\ MaxEvents \in Nat
    BY SizeAssumption DEF HandleEvent, TypeOK
  <1>2. \A i \in 1..k : [tool |-> t, n |-> made[t] + i] \in Event
    BY <1>1 DEF Event
  <1>3. burst \in Seq(Event) /\ Len(burst) = k
    BY <1>1, <1>2
  <1>4. Session(t) \in Places /\ held' = [held EXCEPT ![Session(t)] = burst]
    BY PlaceNames DEF HandleEvent
  <1>5. held'[Session(t)] = burst /\ \A r \in Places \ {Session(t)} : held'[r] = held[r]
    BY <1>4 DEF TypeOK
  <1>6. held' \in [Places -> Seq(Event)]
    BY <1>3, <1>4 DEF TypeOK
  <1>7. made' \in [Tools -> 0..MaxEvents]
    BY <1>1 DEF HandleEvent, TypeOK
  <1>8. TypeOK'
    BY <1>6, <1>7 DEF TypeOK, HandleEvent
  <1> QED
    BY <1>1, <1>3, <1>5, <1>8 DEF HandleEvent

(***************************************************************************)
(* Type correctness and routing.                                           *)
(***************************************************************************)

\* After a move every event of place r was there before, or r is the target
\* and it is the event moved.
LEMMA MoveAdds ==
    ASSUME TypeOK, NEW p \in Places, NEW q \in Places, p # q, Move(p, q),
           NEW r \in Places, NEW i \in DOMAIN held'[r]
    PROVE  \/ \E j \in DOMAIN held[r] : held'[r][i] = held[r][j]
           \/ r = q /\ held'[r][i] = Head(held[p])
  <1>1. held[p] \in Seq(Event) /\ held[p] # <<>> /\ held[q] \in Seq(Event)
    BY MoveEffect DEF TypeOK
  <1>2. CASE r = p
    <2>1. held'[r] = Tail(held[p])
      BY <1>2, MoveEffect
    <2>2. i + 1 \in DOMAIN held[p] /\ Tail(held[p])[i] = held[p][i + 1]
      BY <1>1, <2>1
    <2> QED
      BY <1>2, <2>1, <2>2
  <1>3. CASE r = q
    <2>1. held'[r] = Append(held[q], Head(held[p]))
      BY <1>3, MoveEffect
    <2>2. CASE i = Len(held[q]) + 1
      BY <1>1, <1>3, <2>1, <2>2, MoveEffect
    <2>3. CASE i # Len(held[q]) + 1
      <3>1. i \in DOMAIN held[q] /\ held'[r][i] = held[q][i]
        BY <1>1, <2>1, <2>3, MoveEffect
      <3> QED
        BY <1>3, <3>1
    <2> QED
      BY <2>2, <2>3
  <1>4. CASE r # p /\ r # q
    BY <1>4, MoveEffect
  <1> QED
    BY <1>2, <1>3, <1>4

\* A proper move puts no event where its name is not handled.
LEMMA ProperKeepsIInv ==
    ASSUME IInv, NEW p \in Places, NEW q \in Places, Proper(p, q)
    PROVE  IInv'
  <1>1. TypeOK /\ p # q /\ Move(p, q)
    BY DEF IInv, Proper
  <1>2. TypeOK'
    BY <1>1, MoveTyped
  <1>3. NoSilentDrop'
    <2>1. held'[Dropped] = held[Dropped]
      BY <1>1, MoveEffect, PlaceNames DEF Proper, Sinks
    <2>2. ASSUME NEW d \in Detectors, NEW r \in AtDetector(d), NEW i \in DOMAIN held'[r]
          PROVE  held'[r][i].tool \in Handled(d)
      <3>1. r \in Places
        BY PlaceNames DEF AtDetector
      <3>2. CASE \E j \in DOMAIN held[r] : held'[r][i] = held[r][j]
        BY <3>2 DEF IInv, NoSilentDrop
      <3>3. CASE r = q /\ held'[r][i] = Head(held[p])
        BY <3>3 DEF Proper
      <3> QED
        BY <1>1, <3>1, <3>2, <3>3, MoveAdds
    <2> QED
      BY <2>1, <2>2 DEF IInv, NoSilentDrop
  <1>4. EntriesRight'
    <2> SUFFICES ASSUME NEW r \in {Entries, Exported}, NEW i \in DOMAIN held'[r]
                 PROVE  held'[r][i].tool \notin Stored("cpu")
      BY DEF EntriesRight
    <2>1. r \in Places
      BY PlaceNames DEF Sinks
    <2>2. CASE \E j \in DOMAIN held[r] : held'[r][i] = held[r][j]
      BY <2>2 DEF IInv, EntriesRight
    <2>3. CASE r = q /\ held'[r][i] = Head(held[p])
      <3>1. CASE r = Entries
        BY <2>3, <3>1 DEF Proper
      <3>2. CASE r = Exported
        <4>1. p = Entries /\ held[p] # <<>>
          BY <1>1, <2>3, <3>2 DEF Proper, Move
        <4>2. 1 \in DOMAIN held[p] /\ Head(held[p]) = held[p][1]
          BY <1>1, <4>1, HeadTyped
        <4> QED
          BY <2>3, <4>1, <4>2 DEF IInv, EntriesRight
      <3> QED
        BY <3>1, <3>2
    <2> QED
      BY <1>1, <2>1, <2>2, <2>3, MoveAdds
  <1> QED
    BY <1>2, <1>3, <1>4 DEF IInv

\* A session's new events are events of its own tool, and wait at the session.
LEMMA BurstKeepsIInv ==
    ASSUME IInv, NEW t \in Tools, NEW k \in 1..MaxBurst, HandleEvent(t, k)
    PROVE  IInv'
  <1>1. TypeOK /\ TypeOK'
    BY BurstEffect DEF IInv
  <1>2. \A r \in Places \ {Session(t)} : held'[r] = held[r]
    BY <1>1, BurstEffect
  <1>3. /\ Dropped \in Places \ {Session(t)}
        /\ Entries \in Places \ {Session(t)} /\ Exported \in Places \ {Session(t)}
        /\ \A d \in Detectors : AtDetector(d) \subseteq Places \ {Session(t)}
    BY PlaceNames
    DEF Sinks, AtDetector, Session, EventChan, Worker, Entries, Exported, Dropped, Trie
  <1>4. NoSilentDrop'
    BY <1>2, <1>3 DEF IInv, NoSilentDrop
  <1>5. EntriesRight'
    BY <1>2, <1>3 DEF IInv, EntriesRight
  <1> QED
    BY <1>1, <1>4, <1>5 DEF IInv

\* Routing and typing hold together: that no event is dropped by
\* sendToConsumers, ProcessEvent or the processor's Consume depends on the
\* types of the queues, and the choice of exporter or trie on both.
THEOREM IInvHolds == Safety => []IInv
  <1>1. Init => IInv
    <2> SUFFICES ASSUME Init PROVE IInv
      OBVIOUS
    <2>1. TypeOK
      BY SizeAssumption DEF Init, TypeOK
    <2>2. \A r \in Places : held[r] = <<>>
      BY DEF Init
    <2>3. \A d \in Detectors : AtDetector(d) \subseteq Places
      BY PlaceNames DEF AtDetector
    <2>4. NoSilentDrop
      BY <2>2, <2>3, PlaceNames DEF NoSilentDrop, Sinks
    <2>5. EntriesRight
      BY <2>2, PlaceNames DEF EntriesRight, Sinks
    <2> QED
      BY <2>1, <2>4, <2>5 DEF IInv
  <1>2. IInv /\ [Next]_vars => IInv'
    <2> SUFFICES ASSUME IInv, [Next]_vars PROVE IInv'
      OBVIOUS
    <2>1. ASSUME NEW t \in Tools, StartTool(t) PROVE IInv'
      BY <2>1 DEF StartTool, IInv, TypeOK, NoSilentDrop, EntriesRight
    <2>2. ASSUME NEW t \in Tools, NEW k \in 1..MaxBurst, HandleEvent(t, k) PROVE IInv'
      BY <2>2, BurstKeepsIInv
    <2>3. ASSUME NEW p \in Places, NEW q \in Places, Proper(p, q) PROVE IInv'
      BY <2>3, ProperKeepsIInv
    <2>4. ASSUME UNCHANGED vars PROVE IInv'
      BY <2>4 DEF vars, IInv, TypeOK, NoSilentDrop, EntriesRight
    <2> QED
      BY <2>1, <2>2, <2>3, <2>4, StepKinds
  <1> QED
    BY <1>1, <1>2, PTL DEF Safety

\* Each reachable state of the pipeline is well typed: only events of known
\* tools are in its queues (receiver.go, cpudetector.go, memdetector.go).
THEOREM TypeCorrect == Safety => []TypeOK
  <1>1. IInv => TypeOK
    BY DEF IInv
  <1> QED
    BY <1>1, IInvHolds, PTL

\* The lists of the sessions, the detectors and the processor agree for
\* every choice of tools: no event is given up on the way.
THEOREM NothingDropped == Safety => []NoSilentDrop
  <1>1. IInv => NoSilentDrop
    BY DEF IInv
  <1> QED
    BY <1>1, IInvHolds, PTL

(***************************************************************************)
(* Bounded channels.                                                       *)
(***************************************************************************)
\* Every place has room for at least one event.
LEMMA CapacityIsNat == \A p \in Places : Capacity(p) \in Nat \ {0}
  BY SizeAssumption DEF Capacity

\* No channel exceeds the size it was made with, and no goroutine holds two
\* events: a send blocks until there is room.
THEOREM CapacityRespected == Safety => []WithinCapacity
  <1>1. Init => WithinCapacity
    BY CapacityIsNat DEF Init, WithinCapacity
  <1>2. IInv /\ WithinCapacity /\ [Next]_vars => WithinCapacity'
    <2> SUFFICES ASSUME IInv, WithinCapacity, [Next]_vars PROVE WithinCapacity'
      OBVIOUS
    <2>0. TypeOK
      BY DEF IInv
    <2>1. ASSUME NEW t \in Tools, StartTool(t) PROVE WithinCapacity'
      BY <2>1 DEF StartTool, WithinCapacity
    <2>2. ASSUME NEW t \in Tools, NEW k \in 1..MaxBurst, HandleEvent(t, k)
          PROVE  WithinCapacity'
      <3>1. Capacity(Session(t)) = MaxBurst
        BY DEF Capacity, Session
      <3>2. Len(held'[Session(t)]) <= MaxBurst
        BY <2>2, <2>0, BurstEffect, SizeAssumption
      <3> QED
        BY <2>2, <3>1, <3>2, <2>0, BurstEffect DEF WithinCapacity
    <2>3. ASSUME NEW p \in Places, NEW q \in Places, p # q, Move(p, q)
          PROVE  WithinCapacity'
      <3> SUFFICES ASSUME NEW r \in Places \ {Exported, Trie, Dropped}
                   PROVE  Len(held'[r]) <= Capacity(r)
        BY DEF WithinCapacity
      <3>1. CASE r = p
        <4>1. Len(Tail(held[p])) = Len(held[p]) - 1 /\ Len(held[p]) \in Nat
          BY <2>3, <2>0, MoveEffect
        <4>2. Len(held[p]) <= Capacity(p)
          BY <3>1 DEF WithinCapacity
        <4>3. held'[p] = Tail(held[p])
          BY <2>3, <2>0, MoveEffect
        <4> QED
          BY <3>1, <4>1, <4>2, <4>3, CapacityIsNat
      <3>2. CASE r = q
        <4>1. held[q] \in Seq(Event) /\ Head(held[p]) \in Event
          BY <2>3, <2>0, MoveEffect DEF TypeOK
        <4>2. Len(Append(held[q], Head(held[p]))) = Len(held[q]) + 1 /\ Len(held[q]) \in Nat
          BY <4>1
        <4>3. Len(held[q]) < Capacity(q)
          BY <2>3, <3>2 DEF Move, HasRoom
        <4>4. held'[q] = Append(held[q], Head(held[p]))
          BY <2>3, <2>0, MoveEffect
        <4> QED
          BY <3>2, <4>2, <4>3, <4>4, CapacityIsNat
      <3>3. CASE r # p /\ r # q
        BY <2>3, <3>3, <2>0, MoveEffect DEF WithinCapacity
      <3> QED
        BY <3>1, <3>2, <3>3
    <2>4. ASSUME UNCHANGED vars PROVE WithinCapacity'
      BY <2>4 DEF vars, WithinCapacity
    <2> QED
      BY <2>1, <2>2, <2>3, <2>4, StepKinds DEF Proper
  <1> QED
    BY <1>1, <1>2, IInvHolds, PTL DEF Safety

(***************************************************************************)
(* Conservation.  A move changes the position of events, not their number: *)
(* the event at position i of place r after the move was at position       *)
(* OldIndex of place OldPlace before it, and different positions come from *)
(* different positions.                                                    *)
(***************************************************************************)
OldPlace(p, q, r, i) == IF r = q /\ i = Len(held[q]) + 1 THEN p ELSE r

OldIndex(p, q, r, i) ==
    IF r = p THEN i + 1 ELSE IF r = q /\ i = Len(held[q]) + 1 THEN 1 ELSE i

\* Each event after a move was somewhere before it, at the place and index
\* OldPlace and OldIndex name.
LEMMA MoveOrigin ==
    ASSUME TypeOK, NEW p \in Places, NEW q \in Places, p # q, Move(p, q),
           NEW r \in Places, NEW i \in DOMAIN held'[r]
    PROVE  /\ OldPlace(p, q, r, i) \in Places
           /\ OldIndex(p, q, r, i) \in DOMAIN held[OldPlace(p, q, r, i)]
           /\ held'[r][i] = held[OldPlace(p, q, r, i)][OldIndex(p, q, r, i)]
  <1>1. held[p] \in Seq(Event) /\ held[p] # <<>> /\ held[q] \in Seq(Event)
    BY MoveEffect DEF TypeOK
  <1>2. CASE r = p
    <2>1. held'[r] = Tail(held[p])
      BY <1>2, MoveEffect
    <2>2. i + 1 \in DOMAIN held[p] /\ Tail(held[p])[i] = held[p][i + 1]
      BY <1>1, <2>1
    <2> QED
      BY <1>2, <2>1, <2>2 DEF OldPlace, OldIndex
  <1>3. CASE r = q
    <2>1. held'[r] = Append(held[q], Head(held[p]))
      BY <1>3, MoveEffect
    <2>2. CASE i = Len(held[q]) + 1
      <3>1. held'[r][i] = Head(held[p]) /\ Head(held[p]) = held[p][1] /\ 1 \in DOMAIN held[p]
        BY <1>1, <2>1, <2>2, MoveEffect
      <3> QED
        BY <1>3, <2>2, <3>1 DEF OldPlace, OldIndex
    <2>3. CASE i # Len(held[q]) + 1
      <3>1. i \in DOMAIN held[q] /\ held'[r][i] = held[q][i]
        BY <1>1, <2>1, <2>3, MoveEffect
      <3> QED
        BY <1>3, <2>3, <3>1 DEF OldPlace, OldIndex
    <2> QED
      BY <2>2, <2>3
  <1>4. CASE r # p /\ r # q
    BY <1>4, MoveEffect DEF OldPlace, OldIndex
  <1> QED
    BY <1>2, <1>3, <1>4

\* A move duplicates no event: different events come from different origins.
LEMMA MoveKeepsNoDuplicate ==
    ASSUME TypeOK, NoDuplicate, NEW p \in Places, NEW q \in Places, p # q, Move(p, q)
    PROVE  NoDuplicate'
  <1> SUFFICES ASSUME NEW r \in Places, NEW s \in Places,
                      NEW i \in DOMAIN held'[r], NEW j \in DOMAIN held'[s],
                      held'[r][i] = held'[s][j]
               PROVE  r = s /\ i = j
    BY DEF NoDuplicate
  <1>1. /\ OldPlace(p, q, r, i) = OldPlace(p, q, s, j)
        /\ OldIndex(p, q, r, i) = OldIndex(p, q, s, j)
    BY MoveOrigin DEF NoDuplicate
  <1>2. held'[r] \in Seq(Event) /\ held'[s] \in Seq(Event)
    BY MoveTyped DEF TypeOK
  <1>3. i \in Nat \ {0} /\ j \in Nat \ {0}
    BY <1>2
  <1>4. Len(held[q]) \in Nat
    BY DEF TypeOK
  <1> QED
    BY <1>1, <1>3, <1>4 DEF OldPlace, OldIndex

\* A move makes no event.
LEMMA MoveKeepsNothingInvented ==
    ASSUME TypeOK, NothingInvented, NEW p \in Places, NEW q \in Places, p # q, Move(p, q)
    PROVE  NothingInvented'
  BY MoveOrigin, MoveEffect DEF NothingInvented

\* A move loses no event: the head it takes from p is at the end of q.
LEMMA MoveKeepsNothingLost ==
    ASSUME TypeOK, NothingLost, NEW p \in Places, NEW q \in Places, p # q, Move(p, q)
    PROVE  NothingLost'
  <1>1. held[p] \in Seq(Event) /\ held[p] # <<>> /\ held[q] \in Seq(Event)
    BY MoveEffect DEF TypeOK
  <1>2. Range(held[p]) = Range(held'[p]) \cup {Head(held[p])}
    <2>1. held'[p] = Tail(held[p])
      BY MoveEffect
    <2>2. \A i \in DOMAIN held[p] :
              held[p][i] = Head(held[p]) \/ \E j \in DOMAIN Tail(held[p]) : Tail(held[p])[j] = held[p][i]
      <3> SUFFICES ASSUME NEW i \in DOMAIN held[p], i # 1
                   PROVE  \E j \in DOMAIN Tail(held[p]) : Tail(held[p])[j] = held[p][i]
        BY <1>1
      <3>1. i - 1 \in DOMAIN Tail(held[p]) /\ Tail(held[p])[i - 1] = held[p][i]
        BY <1>1
      <3> QED
        BY <3>1
    <2>3. \A j \in DOMAIN Tail(held[p]) : j + 1 \in DOMAIN held[p] /\ Tail(held[p])[j] = held[p][j + 1]
      BY <1>1
    <2>4. Head(held[p]) = held[p][1] /\ 1 \in DOMAIN held[p]
      BY <1>1
    <2> QED
      BY <2>1, <2>2, <2>3, <2>4 DEF Range
  <1>3. Range(held'[q]) = Range(held[q]) \cup {Head(held[p])}
    <2>1. held'[q] = Append(held[q], Head(held[p]))
      BY MoveEffect
    <2> DEFINE s == Append(held[q], Head(held[p]))
    <2>2. /\ DOMAIN s = DOMAIN held[q] \cup {Len(held[q]) + 1}
          /\ \A i \in DOMAIN held[q] : s[i] = held[q][i]
          /\ s[Len(held[q]) + 1] = Head(held[p])
      BY <1>1, MoveEffect
    <2> HIDE DEF s
    <2>3. Range(s) = Range(held[q]) \cup {Head(held[p])}
      BY <2>2 DEF Range
    <2> QED
      BY <2>1, <2>3 DEF s
  <1> SUFFICES ASSUME NEW t \in Tools, NEW n \in 1..made[t]
               PROVE  \E r \in Places : [tool |-> t, n |-> n] \in Range(held'[r])
    BY MoveEffect DEF NothingLost
  <1>4. PICK r \in Places : [tool |-> t, n |-> n] \in Range(held[r])
    BY DEF NothingLost
  <1>5. CASE r = p
    BY <1>2, <1>3, <1>4, <1>5
  <1>6. CASE r # p
    BY <1>3, <1>4, <1>6, MoveEffect
  <1> QED
    BY <1>5, <1>6

\* The events of a burst are new: their numbers follow those of all earlier
\* events of the tool.
LEMMA BurstKeepsConservation ==
    ASSUME TypeOK, Conservation, NEW t \in Tools, NEW k \in 1..MaxBurst, HandleEvent(t, k)
    PROVE  Conservation'
  <1> DEFINE S == Session(t)
  <1>1. S \in Places /\ k \in Nat
    BY PlaceNames, SizeAssumption
  <1>2. DOMAIN held'[S] = 1..k
    BY BurstEffect, <1>1
  <1>3. \A i \in 1..k : held'[S][i] = [tool |-> t, n |-> made[t] + i]
    BY BurstEffect
  <1>3a. \A i \in 1..k : held'[S][i].tool = t /\ held'[S][i].n = made[t] + i
    <2> SUFFICES ASSUME NEW i \in 1..k
                 PROVE  held'[S][i].tool = t /\ held'[S][i].n = made[t] + i
      OBVIOUS
    <2> DEFINE e == [tool |-> t, n |-> made[t] + i]
    <2>1. held'[S][i] = e
      BY <1>3
    <2>2. e.tool = t /\ e.n = made[t] + i
      OBVIOUS
    <2> QED
      BY <2>1, <2>2
  <1>4. \A r \in Places : r # S => held'[r] = held[r]
    BY BurstEffect
  <1>5. made[t] \in Nat /\ made'[t] = made[t] + k /\ \A u \in Tools : u # t => made'[u] = made[u]
    BY BurstEffect DEF TypeOK
  <1>6. \A u \in Tools : made[u] \in Nat /\ made[u] <= made'[u]
    BY <1>1, <1>5 DEF TypeOK
  <1>7. \A r \in Places : \A i \in DOMAIN held[r] :
            held[r][i].tool \in Tools /\ held[r][i].n \in 1..made[held[r][i].tool]
    <2> SUFFICES ASSUME NEW r \in Places, NEW i \in DOMAIN held[r]
                 PROVE  held[r][i].tool \in Tools /\ held[r][i].n \in 1..made[held[r][i].tool]
      OBVIOUS
    <2>1. held[r] \in Seq(Event)
      BY DEF TypeOK
    <2>2. held[r][i] \in Event
      BY <2>1
    <2> QED
      BY <2>2 DEF Event, Conservation, NothingInvented
  <1> HIDE DEF S
  <1>8. NoDuplicate'
    <2> SUFFICES ASSUME NEW r \in Places, NEW s \in Places,
                        NEW i \in DOMAIN held'[r], NEW j \in DOMAIN held'[s],
                        held'[r][i] = held'[s][j]
                 PROVE  r = s /\ i = j
      BY DEF NoDuplicate
    <2>1. CASE r = S /\ s = S
      <3>1. i \in 1..k /\ j \in 1..k
        BY <2>1, <1>2
      <3>2. made[t] + i = made[t] + j
        BY <2>1, <3>1, <1>3a
      <3> QED
        BY <2>1, <3>1, <3>2, <1>1, <1>5
    <2>2. CASE r # S /\ s # S
      BY <2>2, <1>4 DEF Conservation, NoDuplicate
    <2>3. ASSUME NEW x \in Places, NEW y \in DOMAIN held'[x], x # S, NEW z \in DOMAIN held'[S]
          PROVE  held'[x][y] # held'[S][z]
      <3>1. y \in DOMAIN held[x] /\ held'[x][y] = held[x][y]
        BY <2>3, <1>4
      <3>2. held[x][y].tool = t => held[x][y].n <= made[t]
        BY <3>1, <1>5, <1>7
      <3>3. held'[S][z].tool = t /\ held'[S][z].n = made[t] + z /\ z \in 1..k
        BY <1>2, <1>3a
      <3> QED
        BY <3>1, <3>2, <3>3, <1>1, <1>5
    <2> QED
      BY <2>1, <2>2, <2>3
  <1>9. NothingInvented'
    <2> SUFFICES ASSUME NEW r \in Places, NEW i \in DOMAIN held'[r]
                 PROVE  held'[r][i].n \in 1..made'[held'[r][i].tool]
      BY DEF NothingInvented
    <2>1. CASE r = S
      <3>1. i \in 1..k /\ held'[r][i].tool = t /\ held'[r][i].n = made[t] + i
        BY <2>1, <1>2, <1>3a
      <3>2. made[t] + i \in 1..made'[t]
        BY <3>1, <1>1, <1>5
      <3> QED
        BY <3>1, <3>2
    <2>2. CASE r # S
      <3>1. i \in DOMAIN held[r] /\ held'[r][i] = held[r][i]
        BY <2>2, <1>4
      <3> DEFINE e == held[r][i]
      <3>2. e.tool \in Tools /\ e.n \in 1..made[e.tool]
        BY <3>1, <1>7
      <3> HIDE DEF e
      <3>3. e.n \in 1..made'[e.tool]
        <4>1. made[e.tool] \in Nat /\ made'[e.tool] \in Nat /\ made[e.tool] <= made'[e.tool]
          BY <3>2, <1>1, <1>5, <1>6
        <4> QED
          BY <3>2, <4>1
      <3> QED
        BY <3>1, <3>3 DEF e
    <2> QED
      BY <2>1, <2>2
  <1>10. NothingLost'
    <2> SUFFICES ASSUME NEW u \in Tools, NEW m \in 1..made'[u]
                 PROVE  \E r \in Places : [tool |-> u, n |-> m] \in Range(held'[r])
      BY DEF NothingLost
    <2>1. CASE m <= made[u]
      <3>1. m \in 1..made[u]
        BY <2>1, <1>6
      <3>2. PICK r \in Places : [tool |-> u, n |-> m] \in Range(held[r])
        BY <3>1 DEF Conservation, NothingLost
      <3>3. held[S] = <<>>
        BY BurstEffect DEF S
      <3>4. r # S
        BY <3>2, <3>3 DEF Range
      <3> QED
        BY <3>2, <3>4, <1>4
    <2>2. CASE ~(m <= made[u])
      <3>1. u = t /\ m - made[t] \in 1..k
        BY <2>2, <1>1, <1>5, <1>6
      <3>2. held'[S][m - made[t]] = [tool |-> u, n |-> m]
        BY <3>1, <1>2, <1>3, <1>5
      <3> QED
        BY <3>1, <3>2, <1>1, <1>2 DEF Range
    <2> QED
      BY <2>1, <2>2
  <1> QED
    BY <1>8, <1>9, <1>10 DEF Conservation

\* Between the session that built it and the exporter or the trie, no event
\* is lost, invented or duplicated, however many consumeEvents and
\* ConsumeChanEvents goroutines share the channels.
THEOREM Conserved == Safety => []Conservation
  <1>1. Init => Conservation
    BY DEF Init, Conservation, NoDuplicate, NothingLost, NothingInvented
  <1>2. IInv /\ Conservation /\ [Next]_vars => Conservation'
    <2> SUFFICES ASSUME IInv, Conservation, [Next]_vars PROVE Conservation'
      OBVIOUS
    <2>0. TypeOK
      BY DEF IInv
    <2>1. ASSUME NEW t \in Tools, StartTool(t) PROVE Conservation'
      BY <2>1 DEF StartTool, Conservation, NoDuplicate, NothingLost, NothingInvented
    <2>2. ASSUME NEW t \in Tools, NEW k \in 1..MaxBurst, HandleEvent(t, k)
          PROVE  Conservation'
      BY <2>0, <2>2, BurstKeepsConservation
    <2>3. ASSUME NEW p \in Places, NEW q \in Places, p # q, Move(p, q)
          PROVE  Conservation'
      BY <2>0, <2>3, MoveKeepsNoDuplicate, MoveKeepsNothingLost, MoveKeepsNothingInvented
      DEF Conservation
    <2>4. ASSUME UNCHANGED vars PROVE Conservation'
      BY <2>4 DEF vars, Conservation, NoDuplicate, NothingLost, NothingInvented
    <2> QED
      BY <2>1, <2>2, <2>3, <2>4, StepKinds DEF Proper
  <1> QED
    BY <1>1, <1>2, IInvHolds, PTL DEF Safety

(***************************************************************************)
(* The pipeline implements EventDelivery: a burst is a Produce, the move   *)
(* into Exported a Deliver, the move into the trie a Keep, and every other *)
(* step leaves made, Exported and the trie alone.                          *)
(***************************************************************************)

\* The head of a place that is not a sink has been produced and is in no sink.
LEMMA HeadUnsettled ==
    ASSUME TypeOK, Conservation, NEW p \in Places, p \notin Sinks, held[p] # <<>>
    PROVE  LET e == Head(held[p])
           IN  e \in Event /\ Delivery!Produced(e) /\ ~Delivery!Settled(e)
  <1> DEFINE e == Head(held[p])
  <1>1. e \in Event /\ 1 \in DOMAIN held[p] /\ e = held[p][1]
    BY HeadTyped
  <1>2. Delivery!Produced(e)
    BY <1>1 DEF Conservation, NothingInvented, Delivery!Produced
  <1>3. ASSUME NEW s \in Sinks PROVE e \notin Range(held[s])
    <2>1. s \in Places /\ s # p
      BY PlaceNames
    <2>2. \A j \in DOMAIN held[s] : held[s][j] # held[p][1]
      BY <1>1, <2>1 DEF Conservation, NoDuplicate
    <2> QED
      BY <1>1, <2>2 DEF Range
  <1>4. ~Delivery!Settled(e)
    BY <1>3 DEF Delivery!Settled, Sinks, Delivery!Range, Range
  <1> QED
    BY <1>1, <1>2, <1>4

\* A proper move is a Deliver, a Keep or a stutter of EventDelivery.
LEMMA ProperRefines ==
    ASSUME IInv, Conservation, NEW p \in Places, NEW q \in Places, Proper(p, q)
    PROVE  [Delivery!Next]_(Delivery!vars)
  <1> DEFINE e == Head(held[p])
  <1>1. TypeOK /\ p # q /\ Move(p, q) /\ p \notin Sinks /\ held[p] # <<>>
    BY DEF IInv, Proper, Move
  <1>2. e \in Event /\ Delivery!Produced(e) /\ ~Delivery!Settled(e) /\ e.tool \in Tools
    BY <1>1, HeadUnsettled DEF Event
  <1>3. UNCHANGED made
    BY <1>1, MoveEffect
  <1>4. \A s \in Sinks : s # q => held'[s] = held[s]
    BY <1>1, PlaceNames, MoveEffect
  <1>5. held'[q] = Append(held[q], e)
    BY <1>1, MoveEffect
  <1>6. e \in Delivery!Event
    BY <1>2 DEF Event, Delivery!Event
  <1> HIDE DEF e
  <1>7. CASE q = Exported
    <2>1. e.tool \notin Stored("cpu")
      BY <1>1, <1>7, HeadTyped DEF IInv, EntriesRight, Proper, e
    <2>2. held'[Trie] = held[Trie]
      BY <1>4, <1>7 DEF Sinks, Trie, Exported
    <2>3. Delivery!Deliver(e)
      BY <1>2, <1>3, <1>5, <1>7, <2>1, <2>2 DEF Delivery!Deliver
    <2> QED
      BY <1>6, <2>3 DEF Delivery!Next
  <1>8. CASE q = Trie
    <2>1. e.tool \in Stored("cpu")
      BY <1>8 DEF Proper, e
    <2>2. held'[Exported] = held[Exported]
      BY <1>4, <1>8 DEF Sinks, Trie, Exported
    <2>3. Delivery!Keep(e)
      BY <1>2, <1>3, <1>5, <1>8, <2>1, <2>2 DEF Delivery!Keep
    <2> QED
      BY <1>6, <2>3 DEF Delivery!Next
  <1>9. CASE q # Exported /\ q # Trie
    BY <1>3, <1>4, <1>9 DEF Sinks, Delivery!vars
  <1> QED
    BY <1>7, <1>8, <1>9

\* What leaves the pipeline is what EventDelivery allows, for every set of
\* tools and every capacity of the channels.
THEOREM Implements == Safety => DeliverySafety
  <1>1. Init => Delivery!Init
    BY PlaceNames DEF Init, Delivery!Init, Sinks
  <1>2. IInv /\ Conservation /\ [Next]_vars => [Delivery!Next]_(Delivery!vars)
    <2> SUFFICES ASSUME IInv, Conservation, [Next]_vars
                 PROVE  [Delivery!Next]_(Delivery!vars)
      OBVIOUS
    <2>1. ASSUME NEW t \in Tools, StartTool(t) PROVE UNCHANGED Delivery!vars
      BY <2>1 DEF StartTool, Delivery!vars
    <2>2. ASSUME NEW t \in Tools, NEW k \in 1..MaxBurst, HandleEvent(t, k)
          PROVE  Delivery!Next
      <3>1. held'[Exported] = held[Exported] /\ held'[Trie] = held[Trie]
        <4>1. Exported \in Places \ {Session(t)} /\ Trie \in Places \ {Session(t)}
          BY PlaceNames DEF Sinks, Session, Exported, Trie
        <4> QED
          BY <2>2, <4>1, BurstEffect DEF IInv
      <3>2. Delivery!Produce(t, k)
        BY <2>2, <3>1 DEF HandleEvent, Delivery!Produce
      <3> QED
        BY <3>2 DEF Delivery!Next
    <2>3. ASSUME NEW p \in Places, NEW q \in Places, Proper(p, q)
          PROVE  [Delivery!Next]_(Delivery!vars)
      BY <2>3, ProperRefines
    <2>4. ASSUME UNCHANGED vars PROVE UNCHANGED Delivery!vars
      BY <2>4 DEF vars, Delivery!vars
    <2> QED
      BY <2>1, <2>2, <2>3, <2>4, StepKinds
  <1> QED
    BY <1>1, <1>2, IInvHolds, Conserved, PTL
    DEF Safety, DeliverySafety, Delivery!Safety

(***************************************************************************)
(* The order of one tool's events.  While one tool runs, its events are on *)
(* one path from the session to the exporter or the trie; counted from the *)
(* end of that path they are numbered without a gap.                       *)
(***************************************************************************)
DetectorOf(t) == IF t = "cachestat" THEN "mem" ELSE "cpu"

InTrie(t) == t \in Stored("cpu")

\* The places on the path of the events of t, from the last one back.  An
\* event for the trie does not pass the exporter's channel, which is put
\* behind the trie.
Stage(t, j) ==
    CASE j = 0 -> IF InTrie(t) THEN Entries ELSE Exported
      [] j = 1 -> IF InTrie(t) THEN Trie ELSE Entries
      [] j = 2 -> Worker(DetectorOf(t), t)
      [] j = 3 -> EventChan(DetectorOf(t))
      [] j = 4 -> Receiver(t)
      [] j = 5 -> EventCh
      [] j = 6 -> Session(t)

\* The events of sequence s are those of t that follow number b.
Follow(s, t, b) == \A i \in 1..Len(s) : s[i] = [tool |-> t, n |-> b + i]

\* off[j] events are on the stages before j.
Numbered(t, off) ==
    /\ off \in [0..7 -> Nat]
    /\ off[0] = 0 /\ off[7] = made[t]
    /\ \A j \in 0..6 :
          /\ off[j + 1] = off[j] + Len(held[Stage(t, j)])
          /\ Follow(held[Stage(t, j)], t, off[j])

OnPath(t) ==
    /\ \A p \in Places : (\A j \in 0..6 : p # Stage(t, j)) => held[p] = <<>>
    /\ \E off \in [0..7 -> Nat] : Numbered(t, off)

OrderInv ==
    /\ \A t \in Tools \ started : made[t] = 0
    /\ started = {} => \A p \in Places : held[p] = <<>>
    /\ \A t \in Tools : started = {t} => OnPath(t)

\* The stages one by one.
LEMMA StageNames ==
    ASSUME NEW t \in Tools
    PROVE  /\ Stage(t, 0) = IF InTrie(t) THEN Entries ELSE Exported
           /\ Stage(t, 1) = IF InTrie(t) THEN Trie ELSE Entries
           /\ Stage(t, 2) = Worker(DetectorOf(t), t) /\ Stage(t, 3) = EventChan(DetectorOf(t))
           /\ Stage(t, 4) = Receiver(t) /\ Stage(t, 5) = EventCh /\ Stage(t, 6) = Session(t)
           /\ DetectorOf(t) \in Detectors
  BY DEF Stage, DetectorOf, Detectors

\* They are places, and different ones.
LEMMA StagesDiffer ==
    ASSUME NEW t \in Tools
    PROVE  /\ \A j \in 0..6 : Stage(t, j) \in Places
           /\ \A j, k \in 0..6 : Stage(t, j) = Stage(t, k) => j = k
  <1>1. \A j \in 0..6 : j \in {0, 1, 2, 3, 4, 5, 6}
    OBVIOUS
  <1>2. \A j \in 0..6 : Stage(t, j) \in Places
    BY <1>1, StageNames, PlaceNames DEF Sinks
  <1>3. /\ Stage(t, 2)[1] = "worker" /\ Stage(t, 3)[1] = "eventChan" /\ Stage(t, 4)[1] = "receiver"
        /\ Stage(t, 5)[1] = "eventCh" /\ Stage(t, 6)[1] = "session"
        /\ \/ Stage(t, 0)[1] = "entries" /\ Stage(t, 1)[1] = "trie"
           \/ Stage(t, 0)[1] = "exported" /\ Stage(t, 1)[1] = "entries"
    BY StageNames DEF Worker, EventChan, Receiver, EventCh, Session, Entries, Exported, Trie
  <1>4. \A j, k \in 0..6 : Stage(t, j) = Stage(t, k) => j = k
    BY <1>1, <1>3
  <1> QED
    BY <1>2, <1>4

\* The first event leaves a stage.
LEMMA FollowTail ==
    ASSUME NEW s \in Seq(Event), s # <<>>, NEW t, NEW b \in Nat, Follow(s, t, b)
    PROVE  /\ Tail(s) \in Seq(Event) /\ Len(Tail(s)) \in Nat /\ Len(s) = Len(Tail(s)) + 1
           /\ Head(s) = [tool |-> t, n |-> b + 1]
           /\ Follow(Tail(s), t, b + 1)
  <1>1. /\ Len(s) \in Nat /\ Len(s) # 0 /\ Head(s) = s[1]
        /\ Tail(s) \in Seq(Event) /\ Len(Tail(s)) = Len(s) - 1
        /\ \A i \in 1..Len(Tail(s)) : Tail(s)[i] = s[i + 1]
    BY HeadTailProperties, EmptySeq, LenProperties
  <1>2. Len(Tail(s)) \in Nat /\ Len(s) = Len(Tail(s)) + 1
    BY <1>1
  <1>3. Head(s) = [tool |-> t, n |-> b + 1]
    <2>1. 1 \in 1..Len(s)
      BY <1>1
    <2> QED
      BY <1>1, <2>1 DEF Follow
  <1>4. ASSUME NEW i \in 1..Len(Tail(s)) PROVE Tail(s)[i] = [tool |-> t, n |-> (b + 1) + i]
    <2>1. i + 1 \in 1..Len(s) /\ b + (i + 1) = (b + 1) + i
      BY <1>1, <1>2
    <2>2. s[i + 1] = [tool |-> t, n |-> b + (i + 1)]
      BY <2>1 DEF Follow
    <2> QED
      BY <1>1, <2>1, <2>2
  <1> QED
    BY <1>1, <1>2, <1>3, <1>4 DEF Follow

\* The next event joins a stage.
LEMMA FollowAppend ==
    ASSUME NEW s \in Seq(Event), NEW t, NEW b \in Nat, Follow(s, t, b),
           NEW e \in Event, Follow(<<e>>, t, b + Len(s))
    PROVE  /\ Len(s) \in Nat /\ Len(Append(s, e)) = Len(s) + 1
           /\ Follow(Append(s, e), t, b)
  <1>1. /\ Len(s) \in Nat /\ Len(Append(s, e)) = Len(s) + 1
        /\ \A i \in 1..Len(s) : Append(s, e)[i] = s[i]
        /\ Append(s, e)[Len(s) + 1] = e
    BY AppendProperties, LenProperties
  <1>2. ASSUME NEW i \in 1..Len(Append(s, e)) PROVE Append(s, e)[i] = [tool |-> t, n |-> b + i]
    <2>1. CASE i \in 1..Len(s)
      BY <1>1, <2>1 DEF Follow
    <2>2. CASE i = Len(s) + 1
      <3>1. e = [tool |-> t, n |-> (b + Len(s)) + 1]
        <4>1. <<e>>[1] = e /\ Len(<<e>>) = 1 /\ 1 \in 1..1
          OBVIOUS
        <4> QED
          BY <4>1 DEF Follow
      <3>2. (b + Len(s)) + 1 = b + i
        BY <1>1, <2>2
      <3> QED
        BY <1>1, <2>2, <3>1, <3>2
    <2> QED
      BY <1>1, <2>1, <2>2
  <1> QED
    BY <1>1, <1>2 DEF Follow

\* An event goes from one stage to the next.
LEMMA MoveOnPath ==
    ASSUME TypeOK, NEW t \in Tools, OnPath(t), NEW k \in 0..5, Move(Stage(t, k + 1), Stage(t, k))
    PROVE  OnPath(t)'
  <1>1. PICK off \in [0..7 -> Nat] : Numbered(t, off)
    BY DEF OnPath
  <1>a. k \in 0..6 /\ k + 1 \in 0..6 /\ k + 1 \in 0..7 /\ (k + 1) + 1 \in 0..7
    OBVIOUS
  <1>2. PICK p \in Places : p = Stage(t, k + 1)
    BY <1>a, StagesDiffer
  <1>3. PICK q \in Places : q = Stage(t, k)
    BY <1>a, StagesDiffer
  <1>4. p # q /\ Move(p, q)
    BY <1>a, <1>2, <1>3, StagesDiffer
  <1>5. /\ held[p] \in Seq(Event) /\ held[p] # <<>> /\ held[q] \in Seq(Event)
        /\ Head(held[p]) \in Event
        /\ held'[p] = Tail(held[p])
        /\ held'[q] = Append(held[q], Head(held[p]))
        /\ \A r \in Places \ {p, q} : held'[r] = held[r]
        /\ made' = made
    BY <1>4, MoveEffect DEF TypeOK
  <1>6. PICK b \in Nat : b = off[k]
    BY <1>a
  <1>7. PICK c \in Nat : c = off[k + 1]
    BY <1>a
  <1>8. /\ c = b + Len(held[q]) /\ Follow(held[q], t, b)
        /\ off[(k + 1) + 1] = c + Len(held[p]) /\ Follow(held[p], t, c)
    BY <1>1, <1>a, <1>2, <1>3, <1>6, <1>7 DEF Numbered
  <1>9. /\ Len(held'[p]) \in Nat /\ Len(held[p]) = Len(held'[p]) + 1
        /\ Head(held[p]) = [tool |-> t, n |-> c + 1]
        /\ Follow(held'[p], t, c + 1)
    <2>1. PICK s \in Seq(Event) : s = held[p]
      BY <1>5
    <2>2. s # <<>> /\ Follow(s, t, c)
      BY <1>5, <1>8, <2>1
    <2>3. /\ Len(Tail(s)) \in Nat /\ Len(s) = Len(Tail(s)) + 1
          /\ Head(s) = [tool |-> t, n |-> c + 1]
          /\ Follow(Tail(s), t, c + 1)
      BY <2>2, FollowTail
    <2> QED
      BY <1>5, <2>1, <2>3
  <1>10. /\ Len(held[q]) \in Nat /\ Len(held'[q]) = Len(held[q]) + 1
         /\ Follow(held'[q], t, b)
    <2>1. PICK s \in Seq(Event) : s = held[q]
      BY <1>5
    <2>2. PICK e \in Event : e = Head(held[p])
      BY <1>5
    <2>3. Follow(s, t, b) /\ Follow(<<e>>, t, b + Len(s))
      <3>1. c = b + Len(s) /\ e = [tool |-> t, n |-> c + 1]
        BY <1>8, <1>9, <2>1, <2>2
      <3>2. Follow(<<e>>, t, c)
        <4>1. <<e>>[1] = e /\ Len(<<e>>) = 1 /\ 1..1 = {1}
          OBVIOUS
        <4> QED
          BY <3>1, <4>1 DEF Follow
      <3> QED
        BY <1>8, <2>1, <3>1, <3>2
    <2>4. Len(s) \in Nat /\ Len(Append(s, e)) = Len(s) + 1 /\ Follow(Append(s, e), t, b)
      BY <2>3, FollowAppend
    <2> QED
      BY <1>5, <2>1, <2>2, <2>4
  <1>11. PICK new \in [0..7 -> Nat] : new = [off EXCEPT ![k + 1] = c + 1]
    <2>1. [off EXCEPT ![k + 1] = c + 1] \in [0..7 -> Nat]
      BY <1>a
    <2> QED
      BY <2>1
  <1>12. new[k + 1] = c + 1 /\ \A j \in 0..7 : j # k + 1 => new[j] = off[j]
    BY <1>a, <1>11
  <1>13. off[0] = 0 /\ off[7] = made[t]
    BY <1>1 DEF Numbered
  <1>14. new[0] = 0 /\ new[7] = made'[t]
    <2>1. 0 \in 0..7 /\ 7 \in 0..7 /\ 0 # k + 1 /\ 7 # k + 1
      OBVIOUS
    <2> QED
      BY <1>5, <1>12, <1>13, <2>1
  <1>15. ASSUME NEW j \in 0..6
         PROVE  /\ new[j + 1] = new[j] + Len(held'[Stage(t, j)])
                /\ Follow(held'[Stage(t, j)], t, new[j])
    <2>1. CASE j = k
      <3>1. k \in 0..7 /\ k # k + 1
        OBVIOUS
      <3>2. new[j] = b /\ new[j + 1] = c + 1
        BY <1>6, <1>12, <2>1, <3>1
      <3>3. c + 1 = b + (Len(held[q]) + 1)
        BY <1>8, <1>10
      <3> QED
        BY <1>3, <1>10, <2>1, <3>2, <3>3
    <2>2. CASE j = k + 1
      <3>1. (k + 1) + 1 # k + 1
        OBVIOUS
      <3>2. new[j] = c + 1 /\ new[j + 1] = off[(k + 1) + 1]
        BY <1>a, <1>12, <2>2, <3>1
      <3>3. c + Len(held[p]) = (c + 1) + Len(held'[p])
        <4>1. PICK l \in Nat : l = Len(held'[p])
          BY <1>9
        <4>2. c + (l + 1) = (c + 1) + l
          OBVIOUS
        <4> QED
          BY <1>9, <4>1, <4>2
      <3> QED
        BY <1>2, <1>8, <1>9, <2>2, <3>2, <3>3
    <2>3. CASE j # k /\ j # k + 1
      <3>1. Stage(t, j) \in Places \ {p, q}
        BY <1>a, <1>2, <1>3, <2>3, StagesDiffer
      <3>2. held'[Stage(t, j)] = held[Stage(t, j)]
        BY <1>5, <3>1
      <3>3. j \in 0..7 /\ j + 1 \in 0..7 /\ j + 1 # k + 1
        BY <2>3
      <3>4. new[j + 1] = off[j + 1] /\ new[j] = off[j]
        BY <1>12, <2>3, <3>3
      <3>5. off[j + 1] = off[j] + Len(held[Stage(t, j)]) /\ Follow(held[Stage(t, j)], t, off[j])
        BY <1>1 DEF Numbered
      <3> QED
        BY <3>2, <3>4, <3>5
    <2> QED
      BY <2>1, <2>2, <2>3
  <1>16. Numbered(t, new)'
    BY <1>14, <1>15 DEF Numbered
  <1>17. ASSUME NEW r \in Places, \A j \in 0..6 : r # Stage(t, j) PROVE held'[r] = <<>>
    <2>1. r \in Places \ {p, q}
      BY <1>a, <1>2, <1>3, <1>17
    <2>2. held[r] = <<>>
      BY <1>17 DEF OnPath
    <2> QED
      BY <1>5, <2>1, <2>2
  <1> QED
    BY <1>16, <1>17 DEF OnPath

\* The session adds the next events at the other end of the path.
LEMMA BurstOnPath ==
    ASSUME TypeOK, NEW t \in Tools, OnPath(t), NEW k \in 1..MaxBurst, HandleEvent(t, k)
    PROVE  OnPath(t)'
  <1>1. PICK off \in [0..7 -> Nat] : Numbered(t, off)
    BY DEF OnPath
  <1>2. PICK p \in Places : p = Stage(t, 6)
    BY StagesDiffer
  <1>3. p = Session(t)
    BY <1>2, StageNames
  <1>4. /\ made[t] \in Nat /\ made'[t] = made[t] + k /\ k \in Nat
        /\ held[p] = <<>> /\ Len(held'[p]) = k
        /\ \A i \in 1..k : held'[p][i] = [tool |-> t, n |-> made[t] + i]
        /\ \A r \in Places \ {p} : held'[r] = held[r]
    <2>1. /\ made[t] \in Nat /\ made' = [made EXCEPT ![t] = made[t] + k]
          /\ held[Session(t)] = <<>> /\ Len(held'[Session(t)]) = k
          /\ \A i \in 1..k : held'[Session(t)][i] = [tool |-> t, n |-> made[t] + i]
          /\ \A r \in Places \ {Session(t)} : held'[r] = held[r]
      BY BurstEffect
    <2>2. made'[t] = made[t] + k
      BY <2>1 DEF TypeOK
    <2>3. k \in Nat
      BY SizeAssumption
    <2> QED
      BY <1>3, <2>1, <2>2, <2>3
  <1>5. off[0] = 0 /\ off[7] = made[t] /\ off[6] = made[t]
    <2>1. off[0] = 0 /\ off[7] = made[t] /\ off[6 + 1] = off[6] + Len(held[p])
      BY <1>1, <1>2 DEF Numbered
    <2>2. Len(held[p]) = 0 /\ 6 + 1 = 7 /\ off[6] \in Nat
      BY <1>4
    <2>3. off[6] + 0 = off[6]
      BY <2>2
    <2> QED
      BY <2>1, <2>2, <2>3
  <1>6. PICK new \in [0..7 -> Nat] : new = [off EXCEPT ![7] = made[t] + k]
    <2>1. made[t] + k \in Nat
      <3>1. made[t] \in Nat /\ k \in Nat
        BY <1>4
      <3> QED
        BY <3>1
    <2>2. [off EXCEPT ![7] = made[t] + k] \in [0..7 -> Nat]
      BY <2>1
    <2> QED
      BY <2>2
  <1>7. new[7] = made[t] + k /\ \A j \in 0..7 : j # 7 => new[j] = off[j]
    BY <1>6
  <1>8. new[0] = 0 /\ new[7] = made'[t]
    BY <1>4, <1>5, <1>7
  <1>9. ASSUME NEW j \in 0..6
        PROVE  /\ new[j + 1] = new[j] + Len(held'[Stage(t, j)])
               /\ Follow(held'[Stage(t, j)], t, new[j])
    <2>1. CASE j = 6
      <3>1. new[j] = made[t] /\ new[j + 1] = made[t] + k
        BY <1>5, <1>7, <2>1
      <3>2. Follow(held'[p], t, made[t])
        BY <1>4 DEF Follow
      <3> QED
        BY <1>2, <1>4, <2>1, <3>1, <3>2
    <2>2. CASE j # 6
      <3>1. Stage(t, j) \in Places \ {p}
        BY <1>2, <2>2, StagesDiffer
      <3>2. held'[Stage(t, j)] = held[Stage(t, j)]
        BY <1>4, <3>1
      <3>3. j \in 0..7 /\ j + 1 \in 0..7 /\ j + 1 # 7 /\ j # 7
        BY <2>2
      <3>4. new[j + 1] = off[j + 1] /\ new[j] = off[j]
        BY <1>7, <3>3
      <3>5. off[j + 1] = off[j] + Len(held[Stage(t, j)]) /\ Follow(held[Stage(t, j)], t, off[j])
        BY <1>1 DEF Numbered
      <3> QED
        BY <3>2, <3>4, <3>5
    <2> QED
      BY <2>1, <2>2
  <1>10. Numbered(t, new)'
    BY <1>8, <1>9 DEF Numbered
  <1>11. ASSUME NEW r \in Places, \A j \in 0..6 : r # Stage(t, j) PROVE held'[r] = <<>>
    <2>1. r \in Places \ {p}
      BY <1>2, <1>11
    <2>2. held[r] = <<>>
      BY <1>11 DEF OnPath
    <2> QED
      BY <1>4, <2>1, <2>2
  <1> QED
    BY <1>10, <1>11 DEF OnPath

\* The first tool starts on an empty path.
LEMMA EmptyPath ==
    ASSUME NEW t \in Tools, made[t] = 0, \A p \in Places : held[p] = <<>>
    PROVE  OnPath(t)
  <1>1. PICK off \in [0..7 -> Nat] : off = [j \in 0..7 |-> 0]
    OBVIOUS
  <1>2. ASSUME NEW j \in 0..6
        PROVE  /\ off[j + 1] = off[j] + Len(held[Stage(t, j)])
               /\ Follow(held[Stage(t, j)], t, off[j])
    <2>1. held[Stage(t, j)] = <<>>
      BY StagesDiffer
    <2>2. j \in 0..7 /\ j + 1 \in 0..7 /\ off[j] = 0 /\ off[j + 1] = 0
      BY <1>1
    <2>3. Len(<<>>) = 0 /\ Follow(<<>>, t, 0)
      BY DEF Follow
    <2> QED
      BY <2>1, <2>2, <2>3
  <1>3. off[0] = 0 /\ off[7] = 0
    BY <1>1
  <1>4. Numbered(t, off)
    BY <1>2, <1>3 DEF Numbered
  <1> QED
    BY <1>4 DEF OnPath

\* Every event of the pipeline is on the path, and is one of t.
LEMMA HeadOnPath ==
    ASSUME TypeOK, NEW t \in Tools, OnPath(t), NEW p \in Places, held[p] # <<>>
    PROVE  /\ \E j \in 0..6 : p = Stage(t, j)
           /\ Head(held[p]).tool = t
  <1>1. PICK j \in 0..6 : p = Stage(t, j)
    BY DEF OnPath
  <1>2. PICK off \in [0..7 -> Nat] : Numbered(t, off)
    BY DEF OnPath
  <1>3. Follow(held[p], t, off[j])
    BY <1>1, <1>2 DEF Numbered
  <1>4. held[p] \in Seq(Event) /\ 1 \in 1..Len(held[p]) /\ Head(held[p]) = held[p][1]
    BY HeadTyped, LenProperties
  <1>5. held[p][1] = [tool |-> t, n |-> off[j] + 1]
    BY <1>3, <1>4 DEF Follow
  <1>6. Head(held[p]).tool = t
    BY SMTT(30), <1>4, <1>5
  <1> QED
    BY <1>1, <1>6

\* The path of t is where sendToConsumers and ProcessEvent send its events.
LEMMA PathOfTool ==
    ASSUME NEW t \in Tools
    PROVE  /\ Route(t) = EventChan(DetectorOf(t))
           /\ Outcome(DetectorOf(t), t) = Stage(t, 1)
  <1>1. CASE t = "cachestat"
    <2>1. GetDetectors(t) = {"mem"} /\ DetectorOf(t) = "mem"
      BY <1>1 DEF GetDetectors, OwnedEvents, Detectors, DetectorOf
    <2>2. Route(t) = EventChan("mem")
      BY <2>1 DEF Route
    <2>3. t \in Blocks("mem") \cap Forwarded /\ Stored("mem") = {} /\ ~InTrie(t)
      BY <1>1 DEF Blocks, Forwarded, Stored, InTrie
    <2> QED
      BY <2>1, <2>2, <2>3, StageNames DEF Outcome
  <1>2. CASE t # "cachestat"
    <2>1. t \in {"offcpu", "oncpu", "syscall", "futexsnoop"}
      BY <1>2, ToolsAssumption DEF ToolNames
    <2>2. GetDetectors(t) = {"cpu"} /\ DetectorOf(t) = "cpu"
      BY <2>1 DEF GetDetectors, OwnedEvents, Detectors, DetectorOf
    <2>3. Route(t) = EventChan("cpu")
      BY <2>2 DEF Route
    <2>4. t \in Stored("cpu") \cup (Blocks("cpu") \cap Forwarded)
      BY <2>1 DEF Stored, Blocks, Forwarded
    <2> QED
      BY <2>2, <2>3, <2>4, StageNames DEF Outcome, InTrie
  <1> QED
    BY <1>1, <1>2

\* With one tool every step starts another one, adds events at the session,
\* moves an event along the path, or changes nothing.
LEMMA OneToolStep ==
    ASSUME IInv, NEW t \in Tools, started = {t}, OnPath(t), [Next]_vars
    PROVE  \/ \E u \in Tools : StartTool(u)
           \/ \E k \in 1..MaxBurst : HandleEvent(t, k)
           \/ \E k \in 0..5 : Move(Stage(t, k + 1), Stage(t, k))
           \/ UNCHANGED vars
  <1>1. TypeOK
    BY DEF IInv
  <1>2. \A p \in Places : held[p] # <<>> => \E j \in 0..6 : p = Stage(t, j)
    BY <1>1, HeadOnPath
  <1>3. \A p \in Places : held[p] # <<>> => Head(held[p]).tool = t
    BY <1>1, HeadOnPath
  <1>4. \A j \in 0..6 : j \in {0, 1, 2, 3, 4, 5, 6}
    OBVIOUS
  <1>5. \A p \in Places : held[p] # <<>> =>
            p \in {Entries, Exported, Trie, Worker(DetectorOf(t), t), EventChan(DetectorOf(t)),
                   Receiver(t), EventCh, Session(t)}
    BY <1>2, <1>4, StageNames
  <1>6. /\ 0 + 1 = 1 /\ 1 + 1 = 2 /\ 2 + 1 = 3 /\ 3 + 1 = 4 /\ 4 + 1 = 5 /\ 5 + 1 = 6
        /\ {0, 1, 2, 3, 4, 5} \subseteq 0..5
    OBVIOUS
  <1> DEFINE Along == \E k \in 0..5 : Move(Stage(t, k + 1), Stage(t, k))
  <1>7. ASSUME NEW u \in Tools, SendEvent(u) PROVE Along
    <2>1. Session(u) \in Places /\ held[Session(u)] # <<>> /\ Move(Session(u), EventCh)
      BY <1>7, PlaceNames DEF SendEvent, Move
    <2>2. Session(u) = Session(t)
      BY <1>5, <2>1
      DEF Session, EventCh, Receiver, EventChan, Worker, Entries, Exported, Trie
    <2>3. Move(Stage(t, 5 + 1), Stage(t, 5))
      BY <1>6, <2>1, <2>2, StageNames
    <2> QED
      BY <1>6, <2>3
  <1>8. ASSUME NEW w \in Tools, ReceiveEvent(w) PROVE Along
    <2>1. w = t /\ Move(EventCh, Receiver(w))
      BY <1>8 DEF ReceiveEvent
    <2>2. Move(Stage(t, 4 + 1), Stage(t, 4))
      BY <1>6, <2>1, StageNames
    <2> QED
      BY <1>6, <2>2
  <1>9. ASSUME NEW w \in Tools, SendToConsumers(w) PROVE Along
    <2>1. Receiver(w) \in Places /\ held[Receiver(w)] # <<>>
      BY <1>9, PlaceNames DEF SendToConsumers
    <2>2. Receiver(w) = Receiver(t)
      BY <1>5, <2>1
      DEF Session, EventCh, Receiver, EventChan, Worker, Entries, Exported, Trie
    <2>3. Head(held[Receiver(w)]).tool = t
      BY <1>3, <2>1
    <2>4. Move(Receiver(t), EventChan(DetectorOf(t)))
      BY <1>9, <2>2, <2>3, PathOfTool DEF SendToConsumers
    <2>5. Move(Stage(t, 3 + 1), Stage(t, 3))
      BY <1>6, <2>4, StageNames
    <2> QED
      BY <1>6, <2>5
  <1>10. ASSUME NEW d \in Detectors, NEW w \in Tools, ConsumeChanEvent(d, w) PROVE Along
    <2>1. w = t /\ Move(EventChan(d), Worker(d, w)) /\ held[EventChan(d)] # <<>>
      BY <1>10 DEF ConsumeChanEvent, Move
    <2>2. EventChan(d) \in Places
      BY PlaceNames
    <2>3. d = DetectorOf(t)
      BY <1>5, <2>1, <2>2
      DEF Session, EventCh, Receiver, EventChan, Worker, Entries, Exported, Trie
    <2>4. Move(Stage(t, 2 + 1), Stage(t, 2))
      BY <1>6, <2>1, <2>3, StageNames
    <2> QED
      BY <1>6, <2>4
  <1>11. ASSUME NEW d \in Detectors, NEW w \in Tools, ProcessEvent(d, w) PROVE Along
    <2>1. Worker(d, w) \in Places /\ held[Worker(d, w)] # <<>>
      BY <1>11, PlaceNames DEF ProcessEvent
    <2>2. d = DetectorOf(t) /\ w = t
      BY <1>5, <2>1
      DEF Session, EventCh, Receiver, EventChan, Worker, Entries, Exported, Trie
    <2>3. Head(held[Worker(d, w)]).tool = t
      BY <1>3, <2>1
    <2>4. Move(Worker(d, w), Stage(t, 1))
      BY <1>11, <2>2, <2>3, PathOfTool DEF ProcessEvent
    <2>5. Move(Stage(t, 1 + 1), Stage(t, 1))
      BY <1>6, <2>2, <2>4, StageNames
    <2> QED
      BY <1>6, <2>5
  <1>12. ASSUME ExporterRun PROVE Along
    <2>1. Entries \in Places /\ held[Entries] # <<>> /\ Move(Entries, Exported)
      BY <1>12, PlaceNames DEF ExporterRun, Move
    <2>2. Head(held[Entries]).tool = t
      BY <1>3, <2>1
    <2>3. 1 \in DOMAIN held[Entries] /\ Head(held[Entries]) = held[Entries][1]
      BY <1>1, <2>1, HeadTyped
    <2>4. ~InTrie(t)
      BY <2>2, <2>3 DEF IInv, EntriesRight, InTrie
    <2>5. Move(Stage(t, 0 + 1), Stage(t, 0))
      BY <1>6, <2>1, <2>4, StageNames
    <2> QED
      BY <1>6, <2>5
  <1>13. ASSUME NEW u \in Tools, NEW k \in 1..MaxBurst, HandleEvent(u, k) PROVE HandleEvent(t, k)
    BY <1>13 DEF HandleEvent
  <1>14. Idle => UNCHANGED vars
    BY DEF Idle
  <1> QED
    BY <1>7, <1>8, <1>9, <1>10, <1>11, <1>12, <1>13, <1>14
    DEF Next, SessionStep, ReceiverStep, DetectorStep

LEMMA InitOrder == Init => OrderInv
  <1> SUFFICES ASSUME Init PROVE OrderInv
      OBVIOUS
  <1>1. started = {} /\ \A t \in Tools : made[t] = 0
    BY DEF Init
  <1>2. \A p \in Places : held[p] = <<>>
    BY DEF Init
  <1> QED
    BY <1>1, <1>2 DEF OrderInv

\* While no tool has started there is nothing to move.
LEMMA NoToolStep ==
    ASSUME IInv, OrderInv, started = {}, [Next]_vars
    PROVE  (\E u \in Tools : StartTool(u)) \/ UNCHANGED vars
  <1>1. \A p \in Places : held[p] = <<>>
    BY DEF OrderInv
  <1>2. ASSUME NEW p \in Places, NEW q \in Places, Proper(p, q) PROVE FALSE
    BY <1>1, <1>2 DEF Proper, Move
  <1>3. ASSUME NEW u \in Tools, NEW k \in 1..MaxBurst, HandleEvent(u, k) PROVE FALSE
    BY <1>3 DEF HandleEvent
  <1> QED
    BY <1>2, <1>3, StepKinds

\* Every step keeps the tools that have not started without events, and the
\* path of a single one in order.
LEMMA OrderStep ==
    ASSUME IInv, OrderInv, [Next]_vars
    PROVE  OrderInv'
  <1>1. TypeOK
    BY DEF IInv
  <1>2. started \subseteq started'
    <2>1. ASSUME NEW p \in Places, NEW q \in Places, Proper(p, q) PROVE started' = started
      BY <2>1 DEF Proper, Move
    <2> QED
      BY <2>1, StepKinds DEF StartTool, HandleEvent, vars
  <1>3. ASSUME NEW u \in Tools \ started' PROVE made'[u] = 0
    <2>1. u \in Tools \ started /\ made[u] = 0
      BY <1>2 DEF OrderInv
    <2>2. ASSUME NEW p \in Places, NEW q \in Places, Proper(p, q) PROVE made'[u] = made[u]
      BY <2>2 DEF Proper, Move
    <2>3. ASSUME NEW v \in Tools, NEW k \in 1..MaxBurst, HandleEvent(v, k)
          PROVE  made'[u] = made[u]
      BY <1>1, <2>1, <2>3 DEF HandleEvent, TypeOK
    <2>4. ASSUME NEW v \in Tools, StartTool(v) PROVE made'[u] = made[u]
      BY <2>4 DEF StartTool
    <2>5. ASSUME UNCHANGED vars PROVE made'[u] = made[u]
      BY <2>5 DEF vars
    <2> QED
      BY <2>1, <2>2, <2>3, <2>4, <2>5, StepKinds
  <1>4. ASSUME started' = {} PROVE \A p \in Places : held'[p] = <<>>
    <2>1. started = {}
      BY <1>2, <1>4
    <2>2. UNCHANGED vars
      <3>1. ASSUME NEW u \in Tools, StartTool(u) PROVE FALSE
        BY <1>4, <3>1 DEF StartTool
      <3> QED
        BY <2>1, <3>1, NoToolStep
    <2> QED
      BY <2>1, <2>2 DEF OrderInv, vars
  <1>5. ASSUME NEW t \in Tools, started' = {t} PROVE OnPath(t)'
    <2>1. CASE started = {}
      <3>1. \E u \in Tools : StartTool(u)
        BY <1>5, <2>1, NoToolStep DEF vars
      <3>2. UNCHANGED <<made, held>>
        BY <3>1 DEF StartTool
      <3>3. OnPath(t)
        <4>1. made[t] = 0 /\ \A p \in Places : held[p] = <<>>
          BY <2>1 DEF OrderInv
        <4> QED
          BY <4>1, EmptyPath
      <3> QED
        BY <3>2, <3>3 DEF OnPath, Numbered
    <2>2. CASE started = {t}
      <3>1. OnPath(t)
        BY <2>2 DEF OrderInv
      <3>2. ASSUME NEW u \in Tools, StartTool(u) PROVE FALSE
        BY <1>5, <2>2, <3>2 DEF StartTool
      <3>3. ASSUME NEW k \in 1..MaxBurst, HandleEvent(t, k) PROVE OnPath(t)'
        BY <1>1, <3>1, <3>3, BurstOnPath
      <3>4. ASSUME NEW k \in 0..5, Move(Stage(t, k + 1), Stage(t, k)) PROVE OnPath(t)'
        BY <1>1, <3>1, <3>4, MoveOnPath
      <3>5. ASSUME UNCHANGED vars PROVE OnPath(t)'
        <4>1. UNCHANGED <<made, held>>
          BY <3>5 DEF vars
        <4> QED
          BY <3>1, <4>1 DEF OnPath, Numbered
      <3> QED
        BY <2>2, <3>1, <3>2, <3>3, <3>4, <3>5, OneToolStep
    <2>3. started = {} \/ started = {t}
      BY <1>2, <1>5
    <2> QED
      BY <2>1, <2>2, <2>3
  <1> QED
    BY <1>3, <1>4, <1>5 DEF OrderInv

\* The path in order gives the exporter and the trie their events in order.
LEMMA PathInOrder ==
    ASSUME IInv, NEW t \in Tools, OnPath(t), NEW p \in {Exported, Trie}, NEW i \in DOMAIN held[p]
    PROVE  held[p][i].n = i
  <1>1. PICK off \in [0..7 -> Nat] : Numbered(t, off)
    BY DEF OnPath
  <1>2. p \in Places /\ held[p] \in Seq(Event) /\ DOMAIN held[p] = 1..Len(held[p])
    BY PlaceNames, LenProperties DEF IInv, TypeOK, Sinks
  <1>3. held[p] # <<>> /\ i \in Nat
    BY SMTT(30), <1>2
  <1>4. PICK j \in 0..6 : p = Stage(t, j)
    BY <1>2, <1>3, HeadOnPath DEF IInv
  <1>5. off[j] = 0
    <2>1. CASE ~InTrie(t)
      <3>1. j = 0
        <4>1. j \in {0, 1, 2, 3, 4, 5, 6}
          OBVIOUS
        <4> QED
          BY <1>4, <2>1, <4>1, StageNames
          DEF Session, EventCh, Receiver, EventChan, Worker, Entries, Exported, Trie
      <3> QED
        BY <1>1, <3>1 DEF Numbered
    <2>2. CASE InTrie(t)
      <3>1. j = 1
        <4>1. j \in {0, 1, 2, 3, 4, 5, 6}
          OBVIOUS
        <4> QED
          BY <1>4, <2>2, <4>1, StageNames
          DEF Session, EventCh, Receiver, EventChan, Worker, Entries, Exported, Trie
      <3>2. held[Entries] = <<>>
        <4>1. ASSUME held[Entries] # <<>> PROVE FALSE
          <5>1. Head(held[Entries]).tool = t
            BY <4>1, PlaceNames, HeadOnPath DEF IInv
          <5>2. 1 \in DOMAIN held[Entries] /\ Head(held[Entries]) = held[Entries][1]
            BY <4>1, PlaceNames, HeadTyped DEF IInv
          <5> QED
            BY <2>2, <5>1, <5>2 DEF IInv, EntriesRight, InTrie
        <4> QED
          BY <4>1
      <3>3. off[0] = 0 /\ off[0 + 1] = off[0] + Len(held[Entries])
        <4>1. 0 \in 0..6 /\ Stage(t, 0) = Entries
          BY <2>2, StageNames
        <4>2. off[0] = 0 /\ off[0 + 1] = off[0] + Len(held[Stage(t, 0)])
          BY <1>1, <4>1 DEF Numbered
        <4> QED
          BY <4>1, <4>2
      <3>4. Len(held[Entries]) = 0 /\ 0 + 1 = 1 /\ 0 + 0 = 0
        BY <3>2
      <3> QED
        BY <3>1, <3>3, <3>4
    <2> QED
      BY <2>1, <2>2
  <1>6. Follow(held[p], t, 0)
    BY <1>1, <1>4, <1>5 DEF Numbered
  <1>7. held[p][i] = [tool |-> t, n |-> 0 + i]
    BY <1>2, <1>6 DEF Follow
  <1> QED
    BY <1>3, <1>7

\* With one tool, events reach the exporter and the trie in the order its
\* session built them, without a gap, for every capacity of the channels
\* between them.
THEOREM OrderKept == Safety => []OrderWithOneTool
  <1>1. IInv /\ OrderInv => OrderWithOneTool
    <2> SUFFICES ASSUME IInv, OrderInv, Cardinality(started) <= 1,
                        NEW p \in {Exported, Trie}, NEW i \in DOMAIN held[p]
                 PROVE  held[p][i].n = i
      BY DEF OrderWithOneTool
    <2>1. IsFiniteSet(started)
      <3>1. IsFiniteSet({"offcpu", "oncpu", "syscall", "futexsnoop", "cachestat"})
        <4>1. IsFiniteSet({"offcpu"})
          BY FS_Singleton
        <4>2. IsFiniteSet({"offcpu"} \cup {"oncpu"})
          BY <4>1, FS_AddElement
        <4>3. IsFiniteSet({"offcpu"} \cup {"oncpu"} \cup {"syscall"})
          BY <4>2, FS_AddElement
        <4>4. IsFiniteSet({"offcpu"} \cup {"oncpu"} \cup {"syscall"} \cup {"futexsnoop"})
          BY <4>3, FS_AddElement
        <4>5. IsFiniteSet({"offcpu"} \cup {"oncpu"} \cup {"syscall"} \cup {"futexsnoop"}
                             \cup {"cachestat"})
          BY <4>4, FS_AddElement
        <4>6. {"offcpu"} \cup {"oncpu"} \cup {"syscall"} \cup {"futexsnoop"} \cup {"cachestat"}
                = {"offcpu", "oncpu", "syscall", "futexsnoop", "cachestat"}
          OBVIOUS
        <4> QED
          BY <4>5, <4>6
      <3>2. started \subseteq ToolNames
        BY ToolsAssumption DEF IInv, TypeOK
      <3> QED
        BY <3>1, <3>2, FS_Subset DEF ToolNames
    <2>2. started = {} \/ \E t \in Tools : started = {t}
      <3>1. Cardinality(started) \in Nat
        BY <2>1, FS_CardinalityType
      <3>2. Cardinality(started) = 0 \/ Cardinality(started) = 1
        BY <3>1
      <3>3. CASE Cardinality(started) = 0
        BY <2>1, <3>3, FS_EmptySet
      <3>4. CASE Cardinality(started) = 1
        BY <2>1, <3>4, FS_Singleton DEF IInv, TypeOK
      <3> QED
        BY <3>2, <3>3, <3>4
    <2>3. CASE started = {}
      <3>1. held[p] = <<>>
        BY <2>3, PlaceNames DEF OrderInv, Sinks
      <3> QED
        BY <3>1
    <2>4. ASSUME NEW t \in Tools, started = {t} PROVE held[p][i].n = i
      <3>1. OnPath(t)
        BY <2>4 DEF OrderInv
      <3> QED
        BY <3>1, PathInOrder
    <2> QED
      BY <2>2, <2>3, <2>4
  <1> QED
    BY <1>1, InitOrder, OrderStep, IInvHolds, PTL DEF Safety

=============================================================================
