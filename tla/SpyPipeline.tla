----------------------------- MODULE SpyPipeline -----------------------------
(***************************************************************************)
(* The event pipeline of spycat while it runs:                             *)
(*                                                                         *)
(*   session -> eventCh -> consumeEvents -> eventChan of a detector ->     *)
(*   ConsumeChanEvents -> processor -> channel of the exporter -> Run      *)
(*                                                                         *)
(* One AppSpy serves every tool of the YAML file, and runSpy calls its     *)
(* Start once per tool: each call adds one consumeEvents goroutine to the  *)
(* receiver and one ConsumeChanEvents goroutine to every detector.  The    *)
(* goroutines of the call made for tool t are named after t.               *)
(*                                                                         *)
(* An event is somewhere at any time: in a channel, or in the hands of a   *)
(* goroutine that has received it and is blocked on, or about to make, its *)
(* next send.  held[p] is the queue of events at place p; every step but   *)
(* the session's moves the head of one queue to the tail of another, and   *)
(* waits, as a Go send does, while the next channel is full.               *)
(***************************************************************************)
EXTENDS Naturals, Sequences, FiniteSets, Functions

CONSTANTS
    Tools,          \* the tools of the configuration, started one by one
    Server,         \* Server field of the cpu detector
    EventChSize,    \* capacity of eventCh, 2e5 in the code
    EventChanSize,  \* capacity of each detector's eventChan
    EntriesSize,    \* capacity of the exporter's channel, 5000 in the code
    MaxBurst,       \* most events one sample or one tick is turned into
    MaxEvents       \* bound on the events of one session

\* The tools that have a session, and the address the cpu detector compares.
ToolNames == {"offcpu", "oncpu", "syscall", "futexsnoop", "cachestat"}
DefaultServer == "http://localhost:4040"

ASSUME ToolsAssumption == Tools \subseteq ToolNames
ASSUME SizeAssumption ==
    /\ EventChSize \in Nat \ {0}
    /\ EventChanSize \in Nat \ {0}
    /\ EntriesSize \in Nat \ {0}
    /\ MaxBurst \in Nat \ {0}
    /\ MaxEvents \in Nat

VARIABLES
    started,   \* the tools runSpy has been called for
    made,      \* made[t]: number of events session t has produced
    held       \* held[p]: the events at place p, oldest first

vars == <<started, made, held>>

Event == [tool : Tools, n : 1..MaxEvents]

(***************************************************************************)
(* Routing: the hard-coded lists of the detectors and of the processor.    *)
(***************************************************************************)
Detectors == {"cpu", "io", "net", "mem"}

OwnedEvents(d) ==
    CASE d = "cpu" -> {"offcpu", "irqoff", "oncpu", "futexsnoop", "syscall"}
      [] d = "mem" -> {"cachestat"}
      [] OTHER     -> {}

GetDetectors(name) == {d \in Detectors : name \in OwnedEvents(d)}

\* Faulty: the case of a new tool forgotten in the processor's switch.
ForwardedWithoutCacheStat == {"offcpu", "syscall", "futexsnoop", "oncpu"}

\* Names for which the processor passes a data block on to the exporter.
Forwarded == {"offcpu", "syscall", "futexsnoop", "oncpu", "cachestat"}

\* Names a detector's ProcessEvent turns into a data block.  An oncpu event
\* becomes one only for the default server.
Blocks(d) ==
    CASE d = "cpu" -> {"offcpu", "futexsnoop", "syscall"}
                        \cup (IF Server = DefaultServer THEN {"oncpu"} ELSE {})
      [] d = "mem" -> {"cachestat"}
      [] OTHER     -> {}

\* Names whose stack the cpu detector puts in its trie instead.
Stored(d) == IF d = "cpu" /\ Server # DefaultServer THEN {"oncpu"} ELSE {}

\* Names an event of which leaves detector d for the exporter or the trie.
Handled(d) == Stored(d) \cup (Blocks(d) \cap Forwarded)

(***************************************************************************)
(* Places.                                                                 *)
(***************************************************************************)
Session(t)    == <<"session", "-", t>>      \* HandleEvent of session t
EventCh       == <<"eventCh", "-", "-">>    \* the receiver's channel
Receiver(w)   == <<"receiver", "-", w>>     \* a consumeEvents goroutine
EventChan(d)  == <<"eventChan", d, "-">>    \* the channel of detector d
Worker(d, w)  == <<"worker", d, w>>         \* a ConsumeChanEvents goroutine
Entries       == <<"entries", "-", "-">>    \* the exporter's channel
Exported      == <<"exported", "-", "-">>   \* taken by the exporter's Run
Trie          == <<"trie", "-", "-">>       \* inserted in the oncpu trie
Dropped       == <<"dropped", "-", "-">>    \* given up on the way

Places ==
    {Session(t) : t \in Tools} \cup {Receiver(w) : w \in Tools}
        \cup {EventChan(d) : d \in Detectors}
        \cup {Worker(d, w) : d \in Detectors, w \in Tools}
        \cup {EventCh, Entries, Exported, Trie, Dropped}

\* The channel of detector d and the goroutines behind it.
AtDetector(d) == {EventChan(d)} \cup {Worker(d, w) : w \in Tools}

Capacity(p) ==
    CASE p[1] = "session"   -> MaxBurst
      [] p[1] = "eventCh"   -> EventChSize
      [] p[1] = "eventChan" -> EventChanSize
      [] p[1] = "entries"   -> EntriesSize
      [] OTHER              -> 1

\* Faulty: off by one at the capacity.
HasRoomOffByOne(p) ==
    p \in {Exported, Trie, Dropped} \/ Len(held[p]) <= Capacity(p)

HasRoom(p) == p \in {Exported, Trie, Dropped} \/ Len(held[p]) < Capacity(p)

\* Where sendToConsumers puts an event.
Route(name) ==
    IF GetDetectors(name) = {}
    THEN Dropped
    ELSE EventChan(CHOOSE d \in GetDetectors(name) : TRUE)

\* Faulty: an oncpu event goes to the exporter whatever the server.
OutcomeIgnoringServer(d, name) ==
    IF name \in Stored(d) \cup (Blocks(d) \cap Forwarded) THEN Entries ELSE Dropped

\* Where ProcessEvent of detector d, with the processor behind it, puts one.
Outcome(d, name) ==
    IF name \in Stored(d) THEN Trie
    ELSE IF name \in Blocks(d) \cap Forwarded THEN Entries ELSE Dropped

----------------------------------------------------------------------------
Init ==
    /\ started = {}
    /\ made = [t \in Tools |-> 0]
    /\ held = [p \in Places |-> <<>>]

\* Faulty: a send with a default case, which gives up on a full channel.
MoveWithoutWaiting(p, q) ==
    /\ held[p] # <<>>
    /\ held' = IF HasRoom(q)
               THEN [held EXCEPT ![p] = Tail(@), ![q] = Append(@, Head(held[p]))]
               ELSE [held EXCEPT ![p] = Tail(@)]
    /\ UNCHANGED <<started, made>>

Move(p, q) ==
    /\ held[p] # <<>>
    /\ HasRoom(q)
    /\ held' = [held EXCEPT ![p] = Tail(@), ![q] = Append(@, Head(held[p]))]
    /\ UNCHANGED <<started, made>>

\* runSpy for one tool of the file: Start of every detector, of the receiver
\* and of the session.
StartTool(t) ==
    /\ t \notin started
    /\ started' = started \cup {t}
    /\ UNCHANGED <<made, held>>

\* Faulty: the events of a burst are numbered one too high.
HandleEventMisnumbered(t, k) ==
    /\ t \in started
    /\ held[Session(t)] = <<>>
    /\ made[t] + k <= MaxEvents
    /\ made' = [made EXCEPT ![t] = @ + k]
    /\ held' = [held EXCEPT ![Session(t)] =
                   [i \in 1..k |-> [tool |-> t, n |-> made[t] + i + 1]]]
    /\ UNCHANGED started

\* The session of t handles a sample (or a tick): it builds k events, which
\* it sends in turn before it looks at the next sample.
HandleEvent(t, k) ==
    /\ t \in started
    /\ held[Session(t)] = <<>>
    /\ made[t] + k <= MaxEvents
    /\ made' = [made EXCEPT ![t] = @ + k]
    /\ held' = [held EXCEPT ![Session(t)] =
                   [i \in 1..k |-> [tool |-> t, n |-> made[t] + i]]]
    /\ UNCHANGED started

SendEvent(t) == Move(Session(t), EventCh)

\* consumeEvents receives from eventCh, then sendToConsumers.
ReceiveEvent(w) == w \in started /\ Move(EventCh, Receiver(w))

\* Faulty: the send made from a goroutine of its own, so that an event may
\* enter the detector's channel ahead of one received earlier.
SendToConsumersUnordered(w) ==
    LET p == Receiver(w)
    IN  /\ held[p] # <<>>
        /\ LET q == Route(Head(held[p]).tool)
           IN  /\ HasRoom(q)
               /\ held' = [held EXCEPT ![p] = <<>>, ![q] = held[p] \o @]
        /\ UNCHANGED <<started, made>>

SendToConsumers(w) ==
    /\ held[Receiver(w)] # <<>>
    /\ Move(Receiver(w), Route(Head(held[Receiver(w)]).tool))

\* ConsumeChanEvents receives from eventChan, then ProcessEvent.
ConsumeChanEvent(d, w) == w \in started /\ Move(EventChan(d), Worker(d, w))

ProcessEvent(d, w) ==
    /\ held[Worker(d, w)] # <<>>
    /\ Move(Worker(d, w), Outcome(d, Head(held[Worker(d, w)]).tool))

\* Faulty: the exporter waits for a full channel, with no timer.
ExporterRunWhenFull ==
    Len(held[Entries]) = EntriesSize /\ Move(Entries, Exported)

ExporterRun == Move(Entries, Exported)

\* Every session has reached its bound and every goroutine waits on an empty
\* channel: the pipeline idles.
Idle ==
    /\ started = Tools
    /\ \A t \in Tools : made[t] = MaxEvents
    /\ \A p \in Places \ {Exported, Trie, Dropped} : held[p] = <<>>
    /\ UNCHANGED vars

SessionStep(t)  == SendEvent(t)
ReceiverStep(w) == ReceiveEvent(w) \/ SendToConsumers(w)
DetectorStep(d, w) == ConsumeChanEvent(d, w) \/ ProcessEvent(d, w)

Next ==
    \/ \E t \in Tools : StartTool(t)
    \/ \E t \in Tools, k \in 1..MaxBurst : HandleEvent(t, k)
    \/ \E t \in Tools : SessionStep(t)
    \/ \E w \in Tools : ReceiverStep(w)
    \/ \E d \in Detectors, w \in Tools : DetectorStep(d, w)
    \/ ExporterRun
    \/ Idle

Safety == Init /\ [][Next]_vars

\* The Go scheduler runs every goroutine that can run, and a channel serves
\* blocked senders in turn.  Nothing is assumed of new samples.
Fairness ==
    /\ \A t \in Tools : WF_vars(SessionStep(t)) /\ WF_vars(ReceiverStep(t))
    /\ \A d \in Detectors, w \in Tools : WF_vars(DetectorStep(d, w))
    /\ WF_vars(ExporterRun)

Spec == Safety /\ Fairness

----------------------------------------------------------------------------
TypeOK ==
    /\ started \subseteq Tools
    /\ made \in [Tools -> 0..MaxEvents]
    /\ held \in [Places -> Seq(Event)]

\* Channels never hold more than their capacity (receiver.go:45 and the
\* detectors' and exporters' make calls), and a goroutine never holds more
\* than one event: the backlog of a slow exporter stays bounded.
WithinCapacity ==
    \A p \in Places \ {Exported, Trie, Dropped} : Len(held[p]) <= Capacity(p)

\* No event is at two places or twice at one: whatever the number of
\* consumeEvents and ConsumeChanEvents goroutines on one channel, none of
\* them handles an event another one has handled.
NoDuplicate ==
    \A p, q \in Places : \A i \in DOMAIN held[p], j \in DOMAIN held[q] :
        held[p][i] = held[q][j] => p = q /\ i = j

\* Every event a session has built is still at some place, and every event
\* at a place has been built: backpressure delays events, it loses none.
NothingLost ==
    \A t \in Tools : \A n \in 1..made[t] :
        \E p \in Places : [tool |-> t, n |-> n] \in Range(held[p])

NothingInvented ==
    \A p \in Places : \A i \in DOMAIN held[p] :
        held[p][i].n \in 1..made[held[p][i].tool]

Conservation == NoDuplicate /\ NothingLost /\ NothingInvented

\* The four hard-coded lists (sessions, OwnedEvents, ProcessEvent, processor
\* Consume) agree: no event of a tool that has a session is ever given up,
\* and no event waits at a detector that cannot handle it.
NoSilentDrop ==
    /\ held[Dropped] = <<>>
    /\ \A d \in Detectors : \A p \in AtDetector(d) : \A i \in DOMAIN held[p] :
          held[p][i].tool \in Handled(d)

\* With one tool (a tool started from the command line, or a YAML file that
\* enables one) events leave the pipeline in the order the session built
\* them, with none missing in between.
OrderWithOneTool ==
    Cardinality(started) <= 1 =>
        \A p \in {Exported, Trie} : \A i \in DOMAIN held[p] : held[p][i].n = i

----------------------------------------------------------------------------
(***************************************************************************)
(* The pipeline implements the delivery service of EventDelivery.          *)
(***************************************************************************)
Delivery == INSTANCE EventDelivery WITH
    KeptTools <- Tools \cap Stored("cpu"),
    delivered <- held[Exported],
    kept      <- held[Trie]

\* What the exporter and the trie receive is what the delivery service may
\* hand over: each event once, after its session built it, at the right one
\* of the two places.
DeliverySafety == Delivery!Safety

\* Every event a session builds is eventually exported or in the trie: the
\* blocking sends between the stages never block each other for good.
EventuallySettled == Delivery!EventuallySettled
=============================================================================
