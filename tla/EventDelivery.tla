---------------------------- MODULE EventDelivery ----------------------------
(***************************************************************************)
(* What the spycat pipeline promises of an event, with the channels, the   *)
(* goroutines and the routing left out.                                    *)
(*                                                                         *)
(* A session (one per tool) produces numbered events.  An event is then    *)
(* settled exactly once: it is delivered to the exporter, or, for an       *)
(* oncpu stack the cpu detector keeps for pyroscope, put in the trie.      *)
(* There is no third outcome: between the session and these two places     *)
(* nothing is lost, invented or duplicated.                                *)
(***************************************************************************)
EXTENDS Naturals, Sequences, Functions

CONSTANTS
    Tools,        \* the tools whose sessions run
    KeptTools,    \* the tools whose events go to the trie
    MaxBurst,     \* most events one sample or one tick is turned into
    MaxEvents     \* bound on the events of one session

VARIABLES
    made,         \* made[t]: number of events session t has produced
    delivered,    \* the events the exporter has taken, in order
    kept          \* the events put in the trie, in order

vars == <<made, delivered, kept>>

Event == [tool : Tools, n : 1..MaxEvents]

Produced(e) == e.n \in 1..made[e.tool]

Settled(e) == e \in Range(delivered) \cup Range(kept)

Init ==
    /\ made = [t \in Tools |-> 0]
    /\ delivered = <<>>
    /\ kept = <<>>

Produce(t, k) ==
    /\ made[t] + k <= MaxEvents
    /\ made' = [made EXCEPT ![t] = @ + k]
    /\ UNCHANGED <<delivered, kept>>

Deliver(e) ==
    /\ Produced(e) /\ ~Settled(e)
    /\ e.tool \notin KeptTools
    /\ delivered' = Append(delivered, e)
    /\ UNCHANGED <<made, kept>>

Keep(e) ==
    /\ Produced(e) /\ ~Settled(e)
    /\ e.tool \in KeptTools
    /\ kept' = Append(kept, e)
    /\ UNCHANGED <<made, delivered>>

Next ==
    \/ \E t \in Tools, k \in 1..MaxBurst : Produce(t, k)
    \/ \E e \in Event : Deliver(e) \/ Keep(e)

Safety == Init /\ [][Next]_vars

(***************************************************************************)
(* Every produced event is settled in the end.                             *)
(***************************************************************************)
EventuallySettled ==
    \A t \in Tools : \A i \in 1..MaxEvents :
        (made[t] >= i) ~> Settled([tool |-> t, n |-> i])
=============================================================================
