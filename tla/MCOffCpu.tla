------------------------------ MODULE MCOffCpu ------------------------------
(***************************************************************************)
(* OffCpu for TLC: two CPUs, every task a process of its own, traced alone *)
(* or together with all others.                                            *)
(***************************************************************************)
EXTENDS OffCpu, TLC

MCProcess == [t \in Pids |-> t]
MCTgids == Tasks \cup {All}

Symmetry == Permutations(Cpus) \cup Permutations(Tasks)
=============================================================================
