---------------------------- MODULE MCFutexSnoop ----------------------------
(***************************************************************************)
(* FutexSnoop for TLC: the threads of two processes.  Thread 11 is the     *)
(* main thread of process 11, thread 12 its second thread.                 *)
(***************************************************************************)
EXTENDS FutexSnoop, TLC

MCProcess == [t \in Threads |-> IF t < 20 THEN 11 ELSE 21]

LockSymmetry == Permutations(Locks)
=============================================================================
