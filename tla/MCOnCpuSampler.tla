--------------------------- MODULE MCOnCpuSampler ---------------------------
(***************************************************************************)
(* OnCpuSampler for TLC: one process sampled in user mode with two stacks  *)
(* that share a bucket, in the kernel with a third one, and the idle task. *)
(***************************************************************************)
EXTENDS OnCpuSampler, TLC

CONSTANTS u1, u2, k1

MCTasks == {[pid |-> 1, kern |-> NoStack, user |-> u1],
            [pid |-> 1, kern |-> k1, user |-> u2],
            [pid |-> 0, kern |-> k1, user |-> NoStack]}
MCBucket == [s \in Stacks |-> IF s = k1 THEN 2 ELSE 1]

CpuSymmetry == Permutations(Cpus)
=============================================================================
