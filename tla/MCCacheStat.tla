----------------------------- MODULE MCCacheStat -----------------------------
(***************************************************************************)
(* CacheStat for TLC: a file that is read and written, one that is read    *)
(* with a size no int can hold, and another process.                       *)
(***************************************************************************)
EXTENDS CacheStat, TLC

CONSTANTS f1, f2

MCAccesses == {[op |-> "read",  pid |-> 1, file |-> f1, count |-> 1],
               [op |-> "write", pid |-> 1, file |-> f1, count |-> 1],
               [op |-> "read",  pid |-> 1, file |-> f2, count |-> Half],
               [op |-> "read",  pid |-> 2, file |-> f1, count |-> 1]}

MCOptions ==
    {[pid |-> Every, cpu |-> Every, cache_type |-> READ_WRITE_CACHE]}
    \cup [pid : {1}, cpu : Cpus, cache_type : {READ_CACHE}]
    \cup [pid : {Every}, cpu : Cpus, cache_type : {READ_WRITE_CACHE, WRITE_CACHE}]

Symmetry == Permutations(Cpus)
=============================================================================
