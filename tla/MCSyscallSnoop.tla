--------------------------- MODULE MCSyscallSnoop ---------------------------
(***************************************************************************)
(* SyscallSnoop for TLC: two tids, no option, each of the filters, and a   *)
(* system call whose name is not in the table.                             *)
(***************************************************************************)
EXTENDS SyscallSnoop, TLC

CONSTANTS read, unknown

MCOptions == {[pid |-> 0, tid |-> 0, name |-> unknown],
              [pid |-> 1, tid |-> 0, name |-> unknown],
              [pid |-> 0, tid |-> 2, name |-> unknown],
              [pid |-> 0, tid |-> 0, name |-> Clone],
              [pid |-> 0, tid |-> 0, name |-> read]}
=============================================================================
