---------------------------- MODULE SyscallSnoop ----------------------------
(***************************************************************************)
(* The eBPF half of the syscall tool.  sys_enter stores the time a call    *)
(* began in the map start under the thread's tid; sys_exit measures from   *)
(* there and never deletes the entry.  Both run in the thread that makes   *)
(* the call, so the handlers of one tid never overlap.                     *)
(*                                                                         *)
(* The kernel around them is the environment: calls that were under way    *)
(* when the programs were attached, forks whose child leaves a call it     *)
(* never entered, execs that move a thread to the tid of its leader, exits *)
(* without sys_exit, and tids that serve another thread later.             *)
(***************************************************************************)
EXTENDS Integers, FiniteSets

CONSTANTS
    Tids,                  \* positive; the tid of a leader is its process id
    Ids,                   \* numbers of the system calls
    Clone, Execve, SigReturn, Exit,   \* four of them
    Nothing,               \* -1: no filter, no number
    Options,               \* values of --pid, --tid, --syscall to try
    MinDurMs, MaxDurMs,    \* options
    PerMs,                 \* clock ticks in a millisecond
    StartSize,             \* MAX_ENTRIES, 10240 in the code
    MaxTime, MaxCalls      \* bounds

ASSUME SyscallAssumption ==
    /\ IsFiniteSet(Tids) /\ Tids \subseteq Nat \ {0}
    /\ {Clone, Execve, SigReturn, Exit} \subseteq Ids
    /\ Cardinality({Clone, Execve, SigReturn, Exit}) = 4 /\ Nothing \notin Ids
    /\ \A o \in Options : {o.pid, o.tid} \subseteq Nat
    /\ {MinDurMs, MaxDurMs, StartSize, MaxCalls} \subseteq Nat /\ MaxTime \in Nat \ {0}
    /\ PerMs \in Nat \ {0}

VARIABLES
    now,
    args_map,  \* the options: pid, tid, syscall_id
    thr,       \* thr[t]: the thread with tid t, see NoThread
    start,     \* start[t]: [ts, pid] of an entry, or NoEntry
    calls,     \* number of calls begun
    sent,      \* the last event sent, or NoEvent, with the truth about the call
    missed     \* history: whether a call that should have been sent was not

vars == <<now, args_map, thr, start, calls, sent, missed>>

\* id: the call it is in.  began: when that call passed sys_enter under this
\* tid, 0 if it did not.  refused: start had no room for it then.
NoThread == [state |-> "none", pid |-> 0, id |-> Nothing, began |-> 0, refused |-> FALSE]
InUser(pid) ==
    [state |-> "user", pid |-> pid, id |-> Nothing, began |-> 0, refused |-> FALSE]
InCall(pid, id, began, refused) ==
    [state |-> "call", pid |-> pid, id |-> id, began |-> began, refused |-> refused]

NoEntry  == [ts |-> 0, pid |-> 0]
NoEvent  == [tid |-> 0]

\* SyscallNameToId: a name that is not in the table is no filter.
SyscallNameToId(name) == IF name \in Ids THEN name ELSE Nothing

\* initArgsMap, with the threads of one process, 1, running or in a call.
Init ==
    /\ now = 1
    /\ \E o \in Options :
          args_map = [pid |-> o.pid, tid |-> o.tid, syscall_id |-> SyscallNameToId(o.name)]
    /\ \E alive \in SUBSET Tids : \E busy \in SUBSET alive :
          /\ 1 \in alive
          /\ thr = [t \in Tids |->
                CASE t \in busy -> InCall(1, Clone, 0, FALSE)
                  [] t \in alive \ busy -> InUser(1)
                  [] OTHER -> NoThread]
    /\ start = [t \in Tids |-> NoEntry]
    /\ calls = 0 /\ sent = NoEvent /\ missed = FALSE

----------------------------------------------------------------------------
\* The filters, the same in both handlers.
Targeted(t, id) ==
    /\ args_map.pid # 0 => args_map.pid = thr[t].pid
    /\ args_map.tid # 0 => args_map.tid = t
    /\ args_map.syscall_id # Nothing => args_map.syscall_id = id

Recorded == {t \in Tids : start[t] # NoEntry}

\* Faulty: one entry too many.
HasRoomOffByOne(t) == t \in Recorded \/ Cardinality(Recorded) <= StartSize

\* The kernel refuses a new key when the map is full.
HasRoom(t) == t \in Recorded \/ Cardinality(Recorded) < StartSize

\* Faulty: an entry that is already there is kept (BPF_NOEXIST).
SysEnterOnce(t, id) ==
    /\ thr[t].state = "user" /\ calls < MaxCalls
    /\ calls' = calls + 1
    /\ thr' = [thr EXCEPT ![t] = InCall(thr[t].pid, id, now, ~HasRoom(t))]
    /\ start' = IF Targeted(t, id) /\ HasRoom(t) /\ t \notin Recorded
                THEN [start EXCEPT ![t] = [ts |-> now, pid |-> thr[t].pid]] ELSE start
    /\ UNCHANGED <<now, args_map, sent, missed>>

\* Thread t makes call id.
SysEnter(t, id) ==
    /\ thr[t].state = "user" /\ calls < MaxCalls
    /\ calls' = calls + 1
    /\ thr' = [thr EXCEPT ![t] = InCall(thr[t].pid, id, now, ~HasRoom(t))]
    /\ start' = IF Targeted(t, id) /\ HasRoom(t)
                THEN [start EXCEPT ![t] = [ts |-> now, pid |-> thr[t].pid]] ELSE start
    /\ UNCHANGED <<now, args_map, sent, missed>>

\* Faulty: the largest duration is excluded.
InRangeBelow(dur) == MinDurMs <= dur \div PerMs /\ dur \div PerMs < MaxDurMs

\* In whole milliseconds.
InRange(dur) == MinDurMs <= dur \div PerMs /\ dur \div PerMs <= MaxDurMs

BackToUser(t) == thr' = [thr EXCEPT ![t] = InUser(thr[t].pid)]

\* The call of t took from MinDurMs to less than MaxDurMs + 1 milliseconds.
Expected(t) ==
    /\ thr[t].began # 0 /\ ~thr[t].refused /\ Targeted(t, thr[t].id)
    /\ now - thr[t].began \in (MinDurMs * PerMs)..((MaxDurMs + 1) * PerMs - 1)

\* The event, and beside it the thread as it is.
Event(t) == [tid |-> t, pid |-> start[t].pid, syscall_id |-> thr[t].id,
             ts |-> start[t].ts, dur |-> now - start[t].ts, of |-> thr[t]]

\* sys_exit at the end of a call.
SysExit(t) ==
    /\ thr[t].state = "call" /\ thr[t].id \notin {SigReturn, Exit}
    /\ LET send == Targeted(t, thr[t].id) /\ t \in Recorded /\ InRange(now - start[t].ts)
       IN  /\ sent' = IF send THEN Event(t) ELSE sent
           /\ missed' = (missed \/ (Expected(t) /\ ~send))
    /\ BackToUser(t)
    /\ UNCHANGED <<now, args_map, start, calls>>

\* The return from a signal handler: the exit's number is -1.
SysExitInterrupt(t) ==
    /\ thr[t].state = "call" /\ thr[t].id = SigReturn
    /\ BackToUser(t)
    /\ UNCHANGED <<now, args_map, start, calls, sent, missed>>

----------------------------------------------------------------------------
\* The kernel around the handlers.
Advance ==
    /\ now < MaxTime
    /\ now' = now + 1
    /\ UNCHANGED <<args_map, thr, start, calls, sent, missed>>

\* Thread t in clone creates thread u, of its own or of a new process; the
\* child leaves clone without having entered it.  The tid of a leader stays
\* in use while its process has a thread.
Fork(t, u) ==
    /\ thr[t].state = "call" /\ thr[t].id = Clone
    /\ thr[u].state = "none" /\ u \notin {thr[v].pid : v \in Tids}
    /\ \E pid \in {thr[t].pid, u} :
          thr' = [thr EXCEPT ![u] = InCall(pid, Clone, 0, FALSE)]
    /\ UNCHANGED <<now, args_map, start, calls, sent, missed>>

\* Thread t in execve ends the other threads and becomes the leader.
Exec(t) ==
    /\ thr[t].state = "call" /\ thr[t].id = Execve
    /\ LET p == thr[t].pid
       IN  thr' = [u \in Tids |->
              CASE u = p                   -> IF t = p THEN thr[t] ELSE InCall(p, Execve, 0, FALSE)
                [] u # p /\ thr[u].pid = p -> NoThread
                [] OTHER                   -> thr[u]]
    /\ UNCHANGED <<now, args_map, start, calls, sent, missed>>

\* Thread t in exit is gone; its tid may be used again.
Die(t) ==
    /\ thr[t].state = "call" /\ thr[t].id = Exit
    /\ thr' = [thr EXCEPT ![t] = NoThread]
    /\ UNCHANGED <<now, args_map, start, calls, sent, missed>>

\* The bounds are reached.
Quiet == now = MaxTime /\ UNCHANGED vars

Next ==
    \/ Advance
    \/ \E t \in Tids :
        \/ \E id \in Ids : SysEnter(t, id)
        \/ SysExit(t) \/ SysExitInterrupt(t)
        \/ \E u \in Tids : Fork(t, u)
        \/ Exec(t) \/ Die(t)
    \/ Quiet

Spec == Init /\ [][Next]_vars

----------------------------------------------------------------------------
Thread == [state : {"none", "user", "call"}, pid : Tids \cup {0}, id : Ids \cup {Nothing},
           began : 0..MaxTime, refused : BOOLEAN]
Entry  == [ts : 0..MaxTime, pid : Tids \cup {0}]

TypeOK ==
    /\ now \in 1..MaxTime /\ calls \in 0..MaxCalls /\ missed \in BOOLEAN
    /\ args_map \in [pid : Nat, tid : Nat, syscall_id : Ids \cup {Nothing}]
    /\ thr \in [Tids -> Thread] /\ start \in [Tids -> Entry]
    /\ \A t \in Tids : thr[t].began <= now /\ start[t].ts <= now
    /\ Cardinality(Recorded) <= StartSize

\* An event of a call that passed sys_enter tells that call: its process, its
\* beginning and its duration, never those of an earlier call of the thread
\* or of a dead thread with its tid, whether or not start had room.  (Only
\* the first exit of a thread that was forked, or moved by execve, can be
\* measured from an entry that is not its own.)
EventTrue ==
    sent # NoEvent /\ sent.of.began # 0 =>
        /\ sent.ts = sent.of.began /\ sent.pid = sent.of.pid
        /\ args_map.syscall_id \in {Nothing, sent.of.id}
        /\ ~sent.of.refused

\* Every call in the range asked for is sent, unless start was full of other
\* tids when it began: entries of dead threads are never removed, but a
\* thread that has an entry keeps being measured.
NothingMissed == ~missed
=============================================================================
