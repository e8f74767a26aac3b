----------------------------- MODULE FutexSnoop -----------------------------
(***************************************************************************)
(* The eBPF half of the futexsnoop tool: futex_enter and futex_exit run on *)
(* every futex call of every thread, on several CPUs at once, over shared  *)
(* hash maps.  A handler is not atomic: between the lookup of a lock's     *)
(* entry and the update that follows, handlers of other threads run.       *)
(*                                                                         *)
(* A lookup returns a pointer to an entry; an update of a present key with *)
(* BPF_ANY puts a new entry in its place, and a handler that still points  *)
(* to the old one goes on with it.  lock_map[l] is therefore the index of  *)
(* an entry in elem, 0 when the key is absent.                             *)
(***************************************************************************)
EXTENDS Integers, Sequences, FiniteSets, FiniteSetsExt, SequencesExt

CONSTANTS
    Threads,           \* the tids of the threads that make futex calls
    Process,           \* Process[t]: the pid of thread t
    Locks,             \* the futex words
    Pid, Tid,          \* options --pid and --tid, 0 when not given
    MaxLockHoldUsers,  \* option --max-lock-hold-users
    MinDur, MaxDur,    \* options --min-dur-ms and --max-dur-ms
    StartSize,         \* max_entries of start, 10240 in the code
    LockMapSize,       \* max_entries of lock_map, 10240 in the code
    HistsSize,         \* max_entries of hists_map, 10240 in the code
    Word,              \* values of a u32, 2^32 in the code
    Durations,         \* lengths of a successful wait, in microseconds
    MaxCalls           \* bound on the futex calls of all threads

ASSUME FutexAssumption ==
    /\ Threads \subseteq Nat \ {0} /\ IsFiniteSet(Threads)
    /\ Process \in [Threads -> Nat \ {0}]
    /\ Pid \in Nat /\ Tid \in Nat /\ MaxLockHoldUsers \in Nat
    /\ MinDur \in Nat /\ MaxDur \in Nat
    /\ StartSize \in Nat /\ LockMapSize \in Nat /\ HistsSize \in Nat
    /\ Word \in Nat /\ Cardinality(Threads) < Word
    /\ Durations \subseteq Nat
    /\ MaxCalls \in Nat

None == "none"                        \* no lock
ASSUME NoneAssumption == None \notin Locks

\* initArgsMap copies a Go struct whose first two fields are Tid and Pid over
\* a C struct whose first two are targ_pid and targ_tid.  The fields
\* TargetLock and Stack are not filled in.
args_map == [targ_pid |-> Tid, targ_tid |-> Pid]

VARIABLES
    pc,        \* pc[t]: the handler of t and where it is
    call,      \* call[t]: the lock t waits for, None when in no FUTEX_WAIT
    ptr,       \* ptr[t]: the entry the handler of t points to
    seen,      \* seen[t]: the user_cnt the handler of t has loaded
    start,     \* start[t]: the lock recorded for t by futex_enter, None if none
    lock_map,  \* lock_map[l]: index in elem of the entry of lock l, 0 if none
    elem,      \* the entries ever made, [user_cnt, max_user_cnt]
    hists,     \* hists[<<t, l>>]: statistics of the waits of t for l
    reported,  \* locks reported to user space for too many users
    calls,     \* number of futex calls begun
    durs,      \* history: durs[<<t, l>>], the durations recorded, in order
    raced,     \* history: locks whose entry was overwritten by a second first user
    leaked,    \* history: locks counted for a thread that start had no room for
    peak       \* history: peak[l], most threads ever inside a FUTEX_WAIT on l

handlers == <<pc, call, ptr, seen>>
maps     == <<start, lock_map, elem, hists>>
history  == <<durs, raced, leaked, peak>>
vars     == <<handlers, maps, reported, calls, history>>

Key == Threads \X Locks
NoHist == [contended |-> 0, total_elapsed |-> 0, min_dur |-> 0, max_dur |-> 0, delta_dur |-> 0]

Present(l) == lock_map[l] # 0
Entry(l)   == elem[lock_map[l]]
Inside(l)  == {t \in Threads : call[t] = l}

Init ==
    /\ pc = [t \in Threads |-> "out"]
    /\ call = [t \in Threads |-> None]
    /\ ptr = [t \in Threads |-> 0]
    /\ seen = [t \in Threads |-> 0]
    /\ start = [t \in Threads |-> None]
    /\ lock_map = [l \in Locks |-> 0]
    /\ elem = <<>>
    /\ hists = [k \in Key |-> NoHist]
    /\ reported = {}
    /\ calls = 0
    /\ durs = [k \in Key |-> <<>>]
    /\ raced = {} /\ leaked = {}
    /\ peak = [l \in Locks |-> 0]

----------------------------------------------------------------------------
\* The filters of futex_enter; 0 stands for no filter.
Targeted(t) ==
    /\ args_map.targ_pid # 0 => args_map.targ_pid = Process[t]
    /\ args_map.targ_tid # 0 => args_map.targ_tid = t

\* The kernel refuses a new key when a map is full.
StartHasRoom(t) == Cardinality({u \in Threads \ {t} : start[u] # None}) < StartSize
LockMapHasRoom == Cardinality({l \in Locks : Present(l)}) < LockMapSize
Recorded(k) == hists[k] # NoHist
HistHasRoom(k) == Recorded(k) \/ Cardinality({j \in Key : Recorded(j)}) < HistsSize

\* The locals of a handler that has no further use for them.
DropLocals(t) ==
    /\ ptr' = [ptr EXCEPT ![t] = 0]
    /\ seen' = [seen EXCEPT ![t] = 0]

BeginCall(t, l) ==
    /\ pc[t] = "out"
    /\ calls < MaxCalls
    /\ calls' = calls + 1
    /\ call' = [call EXCEPT ![t] = l]

\* futex_enter of another operation than FUTEX_WAIT, or filtered out.
FutexEnterIgnored(t, l) ==
    /\ l = None \/ ~Targeted(t)
    /\ BeginCall(t, l)
    /\ pc' = [pc EXCEPT ![t] = "waiting"]
    /\ UNCHANGED <<ptr, seen, maps, reported, history>>

\* futex_enter up to and including the lookup in lock_map.
FutexEnter(t, l) ==
    /\ Targeted(t)
    /\ BeginCall(t, l)
    /\ IF StartHasRoom(t)
       THEN start' = [start EXCEPT ![t] = l] /\ UNCHANGED leaked
       ELSE leaked' = leaked \cup {l} /\ UNCHANGED start
    /\ ptr' = [ptr EXCEPT ![t] = lock_map[l]]
    /\ pc' = [pc EXCEPT ![t] = IF Present(l) THEN "add" ELSE "insert"]
    /\ peak' = [peak EXCEPT ![l] = Max({@, Cardinality(Inside(l)) + 1})]
    /\ UNCHANGED <<seen, lock_map, elem, hists, reported, durs, raced>>

\* Faulty: the entry of the first user starts with no user.
InsertLockUncounted(t) ==
    /\ pc[t] = "insert"
    /\ LET l == call[t]
       IN  /\ IF Present(l) \/ LockMapHasRoom
              THEN /\ elem' = Append(elem, [user_cnt |-> 0, max_user_cnt |-> 1])
                   /\ lock_map' = [lock_map EXCEPT ![l] = Len(elem) + 1]
              ELSE UNCHANGED <<elem, lock_map>>
           /\ raced' = IF Present(l) THEN raced \cup {l} ELSE raced
    /\ pc' = [pc EXCEPT ![t] = "waiting"]
    /\ UNCHANGED <<call, ptr, seen, start, hists, reported, calls, durs, leaked, peak>>

\* The lookup found nothing: a fresh entry, put in with BPF_ANY.
InsertLock(t) ==
    /\ pc[t] = "insert"
    /\ LET l == call[t]
       IN  /\ IF Present(l) \/ LockMapHasRoom
              THEN /\ elem' = Append(elem, [user_cnt |-> 1, max_user_cnt |-> 1])
                   /\ lock_map' = [lock_map EXCEPT ![l] = Len(elem) + 1]
              ELSE UNCHANGED <<elem, lock_map>>
           /\ raced' = IF Present(l) THEN raced \cup {l} ELSE raced
    /\ pc' = [pc EXCEPT ![t] = "waiting"]
    /\ UNCHANGED <<call, ptr, seen, start, hists, reported, calls, durs, leaked, peak>>

\* The atomic increment of user_cnt.
AddUser(t) ==
    /\ pc[t] = "add"
    /\ elem' = [elem EXCEPT ![ptr[t]].user_cnt = (@ + 1) % Word]
    /\ pc' = [pc EXCEPT ![t] = "compare"]
    /\ UNCHANGED <<call, ptr, seen, start, lock_map, hists, reported, calls, history>>

\* user_cnt is loaded and compared with max_user_cnt.
CompareMax(t) ==
    /\ pc[t] = "compare"
    /\ LET e == elem[ptr[t]]
       IN  /\ seen' = [seen EXCEPT ![t] = e.user_cnt]
           /\ pc' = [pc EXCEPT ![t] = IF e.user_cnt > e.max_user_cnt THEN "set" ELSE "report"]
    /\ UNCHANGED <<call, ptr, maps, reported, calls, history>>

\* Faulty: the users seen are added to the maximum.
SetMaxAdding(t) ==
    /\ pc[t] = "set"
    /\ elem' = [elem EXCEPT ![ptr[t]].max_user_cnt = @ + seen[t]]
    /\ pc' = [pc EXCEPT ![t] = "report"]
    /\ UNCHANGED <<call, ptr, seen, start, lock_map, hists, reported, calls, history>>

SetMax(t) ==
    /\ pc[t] = "set"
    /\ elem' = [elem EXCEPT ![ptr[t]].max_user_cnt = seen[t]]
    /\ pc' = [pc EXCEPT ![t] = "report"]
    /\ UNCHANGED <<call, ptr, seen, start, lock_map, hists, reported, calls, history>>

ReportLock(t) ==
    /\ pc[t] = "report"
    /\ reported' = IF elem[ptr[t]].max_user_cnt > MaxLockHoldUsers
                   THEN reported \cup {call[t]} ELSE reported
    /\ pc' = [pc EXCEPT ![t] = "waiting"]
    /\ DropLocals(t)
    /\ UNCHANGED <<call, maps, calls, history>>

----------------------------------------------------------------------------
Leave(t) ==
    /\ pc' = [pc EXCEPT ![t] = "out"]
    /\ call' = [call EXCEPT ![t] = None]
    /\ DropLocals(t)

\* futex_exit without a start entry.
FutexExitUnknown(t) ==
    /\ pc[t] = "waiting"
    /\ start[t] = None
    /\ Leave(t)
    /\ UNCHANGED <<maps, reported, calls, history>>

\* futex_exit up to and including the lookup in lock_map.
FutexExit(t) ==
    /\ pc[t] = "waiting"
    /\ start[t] # None
    /\ ptr' = [ptr EXCEPT ![t] = lock_map[start[t]]]
    /\ pc' = [pc EXCEPT ![t] = IF Present(start[t]) THEN "subtract" ELSE "record"]
    /\ UNCHANGED <<call, seen, maps, reported, calls, history>>

\* Faulty: a signed counter.
SubtractUserSigned(t) ==
    /\ pc[t] = "subtract"
    /\ elem' = [elem EXCEPT ![ptr[t]].user_cnt = @ - 1]
    /\ pc' = [pc EXCEPT ![t] = "record"]
    /\ DropLocals(t)
    /\ UNCHANGED <<call, start, lock_map, hists, reported, calls, history>>

\* The atomic decrement of user_cnt.
SubtractUser(t) ==
    /\ pc[t] = "subtract"
    /\ elem' = [elem EXCEPT ![ptr[t]].user_cnt = (@ + Word - 1) % Word]
    /\ pc' = [pc EXCEPT ![t] = "record"]
    /\ DropLocals(t)
    /\ UNCHANGED <<call, start, lock_map, hists, reported, calls, history>>

\* Faulty: the start entry of a failed call stays behind.
FutexExitFailedKeepingStart(t) ==
    /\ pc[t] = "record"
    /\ Leave(t)
    /\ UNCHANGED <<start, lock_map, elem, hists, reported, calls, history>>

\* The call has failed: only the clean-up.
FutexExitFailed(t) ==
    /\ pc[t] = "record"
    /\ start' = [start EXCEPT ![t] = None]
    /\ Leave(t)
    /\ UNCHANGED <<lock_map, elem, hists, reported, calls, history>>

\* Faulty: the minimum is never replaced once a wait is recorded.
AddDurationFirstMin(h, d) ==
    [h EXCEPT !.contended = @ + 1,
              !.total_elapsed = @ + d,
              !.min_dur = IF @ = 0 THEN d ELSE @]

\* The statistics after one more wait.  __TARGET_ARCH_amd64 is defined by no
\* build (the Makefile passes x86 or arm64), so the second branch of the
\* #ifdef is compiled: it stores max back in max_dur.
AddDuration(h, d) ==
    [h EXCEPT !.contended = @ + 1,
              !.total_elapsed = @ + d,
              !.min_dur = IF @ = 0 \/ @ > d THEN d ELSE @,
              !.max_dur = @]

\* A wait longer than the average so far, itself included, and between the two
\* options (compared with microseconds) is sent to user space as delta_dur.
ReportTask(h, d) ==
    IF d > MinDur /\ d < MaxDur /\ d > h.total_elapsed \div h.contended
    THEN [h EXCEPT !.delta_dur = d] ELSE h

\* The call has succeeded after d microseconds: the wait enters the statistics
\* of this thread and lock, which no other thread touches.
FutexExitRecord(t, d) ==
    /\ pc[t] = "record"
    /\ LET k == <<t, start[t]>>
       IN  IF HistHasRoom(k)
           THEN /\ hists' = [hists EXCEPT ![k] = ReportTask(AddDuration(@, d), d)]
                /\ durs' = [durs EXCEPT ![k] = Append(@, d)]
           ELSE UNCHANGED <<hists, durs>>
    /\ start' = [start EXCEPT ![t] = None]
    /\ Leave(t)
    /\ UNCHANGED <<lock_map, elem, reported, calls, raced, leaked, peak>>

\* No thread is in a call, and none makes another one.
Quiet ==
    /\ calls = MaxCalls
    /\ \A t \in Threads : pc[t] = "out"
    /\ UNCHANGED vars

Next ==
    \/ \E t \in Threads :
        \/ \E l \in Locks \cup {None} : FutexEnterIgnored(t, l)
        \/ \E l \in Locks : FutexEnter(t, l)
        \/ InsertLock(t) \/ AddUser(t) \/ CompareMax(t) \/ SetMax(t) \/ ReportLock(t)
        \/ FutexExitUnknown(t) \/ FutexExit(t) \/ SubtractUser(t)
        \/ FutexExitFailed(t)
        \/ \E d \in Durations : FutexExitRecord(t, d)
    \/ Quiet

Spec == Init /\ [][Next]_vars

----------------------------------------------------------------------------
Stage == {"out", "insert", "add", "compare", "set", "report", "waiting",
          "subtract", "record"}

TypeOK ==
    /\ pc \in [Threads -> Stage]
    /\ call \in [Threads -> Locks \cup {None}]
    /\ ptr \in [Threads -> 0..Len(elem)]
    /\ seen \in [Threads -> 0..(Word - 1)]
    /\ start \in [Threads -> Locks \cup {None}]
    /\ lock_map \in [Locks -> 0..Len(elem)]
    /\ elem \in Seq([user_cnt : 0..(Word - 1), max_user_cnt : 0..(Word - 1)])
    /\ hists \in [Key -> [contended : Nat, total_elapsed : Nat, min_dur : Nat, max_dur : Nat,
                          delta_dur : Nat]]
    /\ reported \subseteq Locks
    /\ calls \in 0..MaxCalls

\* The threads futex_enter has counted for l and futex_exit has not yet
\* taken off again.
Counted(l) ==
    {t \in Inside(l) : /\ Targeted(t)
                       /\ \/ pc[t] \in {"compare", "set", "report", "waiting", "subtract"}
                          \/ pc[t] = "record" /\ ~Present(l)}

\* Unless two first users raced for the entry of a lock, or start was full,
\* user_cnt is the number of threads inside the call, whatever the
\* interleaving of the handlers and whichever calls fail: every increment of
\* futex_enter is undone by exactly one decrement of futex_exit.
CountExact ==
    \A l \in Locks \ (raced \cup leaked) :
        Present(l) => Entry(l).user_cnt = Cardinality(Counted(l))

\* Under the same condition a lock is only reported when more than
\* MaxLockHoldUsers threads really were inside at once: the unlocked update
\* of max_user_cnt may miss a peak, it never invents one.
NoFalseAlarm ==
    \A l \in Locks \ (raced \cup leaked) :
        /\ Present(l) => Entry(l).max_user_cnt <= peak[l]
        /\ l \in reported => peak[l] > MaxLockHoldUsers

\* A start entry never outlives the call it was made in, so futex_exit never
\* charges a later call (of another operation, or filtered out) to it.
StartPaired == \A t \in Threads : start[t] \in {None, call[t]}

\* Although futex_exit updates a hist with plain loads and stores, it loses
\* nothing, because the key holds the thread: the counters are those of the
\* waits recorded, and min_dur is the shortest of them unless one was shorter
\* than a microsecond (0 also means "not set").  A wait that is reported was
\* longer than another wait of the thread for the lock: the first never is.
HistsExact ==
    \A k \in Key :
        /\ hists[k].contended = Len(durs[k])
        /\ hists[k].total_elapsed = FoldLeft(+, 0, durs[k])
        /\ durs[k] # <<>> /\ 0 \notin ToSet(durs[k]) => hists[k].min_dur = Min(ToSet(durs[k]))
        /\ hists[k].delta_dur # 0 =>
              /\ hists[k].delta_dur \in ToSet(durs[k])
              /\ \E i \in DOMAIN durs[k] : durs[k][i] < hists[k].delta_dur

----------------------------------------------------------------------------
\* "user count hold the same lock" (futexsnoop.h:42): whenever no handler is
\* running, the count of a lock is the number of threads waiting for it.
CountIsUsers ==
    (\A t \in Threads : pc[t] \in {"out", "waiting"})
        => \A l \in Locks : Present(l) => Entry(l).user_cnt = Cardinality(Inside(l))

\* "pid to trace" (pkg/app/config/config.go:21): a thread of the process the
\* user asked for is traced while it waits for a lock.
PidTraced ==
    \A t \in Threads :
        pc[t] = "waiting" /\ call[t] # None /\ Process[t] = Pid => start[t] = call[t]
=============================================================================
