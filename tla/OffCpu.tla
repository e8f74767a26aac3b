------------------------------- MODULE OffCpu -------------------------------
(***************************************************************************)
(* The eBPF half of the offcpu tool and the end of its session.            *)
(* sched_switch_hook runs on a CPU after it has switched from one task to  *)
(* another, try_to_wake_up_hook on the CPU of whoever wakes a task.  Both  *)
(* share the map start, with an entry per task that is never deleted.      *)
(* A CPU runs one handler at a time.                                       *)
(*                                                                         *)
(* The scheduler is the environment: a task that is off cannot be switched *)
(* in before the handler of its switch-out has ended, but it can be woken. *)
(* As in FutexSnoop, start[t] is the index of an entry in elem, 0 if none. *)
(* Times are in milliseconds and start at 1; 0 in a field means not set.   *)
(***************************************************************************)
EXTENDS Integers, Sequences, FiniteSets

CONSTANTS
    Cpus,
    Tasks,             \* the tids, Idle excluded
    Idle,              \* the pid that the idle tasks of all CPUs share, 0
    Process,           \* Process[t]: the tgid of task t
    All, Nobody,       \* no filter (-1), and no waker recorded
    Tgids,             \* values of the option --pid to try
    MinOffcpu, MaxOffcpu, RqDur,   \* options in milliseconds
    StartSize,         \* max_entries of start, 10240 in the code
    CacheSize,         \* SCHED_CACHE_SIZE, 512 in the code
    MaxTime, MaxSwitches, MaxWakes \* bounds

ASSUME OffCpuAssumption ==
    /\ IsFiniteSet(Tasks) /\ {Idle, Nobody} \cap Tasks = {} /\ Idle # Nobody
    /\ DOMAIN Process = Tasks \cup {Idle}
    /\ \A t \in DOMAIN Process : Process[t] # All
    /\ {MinOffcpu, MaxOffcpu, RqDur, StartSize, CacheSize} \subseteq Nat
    /\ CacheSize > 0 /\ MaxTime > 0
    /\ {MaxTime, MaxSwitches, MaxWakes} \subseteq Nat

Pids == Tasks \cup {Idle}

VARIABLES
    now, on, state, since, delay,   \* scheduler: on[c] runs on c; state, time of
                                    \* the last enqueueing and run_delay of a task
    tgid,      \* args_map: the process to trace
    cpu,       \* cpu[c]: the handler running on c, see NoHandler
    start, elem,
    cache,     \* sched_cache_map: [status, id, records] of each CPU
    backup,    \* sched_cache_backup_map: id and records of the last dump of a CPU
    perf,      \* perf_event_cache_map: the record each CPU fills and sends; the
               \* session gets a copy and may handle it at any time after
    switches, wakes,
    offAt,     \* history: when the last switch-out of a task was handled
    waited,    \* history: how long it then waited on a run queue
    wakers,    \* history: tasks whose wake-up of t was handled since
    raced,     \* history: tasks whose entry was replaced, or refused, since
    missed,    \* history: tasks with an off-CPU time that was not sent
    handled,   \* history: number of switches handled on each CPU
    truth      \* history: truth[c], what really happened to the task in perf[c]

sched    == <<now, on, state, since, delay, switches, wakes, waited>>
history  == <<offAt, wakers, raced, missed, handled, truth>>
vars     == <<sched, tgid, cpu, start, elem, cache, backup, perf, history>>

NoHandler == [pc |-> "none", prev |-> Idle, cur |-> Idle, ts |-> 0, ptr |-> 0]
NewEntry  == [offcpu_ns |-> 0, onrq_ns |-> 0, waker |-> Nobody, run_delay_ns |-> 0]
NoEvent   == [task |-> Idle, dur |-> 0, rq |-> 0, offcpu_ns |-> 0, onrq_ns |-> 0,
              waker |-> Nobody, is_sched_cache_dump |-> 0, cpu |-> 0]

Init ==
    /\ now = 1
    /\ on \in {f \in [Cpus -> Pids] : \A c, d \in Cpus : f[c] = f[d] => c = d \/ f[c] = Idle}
    /\ state \in {f \in [Tasks -> {"running", "ready", "blocked"}] :
                    \A t \in Tasks : f[t] = "running" <=> \E c \in Cpus : on[c] = t}
    /\ since = [t \in Tasks |-> IF state[t] = "running" THEN 0 ELSE 1]
    /\ delay = [t \in Tasks |-> 0] /\ waited = [t \in Pids |-> 0]
    /\ tgid \in Tgids
    /\ cpu = [c \in Cpus |-> NoHandler]
    /\ start = [t \in Pids |-> 0] /\ elem = <<>>
    /\ cache = [c \in Cpus |-> [status |-> "on", id |-> 0,
                             records |-> [i \in 0..(CacheSize - 1) |-> Idle]]]
    /\ backup = [c \in Cpus |-> <<>>]
    /\ perf = [c \in Cpus |-> NoEvent]
    /\ switches = 0 /\ wakes = 0
    /\ offAt = [t \in Pids |-> 0] /\ wakers = [t \in Pids |-> {}]
    /\ raced = {} /\ missed = {} /\ handled = [c \in Cpus |-> 0]
    /\ truth = [c \in Cpus |-> [dur |-> 0, waited |-> 0, wakers |-> {}, slow |-> FALSE,
                                  prev |-> Idle, nth |-> 0]]

----------------------------------------------------------------------------
\* The scheduler.

\* A handler runs with preemption off and ends within a millisecond.
Advance ==
    /\ now < MaxTime /\ \A c \in Cpus : cpu[c].pc = "none"
    /\ now' = now + 1
    /\ UNCHANGED <<on, state, since, delay, switches, wakes, waited, tgid, cpu, start, elem,
                   cache, backup, perf, history>>

\* Tasks whose switch-out is still being handled.
Leaving == {cpu[c].prev : c \in {d \in Cpus : cpu[d].pc \in {"switch", "insertPrev", "writePrev"}}}

\* CPU c switches to next; the task that ran is preempted or blocks.
Switch(c, next, how) ==
    /\ cpu[c].pc = "none" /\ switches < MaxSwitches
    /\ next # on[c]
    /\ next # Idle => state[next] = "ready" /\ next \notin Leaving
    /\ LET prev == on[c]
       IN  /\ prev = Idle => how = "ready"
           /\ state' = [t \in Tasks |-> CASE t = next -> "running" [] t = prev -> how [] OTHER -> state[t]]
           /\ since' = [t \in Tasks |-> CASE t = next -> 0 [] t = prev -> now [] OTHER -> since[t]]
           /\ waited' = [waited EXCEPT ![next] = IF next = Idle THEN 0 ELSE now - since[next]]
           /\ delay' = [t \in Tasks |-> IF t = next THEN delay[t] + now - since[t] ELSE delay[t]]
           /\ cpu' = [cpu EXCEPT ![c] = [NoHandler EXCEPT !.pc = "switch", !.prev = prev, !.cur = next]]
    /\ on' = [on EXCEPT ![c] = next]
    /\ switches' = switches + 1
    /\ UNCHANGED <<now, wakes, tgid, start, elem, cache, backup, perf, history>>

\* The effect of try_to_wake_up itself.
Enqueue(t) ==
    IF state[t] = "blocked"
    THEN state' = [state EXCEPT ![t] = "ready"] /\ since' = [since EXCEPT ![t] = now]
    ELSE UNCHANGED <<state, since>>

\* A wake-up no handler sees, because the interrupt came during another one.
WakeUnseen(t) ==
    /\ state[t] = "blocked" /\ \E c \in Cpus : cpu[c].pc # "none"
    /\ wakes < MaxWakes /\ wakes' = wakes + 1
    /\ Enqueue(t)
    /\ UNCHANGED <<now, on, delay, switches, waited, tgid, cpu, start, elem, cache, backup, perf,
                   history>>

----------------------------------------------------------------------------
\* The session stores --pid in args_map.tgid and no filter in args_map.pid.
is_target_task(t) == tgid = All \/ (tgid # All /\ tgid = Process[t])

\* Faulty: one entry too many.
HasRoomOffByOne(t) == start[t] # 0 \/ Cardinality({u \in Pids : start[u] # 0}) <= StartSize

\* The kernel refuses a new key when the map is full.
HasRoom(t) == start[t] # 0 \/ Cardinality({u \in Pids : start[u] # 0}) < StartSize

\* bpf_map_update_elem with BPF_ANY of an entry that the lookup did not find.
Update(t, entry) ==
    /\ IF HasRoom(t)
       THEN elem' = Append(elem, entry) /\ start' = [start EXCEPT ![t] = Len(elem) + 1]
       ELSE UNCHANGED <<elem, start>>
    /\ raced' = IF t # Idle /\ (start[t] # 0 \/ ~HasRoom(t)) THEN raced \cup {t} ELSE raced

\* try_to_wake_up_hook on CPU c up to the lookup of t.
TryToWakeUp(c, t) ==
    /\ cpu[c].pc = "none" /\ state[t] = "blocked" /\ is_target_task(t)
    /\ wakes < MaxWakes /\ wakes' = wakes + 1
    /\ cpu' = [cpu EXCEPT ![c] = [NoHandler EXCEPT
                  !.pc = IF start[t] = 0 THEN "insertWaker" ELSE "writeWaker",
                  !.cur = t, !.ts = now, !.ptr = start[t]]]
    /\ wakers' = [wakers EXCEPT ![t] = @ \cup {on[c]}]
    /\ UNCHANGED <<now, on, state, since, delay, switches, waited, tgid, start, elem, cache, backup,
                   perf, offAt, raced, missed, handled, truth>>

\* A task the filter excludes is woken.
WakeIgnored(c, t) ==
    /\ cpu[c].pc = "none" /\ state[t] = "blocked" /\ ~is_target_task(t)
    /\ wakes < MaxWakes /\ wakes' = wakes + 1
    /\ Enqueue(t)
    /\ UNCHANGED <<now, on, delay, switches, waited, tgid, cpu, start, elem, cache, backup, perf,
                   history>>

End(c) == cpu' = [cpu EXCEPT ![c] = NoHandler]

InsertWaker(c) ==
    /\ cpu[c].pc = "insertWaker"
    /\ Update(cpu[c].cur, [NewEntry EXCEPT !.waker = on[c], !.onrq_ns = cpu[c].ts])
    /\ Enqueue(cpu[c].cur) /\ End(c)
    /\ UNCHANGED <<now, on, delay, switches, wakes, waited, tgid, cache, backup, perf,
                   offAt, wakers, missed, handled, truth>>

\* Faulty: only the first waker is recorded.
WriteWakerOnce(c) ==
    /\ cpu[c].pc = "writeWaker"
    /\ elem' = [elem EXCEPT ![cpu[c].ptr].waker = IF @ = Nobody THEN on[c] ELSE @]
    /\ cpu' = [cpu EXCEPT ![c].pc = "writeOnrq"]
    /\ UNCHANGED <<sched, tgid, start, cache, backup, perf, history>>

\* The waker's fields of an entry that was found, then the times.
WriteWaker(c) ==
    /\ cpu[c].pc = "writeWaker"
    /\ elem' = [elem EXCEPT ![cpu[c].ptr].waker = on[c]]
    /\ cpu' = [cpu EXCEPT ![c].pc = "writeOnrq"]
    /\ UNCHANGED <<sched, tgid, start, cache, backup, perf, history>>

WriteOnrq(c) ==
    /\ cpu[c].pc = "writeOnrq"
    /\ elem' = [elem EXCEPT ![cpu[c].ptr].onrq_ns = cpu[c].ts]
    /\ Enqueue(cpu[c].cur) /\ End(c)
    /\ UNCHANGED <<now, on, delay, switches, wakes, waited, tgid, start, cache, backup, perf, history>>

----------------------------------------------------------------------------
\* sched_cache_update: the ring of the tasks a CPU has switched from.
SchedCacheUpdate(k, t) ==
    IF RqDur # 0 /\ k.status = "on"
    THEN [k EXCEPT !.records[k.id % CacheSize] = t, !.id = @ + 1] ELSE k

\* sched_switch_hook up to the lookup of the task that has left.
SwitchHook(c) ==
    /\ cpu[c].pc = "switch"
    /\ LET t == cpu[c].prev
       IN  /\ cpu' = [cpu EXCEPT ![c].ts = now, ![c].ptr = start[t],
                                 ![c].pc = CASE ~is_target_task(t) -> "cur"
                                             [] start[t] = 0       -> "insertPrev"
                                             [] OTHER              -> "writePrev"]
           /\ cache' = [cache EXCEPT ![c] = SchedCacheUpdate(@, t)]
           /\ offAt' = [offAt EXCEPT ![t] = now]
           /\ raced' = raced \ {t}
    /\ handled' = [handled EXCEPT ![c] = @ + 1]
    /\ UNCHANGED <<sched, tgid, start, elem, backup, perf, wakers, missed, truth>>

\* sched_info.run_delay of a task; the idle tasks are never queued.
Delay(t) == IF t = Idle THEN 0 ELSE delay[t]

\* Faulty: a task that is new to the map is not recorded.
InsertPrevSkipped(c) ==
    /\ cpu[c].pc = "insertPrev"
    /\ cpu' = [cpu EXCEPT ![c].pc = "cur"]
    /\ UNCHANGED <<sched, tgid, start, elem, cache, backup, perf, history>>

\* update_new_task_info
InsertPrev(c) ==
    /\ cpu[c].pc = "insertPrev"
    /\ LET t == cpu[c].prev
       IN  Update(t, [NewEntry EXCEPT !.offcpu_ns = cpu[c].ts,
                                      !.run_delay_ns = Delay(t)])
    /\ cpu' = [cpu EXCEPT ![c].pc = "cur"]
    /\ UNCHANGED <<sched, tgid, cache, backup, perf, offAt, wakers, missed, handled, truth>>

\* Faulty: run_delay_ns is left as it was.
WritePrevWithoutDelay(c) ==
    /\ cpu[c].pc = "writePrev"
    /\ elem' = [elem EXCEPT ![cpu[c].ptr].offcpu_ns = cpu[c].ts]
    /\ cpu' = [cpu EXCEPT ![c].pc = "cur"]
    /\ UNCHANGED <<sched, tgid, start, cache, backup, perf, history>>

WritePrev(c) ==
    /\ cpu[c].pc = "writePrev"
    /\ elem' = [elem EXCEPT ![cpu[c].ptr].offcpu_ns = cpu[c].ts,
                            ![cpu[c].ptr].run_delay_ns =
                                Delay(cpu[c].prev)]
    /\ cpu' = [cpu EXCEPT ![c].pc = "cur"]
    /\ UNCHANGED <<sched, tgid, start, cache, backup, perf, history>>

InRange(d) == MinOffcpu <= d /\ d <= MaxOffcpu

\* The handler of c ends with its task sent or not.  A target that was off as
\* long as the options ask for, and is not sent, has been missed.
Finish(c, sent) ==
    /\ End(c)
    /\ LET t == cpu[c].cur
       IN  /\ missed' = IF /\ ~sent /\ t # Idle /\ t \notin raced /\ is_target_task(t)
                           /\ offAt[t] # 0 /\ InRange(cpu[c].ts - offAt[t])
                        THEN missed \cup {t} ELSE missed
           /\ wakers' = [wakers EXCEPT ![t] = {}]
           /\ offAt' = [offAt EXCEPT ![t] = 0]

\* The task that now runs is no target or has no entry.
NotTraced(c) ==
    /\ cpu[c].pc = "cur"
    /\ ~is_target_task(cpu[c].cur) \/ start[cpu[c].cur] = 0
    /\ Finish(c, FALSE)
    /\ UNCHANGED <<sched, tgid, start, elem, cache, backup, perf, raced, handled, truth>>

\* It has one.
Traced(c) == cpu[c].pc = "cur" /\ is_target_task(cpu[c].cur) /\ start[cpu[c].cur] # 0

\* The time a task has waited for a CPU since its entry's run_delay_ns.
RunqDur(t, e) == Delay(t) - e.run_delay_ns
Slow(t, e) == RqDur # 0 /\ RunqDur(t, e) > RqDur

\* Faulty: recording stays off after a dump.
SchedCacheDumpLeftOff(c) ==
    /\ backup' = [backup EXCEPT ![c] = <<cache[c].id, cache[c].records>>]
    /\ cache' = [cache EXCEPT ![c].status = "off"]

\* sched_cache_dump: recording is off only while the copy is made, on the CPU
\* that records.
SchedCacheDump(c) ==
    /\ backup' = [backup EXCEPT ![c] = <<cache[c].id, cache[c].records>>]
    /\ cache' = [cache EXCEPT ![c].status = "on"]

\* The record of CPU c after it was filled for task t with entry e.  The flag
\* and the CPU of an earlier dump stay in it.
FillEvent(c, t, e) ==
    [perf[c] EXCEPT !.task = t, !.dur = cpu[c].ts - e.offcpu_ns,
                    !.rq = RunqDur(t, e), !.offcpu_ns = e.offcpu_ns,
                    !.onrq_ns = e.onrq_ns, !.waker = e.waker,
                    !.is_sched_cache_dump = IF Slow(t, e) THEN 1 ELSE @,
                    !.cpu = IF Slow(t, e) THEN c ELSE @]

\* The rest of sched_switch_hook when the time off is one to send.  An entry
\* replaced between the lookup and here would be read as before.
Report(c) ==
    /\ Traced(c)
    /\ LET t == cpu[c].cur
           e == elem[start[t]]
           event == FillEvent(c, t, e)
       IN  /\ e.offcpu_ns # 0 /\ InRange(cpu[c].ts - e.offcpu_ns)
           /\ perf' = [perf EXCEPT ![c] = event]
           /\ truth' = [truth EXCEPT ![c] =
                 [dur    |-> cpu[c].ts - offAt[t], waited |-> waited[t],
                  wakers |-> wakers[t],
                  slow   |-> Slow(t, e), prev |-> cpu[c].prev, nth |-> handled[c]]]
           /\ IF Slow(t, e) THEN SchedCacheDump(c) ELSE UNCHANGED <<cache, backup>>
           /\ elem' = [elem EXCEPT ![start[t]].run_delay_ns = Delay(t)]
    /\ Finish(c, TRUE)
    /\ UNCHANGED <<sched, tgid, start, raced, handled>>

\* The same when it is not.
NoReport(c) ==
    /\ Traced(c)
    /\ LET t == cpu[c].cur
           e == elem[start[t]]
       IN  /\ e.offcpu_ns = 0 \/ ~InRange(cpu[c].ts - e.offcpu_ns)
           /\ elem' = [elem EXCEPT ![start[t]].run_delay_ns = Delay(t)]
    /\ Finish(c, FALSE)
    /\ UNCHANGED <<sched, tgid, start, cache, backup, perf, raced, handled, truth>>

\* schedCacheDump of the session: what it finds for the event of CPU c.
Dumped(c) == backup[perf[c].cpu]

\* The bounds are reached and all handlers have ended.
Quiet ==
    /\ now = MaxTime /\ (switches = MaxSwitches \/ wakes = MaxWakes)
    /\ \A c \in Cpus : cpu[c].pc = "none"
    /\ UNCHANGED vars

Next ==
    \/ Advance
    \/ \E c \in Cpus :
        \/ \E next \in Pids, how \in {"ready", "blocked"} : Switch(c, next, how)
        \/ \E t \in Tasks : TryToWakeUp(c, t) \/ WakeIgnored(c, t)
        \/ InsertWaker(c) \/ WriteWaker(c) \/ WriteOnrq(c)
        \/ SwitchHook(c) \/ InsertPrev(c) \/ WritePrev(c) \/ NotTraced(c)
        \/ Report(c) \/ NoReport(c)
    \/ \E t \in Tasks : WakeUnseen(t)
    \/ Quiet

Spec == Init /\ [][Next]_vars

----------------------------------------------------------------------------
TypeOK ==
    /\ now \in 1..MaxTime /\ on \in [Cpus -> Pids]
    /\ state \in [Tasks -> {"running", "ready", "blocked"}]
    /\ tgid \in Tgids
    /\ \A c \in Cpus :
          /\ cpu[c].pc \in {"none", "insertWaker", "writeWaker", "writeOnrq", "switch",
                            "insertPrev", "writePrev", "cur"}
          /\ cpu[c].ts \in 0..now /\ cpu[c].ptr \in 0..Len(elem)
          /\ cache[c].records \in [0..(CacheSize - 1) -> Pids]
    /\ start \in [Pids -> 0..Len(elem)]
    /\ Cardinality({t \in Pids : start[t] # 0}) <= StartSize
    /\ elem \in Seq([offcpu_ns : 0..now, onrq_ns : 0..now, waker : Pids \cup {Nobody},
                     run_delay_ns : Nat])

\* Whatever a wake-up on another CPU does to the entry meanwhile, the time off
\* CPU that is sent for a task is the time since its own last switch-out, and
\* the run-queue time is what it waited on a run queue within it.  (The idle
\* tasks of all CPUs share one pid and thus one entry; nothing is said of them.)
TimesTrue ==
    \A c \in Cpus : perf[c].task # Idle =>
        /\ perf[c].dur = truth[c].dur
        /\ perf[c].rq = truth[c].waited

\* When the time of the wake-up in an event lies after the switch-out, the
\* waker named with it tried to wake the task in this very time off CPU, even
\* if several CPUs did at once.  (A task that was preempted, or woken unseen,
\* is sent with its previous waker, and then with that earlier time.)
WakerTrue ==
    \A c \in Cpus :
        perf[c].task # Idle /\ perf[c].onrq_ns > perf[c].offcpu_ns =>
            perf[c].waker \in truth[c].wakers

\* A target's time off CPU in the range asked for is always sent, unless the
\* entry was replaced by a wake-up that had found none, or start was full.
NothingMissed == missed = {}

\* From the moment an event is sent with the flag set, the session finds a
\* backup of the CPU named in it, which is the CPU that sent it.  The event of
\* a task that waited too long has the flag, and the backup is the one made
\* for it, down to the switch that ended the wait, or a later one.
DumpReady ==
    \A c \in Cpus :
        /\ perf[c].is_sched_cache_dump = 1 => perf[c].cpu = c /\ Dumped(c) # <<>>
        /\ truth[c].slow =>
              /\ perf[c].is_sched_cache_dump = 1
              /\ Dumped(c)[1] >= truth[c].nth
              /\ Dumped(c)[1] = truth[c].nth =>
                    Dumped(c)[2][(truth[c].nth - 1) % CacheSize] = truth[c].prev
=============================================================================
