---------------------------- MODULE OffCpuProofs ----------------------------
(***************************************************************************)
(* Proofs about OffCpu, for every number of CPUs and tasks, all sizes of   *)
(* the maps, every choice of the options and every bound.                  *)
(*                                                                         *)
(* The argument follows a task through its time off CPU.  It is leaving    *)
(* until the handler of its switch-out has written its entry, then off,    *)
(* then coming until the handler of its switch-in has ended.  Handlers on  *)
(* other CPUs may replace the entry all the time, but they do not touch    *)
(* offcpu_ns and run_delay_ns of an entry that they have found.            *)
(***************************************************************************)
EXTENDS OffCpu, FiniteSetTheorems, SequenceTheorems, TLAPS

LeavePcs  == {"switch", "insertPrev", "writePrev"}
SwitchPcs == LeavePcs \cup {"cur"}
WakePcs   == {"insertWaker", "writeWaker", "writeOnrq"}
Handler == [pc : {"none"} \cup SwitchPcs \cup WakePcs, prev : Pids, cur : Pids, ts : Nat, ptr : Nat]
Entry   == [offcpu_ns : Nat, onrq_ns : Nat, waker : Pids \cup {Nobody}, run_delay_ns : Nat]
Records == [0..(CacheSize - 1) -> Pids]
Event   == [task : Pids, dur : Int, rq : Int, offcpu_ns : Nat, onrq_ns : Nat, waker : Pids \cup {Nobody},
            is_sched_cache_dump : {0, 1}, cpu : Cpus \cup {0}]
Truth   == [dur : Int, waited : Nat, wakers : SUBSET Pids, slow : BOOLEAN, prev : Pids, nth : Nat]

\* The variables of the scheduler, of the handlers and of the maps.
SchedTypes ==
    /\ now \in 1..MaxTime /\ on \in [Cpus -> Pids] /\ state \in [Tasks -> {"running", "ready", "blocked"}]
    /\ since \in [Tasks -> Nat] /\ delay \in [Tasks -> Nat] /\ waited \in [Pids -> Nat]
    /\ \A t \in Tasks : since[t] <= now
HandlerTypes ==
    /\ tgid \in Tgids /\ cpu \in [Cpus -> Handler]
    /\ \A c \in Cpus : cpu[c].ts <= now /\ cpu[c].ptr <= Len(elem)
MapTypes ==
    /\ start \in [Pids -> Nat] /\ elem \in Seq(Entry)
    /\ \A t \in Pids : start[t] <= Len(elem)
    /\ \A i \in 1..Len(elem) : elem[i].offcpu_ns <= now /\ elem[i].onrq_ns <= now
CacheTypes ==
    /\ cache \in [Cpus -> [status : {"on", "off"}, id : Nat, records : Records]]
    /\ backup \in [Cpus -> {<<>>} \cup (Nat \X Records)]
    /\ handled \in [Cpus -> Nat]
EventTypes ==
    /\ perf \in [Cpus -> Event] /\ truth \in [Cpus -> Truth]
HistoryTypes ==
    /\ offAt \in [Pids -> Nat] /\ wakers \in [Pids -> SUBSET Pids] /\ raced \subseteq Tasks
Types == SchedTypes /\ HandlerTypes /\ MapTypes /\ CacheTypes /\ EventTypes /\ HistoryTypes

Settled(t)  == \E c \in Cpus : on[c] = t /\ cpu[c].pc \notin SwitchPcs
Leaves(c, t) == cpu[c].pc \in LeavePcs /\ cpu[c].prev = t

\* A task runs on one CPU; a handler of a switch is on the CPU of the task that
\* came, and the task that left cannot come back before it has been handled.
SchedInv ==
    /\ \A c, d \in Cpus : on[c] = on[d] => c = d \/ on[c] = Idle
    /\ \A t \in Tasks : state[t] = "running" <=> \E c \in Cpus : on[c] = t
    /\ \A c \in Cpus :
          /\ cpu[c].pc \in SwitchPcs => cpu[c].cur = on[c] /\ cpu[c].prev # cpu[c].cur
          /\ cpu[c].pc \in WakePcs => cpu[c].cur \in Tasks
          /\ cpu[c].pc \notin {"none", "switch"} => cpu[c].ts = now
    /\ \A c \in Cpus : \A t \in Tasks : Leaves(c, t) =>
          state[t] # "running" /\ \A d \in Cpus : Leaves(d, t) => c = d

\* The task whose entry a handler writes.
Subject(c) == IF cpu[c].pc \in WakePcs THEN cpu[c].cur ELSE cpu[c].prev

\* The entry that a handler has found is its subject's and no other task's.
Owns(c) ==
    cpu[c].pc \in {"writePrev", "writeWaker", "writeOnrq"} =>
        /\ cpu[c].ptr # 0 /\ start[Subject(c)] # 0
        /\ \A u \in Pids : start[u] = cpu[c].ptr => u = Subject(c)

\* An entry belongs to one task, also when it was replaced.
OwnerInv ==
    /\ \A t, u \in Pids : start[t] = start[u] => t = u \/ start[t] = 0
    /\ \A c \in Cpus : Owns(c)
    /\ Cardinality({t \in Pids : start[t] # 0}) <= StartSize

\* What task t has waited on a run queue in its time off CPU.
Waited(t) == IF state[t] = "running" THEN waited[t] ELSE 0

\* The entry of a target t that is off or coming.
EntryTrue(t) ==
    is_target_task(t) /\ ~Settled(t) /\ (\A c \in Cpus : ~Leaves(c, t)) =>
        /\ start[t] # 0 /\ elem[start[t]].offcpu_ns # 0 =>
              /\ elem[start[t]].offcpu_ns = offAt[t]
              /\ elem[start[t]].run_delay_ns + Waited(t) = delay[t]
        /\ offAt[t] # 0 /\ t \notin raced => start[t] # 0 /\ elem[start[t]].offcpu_ns # 0

\* The handler of c is about to write the entry of t, which has left.
PrevTrue(c, t) ==
    Leaves(c, t) /\ cpu[c].pc # "switch" =>
        /\ offAt[t] = cpu[c].ts
        /\ cpu[c].pc = "writePrev" =>
              cpu[c].ptr = start[t] \/ (elem[start[t]].offcpu_ns = 0 /\ t \in raced)

EntryInv ==
    \A t \in Tasks : EntryTrue(t) /\ \A c \in Cpus : PrevTrue(c, t)

\* A waker recorded after the last switch-out of t is one of this time off, and
\* so is the one that a handler is about to record.
Recorded(t) ==
    start[t] # 0 /\ elem[start[t]].onrq_ns > offAt[t] => elem[start[t]].waker \in wakers[t]
Waking(c, t) ==
    cpu[c].pc \in WakePcs /\ cpu[c].cur = t /\ now > offAt[t] =>
        /\ on[c] \in wakers[t]
        /\ cpu[c].pc = "writeOnrq" /\ cpu[c].ptr = start[t] => elem[start[t]].waker \in wakers[t]
WakersOf(t) == offAt[t] # 0 => Recorded(t) /\ \A c \in Cpus : Waking(c, t)

WakerInv == \A t \in Tasks : WakersOf(t)

\* The ring of a CPU holds the switches it has handled.
CacheInv ==
    RqDur # 0 => \A c \in Cpus :
        /\ cache[c].status = "on" /\ cache[c].id = handled[c]
        /\ cpu[c].pc \in SwitchPcs \ {"switch"} =>
              handled[c] > 0 /\ cache[c].records[(handled[c] - 1) % CacheSize] = cpu[c].prev

IInv ==
    /\ Types /\ SchedInv /\ OwnerInv /\ EntryInv /\ WakerInv /\ CacheInv
    /\ TimesTrue /\ WakerTrue /\ NothingMissed /\ DumpReady

----------------------------------------------------------------------------
\* The assumptions about the constants, as the proofs use them.
LEMMA Constants ==
    /\ Pids = Tasks \cup {Idle} /\ Idle \in Pids /\ Idle \notin Tasks /\ Tasks \subseteq Pids
    /\ MinOffcpu \in Nat /\ MaxOffcpu \in Nat /\ RqDur \in Nat /\ StartSize \in Nat /\ CacheSize \in Nat
    /\ CacheSize > 0 /\ MaxTime \in Nat /\ MaxTime > 0
    /\ IsFiniteSet(Pids)
<1>1. IsFiniteSet(Tasks) /\ Idle \notin Tasks
  BY OffCpuAssumption
<1>2. IsFiniteSet(Tasks \cup {Idle})
  BY <1>1, FS_AddElement
<1> QED
  BY <1>1, <1>2, OffCpuAssumption DEF Pids

\* The handlers of the other CPUs.
Only(c) == \A d \in Cpus : d # c => cpu'[d] = cpu[d]

\* What the actions do to the handler of their CPU.
LEMMA NoHandlerFields ==
    /\ NoHandler.pc = "none" /\ NoHandler.prev = Idle /\ NoHandler.cur = Idle
    /\ NoHandler.ts = 0 /\ NoHandler.ptr = 0 /\ NoHandler \in Handler
  BY Constants DEF NoHandler, Handler

LEMMA EndHandler ==
    ASSUME NEW c \in Cpus, HandlerTypes, End(c)
    PROVE  Only(c) /\ cpu'[c] = NoHandler /\ cpu'[c].pc = "none" /\ cpu' \in [Cpus -> Handler]
  BY NoHandlerFields DEF HandlerTypes, End, Only

LEMMA SwitchHandler ==
    ASSUME NEW c \in Cpus, NEW next \in Pids, NEW how \in {"ready", "blocked"}, SchedTypes, HandlerTypes,
           Switch(c, next, how)
    PROVE  /\ Only(c) /\ cpu[c].pc = "none" /\ cpu'[c].pc = "switch"
           /\ cpu'[c].prev = on[c] /\ cpu'[c].cur = next /\ cpu'[c].ts = 0 /\ cpu'[c].ptr = 0
           /\ cpu' \in [Cpus -> Handler]
<1> DEFINE h == [NoHandler EXCEPT !.pc = "switch", !.prev = on[c], !.cur = next]
<1>1. on[c] \in Pids
  BY DEF SchedTypes
<1>2. h \in Handler /\ h.pc = "switch" /\ h.prev = on[c] /\ h.cur = next /\ h.ts = 0 /\ h.ptr = 0
  BY <1>1, Constants DEF NoHandler, Handler, SwitchPcs, LeavePcs
<1>3. cpu[c].pc = "none" /\ cpu' = [cpu EXCEPT ![c] = h]
  BY DEF Switch
<1> HIDE DEF h
<1> QED
  BY <1>2, <1>3 DEF HandlerTypes, Only

LEMMA WakeHandler ==
    ASSUME NEW c \in Cpus, NEW t \in Tasks, SchedTypes, HandlerTypes, MapTypes, TryToWakeUp(c, t)
    PROVE  /\ Only(c) /\ cpu[c].pc = "none"
           /\ cpu'[c].pc = IF start[t] = 0 THEN "insertWaker" ELSE "writeWaker"
           /\ cpu'[c].cur = t /\ cpu'[c].ts = now /\ cpu'[c].ptr = start[t]
           /\ cpu' \in [Cpus -> Handler]
<1> DEFINE h == [NoHandler EXCEPT !.pc = IF start[t] = 0 THEN "insertWaker" ELSE "writeWaker",
                                  !.cur = t, !.ts = now, !.ptr = start[t]]
<1>1. now \in Nat /\ start[t] \in Nat /\ t \in Pids
  BY Constants DEF SchedTypes, MapTypes
<1>2. /\ h \in Handler /\ h.pc = IF start[t] = 0 THEN "insertWaker" ELSE "writeWaker"
      /\ h.cur = t /\ h.ts = now /\ h.ptr = start[t]
  BY <1>1, Constants DEF NoHandler, Handler, WakePcs
<1>3. cpu[c].pc = "none" /\ cpu' = [cpu EXCEPT ![c] = h]
  BY DEF TryToWakeUp
<1> HIDE DEF h
<1> QED
  BY <1>2, <1>3 DEF HandlerTypes, Only

LEMMA HookHandler ==
    ASSUME NEW c \in Cpus, SchedTypes, HandlerTypes, MapTypes, SwitchHook(c)
    PROVE  /\ Only(c) /\ cpu[c].pc = "switch"
           /\ cpu'[c].pc = CASE ~is_target_task(cpu[c].prev) -> "cur"
                             [] start[cpu[c].prev] = 0       -> "insertPrev"
                             [] OTHER                        -> "writePrev"
           /\ cpu'[c].prev = cpu[c].prev /\ cpu'[c].cur = cpu[c].cur
           /\ cpu'[c].ts = now /\ cpu'[c].ptr = start[cpu[c].prev]
           /\ cpu' \in [Cpus -> Handler]
<1> PICK p \in BOOLEAN : p = is_target_task(cpu[c].prev)
  BY DEF is_target_task
<1> DEFINE pc == CASE ~p -> "cur" [] start[cpu[c].prev] = 0 -> "insertPrev" [] OTHER -> "writePrev"
<1>1. now \in Nat /\ cpu[c] \in Handler /\ cpu[c].prev \in Pids /\ start[cpu[c].prev] \in Nat
  BY DEF SchedTypes, MapTypes, HandlerTypes, Handler
<1>2. pc \in {"cur", "insertPrev", "writePrev"}
  OBVIOUS
<1>3. cpu[c].pc = "switch"
  BY DEF SwitchHook
<1>4. cpu' = [cpu EXCEPT ![c].ts = now, ![c].ptr = start[cpu[c].prev], ![c].pc = pc]
  BY DEF SwitchHook
<1> HIDE DEF pc
<1>5. cpu' \in [Cpus -> Handler]
  BY <1>1, <1>2, <1>4 DEF HandlerTypes, Handler, SwitchPcs, LeavePcs
<1>6. Only(c)
  BY <1>4 DEF Only, HandlerTypes
<1>7. cpu'[c].pc = pc /\ cpu'[c].prev = cpu[c].prev /\ cpu'[c].cur = cpu[c].cur /\ cpu'[c].ts = now /\ cpu'[c].ptr = start[cpu[c].prev]
  BY <1>1, <1>4 DEF HandlerTypes, Handler
<1> QED
  BY <1>3, <1>5, <1>6, <1>7 DEF pc

\* InsertPrev, WritePrev and WriteWaker only move the handler on.
LEMMA StepHandler ==
    ASSUME NEW c \in Cpus, HandlerTypes, NEW p \in {"cur", "writeOnrq"}, cpu' = [cpu EXCEPT ![c].pc = p]
    PROVE  /\ Only(c) /\ cpu'[c].pc = p
           /\ cpu'[c].prev = cpu[c].prev /\ cpu'[c].cur = cpu[c].cur
           /\ cpu'[c].ts = cpu[c].ts /\ cpu'[c].ptr = cpu[c].ptr
           /\ cpu' \in [Cpus -> Handler]
<1>1. cpu[c] \in Handler /\ p \in {"none"} \cup SwitchPcs \cup WakePcs
  BY DEF HandlerTypes, SwitchPcs, WakePcs
<1> QED
  BY <1>1 DEF HandlerTypes, Handler, Only

----------------------------------------------------------------------------
\* What the actions do to the entries: bpf_map_update_elem, and a write to a
\* field of an entry.
LEMMA UpdateEffect ==
    ASSUME NEW t \in Pids, NEW entry \in Entry, MapTypes, HistoryTypes, Update(t, entry)
    PROVE  /\ start' \in [Pids -> Nat] /\ elem' \in Seq(Entry) /\ Len(elem') >= Len(elem)
           /\ \A i \in 1..Len(elem) : elem'[i] = elem[i]
           /\ \A u \in Pids : u # t => start'[u] = start[u]
           /\ \/ /\ HasRoom(t) /\ start'[t] = Len(elem) + 1 /\ Len(elem') = Len(elem) + 1
                 /\ elem'[start'[t]] = entry /\ (t # Idle /\ start[t] # 0 => t \in raced')
              \/ /\ ~HasRoom(t) /\ start[t] = 0 /\ start' = start /\ elem' = elem
                 /\ t # Idle => t \in raced'
           /\ raced \subseteq raced' /\ raced' \subseteq Tasks
           /\ \A u \in Tasks : u # t => (u \in raced' <=> u \in raced)
<1>1. /\ start \in [Pids -> Nat] /\ elem \in Seq(Entry) /\ Len(elem) \in Nat /\ raced \subseteq Tasks
  BY DEF MapTypes, HistoryTypes
<1>2. raced' = IF t # Idle /\ (start[t] # 0 \/ ~HasRoom(t)) THEN raced \cup {t} ELSE raced
  BY DEF Update
<1>3. t # Idle => t \in Tasks
  BY DEF Pids
<1>4. /\ raced \subseteq raced' /\ raced' \subseteq Tasks
      /\ \A u \in Tasks : u # t => (u \in raced' <=> u \in raced)
      /\ t # Idle /\ (start[t] # 0 \/ ~HasRoom(t)) => t \in raced'
  BY <1>1, <1>2, <1>3
<1>5. CASE HasRoom(t)
  <2>1. elem' = Append(elem, entry) /\ start' = [start EXCEPT ![t] = Len(elem) + 1]
    BY <1>5 DEF Update
  <2>2. /\ elem' \in Seq(Entry) /\ Len(elem') = Len(elem) + 1 /\ elem'[Len(elem) + 1] = entry
        /\ \A i \in 1..Len(elem) : elem'[i] = elem[i]
    BY <2>1, <1>1
  <2>3. /\ start' \in [Pids -> Nat] /\ start'[t] = Len(elem) + 1
        /\ \A u \in Pids : u # t => start'[u] = start[u]
    BY <2>1, <1>1
  <2> QED
    BY <2>2, <2>3, <1>1, <1>4, <1>5
<1>6. CASE ~HasRoom(t)
  <2>1. elem' = elem /\ start' = start
    BY <1>6 DEF Update
  <2>2. start[t] = 0
    BY <1>6 DEF HasRoom
  <2> QED
    BY <2>1, <2>2, <1>1, <1>4, <1>6
<1> QED
  BY <1>5, <1>6

LEMMA RoomKept ==
    ASSUME NEW t \in Pids, NEW entry \in Entry, MapTypes, HistoryTypes, Update(t, entry),
           Cardinality({u \in Pids : start[u] # 0}) <= StartSize
    PROVE  Cardinality({u \in Pids : start'[u] # 0}) <= StartSize
<1> DEFINE S == {u \in Pids : start[u] # 0}
<1>1. IsFiniteSet(S) /\ Cardinality(S) \in Nat /\ StartSize \in Nat
  BY Constants, FS_Subset, FS_CardinalityType
<1>2. Len(elem) \in Nat /\ start \in [Pids -> Nat]
  BY DEF MapTypes
<1>3. CASE HasRoom(t)
  <2>1. start' = [start EXCEPT ![t] = Len(elem) + 1]
    BY <1>3 DEF Update
  <2>2. {u \in Pids : start'[u] # 0} = S \cup {t}
    BY <2>1, <1>2
  <2>3. t \in S => S \cup {t} = S
    OBVIOUS
  <2>4. t \notin S => Cardinality(S) < StartSize
    BY <1>3 DEF HasRoom
  <2>5. Cardinality(S \cup {t}) = IF t \in S THEN Cardinality(S) ELSE Cardinality(S) + 1
    BY <1>1, FS_AddElement
  <2> HIDE DEF S
  <2>6. Cardinality(S) <= StartSize
    BY DEF S
  <2> QED
    BY <2>2, <2>4, <2>5, <2>6, <1>1
<1>4. CASE ~HasRoom(t)
  <2>1. start' = start
    BY <1>4 DEF Update
  <2> QED
    BY <2>1
<1> QED
  BY <1>3, <1>4

LEMMA WriteEffect ==
    ASSUME NEW p \in 1..Len(elem), NEW x \in Entry, MapTypes, elem' = [elem EXCEPT ![p] = x]
    PROVE  /\ elem' \in Seq(Entry) /\ Len(elem') = Len(elem) /\ elem'[p] = x
           /\ \A i \in 1..Len(elem) : i # p => elem'[i] = elem[i]
<1>1. elem \in Seq(Entry) /\ Len(elem) \in Nat
  BY DEF MapTypes
<1> QED
  BY <1>1

\* A step that writes to the entry at p and to no other.
WroteAt(p) ==
    /\ p \in 1..Len(elem) /\ elem' \in Seq(Entry) /\ Len(elem') = Len(elem)
    /\ \A i \in 1..Len(elem) : i # p => elem'[i] = elem[i]

LEMMA PtrFound ==
    ASSUME NEW c \in Cpus, HandlerTypes, MapTypes, OwnerInv,
           cpu[c].pc \in {"writePrev", "writeWaker", "writeOnrq"}
    PROVE  cpu[c].ptr \in 1..Len(elem) /\ elem[cpu[c].ptr] \in Entry
<1>1. cpu[c].ptr # 0 /\ cpu[c].ptr <= Len(elem) /\ cpu[c].ptr \in Nat
  BY DEF OwnerInv, Owns, HandlerTypes, Handler
<1>2. elem \in Seq(Entry) /\ Len(elem) \in Nat
  BY DEF MapTypes
<1> QED
  BY <1>1, <1>2

LEMMA WriteWakerEffect ==
    ASSUME NEW c \in Cpus, SchedTypes, HandlerTypes, MapTypes, OwnerInv, WriteWaker(c)
    PROVE  /\ WroteAt(cpu[c].ptr) /\ elem'[cpu[c].ptr].waker = on[c]
           /\ elem'[cpu[c].ptr].onrq_ns = elem[cpu[c].ptr].onrq_ns
           /\ elem'[cpu[c].ptr].offcpu_ns = elem[cpu[c].ptr].offcpu_ns
           /\ elem'[cpu[c].ptr].run_delay_ns = elem[cpu[c].ptr].run_delay_ns
<1> DEFINE p == cpu[c].ptr
           x == [elem[p] EXCEPT !.waker = on[c]]
<1>1. p \in 1..Len(elem) /\ elem[p] \in Entry
  BY PtrFound DEF WriteWaker
<1>2. elem' = [elem EXCEPT ![p] = x]
  BY DEF WriteWaker
<1>3. on[c] \in Pids
  BY DEF SchedTypes
<1>4. /\ x \in Entry /\ x.waker = on[c] /\ x.onrq_ns = elem[p].onrq_ns
      /\ x.offcpu_ns = elem[p].offcpu_ns /\ x.run_delay_ns = elem[p].run_delay_ns
  BY <1>1, <1>3 DEF Entry
<1> HIDE DEF x, p
<1>5. WroteAt(p) /\ elem'[p] = x
  BY <1>1, <1>2, <1>4, WriteEffect DEF WroteAt
<1> QED
  BY <1>4, <1>5 DEF p

LEMMA WriteOnrqEffect ==
    ASSUME NEW c \in Cpus, SchedTypes, HandlerTypes, MapTypes, OwnerInv, WriteOnrq(c)
    PROVE  /\ WroteAt(cpu[c].ptr) /\ elem'[cpu[c].ptr].waker = elem[cpu[c].ptr].waker
           /\ elem'[cpu[c].ptr].onrq_ns = cpu[c].ts
           /\ elem'[cpu[c].ptr].offcpu_ns = elem[cpu[c].ptr].offcpu_ns
           /\ elem'[cpu[c].ptr].run_delay_ns = elem[cpu[c].ptr].run_delay_ns
<1> DEFINE p == cpu[c].ptr
           x == [elem[p] EXCEPT !.onrq_ns = cpu[c].ts]
<1>1. p \in 1..Len(elem) /\ elem[p] \in Entry
  BY PtrFound DEF WriteOnrq
<1>2. elem' = [elem EXCEPT ![p] = x]
  BY DEF WriteOnrq
<1>3. cpu[c].ts \in Nat
  BY DEF HandlerTypes, Handler
<1>4. /\ x \in Entry /\ x.waker = elem[p].waker /\ x.onrq_ns = cpu[c].ts
      /\ x.offcpu_ns = elem[p].offcpu_ns /\ x.run_delay_ns = elem[p].run_delay_ns
  BY <1>1, <1>3 DEF Entry
<1> HIDE DEF x, p
<1>5. WroteAt(p) /\ elem'[p] = x
  BY <1>1, <1>2, <1>4, WriteEffect DEF WroteAt
<1> QED
  BY <1>4, <1>5 DEF p

LEMMA DelayType ==
    ASSUME SchedTypes, NEW t \in Pids
    PROVE  Delay(t) \in Nat
  BY Constants DEF SchedTypes, Delay

LEMMA WritePrevEffect ==
    ASSUME NEW c \in Cpus, SchedTypes, HandlerTypes, MapTypes, OwnerInv, WritePrev(c)
    PROVE  /\ WroteAt(cpu[c].ptr) /\ elem'[cpu[c].ptr].waker = elem[cpu[c].ptr].waker
           /\ elem'[cpu[c].ptr].onrq_ns = elem[cpu[c].ptr].onrq_ns
           /\ elem'[cpu[c].ptr].offcpu_ns = cpu[c].ts
           /\ elem'[cpu[c].ptr].run_delay_ns = Delay(cpu[c].prev)
<1> DEFINE p == cpu[c].ptr
           x == [elem[p] EXCEPT !.offcpu_ns = cpu[c].ts, !.run_delay_ns = Delay(cpu[c].prev)]
<1>1. p \in 1..Len(elem) /\ elem[p] \in Entry
  BY PtrFound DEF WritePrev
<1>2. elem \in Seq(Entry)
  BY DEF MapTypes
<1>3. elem' = [elem EXCEPT ![p] = x]
  BY <1>1, <1>2 DEF WritePrev
<1>4. cpu[c].ts \in Nat /\ cpu[c].prev \in Pids
  BY DEF HandlerTypes, Handler
<1>5. Delay(cpu[c].prev) \in Nat
  BY <1>4, DelayType
<1>6. /\ x \in Entry /\ x.waker = elem[p].waker /\ x.onrq_ns = elem[p].onrq_ns
      /\ x.offcpu_ns = cpu[c].ts /\ x.run_delay_ns = Delay(cpu[c].prev)
  BY <1>1, <1>4, <1>5 DEF Entry
<1> HIDE DEF x, p
<1>7. WroteAt(p) /\ elem'[p] = x
  BY <1>1, <1>3, <1>6, WriteEffect DEF WroteAt
<1> QED
  BY <1>6, <1>7 DEF p

\* Report and NoReport end with the write of run_delay_ns.
LEMMA CurEffect ==
    ASSUME NEW c \in Cpus, SchedTypes, HandlerTypes, MapTypes, Report(c) \/ NoReport(c)
    PROVE  /\ start[cpu[c].cur] # 0 /\ cpu[c].pc = "cur" /\ is_target_task(cpu[c].cur)
           /\ WroteAt(start[cpu[c].cur])
           /\ elem'[start[cpu[c].cur]].waker = elem[start[cpu[c].cur]].waker
           /\ elem'[start[cpu[c].cur]].onrq_ns = elem[start[cpu[c].cur]].onrq_ns
           /\ elem'[start[cpu[c].cur]].offcpu_ns = elem[start[cpu[c].cur]].offcpu_ns
<1> DEFINE t == cpu[c].cur
           p == start[t]
           x == [elem[p] EXCEPT !.run_delay_ns = Delay(t)]
<1>1. start[t] # 0 /\ cpu[c].pc = "cur" /\ is_target_task(t)
  BY DEF Report, NoReport, Traced
<1>2. elem' = [elem EXCEPT ![p] = x]
  BY DEF Report, NoReport
<1>3. cpu[c].cur \in Pids
  BY DEF HandlerTypes, Handler
<1>4. p \in 1..Len(elem) /\ elem[p] \in Entry
  BY <1>1, <1>3 DEF MapTypes
<1>5. Delay(t) \in Nat
  BY <1>3, DelayType
<1>6. x \in Entry /\ x.waker = elem[p].waker /\ x.onrq_ns = elem[p].onrq_ns /\ x.offcpu_ns = elem[p].offcpu_ns
  BY <1>4, <1>5 DEF Entry
<1> HIDE DEF x, p
<1>7. WroteAt(p) /\ elem'[p] = x
  BY <1>2, <1>4, <1>6, WriteEffect DEF WroteAt
<1> QED
  BY <1>1, <1>6, <1>7 DEF p

----------------------------------------------------------------------------
\* The types.
LEMMA EnqueueEffect ==
    ASSUME SchedTypes, NEW t \in Tasks, Enqueue(t)
    PROVE  /\ state' \in [Tasks -> {"running", "ready", "blocked"}] /\ since' \in [Tasks -> Nat]
           /\ \A u \in Tasks : since'[u] <= now /\ (state'[u] = "running" <=> state[u] = "running")
<1>1. /\ state \in [Tasks -> {"running", "ready", "blocked"}] /\ since \in [Tasks -> Nat]
      /\ now \in Nat /\ \A u \in Tasks : since[u] <= now
  BY DEF SchedTypes
<1>2. CASE state[t] = "blocked"
  <2>1. state' = [state EXCEPT ![t] = "ready"] /\ since' = [since EXCEPT ![t] = now]
    BY <1>2 DEF Enqueue
  <2> QED
    BY <2>1, <1>1, <1>2
<1>3. CASE state[t] # "blocked"
  BY <1>1, <1>3 DEF Enqueue
<1> QED
  BY <1>2, <1>3

LEMMA SchedTypesKept ==
    ASSUME Types, SchedInv, Next
    PROVE  SchedTypes'
<1>1. SchedTypes /\ HandlerTypes
  BY DEF Types
<1>2. /\ now \in 1..MaxTime /\ on \in [Cpus -> Pids] /\ state \in [Tasks -> {"running", "ready", "blocked"}]
      /\ since \in [Tasks -> Nat] /\ delay \in [Tasks -> Nat] /\ waited \in [Pids -> Nat]
      /\ \A t \in Tasks : since[t] <= now
  BY <1>1 DEF SchedTypes
<1>3. ASSUME UNCHANGED sched
      PROVE  SchedTypes'
  BY <1>1, <1>3 DEF SchedTypes, sched
<1>4. ASSUME NEW t \in Tasks, Enqueue(t), UNCHANGED <<now, on, delay, waited>>
      PROVE  SchedTypes'
  BY <1>1, <1>2, <1>4, EnqueueEffect DEF SchedTypes
<1>5. CASE Advance
  BY <1>2, <1>5, Constants DEF Advance, SchedTypes
<1>6. ASSUME NEW c \in Cpus, NEW next \in Pids, NEW how \in {"ready", "blocked"}, Switch(c, next, how)
      PROVE  SchedTypes'
  <2> DEFINE prev == on[c]
  <2>1. /\ state' = [t \in Tasks |-> CASE t = next -> "running" [] t = prev -> how [] OTHER -> state[t]]
        /\ since' = [t \in Tasks |-> CASE t = next -> 0 [] t = prev -> now [] OTHER -> since[t]]
        /\ waited' = [waited EXCEPT ![next] = IF next = Idle THEN 0 ELSE now - since[next]]
        /\ delay' = [t \in Tasks |-> IF t = next THEN delay[t] + now - since[t] ELSE delay[t]]
        /\ on' = [on EXCEPT ![c] = next] /\ now' = now
    BY <1>6 DEF Switch
  <2>2. now \in Nat
    BY <1>2
  <2>3. state' \in [Tasks -> {"running", "ready", "blocked"}]
    BY <2>1, <1>2
  <2>4. since' \in [Tasks -> Nat] /\ \A t \in Tasks : since'[t] <= now
    BY <2>1, <2>2, <1>2
  <2>5. next # Idle => next \in Tasks
    BY DEF Pids
  <2>6. waited' \in [Pids -> Nat]
    BY <2>1, <2>2, <2>5, <1>2
  <2>7. delay' \in [Tasks -> Nat]
    BY <2>1, <2>2, <1>2
  <2> QED
    BY <2>1, <2>3, <2>4, <2>6, <2>7, <1>2 DEF SchedTypes
<1>7. ASSUME NEW c \in Cpus, NEW t \in Tasks, TryToWakeUp(c, t)
      PROVE  SchedTypes'
  BY <1>1, <1>7 DEF TryToWakeUp, SchedTypes
<1>8. ASSUME NEW c \in Cpus, NEW t \in Tasks, WakeIgnored(c, t)
      PROVE  SchedTypes'
  BY <1>4, <1>8 DEF WakeIgnored
<1>9. ASSUME NEW t \in Tasks, WakeUnseen(t)
      PROVE  SchedTypes'
  BY <1>4, <1>9 DEF WakeUnseen
<1>10. ASSUME NEW c \in Cpus, InsertWaker(c) \/ WriteOnrq(c)
       PROVE  SchedTypes'
  <2>1. cpu[c].cur \in Tasks
    BY <1>10 DEF SchedInv, InsertWaker, WriteOnrq, WakePcs
  <2> QED
    BY <2>1, <1>4, <1>10 DEF InsertWaker, WriteOnrq
<1>11. ASSUME NEW c \in Cpus,
              \/ WriteWaker(c) \/ SwitchHook(c) \/ InsertPrev(c) \/ WritePrev(c)
              \/ NotTraced(c) \/ Report(c) \/ NoReport(c)
       PROVE  SchedTypes'
  BY <1>3, <1>11 DEF WriteWaker, SwitchHook, InsertPrev, WritePrev, NotTraced, Report, NoReport
<1>12. CASE Quiet
  BY <1>3, <1>12 DEF Quiet, vars
<1> QED
  BY <1>5, <1>6, <1>7, <1>8, <1>9, <1>10, <1>11, <1>12 DEF Next

\* Entries that the wake-up and the switch-out of a task insert.
LEMMA Inserted ==
    ASSUME NEW c \in Cpus, SchedTypes, HandlerTypes
    PROVE  /\ LET e == [NewEntry EXCEPT !.waker = on[c], !.onrq_ns = cpu[c].ts]
              IN  /\ e \in Entry /\ e.offcpu_ns = 0 /\ e.onrq_ns = cpu[c].ts
                  /\ e.waker = on[c] /\ e.run_delay_ns = 0
           /\ LET e == [NewEntry EXCEPT !.offcpu_ns = cpu[c].ts, !.run_delay_ns = Delay(cpu[c].prev)]
              IN  /\ e \in Entry /\ e.offcpu_ns = cpu[c].ts /\ e.onrq_ns = 0
                  /\ e.waker = Nobody /\ e.run_delay_ns = Delay(cpu[c].prev)
<1>1. on[c] \in Pids /\ cpu[c].ts \in Nat /\ cpu[c].prev \in Pids
  BY DEF SchedTypes, HandlerTypes, Handler
<1>2. Delay(cpu[c].prev) \in Nat
  BY <1>1, DelayType
<1>3. NewEntry \in Entry /\ NewEntry.offcpu_ns = 0 /\ NewEntry.onrq_ns = 0 /\ NewEntry.waker = Nobody
      /\ NewEntry.run_delay_ns = 0
  BY DEF NewEntry, Entry
<1> QED
  BY <1>1, <1>2, <1>3 DEF Entry

LEMMA MapTypesKept ==
    ASSUME Types, SchedInv, OwnerInv, Next
    PROVE  MapTypes' /\ Len(elem') >= Len(elem) /\ now' >= now
<1>1. SchedTypes /\ HandlerTypes /\ MapTypes /\ HistoryTypes
  BY DEF Types
<1>2. /\ start \in [Pids -> Nat] /\ elem \in Seq(Entry) /\ Len(elem) \in Nat
      /\ \A t \in Pids : start[t] <= Len(elem)
      /\ \A i \in 1..Len(elem) : elem[i].offcpu_ns <= now /\ elem[i].onrq_ns <= now
  BY <1>1 DEF MapTypes
<1>3. now \in Nat /\ now' >= now
  <2>1. now \in Nat
    BY <1>1 DEF SchedTypes
  <2>2. CASE Advance
    BY <2>1, <2>2 DEF Advance
  <2>3. CASE Quiet \/ \E t \in Tasks : WakeUnseen(t)
    BY <2>1, <2>3 DEF Quiet, WakeUnseen, vars, sched
  <2>4. ASSUME NEW c \in Cpus,
               \/ \E next \in Pids, how \in {"ready", "blocked"} : Switch(c, next, how)
               \/ \E t \in Tasks : TryToWakeUp(c, t) \/ WakeIgnored(c, t)
        PROVE  now' = now
    BY <2>4 DEF Switch, TryToWakeUp, WakeIgnored
  <2>5. ASSUME NEW c \in Cpus, \/ InsertWaker(c) \/ WriteWaker(c) \/ WriteOnrq(c) \/ SwitchHook(c)
                               \/ InsertPrev(c) \/ WritePrev(c) \/ NotTraced(c) \/ Report(c) \/ NoReport(c)
        PROVE  now' = now
    BY <2>5 DEF InsertWaker, WriteWaker, WriteOnrq, SwitchHook, InsertPrev, WritePrev, NotTraced, Report,
                NoReport, sched
  <2> QED
    BY <2>1, <2>2, <2>3, <2>4, <2>5 DEF Next
<1> DEFINE Goal == MapTypes' /\ Len(elem') >= Len(elem)
<1>4. ASSUME UNCHANGED <<start, elem>>
      PROVE  Goal
  <2>1. now' \in Nat
    BY <1>1, SchedTypesKept DEF SchedTypes
  <2>2. \A i \in 1..Len(elem) : elem[i].offcpu_ns \in Nat /\ elem[i].onrq_ns \in Nat
    <3>1. \A i \in 1..Len(elem) : elem[i] \in Entry
      BY <1>2
    <3> QED
      BY <3>1 DEF Entry
  <2>3. \A i \in 1..Len(elem) : elem[i].offcpu_ns <= now' /\ elem[i].onrq_ns <= now'
    BY <2>1, <2>2, <1>2, <1>3
  <2> QED
    BY <2>3, <1>2, <1>4 DEF MapTypes
<1>5. ASSUME NEW t \in Pids, NEW entry \in Entry, Update(t, entry), now' = now,
             entry.offcpu_ns <= now, entry.onrq_ns <= now
      PROVE  Goal
  <2>1. /\ start' \in [Pids -> Nat] /\ elem' \in Seq(Entry) /\ Len(elem') >= Len(elem)
        /\ \A i \in 1..Len(elem) : elem'[i] = elem[i]
        /\ \A u \in Pids : u # t => start'[u] = start[u]
        /\ \/ start'[t] = Len(elem) + 1 /\ Len(elem') = Len(elem) + 1 /\ elem'[start'[t]] = entry
           \/ start' = start /\ elem' = elem
    BY <1>1, <1>5, UpdateEffect
  <2>2. CASE start' = start /\ elem' = elem
    BY <2>2, <1>4
  <2>3. CASE start'[t] = Len(elem) + 1 /\ Len(elem') = Len(elem) + 1 /\ elem'[start'[t]] = entry
    <3>1. \A u \in Pids : start'[u] <= Len(elem')
      BY <2>1, <2>3, <1>2
    <3>2. \A i \in 1..Len(elem') : elem'[i].offcpu_ns <= now /\ elem'[i].onrq_ns <= now
      <4> TAKE i \in 1..Len(elem')
      <4>1. i \in 1..Len(elem) \/ i = Len(elem) + 1
        BY <2>3, <1>2
      <4> QED
        BY <4>1, <2>1, <2>3, <1>2, <1>5
    <3> QED
      BY <3>1, <3>2, <2>1, <1>5 DEF MapTypes
  <2> QED
    BY <2>1, <2>2, <2>3
<1>6. ASSUME NEW p \in 1..Len(elem), WroteAt(p), start' = start, now' = now,
             elem'[p].offcpu_ns <= now, elem'[p].onrq_ns <= now
      PROVE  Goal
  <2>1. elem' \in Seq(Entry) /\ Len(elem') = Len(elem) /\ \A i \in 1..Len(elem) : i # p => elem'[i] = elem[i]
    BY <1>6 DEF WroteAt
  <2>2. \A i \in 1..Len(elem') : elem'[i].offcpu_ns <= now /\ elem'[i].onrq_ns <= now
    BY <2>1, <1>2, <1>6
  <2> QED
    BY <2>1, <2>2, <1>2, <1>6 DEF MapTypes
<1>7. ASSUME NEW c \in Cpus PROVE cpu[c].ts <= now /\ cpu[c].cur \in Pids /\ cpu[c].prev \in Pids
  BY <1>1 DEF HandlerTypes, Handler
<1>8. ASSUME NEW c \in Cpus, InsertWaker(c)
      PROVE  Goal
  <2>1. PICK entry \in Entry : /\ entry = [NewEntry EXCEPT !.waker = on[c], !.onrq_ns = cpu[c].ts]
                               /\ entry.offcpu_ns = 0 /\ entry.onrq_ns = cpu[c].ts
    BY <1>1, Inserted
  <2>2. Update(cpu[c].cur, entry) /\ now' = now
    BY <2>1, <1>8 DEF InsertWaker
  <2>3. entry.offcpu_ns <= now /\ entry.onrq_ns <= now
    BY <2>1, <1>3, <1>7
  <2> QED
    BY <2>2, <2>3, <1>5, <1>7
<1>9. ASSUME NEW c \in Cpus, InsertPrev(c)
      PROVE  Goal
  <2>1. PICK entry \in Entry :
           /\ entry = [NewEntry EXCEPT !.offcpu_ns = cpu[c].ts, !.run_delay_ns = Delay(cpu[c].prev)]
           /\ entry.offcpu_ns = cpu[c].ts /\ entry.onrq_ns = 0
    BY <1>1, Inserted
  <2>2. Update(cpu[c].prev, entry) /\ now' = now
    BY <2>1, <1>9 DEF InsertPrev, sched
  <2>3. entry.offcpu_ns <= now /\ entry.onrq_ns <= now
    BY <2>1, <1>3, <1>7
  <2> QED
    BY <2>2, <2>3, <1>5, <1>7
<1>10. ASSUME NEW c \in Cpus, WriteWaker(c)
       PROVE  Goal
  <2>1. WroteAt(cpu[c].ptr) /\ elem'[cpu[c].ptr].onrq_ns = elem[cpu[c].ptr].onrq_ns
           /\ elem'[cpu[c].ptr].offcpu_ns = elem[cpu[c].ptr].offcpu_ns /\ cpu[c].ptr \in 1..Len(elem)
    BY <1>1, <1>10, WriteWakerEffect DEF WroteAt
  <2>2. start' = start /\ now' = now
    BY <1>10 DEF WriteWaker, sched
  <2> QED
    BY <2>1, <2>2, <1>2, <1>6
<1>11. ASSUME NEW c \in Cpus, WriteOnrq(c)
       PROVE  Goal
  <2>1. WroteAt(cpu[c].ptr) /\ elem'[cpu[c].ptr].onrq_ns = cpu[c].ts
           /\ elem'[cpu[c].ptr].offcpu_ns = elem[cpu[c].ptr].offcpu_ns /\ cpu[c].ptr \in 1..Len(elem)
    BY <1>1, <1>11, WriteOnrqEffect DEF WroteAt
  <2>2. start' = start /\ now' = now
    BY <1>11 DEF WriteOnrq
  <2> QED
    BY <2>1, <2>2, <1>2, <1>6, <1>7
<1>12. ASSUME NEW c \in Cpus, WritePrev(c)
       PROVE  Goal
  <2>1. WroteAt(cpu[c].ptr) /\ elem'[cpu[c].ptr].onrq_ns = elem[cpu[c].ptr].onrq_ns
           /\ elem'[cpu[c].ptr].offcpu_ns = cpu[c].ts /\ cpu[c].ptr \in 1..Len(elem)
    BY <1>1, <1>12, WritePrevEffect DEF WroteAt
  <2>2. start' = start /\ now' = now
    BY <1>12 DEF WritePrev, sched
  <2> QED
    BY <2>1, <2>2, <1>2, <1>6, <1>7
<1>13. ASSUME NEW c \in Cpus, Report(c) \/ NoReport(c)
       PROVE  Goal
  <2> DEFINE p == start[cpu[c].cur]
  <2>1. WroteAt(p) /\ elem'[p].onrq_ns = elem[p].onrq_ns /\ elem'[p].offcpu_ns = elem[p].offcpu_ns
           /\ p \in 1..Len(elem)
    BY <1>1, <1>13, CurEffect DEF WroteAt
  <2>2. start' = start /\ now' = now
    BY <1>13 DEF Report, NoReport, sched
  <2> HIDE DEF p
  <2> QED
    BY <2>1, <2>2, <1>2, <1>6
<1>14. Goal
  BY ZenonT(60), <1>4, <1>8, <1>9, <1>10, <1>11, <1>12, <1>13
     DEF Next, Advance, Switch, TryToWakeUp, WakeIgnored, WakeUnseen, SwitchHook, NotTraced, Quiet, vars
<1> QED
  BY <1>3, <1>14

LEMMA HandlerTypesKept ==
    ASSUME Types, SchedInv, OwnerInv, Next
    PROVE  HandlerTypes'
<1>1. SchedTypes /\ HandlerTypes /\ MapTypes
  BY DEF Types
<1>2. Len(elem') >= Len(elem) /\ Len(elem) \in Nat /\ Len(elem') \in Nat /\ now' >= now /\ now \in Nat /\ now' \in Nat
  <2>1. MapTypes' /\ Len(elem') >= Len(elem) /\ now' >= now
    BY MapTypesKept
  <2>2. SchedTypes'
    BY SchedTypesKept
  <2> QED
    BY <2>1, <2>2, <1>1 DEF SchedTypes, MapTypes
<1>3. /\ tgid \in Tgids /\ cpu \in [Cpus -> Handler]
      /\ \A c \in Cpus : /\ cpu[c].ts <= now /\ cpu[c].ptr <= Len(elem)
                         /\ cpu[c].ts \in Nat /\ cpu[c].ptr \in Nat
  BY <1>1 DEF HandlerTypes, Handler
<1>4. ASSUME NEW c \in Cpus, Only(c), tgid' = tgid, cpu' \in [Cpus -> Handler],
             cpu'[c].ts <= now, cpu'[c].ptr <= Len(elem)
      PROVE  HandlerTypes'
  <2>1. \A d \in Cpus : cpu'[d].ts <= now /\ cpu'[d].ptr <= Len(elem)
    BY <1>3, <1>4 DEF Only
  <2>2. \A d \in Cpus : cpu'[d].ts \in Nat /\ cpu'[d].ptr \in Nat
    BY <1>4 DEF Handler
  <2>3. \A d \in Cpus : cpu'[d].ts <= now' /\ cpu'[d].ptr <= Len(elem')
    BY <2>1, <2>2, <1>2
  <2> QED
    BY <2>3, <1>3, <1>4 DEF HandlerTypes
<1>5. ASSUME UNCHANGED <<tgid, cpu>>
      PROVE  HandlerTypes'
  <2>1. \A d \in Cpus : cpu[d].ts <= now' /\ cpu[d].ptr <= Len(elem')
    BY <1>2, <1>3
  <2> QED
    BY <2>1, <1>3, <1>5 DEF HandlerTypes
<1>6. ASSUME NEW c \in Cpus, End(c), tgid' = tgid
      PROVE  HandlerTypes'
  <2>1. Only(c) /\ cpu' \in [Cpus -> Handler] /\ cpu'[c].ts = 0 /\ cpu'[c].ptr = 0
    BY <1>1, <1>6, EndHandler, NoHandlerFields
  <2> QED
    BY <2>1, <1>2, <1>4, <1>6
<1>7. ASSUME NEW c \in Cpus, NEW next \in Pids, NEW how \in {"ready", "blocked"}, Switch(c, next, how)
      PROVE  HandlerTypes'
  <2>1. Only(c) /\ cpu' \in [Cpus -> Handler] /\ cpu'[c].ts = 0 /\ cpu'[c].ptr = 0
    BY <1>1, <1>7, SwitchHandler
  <2>2. tgid' = tgid
    BY <1>7 DEF Switch
  <2> QED
    BY <2>1, <2>2, <1>2, <1>4
<1>8. ASSUME NEW c \in Cpus, NEW t \in Tasks, TryToWakeUp(c, t)
      PROVE  HandlerTypes'
  <2>1. Only(c) /\ cpu' \in [Cpus -> Handler] /\ cpu'[c].ts = now /\ cpu'[c].ptr = start[t]
    BY <1>1, <1>8, WakeHandler
  <2>2. tgid' = tgid
    BY <1>8 DEF TryToWakeUp
  <2>3. start[t] <= Len(elem)
    BY <1>1, Constants DEF MapTypes
  <2> QED
    BY <2>1, <2>2, <2>3, <1>2, <1>4
<1>9. ASSUME NEW c \in Cpus, SwitchHook(c)
      PROVE  HandlerTypes'
  <2>1. Only(c) /\ cpu' \in [Cpus -> Handler] /\ cpu'[c].ts = now /\ cpu'[c].ptr = start[cpu[c].prev]
    BY <1>1, <1>9, HookHandler
  <2>2. tgid' = tgid
    BY <1>9 DEF SwitchHook
  <2>3. start[cpu[c].prev] <= Len(elem)
    BY <1>1 DEF MapTypes, HandlerTypes, Handler
  <2> QED
    BY <2>1, <2>2, <2>3, <1>2, <1>4
<1>10. ASSUME NEW c \in Cpus, NEW p \in {"cur", "writeOnrq"}, cpu' = [cpu EXCEPT ![c].pc = p], tgid' = tgid
       PROVE  HandlerTypes'
  <2>1. Only(c) /\ cpu' \in [Cpus -> Handler] /\ cpu'[c].ts = cpu[c].ts /\ cpu'[c].ptr = cpu[c].ptr
    BY <1>1, <1>10, StepHandler
  <2> QED
    BY <2>1, <1>3, <1>4, <1>10
<1>11. ASSUME NEW c \in Cpus, InsertWaker(c) \/ WriteOnrq(c) \/ NotTraced(c) \/ Report(c) \/ NoReport(c)
       PROVE  HandlerTypes'
  BY <1>6, <1>11 DEF InsertWaker, WriteOnrq, NotTraced, Report, NoReport, Finish
<1>12. ASSUME NEW c \in Cpus, InsertPrev(c) \/ WritePrev(c) \/ WriteWaker(c)
       PROVE  HandlerTypes'
  BY <1>10, <1>12 DEF InsertPrev, WritePrev, WriteWaker
<1> QED
  BY <1>5, <1>7, <1>8, <1>9, <1>11, <1>12 DEF Next, Advance, WakeIgnored, WakeUnseen, Quiet, vars

Ring == [status : {"on", "off"}, id : Nat, records : Records]

LEMMA RingEffect ==
    ASSUME NEW k \in Ring, NEW t \in Pids
    PROVE  /\ SchedCacheUpdate(k, t) \in Ring /\ SchedCacheUpdate(k, t).status = k.status
           /\ RqDur # 0 /\ k.status = "on" =>
                 /\ SchedCacheUpdate(k, t).id = k.id + 1
                 /\ SchedCacheUpdate(k, t).records[k.id % CacheSize] = t
<1> DEFINE r == [k.records EXCEPT ![k.id % CacheSize] = t]
<1>1. k.id \in Nat /\ k.records \in [0..(CacheSize - 1) -> Pids]
  BY DEF Ring, Records
<1>2. k.id % CacheSize \in 0..(CacheSize - 1)
  BY <1>1, Constants
<1>3. r \in Records /\ r[k.id % CacheSize] = t
  BY <1>1, <1>2 DEF Records
<1>4. CASE RqDur # 0 /\ k.status = "on"
  <2>1. SchedCacheUpdate(k, t) = [k EXCEPT !.records = r, !.id = k.id + 1]
    BY <1>4 DEF SchedCacheUpdate, Ring
  <2> HIDE DEF r
  <2>2. PICK m \in Nat : m = k.id + 1
    BY <1>1
  <2>3. PICK x : x = SchedCacheUpdate(k, t)
    OBVIOUS
  <2>4. x = [k EXCEPT !.records = r, !.id = m]
    BY <2>1, <2>2, <2>3
  <2>5. x \in Ring /\ x.status = k.status /\ x.id = m /\ x.records = r
    BY <2>4, <1>3 DEF Ring
  <2> QED
    BY <2>2, <2>3, <2>5, <1>3
<1>5. CASE ~(RqDur # 0 /\ k.status = "on")
  BY <1>5 DEF SchedCacheUpdate
<1> QED
  BY <1>4, <1>5

LEMMA CacheTypesKept ==
    ASSUME Types, Next
    PROVE  CacheTypes'
<1>1. HandlerTypes /\ CacheTypes
  BY DEF Types
<1>2. /\ cache \in [Cpus -> [status : {"on", "off"}, id : Nat, records : Records]]
      /\ backup \in [Cpus -> {<<>>} \cup (Nat \X Records)] /\ handled \in [Cpus -> Nat]
  BY <1>1 DEF CacheTypes
<1>3. ASSUME UNCHANGED <<cache, backup, handled>>
      PROVE  CacheTypes'
  BY <1>1, <1>3 DEF CacheTypes
<1>4. ASSUME NEW c \in Cpus, SwitchHook(c)
      PROVE  CacheTypes'
  <2>1. /\ cache' = [cache EXCEPT ![c] = SchedCacheUpdate(cache[c], cpu[c].prev)]
        /\ handled' = [handled EXCEPT ![c] = handled[c] + 1] /\ backup' = backup
    BY <1>4, <1>2 DEF SwitchHook
  <2>2. cpu[c].prev \in Pids /\ cache[c] \in [status : {"on", "off"}, id : Nat, records : Records]
    BY <1>1, <1>2 DEF HandlerTypes, Handler
  <2>3. SchedCacheUpdate(cache[c], cpu[c].prev) \in Ring
    BY <2>2, RingEffect DEF Ring
  <2> QED
    BY <2>1, <2>3, <1>2 DEF CacheTypes, Ring
<1>5. ASSUME NEW c \in Cpus, Report(c)
      PROVE  CacheTypes'
  <2>1. handled' = handled /\ (SchedCacheDump(c) \/ UNCHANGED <<cache, backup>>)
    BY <1>5 DEF Report
  <2>2. ASSUME SchedCacheDump(c)
        PROVE  CacheTypes'
    <3>1. /\ backup' = [backup EXCEPT ![c] = <<cache[c].id, cache[c].records>>]
          /\ cache' = [cache EXCEPT ![c].status = "on"]
      BY <2>2 DEF SchedCacheDump
    <3>2. cache[c].id \in Nat /\ cache[c].records \in Records
      BY <1>2
    <3> QED
      BY <3>1, <3>2, <2>1, <1>2 DEF CacheTypes
  <2> QED
    BY <2>1, <2>2, <1>3
<1>6. ASSUME NEW c \in Cpus, \/ InsertWaker(c) \/ WriteWaker(c) \/ WriteOnrq(c) \/ InsertPrev(c)
                             \/ WritePrev(c) \/ NotTraced(c) \/ NoReport(c)
      PROVE  CacheTypes'
  BY <1>3, <1>6 DEF InsertWaker, WriteWaker, WriteOnrq, InsertPrev, WritePrev, NotTraced, NoReport, history
<1> QED
  BY ZenonT(60), <1>3, <1>4, <1>5, <1>6
     DEF Next, Advance, Switch, TryToWakeUp, WakeIgnored, WakeUnseen, Quiet, vars, history

LEMMA ReportEffect ==
    ASSUME Types, NEW c \in Cpus, Report(c), NEW t, t = cpu[c].cur, NEW e, e = elem[start[t]]
    PROVE  /\ t \in Pids /\ e \in Entry /\ perf' \in [Cpus -> Event] /\ truth' \in [Cpus -> Truth]
           /\ \A d \in Cpus : d # c => perf'[d] = perf[d] /\ truth'[d] = truth[d]
           /\ perf'[c].task = t /\ perf'[c].dur = cpu[c].ts - e.offcpu_ns /\ perf'[c].rq = RunqDur(t, e)
           /\ perf'[c].offcpu_ns = e.offcpu_ns /\ perf'[c].onrq_ns = e.onrq_ns /\ perf'[c].waker = e.waker
           /\ Slow(t, e) => perf'[c].is_sched_cache_dump = 1 /\ perf'[c].cpu = c
           /\ ~Slow(t, e) => /\ perf'[c].is_sched_cache_dump = perf[c].is_sched_cache_dump
                             /\ perf'[c].cpu = perf[c].cpu
           /\ truth'[c].dur = cpu[c].ts - offAt[t] /\ truth'[c].waited = waited[t]
           /\ truth'[c].wakers = wakers[t] /\ truth'[c].slow = Slow(t, e)
           /\ truth'[c].prev = cpu[c].prev /\ truth'[c].nth = handled[c]
           /\ e.offcpu_ns # 0
<1>1. SchedTypes /\ HandlerTypes /\ MapTypes /\ CacheTypes /\ EventTypes /\ HistoryTypes
  BY DEF Types
<1>2. t \in Pids /\ cpu[c].prev \in Pids /\ cpu[c].ts \in Nat
  BY <1>1 DEF HandlerTypes, Handler
<1>3. start[t] # 0
  BY DEF Report, Traced
<1>4. e \in Entry
  BY <1>1, <1>2, <1>3 DEF MapTypes
<1>5. Delay(t) \in Nat /\ e.run_delay_ns \in Nat /\ e.offcpu_ns \in Nat /\ e.onrq_ns \in Nat /\ e.waker \in Pids \cup {Nobody}
  BY <1>1, <1>2, <1>4, DelayType DEF Entry
<1>6. PICK dur \in Int : dur = cpu[c].ts - e.offcpu_ns
  BY <1>2, <1>5
<1>7. PICK rq \in Int : rq = RunqDur(t, e)
  BY <1>5 DEF RunqDur
<1>8. PICK slow \in BOOLEAN : slow = Slow(t, e)
  BY DEF Slow
<1>9. perf[c] \in Event /\ perf \in [Cpus -> Event] /\ truth \in [Cpus -> Truth]
  BY <1>1 DEF EventTypes
<1>19. PICK flag \in {0, 1} : flag = IF slow THEN 1 ELSE perf[c].is_sched_cache_dump
  BY <1>9 DEF Event
<1>20. PICK place \in Cpus \cup {0} : place = IF slow THEN c ELSE perf[c].cpu
  BY <1>9 DEF Event
<1> DEFINE v == [perf[c] EXCEPT !.task = t, !.dur = dur, !.rq = rq, !.offcpu_ns = e.offcpu_ns,
                                !.onrq_ns = e.onrq_ns, !.waker = e.waker,
                                !.is_sched_cache_dump = flag, !.cpu = place]
<1>10. perf' = [perf EXCEPT ![c] = FillEvent(c, t, e)] /\ e.offcpu_ns # 0
  BY DEF Report
<1>11. FillEvent(c, t, e) = v
  BY <1>6, <1>7, <1>8, <1>9, <1>19, <1>20 DEF FillEvent, Event
<1>12. /\ v \in Event /\ v.task = t /\ v.dur = dur /\ v.rq = rq /\ v.offcpu_ns = e.offcpu_ns
       /\ v.onrq_ns = e.onrq_ns /\ v.waker = e.waker
       /\ v.is_sched_cache_dump = flag /\ v.cpu = place
  BY ZenonT(60), <1>2, <1>5, <1>9 DEF Event
<1> HIDE DEF v
<1>13. perf' \in [Cpus -> Event] /\ perf'[c] = v /\ \A d \in Cpus : d # c => perf'[d] = perf[d]
  BY <1>9, <1>10, <1>11, <1>12
<1>14. /\ waited[t] \in Nat /\ wakers[t] \in SUBSET Pids /\ handled[c] \in Nat
       /\ cpu[c].ts - offAt[t] \in Int
  <2>1. waited[t] \in Nat
    BY <1>1, <1>2 DEF SchedTypes
  <2>2. wakers[t] \in SUBSET Pids /\ offAt[t] \in Nat
    BY <1>1, <1>2 DEF HistoryTypes
  <2>3. handled[c] \in Nat
    BY <1>1 DEF CacheTypes
  <2> QED
    BY <2>1, <2>2, <2>3, <1>2
<1>15. PICK off \in Int : off = cpu[c].ts - offAt[t]
  BY <1>14
<1> DEFINE h == [dur |-> off, waited |-> waited[t], wakers |-> wakers[t], slow |-> slow,
                 prev |-> cpu[c].prev, nth |-> handled[c]]
<1>16. truth' = [truth EXCEPT ![c] = h]
  BY <1>8, <1>15 DEF Report
<1>17. /\ h \in Truth /\ h.dur = off /\ h.waited = waited[t] /\ h.wakers = wakers[t] /\ h.slow = slow
       /\ h.prev = cpu[c].prev /\ h.nth = handled[c]
  BY <1>2, <1>14 DEF Truth
<1> HIDE DEF h
<1>18. truth' \in [Cpus -> Truth] /\ truth'[c] = h /\ \A d \in Cpus : d # c => truth'[d] = truth[d]
  BY <1>9, <1>16, <1>17
<1> QED
  BY <1>2, <1>4, <1>6, <1>7, <1>8, <1>19, <1>20, <1>10, <1>12, <1>13, <1>15, <1>17, <1>18

\* The steps that send no event.
LEMMA Silent ==
    ASSUME Next
    PROVE  \/ \E c \in Cpus : Report(c)
           \/ UNCHANGED <<perf, truth, backup>>
<1>1. ASSUME NEW c \in Cpus, \/ InsertWaker(c) \/ WriteWaker(c) \/ WriteOnrq(c) \/ SwitchHook(c)
                             \/ InsertPrev(c) \/ WritePrev(c) \/ NotTraced(c) \/ NoReport(c)
      PROVE  UNCHANGED <<perf, truth, backup>>
  BY <1>1 DEF InsertWaker, WriteWaker, WriteOnrq, SwitchHook, InsertPrev, WritePrev, NotTraced, NoReport, history
<1>2. ASSUME NEW c \in Cpus, NEW next \in Pids, NEW how \in {"ready", "blocked"}, Switch(c, next, how)
      PROVE  UNCHANGED <<perf, truth, backup>>
  BY <1>2 DEF Switch, history
<1>3. ASSUME NEW c \in Cpus, NEW t \in Tasks, TryToWakeUp(c, t) \/ WakeIgnored(c, t) \/ WakeUnseen(t)
      PROVE  UNCHANGED <<perf, truth, backup>>
  BY <1>3 DEF TryToWakeUp, WakeIgnored, WakeUnseen, history
<1>4. CASE Advance \/ Quiet \/ \E t \in Tasks : WakeUnseen(t)
  BY <1>4 DEF Advance, Quiet, WakeUnseen, vars, history
<1> QED
  BY <1>1, <1>2, <1>3, <1>4 DEF Next

LEMMA EventTypesKept ==
    ASSUME Types, Next
    PROVE  EventTypes'
<1>1. CASE UNCHANGED <<perf, truth, backup>>
  BY <1>1 DEF Types, EventTypes
<1>2. ASSUME NEW c \in Cpus, Report(c)
      PROVE  EventTypes'
  <2>1. perf' \in [Cpus -> Event] /\ truth' \in [Cpus -> Truth]
    BY <1>2, ReportEffect
  <2> QED
    BY <2>1 DEF EventTypes
<1> QED
  BY <1>1, <1>2, Silent

LEMMA HistoryTypesKept ==
    ASSUME Types, Next
    PROVE  HistoryTypes'
<1>1. SchedTypes /\ HandlerTypes /\ MapTypes /\ HistoryTypes
  BY DEF Types
<1>2. offAt \in [Pids -> Nat] /\ wakers \in [Pids -> SUBSET Pids] /\ raced \subseteq Tasks
  BY <1>1 DEF HistoryTypes
<1>3. ASSUME UNCHANGED <<offAt, wakers, raced>>
      PROVE  HistoryTypes'
  BY <1>2, <1>3 DEF HistoryTypes
<1>4. \A c \in Cpus : cpu[c].prev \in Pids /\ cpu[c].cur \in Pids /\ on[c] \in Pids
  BY <1>1 DEF HandlerTypes, Handler, SchedTypes
<1>5. ASSUME NEW c \in Cpus, NEW t \in Tasks, TryToWakeUp(c, t)
      PROVE  HistoryTypes'
  <2>1. wakers' = [wakers EXCEPT ![t] = wakers[t] \cup {on[c]}] /\ UNCHANGED <<offAt, raced>>
    BY <1>2, <1>5, Constants DEF TryToWakeUp
  <2> QED
    BY <2>1, <1>2, <1>4, Constants DEF HistoryTypes
<1>6. ASSUME NEW t \in Pids, NEW entry \in Entry, Update(t, entry), UNCHANGED <<offAt, wakers>>
      PROVE  HistoryTypes'
  <2>1. raced' \subseteq Tasks
    BY <1>1, <1>6, UpdateEffect
  <2> QED
    BY <2>1, <1>2, <1>6 DEF HistoryTypes
<1>7. ASSUME NEW c \in Cpus, InsertWaker(c)
      PROVE  HistoryTypes'
  <2>1. [NewEntry EXCEPT !.waker = on[c], !.onrq_ns = cpu[c].ts] \in Entry
    BY <1>1, Inserted
  <2> QED
    BY <2>1, <1>4, <1>6, <1>7 DEF InsertWaker
<1>8. ASSUME NEW c \in Cpus, InsertPrev(c)
      PROVE  HistoryTypes'
  <2>1. [NewEntry EXCEPT !.offcpu_ns = cpu[c].ts, !.run_delay_ns = Delay(cpu[c].prev)] \in Entry
    BY <1>1, Inserted
  <2> QED
    BY <2>1, <1>4, <1>6, <1>8 DEF InsertPrev
<1>9. ASSUME NEW c \in Cpus, SwitchHook(c)
      PROVE  HistoryTypes'
  <2>1. offAt' = [offAt EXCEPT ![cpu[c].prev] = now] /\ raced' = raced \ {cpu[c].prev} /\ wakers' = wakers
    BY <1>9 DEF SwitchHook
  <2>2. now \in Nat
    BY <1>1 DEF SchedTypes
  <2> QED
    BY <2>1, <2>2, <1>2 DEF HistoryTypes
<1>10. ASSUME NEW c \in Cpus, NEW sent \in BOOLEAN, Finish(c, sent), raced' = raced
       PROVE  HistoryTypes'
  <2>1. wakers' = [wakers EXCEPT ![cpu[c].cur] = {}] /\ offAt' = [offAt EXCEPT ![cpu[c].cur] = 0]
    BY <1>10 DEF Finish
  <2> QED
    BY <2>1, <1>2, <1>10 DEF HistoryTypes
<1>11. ASSUME NEW c \in Cpus, NotTraced(c) \/ Report(c) \/ NoReport(c)
       PROVE  HistoryTypes'
  BY <1>10, <1>11 DEF NotTraced, Report, NoReport
<1>12. ASSUME NEW c \in Cpus, WriteWaker(c) \/ WriteOnrq(c) \/ WritePrev(c)
       PROVE  HistoryTypes'
  BY <1>3, <1>12 DEF WriteWaker, WriteOnrq, WritePrev, history
<1> QED
  BY ZenonT(60), <1>3, <1>5, <1>7, <1>8, <1>9, <1>11, <1>12
     DEF Next, Advance, Switch, WakeIgnored, WakeUnseen, Quiet, vars, history

LEMMA TypesKept ==
    ASSUME Types, SchedInv, OwnerInv, Next
    PROVE  Types'
  BY SchedTypesKept, HandlerTypesKept, MapTypesKept, CacheTypesKept, EventTypesKept, HistoryTypesKept DEF Types

----------------------------------------------------------------------------
\* Where the tasks run.

\* A handler on c that does not switch tasks.
LEMMA SchedFrame ==
    ASSUME SchedInv, NEW c \in Cpus, Only(c), on' = on, now' = now,
           \A t \in Tasks : state'[t] = "running" <=> state[t] = "running",
           cpu'[c].pc \in SwitchPcs =>
               cpu[c].pc \in SwitchPcs /\ cpu'[c].cur = cpu[c].cur /\ cpu'[c].prev = cpu[c].prev,
           cpu'[c].pc \in WakePcs => cpu'[c].cur \in Tasks,
           cpu'[c].pc \notin {"none", "switch"} => cpu'[c].ts = now,
           cpu'[c].pc \in LeavePcs => cpu[c].pc \in LeavePcs
    PROVE  SchedInv'
<1>1. (\A a, b \in Cpus : on[a] = on[b] => a = b \/ on[a] = Idle)'
  BY DEF SchedInv
<1>2. (\A t \in Tasks : state[t] = "running" <=> \E a \in Cpus : on[a] = t)'
  BY DEF SchedInv
<1>3. (\A a \in Cpus :
          /\ cpu[a].pc \in SwitchPcs => cpu[a].cur = on[a] /\ cpu[a].prev # cpu[a].cur
          /\ cpu[a].pc \in WakePcs => cpu[a].cur \in Tasks
          /\ cpu[a].pc \notin {"none", "switch"} => cpu[a].ts = now)'
  <2> SUFFICES ASSUME NEW a \in Cpus
               PROVE  /\ cpu'[a].pc \in SwitchPcs => cpu'[a].cur = on[a] /\ cpu'[a].prev # cpu'[a].cur
                      /\ cpu'[a].pc \in WakePcs => cpu'[a].cur \in Tasks
                      /\ cpu'[a].pc \notin {"none", "switch"} => cpu'[a].ts = now
    OBVIOUS
  <2>1. CASE a # c
    BY <2>1 DEF SchedInv, Only
  <2>2. CASE a = c
    BY <2>2 DEF SchedInv
  <2> QED
    BY <2>1, <2>2
<1>4. \A a \in Cpus : \A t \in Tasks : Leaves(a, t)' => Leaves(a, t)
  <2> SUFFICES ASSUME NEW a \in Cpus, NEW t \in Tasks, cpu'[a].pc \in LeavePcs, cpu'[a].prev = t
               PROVE  cpu[a].pc \in LeavePcs /\ cpu[a].prev = t
    BY DEF Leaves
  <2> QED
    BY DEF Only, SwitchPcs
<1>5. (\A a \in Cpus : \A t \in Tasks : Leaves(a, t) =>
          state[t] # "running" /\ \A d \in Cpus : Leaves(d, t) => a = d)'
  BY <1>4 DEF SchedInv
<1> QED
  BY <1>1, <1>2, <1>3, <1>5 DEF SchedInv

LEMMA SchedSwitch ==
    ASSUME Types, SchedInv, NEW c \in Cpus, NEW next \in Pids, NEW how \in {"ready", "blocked"},
           Switch(c, next, how)
    PROVE  SchedInv'
<1>1. SchedTypes /\ HandlerTypes
  BY DEF Types
<1>2. /\ on \in [Cpus -> Pids] /\ on' = [on EXCEPT ![c] = next] /\ next # on[c] /\ now' = now
      /\ next # Idle => state[next] = "ready" /\ next \notin Leaving
      /\ state' = [t \in Tasks |-> CASE t = next -> "running" [] t = on[c] -> how [] OTHER -> state[t]]
  BY <1>1 DEF Switch, SchedTypes
<1>3. /\ Only(c) /\ cpu[c].pc = "none" /\ cpu'[c].pc = "switch"
      /\ cpu'[c].prev = on[c] /\ cpu'[c].cur = next
  BY <1>1, SwitchHandler
<1>4. on'[c] = next /\ \A d \in Cpus : d # c => on'[d] = on[d]
  BY <1>2
<1>5. next # Idle => next \in Tasks
  BY DEF Pids
<1>6. next # Idle => \A d \in Cpus : on[d] # next
  BY <1>2, <1>5 DEF SchedInv
<1>7. (\A a, b \in Cpus : on[a] = on[b] => a = b \/ on[a] = Idle)'
  BY <1>4, <1>6 DEF SchedInv
<1>8. (\A t \in Tasks : state[t] = "running" <=> \E a \in Cpus : on[a] = t)'
  <2> SUFFICES ASSUME NEW t \in Tasks
               PROVE  state'[t] = "running" <=> \E a \in Cpus : on'[a] = t
    OBVIOUS
  <2>1. CASE t = next
    BY <2>1, <1>2, <1>4
  <2>2. CASE t # next /\ t = on[c]
    <3>1. state'[t] # "running"
      BY <2>2, <1>2
    <3>2. \A a \in Cpus : on'[a] # t
      BY <2>2, <1>4, Constants DEF SchedInv
    <3> QED
      BY <3>1, <3>2
  <2>3. CASE t # next /\ t # on[c]
    <3>1. state'[t] = state[t]
      BY <2>3, <1>2
    <3>2. \A a \in Cpus : on'[a] = t <=> on[a] = t
      BY <2>3, <1>4
    <3> QED
      BY <3>1, <3>2 DEF SchedInv
  <2> QED
    BY <2>1, <2>2, <2>3
<1>9. (\A a \in Cpus :
          /\ cpu[a].pc \in SwitchPcs => cpu[a].cur = on[a] /\ cpu[a].prev # cpu[a].cur
          /\ cpu[a].pc \in WakePcs => cpu[a].cur \in Tasks
          /\ cpu[a].pc \notin {"none", "switch"} => cpu[a].ts = now)'
  <2> SUFFICES ASSUME NEW a \in Cpus
               PROVE  /\ cpu'[a].pc \in SwitchPcs => cpu'[a].cur = on'[a] /\ cpu'[a].prev # cpu'[a].cur
                      /\ cpu'[a].pc \in WakePcs => cpu'[a].cur \in Tasks
                      /\ cpu'[a].pc \notin {"none", "switch"} => cpu'[a].ts = now
    BY <1>2
  <2>1. CASE a # c
    BY <2>1, <1>3, <1>4 DEF SchedInv, Only
  <2>2. CASE a = c
    BY <2>2, <1>2, <1>3, <1>4 DEF WakePcs
  <2> QED
    BY <2>1, <2>2
<1>10. (\A a \in Cpus : \A t \in Tasks : Leaves(a, t) =>
          state[t] # "running" /\ \A d \in Cpus : Leaves(d, t) => a = d)'
  <2> SUFFICES ASSUME NEW a \in Cpus, NEW t \in Tasks, Leaves(a, t)'
               PROVE  state'[t] # "running" /\ \A d \in Cpus : Leaves(d, t)' => a = d
    OBVIOUS
  <2>1. \A d \in Cpus : Leaves(d, t)' => (Leaves(d, t) /\ d # c) \/ (d = c /\ t = on[c])
    BY <1>3 DEF Leaves, Only
  <2>2. t = on[c] => \A d \in Cpus : ~Leaves(d, t)
    BY DEF SchedInv
  <2>3. t # next
    <3>1. CASE a = c
      BY <3>1, <2>1, <1>2, <1>3 DEF Leaves
    <3>2. CASE a # c
      BY <3>2, <2>1, <1>2, <1>5, Constants DEF Leaves, Leaving, LeavePcs
    <3> QED
      BY <3>1, <3>2
  <2>4. state[t] # "running" \/ t = on[c]
    BY <2>1 DEF SchedInv
  <2>5. state'[t] # "running"
    BY <2>3, <2>4, <1>2
  <2> QED
    BY <2>1, <2>2, <2>5 DEF SchedInv
<1> QED
  BY <1>7, <1>8, <1>9, <1>10 DEF SchedInv

LEMMA SchedKept ==
    ASSUME Types, SchedInv, Next
    PROVE  SchedInv'
<1>1. SchedTypes /\ HandlerTypes /\ MapTypes
  BY DEF Types
<1>2. "none" \notin SwitchPcs \cup WakePcs \cup LeavePcs /\ "cur" \notin WakePcs \cup LeavePcs
      /\ "writeOnrq" \notin SwitchPcs \cup LeavePcs /\ LeavePcs \subseteq SwitchPcs
  BY DEF SwitchPcs, WakePcs, LeavePcs
<1>3. CASE Advance
  BY <1>3 DEF Advance, SchedInv, Leaves, SwitchPcs, WakePcs, LeavePcs
<1>4. ASSUME NEW t \in Tasks, Enqueue(t), UNCHANGED <<now, on, cpu>>
      PROVE  SchedInv'
  <2>1. \A u \in Tasks : state'[u] = "running" <=> state[u] = "running"
    BY <1>1, <1>4, EnqueueEffect
  <2> QED
    BY <2>1, <1>4 DEF SchedInv, Leaves
<1>5. ASSUME NEW c \in Cpus, End(c), UNCHANGED <<now, on>>,
             \A u \in Tasks : state'[u] = "running" <=> state[u] = "running"
      PROVE  SchedInv'
  <2>1. Only(c) /\ cpu'[c].pc = "none"
    BY <1>1, <1>5, EndHandler
  <2> QED
    BY <2>1, <1>2, <1>5, SchedFrame
<1>6. ASSUME NEW c \in Cpus, InsertWaker(c) \/ WriteOnrq(c)
      PROVE  SchedInv'
  <2>1. cpu[c].cur \in Tasks
    BY <1>6 DEF SchedInv, InsertWaker, WriteOnrq, WakePcs
  <2>2. Enqueue(cpu[c].cur) /\ End(c) /\ UNCHANGED <<now, on>>
    BY <1>6 DEF InsertWaker, WriteOnrq
  <2>3. \A u \in Tasks : state'[u] = "running" <=> state[u] = "running"
    BY <2>1, <2>2, <1>1, EnqueueEffect
  <2> QED
    BY <2>2, <2>3, <1>5
<1>7. ASSUME NEW c \in Cpus, NotTraced(c) \/ Report(c) \/ NoReport(c)
      PROVE  SchedInv'
  <2>1. End(c) /\ UNCHANGED <<now, on, state>>
    BY <1>7 DEF NotTraced, Report, NoReport, Finish, sched
  <2> QED
    BY <2>1, <1>5
<1>8. ASSUME NEW c \in Cpus, NEW t \in Tasks, TryToWakeUp(c, t)
      PROVE  SchedInv'
  <2>1. Only(c) /\ cpu'[c].pc \in {"insertWaker", "writeWaker"} /\ cpu'[c].cur = t /\ cpu'[c].ts = now
    BY <1>1, <1>8, WakeHandler
  <2>2. UNCHANGED <<now, on, state>>
    BY <1>8 DEF TryToWakeUp
  <2>3. cpu'[c].pc \notin SwitchPcs /\ cpu'[c].pc \notin LeavePcs
    BY <2>1 DEF SwitchPcs, LeavePcs
  <2> QED
    BY <2>1, <2>2, <2>3, SchedFrame
<1>9. ASSUME NEW c \in Cpus, SwitchHook(c)
      PROVE  SchedInv'
  <2>1. /\ Only(c) /\ cpu[c].pc = "switch" /\ cpu'[c].pc \in {"cur", "insertPrev", "writePrev"}
        /\ cpu'[c].prev = cpu[c].prev /\ cpu'[c].cur = cpu[c].cur /\ cpu'[c].ts = now
    BY <1>1, <1>9, HookHandler
  <2>2. UNCHANGED <<now, on, state>>
    BY <1>9 DEF SwitchHook, sched
  <2>3. cpu[c].pc \in SwitchPcs /\ cpu[c].pc \in LeavePcs /\ cpu'[c].pc \notin WakePcs
    BY <2>1 DEF SwitchPcs, LeavePcs, WakePcs
  <2> QED
    BY <2>1, <2>2, <2>3, SchedFrame
<1>10. ASSUME NEW c \in Cpus, InsertPrev(c) \/ WritePrev(c)
       PROVE  SchedInv'
  <2>1. cpu' = [cpu EXCEPT ![c].pc = "cur"] /\ cpu[c].pc \in {"insertPrev", "writePrev"} /\ UNCHANGED <<now, on, state>>
    BY <1>10 DEF InsertPrev, WritePrev, sched
  <2>2. /\ Only(c) /\ cpu'[c].pc = "cur"
        /\ cpu'[c].prev = cpu[c].prev /\ cpu'[c].cur = cpu[c].cur /\ cpu'[c].ts = cpu[c].ts
    BY <2>1, <1>1, StepHandler
  <2>3. cpu[c].pc \in SwitchPcs /\ cpu[c].ts = now
    BY <2>1 DEF SwitchPcs, LeavePcs, SchedInv
  <2> QED
    BY <2>1, <2>2, <2>3, <1>2, SchedFrame
<1>11. ASSUME NEW c \in Cpus, WriteWaker(c)
       PROVE  SchedInv'
  <2>1. cpu' = [cpu EXCEPT ![c].pc = "writeOnrq"] /\ cpu[c].pc = "writeWaker" /\ UNCHANGED <<now, on, state>>
    BY <1>11 DEF WriteWaker, sched
  <2>2. Only(c) /\ cpu'[c].pc = "writeOnrq" /\ cpu'[c].cur = cpu[c].cur /\ cpu'[c].ts = cpu[c].ts
    BY <2>1, <1>1, StepHandler
  <2>3. cpu[c].cur \in Tasks /\ cpu[c].ts = now
    BY <2>1 DEF WakePcs, SchedInv
  <2> QED
    BY <2>1, <2>2, <2>3, <1>2, SchedFrame
<1>12. CASE Quiet
  BY <1>12 DEF Quiet, vars, sched, SchedInv, Leaves
<1> QED
  BY <1>3, <1>4, <1>6, <1>7, <1>8, <1>9, <1>10, <1>11, <1>12, SchedSwitch DEF Next, WakeIgnored, WakeUnseen

----------------------------------------------------------------------------
\* Whose the entries are.
LEMMA OwnerUpdate ==
    ASSUME Types, OwnerInv, NEW c \in Cpus, Only(c), cpu'[c].pc \in {"none", "cur"},
           NEW t \in Pids, NEW entry \in Entry, Update(t, entry)
    PROVE  OwnerInv'
<1>1. HandlerTypes /\ MapTypes /\ HistoryTypes
  BY DEF Types
<1>2. /\ start \in [Pids -> Nat] /\ Len(elem) \in Nat /\ \A u \in Pids : start[u] <= Len(elem)
  BY <1>1 DEF MapTypes
<1>3. /\ start' \in [Pids -> Nat] /\ \A u \in Pids : u # t => start'[u] = start[u]
      /\ start'[t] = Len(elem) + 1 \/ start' = start
  BY <1>1, UpdateEffect
<1>4. (\A u, v \in Pids : start[u] = start[v] => u = v \/ start[u] = 0)'
  BY <1>2, <1>3 DEF OwnerInv
<1>5. \A d \in Cpus : Owns(d)'
  <2> SUFFICES ASSUME NEW d \in Cpus, cpu'[d].pc \in {"writePrev", "writeWaker", "writeOnrq"}
               PROVE  /\ cpu'[d].ptr # 0 /\ start'[Subject(d)'] # 0
                      /\ \A u \in Pids : start'[u] = cpu'[d].ptr => u = Subject(d)'
    BY DEF Owns
  <2>1. d # c /\ cpu'[d] = cpu[d]
    BY DEF Only
  <2>2. Subject(d)' = Subject(d)
    BY <2>1 DEF Subject
  <2>3. /\ cpu[d].ptr # 0 /\ start[Subject(d)] # 0
        /\ \A u \in Pids : start[u] = cpu[d].ptr => u = Subject(d)
    BY <2>1 DEF OwnerInv, Owns
  <2>4. cpu[d].ptr <= Len(elem) /\ cpu[d].ptr \in Nat
    BY <1>1 DEF HandlerTypes, Handler
  <2>5. Subject(d) \in Pids
    BY <1>1 DEF Subject, HandlerTypes, Handler
  <2>6. start'[Subject(d)] # 0
    BY <2>3, <2>5, <1>2, <1>3
  <2>7. \A u \in Pids : start'[u] = cpu[d].ptr => u = Subject(d)
    BY <2>3, <2>4, <1>2, <1>3
  <2> QED
    BY <2>1, <2>2, <2>3, <2>6, <2>7
<1>6. Cardinality({u \in Pids : start'[u] # 0}) <= StartSize
  BY <1>1, RoomKept DEF OwnerInv
<1> QED
  BY <1>4, <1>5, <1>6 DEF OwnerInv

\* The steps that insert no entry.
LEMMA OwnerFrame ==
    ASSUME OwnerInv, NEW c \in Cpus, Only(c), start' = start, Owns(c)'
    PROVE  OwnerInv'
<1>1. \A d \in Cpus : Owns(d)'
  <2> SUFFICES ASSUME NEW d \in Cpus, d # c
               PROVE  Owns(d)'
    OBVIOUS
  <2>1. cpu'[d] = cpu[d] /\ Owns(d)
    BY DEF Only, OwnerInv
  <2> QED
    BY <2>1 DEF Owns, Subject
<1> QED
  BY <1>1 DEF OwnerInv

LEMMA OwnerKept ==
    ASSUME Types, SchedInv, OwnerInv, Next
    PROVE  OwnerInv'
<1>1. SchedTypes /\ HandlerTypes /\ MapTypes
  BY DEF Types
<1>2. ASSUME UNCHANGED <<start, cpu>>
      PROVE  OwnerInv'
  BY <1>2 DEF OwnerInv, Owns, Subject
<1>3. ASSUME NEW c \in Cpus, Only(c), start' = start,
             cpu'[c].pc \in {"none", "cur", "switch", "insertWaker", "insertPrev"}
      PROVE  OwnerInv'
  <2>1. Owns(c)'
    BY <1>3 DEF Owns
  <2> QED
    BY <2>1, <1>3, OwnerFrame
<1>4. ASSUME NEW c \in Cpus, InsertWaker(c)
      PROVE  OwnerInv'
  <2>1. [NewEntry EXCEPT !.waker = on[c], !.onrq_ns = cpu[c].ts] \in Entry /\ cpu[c].cur \in Pids
    BY <1>1, Inserted DEF HandlerTypes, Handler
  <2>2. Only(c) /\ cpu'[c].pc = "none"
    BY <1>1, <1>4, EndHandler DEF InsertWaker
  <2> QED
    BY <2>1, <2>2, <1>4, OwnerUpdate DEF InsertWaker
<1>5. ASSUME NEW c \in Cpus, InsertPrev(c)
      PROVE  OwnerInv'
  <2>1. /\ [NewEntry EXCEPT !.offcpu_ns = cpu[c].ts, !.run_delay_ns = Delay(cpu[c].prev)] \in Entry
        /\ cpu[c].prev \in Pids
    BY <1>1, Inserted DEF HandlerTypes, Handler
  <2>2. Only(c) /\ cpu'[c].pc = "cur"
    BY <1>1, <1>5, StepHandler DEF InsertPrev
  <2> QED
    BY <2>1, <2>2, <1>5, OwnerUpdate DEF InsertPrev
<1>6. ASSUME NEW c \in Cpus, NEW next \in Pids, NEW how \in {"ready", "blocked"}, Switch(c, next, how)
      PROVE  OwnerInv'
  <2>1. Only(c) /\ cpu'[c].pc = "switch"
    BY <1>1, <1>6, SwitchHandler
  <2> QED
    BY <2>1, <1>3, <1>6 DEF Switch
<1>7. ASSUME NEW c \in Cpus, NEW t \in Tasks, TryToWakeUp(c, t)
      PROVE  OwnerInv'
  <2>1. /\ Only(c) /\ cpu'[c].pc = IF start[t] = 0 THEN "insertWaker" ELSE "writeWaker"
        /\ cpu'[c].cur = t /\ cpu'[c].ptr = start[t]
    BY <1>1, <1>7, WakeHandler
  <2>2. start' = start
    BY <1>7 DEF TryToWakeUp
  <2>3. CASE start[t] = 0
    BY <2>1, <2>2, <2>3, <1>3
  <2>4. CASE start[t] # 0
    <3>1. cpu'[c].pc = "writeWaker" /\ Subject(c)' = t
      BY <2>1, <2>4 DEF Subject, WakePcs
    <3>2. t \in Pids /\ \A u \in Pids : start[u] = start[t] => u = t
      BY <2>4, Constants DEF OwnerInv
    <3>3. Owns(c)'
      BY <3>1, <3>2, <2>1, <2>2, <2>4 DEF Owns
    <3> QED
      BY <3>3, <2>1, <2>2, OwnerFrame
  <2> QED
    BY <2>3, <2>4
<1>8. ASSUME NEW c \in Cpus, SwitchHook(c)
      PROVE  OwnerInv'
  <2> DEFINE t == cpu[c].prev
  <2>1. /\ Only(c) /\ cpu'[c].pc \in {"cur", "insertPrev", "writePrev"}
        /\ cpu'[c].pc = "writePrev" => start[t] # 0
        /\ cpu'[c].prev = t /\ cpu'[c].ptr = start[t]
    BY <1>1, <1>8, HookHandler
  <2>2. start' = start /\ t \in Pids
    BY <1>1, <1>8 DEF SwitchHook, HandlerTypes, Handler
  <2> HIDE DEF t
  <2>3. CASE cpu'[c].pc # "writePrev"
    BY <2>1, <2>2, <2>3, <1>3
  <2>4. CASE cpu'[c].pc = "writePrev"
    <3>1. Subject(c)' = t
      BY <2>1, <2>4 DEF Subject, WakePcs
    <3>2. \A u \in Pids : start[u] = start[t] => u = t
      BY <2>1, <2>2, <2>4 DEF OwnerInv
    <3>3. Owns(c)'
      BY <3>1, <3>2, <2>1, <2>2, <2>4 DEF Owns
    <3> QED
      BY <3>3, <2>1, <2>2, OwnerFrame
  <2> QED
    BY <2>3, <2>4
<1>9. ASSUME NEW c \in Cpus, WriteWaker(c)
      PROVE  OwnerInv'
  <2>1. cpu' = [cpu EXCEPT ![c].pc = "writeOnrq"] /\ cpu[c].pc = "writeWaker" /\ start' = start
    BY <1>9 DEF WriteWaker
  <2>2. Only(c) /\ cpu'[c].pc = "writeOnrq" /\ cpu'[c].cur = cpu[c].cur /\ cpu'[c].ptr = cpu[c].ptr
    BY <2>1, <1>1, StepHandler
  <2>3. Subject(c)' = Subject(c)
    BY <2>1, <2>2 DEF Subject, WakePcs
  <2>4. Owns(c)'
    BY <2>1, <2>2, <2>3 DEF OwnerInv, Owns
  <2> QED
    BY <2>1, <2>2, <2>4, OwnerFrame
<1>10. ASSUME NEW c \in Cpus, WritePrev(c)
       PROVE  OwnerInv'
  <2>1. Only(c) /\ cpu'[c].pc = "cur" /\ start' = start
    BY <1>1, <1>10, StepHandler DEF WritePrev
  <2> QED
    BY <2>1, <1>3
<1>11. ASSUME NEW c \in Cpus, WriteOnrq(c) \/ NotTraced(c) \/ Report(c) \/ NoReport(c)
       PROVE  OwnerInv'
  <2>1. End(c) /\ start' = start
    BY <1>11 DEF WriteOnrq, NotTraced, Report, NoReport, Finish
  <2> QED
    BY <2>1, <1>1, <1>3, EndHandler
<1> QED
  BY <1>2, <1>4, <1>5, <1>6, <1>7, <1>8, <1>9, <1>10, <1>11
     DEF Next, Advance, WakeIgnored, WakeUnseen, Quiet, vars

----------------------------------------------------------------------------
\* The times in the entries.

\* What an event about t is made from does not change.
TaskSame(t) ==
    /\ tgid' = tgid /\ start'[t] = start[t] /\ offAt'[t] = offAt[t] /\ delay'[t] = delay[t]
    /\ Waited(t)' = Waited(t) /\ (t \in raced => t \in raced')
    /\ start[t] # 0 => /\ elem'[start[t]].offcpu_ns = elem[start[t]].offcpu_ns
                       /\ elem'[start[t]].run_delay_ns = elem[start[t]].run_delay_ns

LEMMA EntryFrame ==
    ASSUME SchedInv, OwnerInv, EntryInv, NEW c \in Cpus, Only(c), NEW t \in Tasks, TaskSame(t),
           ~Leaves(c, t), ~Leaves(c, t)', Settled(t) => Settled(t)'
    PROVE  EntryTrue(t)' /\ \A d \in Cpus : PrevTrue(d, t)'
<1>1. \A d \in Cpus : Leaves(d, t)' => d # c /\ cpu'[d] = cpu[d] /\ Leaves(d, t)
  BY DEF Only, Leaves
<1>2. \A d \in Cpus : Leaves(d, t) => Leaves(d, t)'
  BY DEF Only, Leaves
<1>3. is_target_task(t)' <=> is_target_task(t)
  BY DEF is_target_task, TaskSame
<1>4. EntryTrue(t)'
  <2>1. EntryTrue(t)
    BY DEF EntryInv
  <2> SUFFICES ASSUME is_target_task(t)', ~Settled(t)', \A d \in Cpus : ~Leaves(d, t)'
               PROVE  (/\ start[t] # 0 /\ elem[start[t]].offcpu_ns # 0 =>
                             /\ elem[start[t]].offcpu_ns = offAt[t]
                             /\ elem[start[t]].run_delay_ns + Waited(t) = delay[t]
                       /\ offAt[t] # 0 /\ t \notin raced => start[t] # 0 /\ elem[start[t]].offcpu_ns # 0)'
    BY DEF EntryTrue
  <2>2. /\ start[t] # 0 /\ elem[start[t]].offcpu_ns # 0 =>
              /\ elem[start[t]].offcpu_ns = offAt[t]
              /\ elem[start[t]].run_delay_ns + Waited(t) = delay[t]
        /\ offAt[t] # 0 /\ t \notin raced => start[t] # 0 /\ elem[start[t]].offcpu_ns # 0
    BY <2>1, <1>2, <1>3 DEF EntryTrue
  <2> QED
    BY <2>2 DEF TaskSame
<1>5. ASSUME NEW d \in Cpus
      PROVE  PrevTrue(d, t)'
  <2> SUFFICES ASSUME Leaves(d, t)', cpu'[d].pc # "switch"
               PROVE  /\ offAt'[t] = cpu'[d].ts
                      /\ cpu'[d].pc = "writePrev" =>
                            cpu'[d].ptr = start'[t] \/ (elem'[start'[t]].offcpu_ns = 0 /\ t \in raced')
    BY DEF PrevTrue
  <2>1. cpu'[d] = cpu[d] /\ Leaves(d, t) /\ PrevTrue(d, t)
    BY <1>1 DEF EntryInv
  <2>2. cpu[d].pc = "writePrev" => start[t] # 0
    BY <2>1 DEF OwnerInv, Owns, Subject, Leaves, WakePcs
  <2> QED
    BY <2>1, <2>2 DEF PrevTrue, TaskSame
<1> QED
  BY <1>4, <1>5

LEMMA SettledFrame ==
    ASSUME NEW c \in Cpus, Only(c), on' = on, cpu[c].pc \notin SwitchPcs => cpu'[c].pc \notin SwitchPcs, NEW t
    PROVE  Settled(t) => Settled(t)'
<1> SUFFICES ASSUME NEW d \in Cpus, on[d] = t, cpu[d].pc \notin SwitchPcs
             PROVE  cpu'[d].pc \notin SwitchPcs
  BY DEF Settled
<1> QED
  BY DEF Only

\* Steps in which neither the handlers nor what the entries say is changed.
LEMMA EntrySame ==
    ASSUME OwnerInv, EntryInv, UNCHANGED <<on, cpu>>, \A t \in Tasks : TaskSame(t)
    PROVE  EntryInv'
<1> SUFFICES ASSUME NEW t \in Tasks
             PROVE  EntryTrue(t)' /\ \A d \in Cpus : PrevTrue(d, t)'
  BY DEF EntryInv
<1>1. TaskSame(t) /\ EntryTrue(t) /\ \A d \in Cpus : PrevTrue(d, t)
  BY DEF EntryInv
<1>2. /\ Settled(t)' <=> Settled(t)
      /\ \A d \in Cpus : Leaves(d, t)' <=> Leaves(d, t)
      /\ is_target_task(t)' <=> is_target_task(t)
  BY <1>1 DEF Settled, Leaves, is_target_task, TaskSame
<1>3. EntryTrue(t)'
  <2> SUFFICES ASSUME is_target_task(t)', ~Settled(t)', \A d \in Cpus : ~Leaves(d, t)'
               PROVE  (/\ start[t] # 0 /\ elem[start[t]].offcpu_ns # 0 =>
                             /\ elem[start[t]].offcpu_ns = offAt[t]
                             /\ elem[start[t]].run_delay_ns + Waited(t) = delay[t]
                       /\ offAt[t] # 0 /\ t \notin raced => start[t] # 0 /\ elem[start[t]].offcpu_ns # 0)'
    BY DEF EntryTrue
  <2>1. /\ start[t] # 0 /\ elem[start[t]].offcpu_ns # 0 =>
              /\ elem[start[t]].offcpu_ns = offAt[t]
              /\ elem[start[t]].run_delay_ns + Waited(t) = delay[t]
        /\ offAt[t] # 0 /\ t \notin raced => start[t] # 0 /\ elem[start[t]].offcpu_ns # 0
    BY <1>1, <1>2 DEF EntryTrue
  <2> QED
    BY <2>1, <1>1 DEF TaskSame
<1>4. ASSUME NEW d \in Cpus
      PROVE  PrevTrue(d, t)'
  <2> SUFFICES ASSUME Leaves(d, t)', cpu'[d].pc # "switch"
               PROVE  /\ offAt'[t] = cpu'[d].ts
                      /\ cpu'[d].pc = "writePrev" =>
                            cpu'[d].ptr = start'[t] \/ (elem'[start'[t]].offcpu_ns = 0 /\ t \in raced')
    BY DEF PrevTrue
  <2>1. cpu[d].pc = "writePrev" => start[t] # 0
    BY DEF OwnerInv, Owns, Subject, Leaves, WakePcs
  <2> QED
    BY <2>1, <1>1, <1>2 DEF PrevTrue, TaskSame
<1> QED
  BY <1>3, <1>4

\* The task that comes has waited since its last enqueueing; the task that
\* leaves is leaving.
LEMMA EntrySwitch ==
    ASSUME Types, SchedInv, OwnerInv, EntryInv, NEW c \in Cpus, NEW next \in Pids,
           NEW how \in {"ready", "blocked"}, Switch(c, next, how)
    PROVE  EntryInv'
<1>1. SchedTypes /\ HandlerTypes /\ MapTypes
  BY DEF Types
<1>2. /\ on' = [on EXCEPT ![c] = next] /\ next # on[c]
      /\ next # Idle => state[next] = "ready" /\ next \notin Leaving
      /\ state' = [t \in Tasks |-> CASE t = next -> "running" [] t = on[c] -> how [] OTHER -> state[t]]
      /\ waited' = [waited EXCEPT ![next] = IF next = Idle THEN 0 ELSE now - since[next]]
      /\ delay' = [t \in Tasks |-> IF t = next THEN delay[t] + now - since[t] ELSE delay[t]]
      /\ UNCHANGED <<tgid, start, elem, offAt, raced>>
  BY DEF Switch, history
<1>3. Only(c) /\ cpu[c].pc = "none" /\ cpu'[c].pc = "switch" /\ cpu'[c].prev = on[c] /\ cpu'[c].cur = next
  BY <1>1, SwitchHandler
<1>4. on \in [Cpus -> Pids] /\ waited \in [Pids -> Nat] /\ delay \in [Tasks -> Nat]
      /\ since \in [Tasks -> Nat] /\ now \in Nat
  BY <1>1 DEF SchedTypes
<1>5. on'[c] = next /\ \A d \in Cpus : d # c => on'[d] = on[d]
  BY <1>2, <1>4
<1> SUFFICES ASSUME NEW t \in Tasks
             PROVE  EntryTrue(t)' /\ \A d \in Cpus : PrevTrue(d, t)'
  BY DEF EntryInv
<1>6. t \in Pids /\ t # Idle
  BY Constants
<1>7. CASE t = on[c]
  <2>1. Leaves(c, t)' /\ \A d \in Cpus : Leaves(d, t)' => d = c
    <3>1. Leaves(c, t)'
      BY <1>3, <1>7 DEF Leaves, LeavePcs
    <3>2. state[t] = "running"
      BY <1>7 DEF SchedInv
    <3>3. \A d \in Cpus : ~Leaves(d, t)
      BY <3>2 DEF SchedInv
    <3>4. \A d \in Cpus : d # c => (Leaves(d, t)' <=> Leaves(d, t))
      BY <1>3 DEF Leaves, Only
    <3> QED
      BY <3>1, <3>3, <3>4
  <2>2. EntryTrue(t)'
    BY <2>1 DEF EntryTrue
  <2>3. \A d \in Cpus : PrevTrue(d, t)'
    BY <2>1, <1>3 DEF PrevTrue
  <2> QED
    BY <2>2, <2>3
<1>8. CASE t # on[c] /\ t # next
  <2>1. /\ state'[t] = state[t] /\ waited'[t] = waited[t] /\ delay'[t] = delay[t]
    BY <1>2, <1>4, <1>6, <1>8
  <2>2. Waited(t)' = Waited(t)
    BY <2>1 DEF Waited
  <2>3. TaskSame(t)
    BY <2>1, <2>2, <1>2 DEF TaskSame
  <2>4. ~Leaves(c, t) /\ ~Leaves(c, t)'
    BY <1>3, <1>8 DEF Leaves, LeavePcs
  <2>5. Settled(t) => Settled(t)'
    BY <1>3, <1>5, <1>8 DEF Settled, Only
  <2> QED
    BY <2>3, <2>4, <2>5, <1>3, EntryFrame
<1>9. CASE t = next
  <2>1. state[t] = "ready" /\ t \notin Leaving
    BY <1>2, <1>6, <1>9
  <2>2. ~Settled(t)
    BY <2>1 DEF SchedInv, Settled
  <2>3. \A d \in Cpus : ~Leaves(d, t)
    BY <2>1 DEF Leaves, Leaving, LeavePcs
  <2>4. \A d \in Cpus : ~Leaves(d, t)'
    BY <2>3, <1>2, <1>3, <1>9 DEF Leaves, Only
  <2>5. EntryTrue(t)
    BY DEF EntryInv
  <2>6. Waited(t) = 0 /\ Waited(t)' = now - since[t] /\ delay'[t] = delay[t] + now - since[t]
    BY <2>1, <1>2, <1>4, <1>6, <1>9 DEF Waited
  <2>7. start[t] # 0 => elem[start[t]] \in Entry
    BY <1>1, <1>6 DEF MapTypes
  <2>8. start[t] # 0 => elem[start[t]].run_delay_ns \in Nat
    BY <2>7 DEF Entry
  <2>9. is_target_task(t)' <=> is_target_task(t)
    BY <1>2 DEF is_target_task
  <2>10. ASSUME is_target_task(t)
         PROVE  /\ start[t] # 0 /\ elem[start[t]].offcpu_ns # 0 =>
                     /\ elem[start[t]].offcpu_ns = offAt[t]
                     /\ elem[start[t]].run_delay_ns + Waited(t)' = delay'[t]
                /\ offAt[t] # 0 /\ t \notin raced => start[t] # 0 /\ elem[start[t]].offcpu_ns # 0
    <3>1. /\ start[t] # 0 /\ elem[start[t]].offcpu_ns # 0 =>
                /\ elem[start[t]].offcpu_ns = offAt[t]
                /\ elem[start[t]].run_delay_ns + Waited(t) = delay[t]
          /\ offAt[t] # 0 /\ t \notin raced => start[t] # 0 /\ elem[start[t]].offcpu_ns # 0
      BY <2>2, <2>3, <2>5, <2>10 DEF EntryTrue
    <3>2. delay[t] \in Nat /\ since[t] \in Nat
      BY <1>4
    <3> QED
      BY <3>1, <3>2, <2>6, <2>8, <1>4
  <2>11. EntryTrue(t)'
    BY <2>9, <2>10, <1>2 DEF EntryTrue
  <2>12. \A d \in Cpus : PrevTrue(d, t)'
    BY <2>4 DEF PrevTrue
  <2> QED
    BY <2>11, <2>12
<1> QED
  BY <1>7, <1>8, <1>9

\* try_to_wake_up_hook, where it finds an entry.
LEMMA EntryWaker ==
    ASSUME Types, SchedInv, OwnerInv, EntryInv, NEW c \in Cpus,
           WriteWaker(c) \/ WriteOnrq(c) \/ \E u \in Tasks : TryToWakeUp(c, u)
    PROVE  EntryInv'
<1>1. SchedTypes /\ HandlerTypes /\ MapTypes
  BY DEF Types
<1>2. Only(c) /\ cpu[c].pc \notin SwitchPcs /\ cpu'[c].pc \notin SwitchPcs
  <2>1. CASE WriteWaker(c)
    BY <2>1, <1>1, StepHandler DEF WriteWaker, SwitchPcs, LeavePcs
  <2>2. CASE WriteOnrq(c)
    BY <2>2, <1>1, EndHandler DEF WriteOnrq, SwitchPcs, LeavePcs
  <2>3. ASSUME NEW u \in Tasks, TryToWakeUp(c, u)
        PROVE  Only(c) /\ cpu[c].pc = "none" /\ cpu'[c].pc \in {"insertWaker", "writeWaker"}
    BY <2>3, <1>1, WakeHandler
  <2> QED
    BY <2>1, <2>2, <2>3 DEF SwitchPcs, LeavePcs
<1>3. UNCHANGED <<on, tgid, start, offAt, raced, delay, waited>>
  BY DEF WriteWaker, WriteOnrq, TryToWakeUp, sched, history
<1>4. \A t \in Tasks : state'[t] = "running" <=> state[t] = "running"
  <2>1. CASE WriteOnrq(c)
    <3>1. cpu[c].cur \in Tasks
      BY <2>1 DEF SchedInv, WriteOnrq, WakePcs
    <3> QED
      BY <3>1, <2>1, <1>1, EnqueueEffect DEF WriteOnrq
  <2> QED
    BY <2>1 DEF WriteWaker, TryToWakeUp, sched
<1>5. \A i \in 1..Len(elem) : /\ elem'[i].offcpu_ns = elem[i].offcpu_ns
                              /\ elem'[i].run_delay_ns = elem[i].run_delay_ns
  <2>1. CASE WriteWaker(c)
    <3>1. /\ WroteAt(cpu[c].ptr) /\ elem'[cpu[c].ptr].offcpu_ns = elem[cpu[c].ptr].offcpu_ns
          /\ elem'[cpu[c].ptr].run_delay_ns = elem[cpu[c].ptr].run_delay_ns
      BY <2>1, <1>1, WriteWakerEffect
    <3> QED
      BY <3>1 DEF WroteAt
  <2>2. CASE WriteOnrq(c)
    <3>1. /\ WroteAt(cpu[c].ptr) /\ elem'[cpu[c].ptr].offcpu_ns = elem[cpu[c].ptr].offcpu_ns
          /\ elem'[cpu[c].ptr].run_delay_ns = elem[cpu[c].ptr].run_delay_ns
      BY <2>2, <1>1, WriteOnrqEffect
    <3> QED
      BY <3>1 DEF WroteAt
  <2>3. ASSUME NEW u \in Tasks, TryToWakeUp(c, u)
        PROVE  elem' = elem
    BY <2>3 DEF TryToWakeUp
  <2> QED
    BY <2>1, <2>2, <2>3
<1> SUFFICES ASSUME NEW t \in Tasks
             PROVE  EntryTrue(t)' /\ \A d \in Cpus : PrevTrue(d, t)'
  BY DEF EntryInv
<1>6. TaskSame(t)
  <2>1. start[t] # 0 => start[t] \in 1..Len(elem)
    BY <1>1, Constants DEF MapTypes
  <2>2. Waited(t)' = Waited(t)
    BY <1>3, <1>4 DEF Waited
  <2> QED
    BY <2>1, <2>2, <1>3, <1>5 DEF TaskSame
<1>7. ~Leaves(c, t) /\ ~Leaves(c, t)'
  BY <1>2 DEF Leaves, SwitchPcs
<1>8. Settled(t) => Settled(t)'
  BY <1>2, <1>3, SettledFrame
<1> QED
  BY <1>2, <1>6, <1>7, <1>8, EntryFrame

\* The same where it found none: an entry that came meanwhile is replaced.
LEMMA EntryInsertWaker ==
    ASSUME Types, SchedInv, OwnerInv, EntryInv, NEW c \in Cpus, InsertWaker(c)
    PROVE  EntryInv'
<1>1. SchedTypes /\ HandlerTypes /\ MapTypes /\ HistoryTypes
  BY DEF Types
<1>2. PICK entry \in Entry : /\ entry = [NewEntry EXCEPT !.waker = on[c], !.onrq_ns = cpu[c].ts]
                             /\ entry.offcpu_ns = 0
  BY <1>1, Inserted
<1>3. PICK u \in Tasks : u = cpu[c].cur
  BY DEF SchedInv, InsertWaker, WakePcs
<1>4. Update(u, entry) /\ Enqueue(u) /\ End(c) /\ UNCHANGED <<on, tgid, offAt, delay, waited>>
      /\ cpu[c].pc = "insertWaker"
  BY <1>2, <1>3 DEF InsertWaker
<1>5. Only(c) /\ cpu'[c].pc = "none"
  BY <1>1, <1>4, EndHandler
<1>6. \A t \in Tasks : state'[t] = "running" <=> state[t] = "running"
  BY <1>1, <1>4, EnqueueEffect
<1>7. u \in Pids /\ u # Idle
  BY Constants
<1>8. /\ \A i \in 1..Len(elem) : elem'[i] = elem[i]
      /\ \A v \in Pids : v # u => start'[v] = start[v]
      /\ \/ /\ start'[u] = Len(elem) + 1 /\ elem'[start'[u]] = entry
            /\ start[u] # 0 => u \in raced'
         \/ start[u] = 0 /\ start' = start /\ elem' = elem
      /\ raced \subseteq raced'
  BY <1>1, <1>4, <1>7, UpdateEffect
<1> SUFFICES ASSUME NEW t \in Tasks
             PROVE  EntryTrue(t)' /\ \A d \in Cpus : PrevTrue(d, t)'
  BY DEF EntryInv
<1>9. ~Leaves(c, t) /\ ~Leaves(c, t)'
  BY <1>4, <1>5 DEF Leaves, LeavePcs
<1>10. Settled(t) => Settled(t)'
  <2>1. "none" \notin SwitchPcs
    BY DEF SwitchPcs, LeavePcs
  <2> QED
    BY <2>1, <1>4, <1>5, SettledFrame
<1>11. Waited(t)' = Waited(t)
  BY <1>4, <1>6 DEF Waited
<1>12. start[t] # 0 => start[t] \in 1..Len(elem)
  BY <1>1, Constants DEF MapTypes
<1>13. CASE start'[t] = start[t]
  <2>1. TaskSame(t)
    BY <1>4, <1>8, <1>11, <1>12, <1>13 DEF TaskSame
  <2> QED
    BY <2>1, <1>5, <1>9, <1>10, EntryFrame
<1>14. CASE start'[t] # start[t]
  <2>1. t = u /\ elem'[start'[t]].offcpu_ns = 0 /\ start'[t] # 0 /\ (start[t] # 0 => t \in raced')
    <3>1. t = u
      BY <1>8, <1>14, Constants
    <3>2. Len(elem) \in Nat
      BY <1>1 DEF MapTypes
    <3>3. start'[u] = Len(elem) + 1 /\ elem'[start'[u]] = entry /\ (start[u] # 0 => u \in raced')
      BY <3>1, <1>8, <1>14
    <3>4. start'[u] # 0
      BY <3>2, <3>3
    <3> QED
      BY <3>1, <3>3, <3>4, <1>2
  <2>2. \A d \in Cpus : Leaves(d, t)' <=> Leaves(d, t)
    BY <1>5, <1>9 DEF Leaves, Only
  <2>3. is_target_task(t)' <=> is_target_task(t)
    BY <1>4 DEF is_target_task
  <2>4. EntryTrue(t)
    BY DEF EntryInv
  <2>5. ASSUME is_target_task(t)', ~Settled(t)', \A d \in Cpus : ~Leaves(d, t)', offAt'[t] # 0, t \notin raced'
        PROVE  FALSE
    <3>1. start[t] = 0 /\ t \notin raced /\ offAt[t] # 0
      BY <2>1, <2>5, <1>4, <1>8
    <3>2. is_target_task(t) /\ ~Settled(t) /\ \A d \in Cpus : ~Leaves(d, t)
      BY <2>2, <2>3, <2>5, <1>10
    <3> QED
      BY <3>1, <3>2, <2>4 DEF EntryTrue
  <2>6. EntryTrue(t)'
    BY <2>1, <2>5 DEF EntryTrue
  <2>7. ASSUME NEW d \in Cpus
        PROVE  PrevTrue(d, t)'
    <3> SUFFICES ASSUME Leaves(d, t)', cpu'[d].pc # "switch"
                 PROVE  /\ offAt'[t] = cpu'[d].ts
                        /\ cpu'[d].pc = "writePrev" =>
                              cpu'[d].ptr = start'[t] \/ (elem'[start'[t]].offcpu_ns = 0 /\ t \in raced')
      BY DEF PrevTrue
    <3>1. d # c /\ cpu'[d] = cpu[d] /\ Leaves(d, t) /\ PrevTrue(d, t)
      BY <2>2, <1>5, <1>9 DEF EntryInv, Only
    <3>2. cpu[d].pc = "writePrev" => start[t] # 0
      BY <3>1 DEF OwnerInv, Owns, Subject, Leaves, WakePcs
    <3> QED
      BY <3>1, <3>2, <2>1, <1>4 DEF PrevTrue
  <2> QED
    BY <2>6, <2>7
<1> QED
  BY <1>13, <1>14

\* sched_switch_hook up to the lookup: the task that left is looked up now.
LEMMA EntryHook ==
    ASSUME Types, SchedInv, OwnerInv, EntryInv, NEW c \in Cpus, SwitchHook(c)
    PROVE  EntryInv'
<1>1. SchedTypes /\ HandlerTypes /\ MapTypes /\ HistoryTypes
  BY DEF Types
<1>2. PICK u \in Pids : u = cpu[c].prev
  BY <1>1 DEF HandlerTypes, Handler
<1>3. /\ Only(c) /\ cpu[c].pc = "switch" /\ cpu'[c].pc \in {"cur", "insertPrev", "writePrev"}
      /\ is_target_task(u) => cpu'[c].pc # "cur"
      /\ cpu'[c].prev = u /\ cpu'[c].ts = now /\ cpu'[c].ptr = start[u]
  BY <1>1, <1>2, HookHandler
<1>4. /\ offAt' = [offAt EXCEPT ![u] = now] /\ raced' = raced \ {u}
      /\ UNCHANGED <<on, tgid, start, elem, delay, waited, state>>
  BY <1>2 DEF SwitchHook, sched
<1>5. offAt \in [Pids -> Nat]
  BY <1>1 DEF HistoryTypes
<1> SUFFICES ASSUME NEW t \in Tasks
             PROVE  EntryTrue(t)' /\ \A d \in Cpus : PrevTrue(d, t)'
  BY DEF EntryInv
<1>6. t \in Pids
  BY Constants
<1>7. CASE t # u
  <2>1. TaskSame(t)
    BY <1>4, <1>5, <1>6, <1>7 DEF TaskSame, Waited
  <2>2. ~Leaves(c, t) /\ ~Leaves(c, t)'
    BY <1>2, <1>3, <1>7 DEF Leaves
  <2>3. Settled(t) => Settled(t)'
    BY <1>3, <1>4, SettledFrame DEF SwitchPcs, LeavePcs
  <2> QED
    BY <2>1, <2>2, <2>3, <1>3, EntryFrame
<1>8. CASE t = u
  <2>1. Leaves(c, t)
    BY <1>2, <1>3, <1>8 DEF Leaves, LeavePcs
  <2>2. \A d \in Cpus : Leaves(d, t)' => d = c
    <3>1. \A d \in Cpus : Leaves(d, t) => d = c
      BY <2>1 DEF SchedInv
    <3> QED
      BY <3>1, <1>3 DEF Leaves, Only
  <2>3. EntryTrue(t)'
    <3>1. CASE is_target_task(t)
      <4>1. Leaves(c, t)'
        BY <3>1, <1>3, <1>8 DEF Leaves, LeavePcs
      <4> QED
        BY <4>1 DEF EntryTrue
    <3>2. CASE ~is_target_task(t)
      <4>1. ~is_target_task(t)'
        BY <3>2, <1>4 DEF is_target_task
      <4> QED
        BY <4>1 DEF EntryTrue
    <3> QED
      BY <3>1, <3>2
  <2>4. offAt'[t] = now
    BY <1>4, <1>5, <1>6, <1>8
  <2>5. \A d \in Cpus : PrevTrue(d, t)'
    BY <2>2, <2>4, <1>3, <1>4, <1>8 DEF PrevTrue
  <2> QED
    BY <2>3, <2>5
<1> QED
  BY <1>7, <1>8

\* A handler that has written the entry of t, which had left.
LEMMA EntryWritten ==
    ASSUME SchedInv, EntryInv, NEW c \in Cpus, Only(c), NEW t \in Tasks, Leaves(c, t), cpu'[c].pc = "cur",
           UNCHANGED <<on, tgid, offAt, state, delay>>,
           /\ start'[t] # 0 /\ elem'[start'[t]].offcpu_ns # 0 =>
                 elem'[start'[t]].offcpu_ns = offAt[t] /\ elem'[start'[t]].run_delay_ns = delay[t]
           /\ offAt[t] # 0 /\ t \notin raced' => start'[t] # 0 /\ elem'[start'[t]].offcpu_ns # 0,
           delay[t] \in Nat
    PROVE  EntryTrue(t)' /\ \A d \in Cpus : PrevTrue(d, t)'
<1>1. \A d \in Cpus : ~Leaves(d, t)'
  <2>1. \A d \in Cpus : Leaves(d, t) => d = c
    BY DEF SchedInv
  <2>2. "cur" \notin LeavePcs
    BY DEF LeavePcs
  <2> QED
    BY <2>1, <2>2 DEF Leaves, Only
<1>2. state[t] # "running"
  BY DEF SchedInv
<1>3. Waited(t)' = 0
  BY <1>2 DEF Waited
<1>4. EntryTrue(t)'
  BY <1>3 DEF EntryTrue
<1>5. \A d \in Cpus : PrevTrue(d, t)'
  BY <1>1 DEF PrevTrue
<1> QED
  BY <1>4, <1>5

LEMMA EntryInsertPrev ==
    ASSUME Types, SchedInv, OwnerInv, EntryInv, NEW c \in Cpus, InsertPrev(c)
    PROVE  EntryInv'
<1>1. SchedTypes /\ HandlerTypes /\ MapTypes /\ HistoryTypes
  BY DEF Types
<1>2. PICK entry \in Entry :
         /\ entry = [NewEntry EXCEPT !.offcpu_ns = cpu[c].ts, !.run_delay_ns = Delay(cpu[c].prev)]
         /\ entry.offcpu_ns = cpu[c].ts /\ entry.run_delay_ns = Delay(cpu[c].prev)
  BY <1>1, Inserted
<1>3. PICK u \in Pids : u = cpu[c].prev
  BY <1>1 DEF HandlerTypes, Handler
<1>4. Update(u, entry) /\ cpu[c].pc = "insertPrev" /\ UNCHANGED <<on, tgid, offAt, delay, waited, state>>
  BY <1>2, <1>3 DEF InsertPrev, sched
<1>5. Only(c) /\ cpu'[c].pc = "cur" /\ cpu'[c].prev = u
  BY <1>1, <1>3, StepHandler DEF InsertPrev
<1>6. /\ \A i \in 1..Len(elem) : elem'[i] = elem[i]
      /\ \A v \in Pids : v # u => start'[v] = start[v]
      /\ \/ start'[u] = Len(elem) + 1 /\ elem'[start'[u]] = entry
         \/ start[u] = 0 /\ start' = start /\ elem' = elem /\ (u # Idle => u \in raced')
      /\ raced \subseteq raced'
  BY <1>1, <1>4, UpdateEffect
<1> SUFFICES ASSUME NEW t \in Tasks
             PROVE  EntryTrue(t)' /\ \A d \in Cpus : PrevTrue(d, t)'
  BY DEF EntryInv
<1>7. t \in Pids /\ t # Idle
  BY Constants
<1>8. CASE t # u
  <2>1. start[t] # 0 => start[t] \in 1..Len(elem)
    BY <1>1, <1>7 DEF MapTypes
  <2>2. TaskSame(t)
    BY <2>1, <1>4, <1>6, <1>7, <1>8 DEF TaskSame, Waited
  <2>3. ~Leaves(c, t) /\ ~Leaves(c, t)'
    BY <1>3, <1>5, <1>8 DEF Leaves
  <2>4. Settled(t) => Settled(t)'
    BY <1>4, <1>5, SettledFrame DEF SwitchPcs, LeavePcs
  <2> QED
    BY <2>2, <2>3, <2>4, <1>5, EntryFrame
<1>9. CASE t = u
  <2>1. Leaves(c, t)
    BY <1>3, <1>4, <1>9 DEF Leaves, LeavePcs
  <2>2. PrevTrue(c, t)
    BY DEF EntryInv
  <2>3. offAt[t] = cpu[c].ts
    BY <2>1, <2>2, <1>4 DEF PrevTrue
  <2>4. Delay(u) = delay[t] /\ delay[t] \in Nat
    BY <1>1, <1>7, <1>9 DEF Delay, SchedTypes
  <2>5. Len(elem) \in Nat
    BY <1>1 DEF MapTypes
  <2>6. CASE start'[u] = Len(elem) + 1 /\ elem'[start'[u]] = entry
    <3>1. start'[t] # 0 /\ elem'[start'[t]].offcpu_ns = offAt[t] /\ elem'[start'[t]].run_delay_ns = delay[t]
      <4>1. start'[t] # 0 /\ elem'[start'[t]] = entry
        BY <2>5, <2>6, <1>9
      <4> QED
        BY <4>1, <2>3, <2>4, <1>2, <1>3
    <3> QED
      BY <3>1, <2>1, <2>4, <1>4, <1>5, EntryWritten
  <2>7. CASE start[u] = 0 /\ start' = start /\ elem' = elem /\ (u # Idle => u \in raced')
    <3>1. start'[t] = 0 /\ t \in raced'
      BY <2>7, <1>7, <1>9
    <3> QED
      BY <3>1, <2>1, <2>4, <1>4, <1>5, EntryWritten
  <2> QED
    BY <2>6, <2>7, <1>6
<1> QED
  BY <1>8, <1>9

LEMMA EntryWritePrev ==
    ASSUME Types, SchedInv, OwnerInv, EntryInv, NEW c \in Cpus, WritePrev(c)
    PROVE  EntryInv'
<1>1. SchedTypes /\ HandlerTypes /\ MapTypes /\ HistoryTypes
  BY DEF Types
<1>2. PICK u \in Pids : u = cpu[c].prev
  BY <1>1 DEF HandlerTypes, Handler
<1>3. PICK p \in 1..Len(elem) : p = cpu[c].ptr
  BY <1>1, PtrFound DEF WritePrev
<1>4. /\ \A i \in 1..Len(elem) : i # p => elem'[i] = elem[i]
      /\ elem'[p].offcpu_ns = cpu[c].ts /\ elem'[p].run_delay_ns = Delay(u)
  BY <1>1, <1>2, <1>3, WritePrevEffect DEF WroteAt
<1>5. cpu[c].pc = "writePrev" /\ UNCHANGED <<on, tgid, offAt, delay, waited, state, start, raced>>
  BY DEF WritePrev, sched, history
<1>6. Only(c) /\ cpu'[c].pc = "cur" /\ cpu'[c].prev = u
  BY <1>1, <1>2, StepHandler DEF WritePrev
<1>7. start[u] # 0 /\ \A v \in Pids : start[v] = p => v = u
  BY <1>2, <1>3, <1>5 DEF OwnerInv, Owns, Subject, WakePcs
<1> SUFFICES ASSUME NEW t \in Tasks
             PROVE  EntryTrue(t)' /\ \A d \in Cpus : PrevTrue(d, t)'
  BY DEF EntryInv
<1>8. t \in Pids /\ t # Idle /\ (start[t] # 0 => start[t] \in 1..Len(elem))
  BY <1>1, Constants DEF MapTypes
<1>9. CASE t # u
  <2>1. TaskSame(t)
    BY <1>4, <1>5, <1>7, <1>8, <1>9 DEF TaskSame, Waited
  <2>2. ~Leaves(c, t) /\ ~Leaves(c, t)'
    BY <1>2, <1>6, <1>9 DEF Leaves
  <2>3. Settled(t) => Settled(t)'
    BY <1>5, <1>6, SettledFrame DEF SwitchPcs, LeavePcs
  <2> QED
    BY <2>1, <2>2, <2>3, <1>6, EntryFrame
<1>10. CASE t = u
  <2>1. Leaves(c, t)
    BY <1>2, <1>5, <1>10 DEF Leaves, LeavePcs
  <2>2. PrevTrue(c, t)
    BY DEF EntryInv
  <2>3. offAt[t] = cpu[c].ts /\ (p = start[t] \/ (elem[start[t]].offcpu_ns = 0 /\ t \in raced))
    BY <2>1, <2>2, <1>3, <1>5 DEF PrevTrue
  <2>4. Delay(u) = delay[t] /\ delay[t] \in Nat
    BY <1>1, <1>8, <1>10 DEF Delay, SchedTypes
  <2>5. CASE p = start[t]
    <3>1. elem'[start'[t]].offcpu_ns = offAt[t] /\ elem'[start'[t]].run_delay_ns = delay[t] /\ start'[t] # 0
      BY <2>3, <2>4, <2>5, <1>4, <1>5, <1>7, <1>10
    <3> QED
      BY <3>1, <2>1, <2>4, <1>5, <1>6, EntryWritten
  <2>6. CASE p # start[t]
    <3>1. elem'[start'[t]].offcpu_ns = 0 /\ t \in raced'
      BY <2>3, <2>6, <1>4, <1>5, <1>7, <1>8, <1>10
    <3> QED
      BY <3>1, <2>1, <2>4, <1>5, <1>6, EntryWritten
  <2> QED
    BY <2>5, <2>6
<1> QED
  BY <1>9, <1>10

\* The task that came is settled when its handler ends.
LEMMA EntryCur ==
    ASSUME Types, SchedInv, OwnerInv, EntryInv, NEW c \in Cpus, NotTraced(c) \/ Report(c) \/ NoReport(c)
    PROVE  EntryInv'
<1>1. SchedTypes /\ HandlerTypes /\ MapTypes /\ HistoryTypes
  BY DEF Types
<1>2. PICK u \in Pids : u = cpu[c].cur
  BY <1>1 DEF HandlerTypes, Handler
<1>3. /\ End(c) /\ cpu[c].pc = "cur" /\ offAt' = [offAt EXCEPT ![u] = 0]
      /\ UNCHANGED <<on, tgid, delay, waited, state, start, raced>>
  BY <1>2 DEF NotTraced, Report, NoReport, Traced, Finish, sched
<1>4. Only(c) /\ cpu'[c].pc = "none"
  BY <1>1, <1>3, EndHandler
<1>5. on[c] = u
  BY <1>2, <1>3 DEF SchedInv, SwitchPcs
<1>6. \A i \in 1..Len(elem) : elem'[i] = elem[i] \/ (i = start[u] /\ start[u] # 0)
  <2>1. CASE NotTraced(c)
    BY <2>1 DEF NotTraced
  <2>2. CASE Report(c) \/ NoReport(c)
    <3>1. WroteAt(start[u]) /\ start[u] # 0
      BY <2>2, <1>1, <1>2, CurEffect
    <3> QED
      BY <3>1 DEF WroteAt
  <2> QED
    BY <2>1, <2>2
<1> SUFFICES ASSUME NEW t \in Tasks
             PROVE  EntryTrue(t)' /\ \A d \in Cpus : PrevTrue(d, t)'
  BY DEF EntryInv
<1>7. t \in Pids /\ (start[t] # 0 => start[t] \in 1..Len(elem))
  BY <1>1, Constants DEF MapTypes
<1>8. ~Leaves(c, t) /\ ~Leaves(c, t)'
  BY <1>3, <1>4 DEF Leaves, LeavePcs
<1>9. "none" \notin SwitchPcs
  BY DEF SwitchPcs, LeavePcs
<1>10. CASE t # u
  <2>1. offAt'[t] = offAt[t]
    BY <1>1, <1>3, <1>7, <1>10 DEF HistoryTypes
  <2>2. start[t] # 0 => elem'[start[t]] = elem[start[t]]
    BY <1>6, <1>7, <1>10 DEF OwnerInv
  <2>3. TaskSame(t)
    BY <2>1, <2>2, <1>3 DEF TaskSame, Waited
  <2>4. Settled(t) => Settled(t)'
    BY <1>3, <1>4, <1>9, SettledFrame
  <2> QED
    BY <2>3, <2>4, <1>4, <1>8, EntryFrame
<1>11. CASE t = u
  <2>1. Settled(t)'
    BY <1>3, <1>4, <1>5, <1>9, <1>11 DEF Settled
  <2>2. EntryTrue(t)'
    BY <2>1 DEF EntryTrue
  <2>3. state[t] = "running"
    BY <1>5, <1>11 DEF SchedInv
  <2>4. \A d \in Cpus : ~Leaves(d, t)
    BY <2>3 DEF SchedInv
  <2>5. \A d \in Cpus : ~Leaves(d, t)'
    BY <2>4, <1>4, <1>8 DEF Leaves, Only
  <2>6. \A d \in Cpus : PrevTrue(d, t)'
    BY <2>5 DEF PrevTrue
  <2> QED
    BY <2>2, <2>6
<1> QED
  BY <1>10, <1>11

LEMMA EntryKept ==
    ASSUME Types, SchedInv, OwnerInv, EntryInv, Next
    PROVE  EntryInv'
<1>1. SchedTypes
  BY DEF Types
<1>2. CASE Advance
  <2>1. \A t \in Tasks : TaskSame(t)
    BY <1>2 DEF Advance, TaskSame, Waited, history
  <2>2. UNCHANGED <<on, cpu>>
    BY <1>2 DEF Advance
  <2> QED
    BY <2>1, <2>2, EntrySame
<1>3. ASSUME NEW t \in Tasks, Enqueue(t), UNCHANGED <<on, cpu, tgid, start, elem, delay, waited, history>>
      PROVE  EntryInv'
  <2>1. \A u \in Tasks : state'[u] = "running" <=> state[u] = "running"
    BY <1>1, <1>3, EnqueueEffect
  <2>2. \A u \in Tasks : TaskSame(u)
    BY <2>1, <1>3 DEF TaskSame, Waited, history
  <2> QED
    BY <2>2, <1>3, EntrySame
<1>4. ASSUME NEW c \in Cpus, NEW t \in Tasks, WakeIgnored(c, t)
      PROVE  EntryInv'
  BY <1>3, <1>4 DEF WakeIgnored
<1>5. ASSUME NEW t \in Tasks, WakeUnseen(t)
      PROVE  EntryInv'
  BY <1>3, <1>5 DEF WakeUnseen
<1>6. CASE Quiet
  <2>1. \A t \in Tasks : TaskSame(t)
    BY <1>6 DEF Quiet, vars, sched, history, TaskSame, Waited
  <2>2. UNCHANGED <<on, cpu>>
    BY <1>6 DEF Quiet, vars, sched
  <2> QED
    BY <2>1, <2>2, EntrySame
<1> QED
  BY <1>2, <1>4, <1>5, <1>6, EntrySwitch, EntryWaker, EntryInsertWaker, EntryHook, EntryInsertPrev,
     EntryWritePrev, EntryCur DEF Next

----------------------------------------------------------------------------
\* The wakers in the entries.
LEMMA WakerFrame ==
    ASSUME OwnerInv, WakerInv, NEW c \in Cpus, Only(c), NEW t \in Tasks, now' = now,
           \A d \in Cpus : d # c => on'[d] = on[d],
           start'[t] = start[t], offAt'[t] = offAt[t], wakers[t] \subseteq wakers'[t],
           start[t] # 0 => /\ elem'[start[t]].onrq_ns = elem[start[t]].onrq_ns
                           /\ elem'[start[t]].waker = elem[start[t]].waker,
           offAt[t] # 0 => Waking(c, t)'
    PROVE  WakersOf(t)'
<1> SUFFICES ASSUME offAt[t] # 0
             PROVE  Recorded(t)' /\ \A d \in Cpus : Waking(d, t)'
  BY DEF WakersOf
<1>1. Recorded(t) /\ \A d \in Cpus : Waking(d, t)
  BY DEF WakerInv, WakersOf
<1>2. Recorded(t)'
  BY <1>1 DEF Recorded
<1>3. ASSUME NEW d \in Cpus, d # c
      PROVE  Waking(d, t)'
  <2>1. cpu'[d] = cpu[d] /\ on'[d] = on[d] /\ Waking(d, t)
    BY <1>1, <1>3 DEF Only
  <2>2. cpu[d].pc = "writeOnrq" => cpu[d].ptr # 0
    BY DEF OwnerInv, Owns
  <2> QED
    BY <2>1, <2>2 DEF Waking
<1> QED
  BY <1>2, <1>3

LEMMA WakerSame ==
    ASSUME WakerInv, UNCHANGED <<now, on, cpu, start, elem, offAt, wakers>>
    PROVE  WakerInv'
  BY DEF WakerInv, WakersOf, Recorded, Waking

\* A wake-up begins.
LEMMA WakerTry ==
    ASSUME Types, OwnerInv, WakerInv, NEW c \in Cpus, NEW u \in Tasks, TryToWakeUp(c, u)
    PROVE  WakerInv'
<1>1. SchedTypes /\ HandlerTypes /\ MapTypes /\ HistoryTypes
  BY DEF Types
<1>2. Only(c) /\ cpu'[c].pc \in {"insertWaker", "writeWaker"} /\ cpu'[c].cur = u
  BY <1>1, WakeHandler
<1>3. UNCHANGED <<now, on, start, elem, offAt>>
  BY DEF TryToWakeUp
<1>4. wakers' = [wakers EXCEPT ![u] = wakers[u] \cup {on[c]}] /\ wakers \in [Pids -> SUBSET Pids]
  BY <1>1, Constants DEF TryToWakeUp, HistoryTypes
<1> SUFFICES ASSUME NEW t \in Tasks
             PROVE  WakersOf(t)'
  BY DEF WakerInv
<1>5. wakers[t] \subseteq wakers'[t] /\ on[c] \in wakers'[u]
  BY <1>4, Constants
<1>6. Waking(c, t)'
  BY <1>2, <1>3, <1>5 DEF Waking
<1> QED
  BY <1>2, <1>3, <1>5, <1>6, WakerFrame

\* It inserts an entry.
LEMMA WakerInsert ==
    ASSUME Types, SchedInv, OwnerInv, WakerInv, NEW c \in Cpus, InsertWaker(c)
    PROVE  WakerInv'
<1>1. SchedTypes /\ HandlerTypes /\ MapTypes /\ HistoryTypes
  BY DEF Types
<1>2. PICK entry \in Entry : /\ entry = [NewEntry EXCEPT !.waker = on[c], !.onrq_ns = cpu[c].ts]
                             /\ entry.waker = on[c] /\ entry.onrq_ns = cpu[c].ts
  BY <1>1, Inserted
<1>3. PICK u \in Tasks : u = cpu[c].cur
  BY DEF SchedInv, InsertWaker, WakePcs
<1>4. /\ Update(u, entry) /\ End(c) /\ UNCHANGED <<now, on, offAt, wakers>>
      /\ cpu[c].pc = "insertWaker" /\ cpu[c].ts = now
  BY <1>2, <1>3 DEF InsertWaker, SchedInv
<1>5. Only(c) /\ cpu'[c].pc = "none"
  BY <1>1, <1>4, EndHandler
<1>6. u \in Pids /\ Len(elem) \in Nat
  BY <1>1, Constants DEF MapTypes
<1>7. /\ \A i \in 1..Len(elem) : elem'[i] = elem[i]
      /\ \A v \in Pids : v # u => start'[v] = start[v]
      /\ (start'[u] = Len(elem) + 1 /\ elem'[start'[u]] = entry) \/ start' = start
  BY <1>1, <1>4, <1>6, UpdateEffect
<1> SUFFICES ASSUME NEW t \in Tasks
             PROVE  WakersOf(t)'
  BY DEF WakerInv
<1>8. Waking(c, t)'
  BY <1>5 DEF Waking, WakePcs
<1>9. CASE start'[t] = start[t]
  <2>1. start[t] # 0 => start[t] \in 1..Len(elem)
    BY <1>1, Constants DEF MapTypes
  <2>2. start[t] # 0 => elem'[start[t]] = elem[start[t]]
    BY <2>1, <1>7
  <2> QED
    BY <2>2, <1>4, <1>5, <1>8, <1>9, WakerFrame
<1>10. CASE start'[t] # start[t]
  <2>1. t = u /\ start'[t] = Len(elem) + 1 /\ elem'[start'[t]] = entry
    BY <1>7, <1>10, Constants
  <2> SUFFICES ASSUME offAt[t] # 0
               PROVE  Recorded(t)' /\ \A d \in Cpus : Waking(d, t)'
    BY <1>4 DEF WakersOf
  <2>2. \A d \in Cpus : Waking(d, t)
    BY DEF WakerInv, WakersOf
  <2>3. now > offAt[t] => on[c] \in wakers[t]
    BY <2>1, <2>2, <1>3, <1>4 DEF Waking, WakePcs
  <2>4. Recorded(t)'
    BY <2>1, <2>3, <1>2, <1>4 DEF Recorded
  <2>5. ASSUME NEW d \in Cpus, d # c
        PROVE  Waking(d, t)'
    <3>1. cpu'[d] = cpu[d] /\ Waking(d, t)
      BY <2>2, <2>5, <1>5 DEF Only
    <3>2. cpu[d].ptr <= Len(elem) /\ cpu[d].ptr \in Nat
      BY <1>1 DEF HandlerTypes, Handler
    <3>3. cpu[d].ptr # start'[t]
      BY <3>2, <2>1, <1>6
    <3> QED
      BY <3>1, <3>3, <1>4 DEF Waking
  <2> QED
    BY <2>4, <2>5, <1>8
<1> QED
  BY <1>9, <1>10

\* It writes to the entry it has found, the waker and then the time.
LEMMA WakerWrite ==
    ASSUME Types, SchedInv, OwnerInv, WakerInv, NEW c \in Cpus, WriteWaker(c)
    PROVE  WakerInv'
<1>1. SchedTypes /\ HandlerTypes /\ MapTypes /\ HistoryTypes
  BY DEF Types
<1>2. PICK u \in Tasks : u = cpu[c].cur
  BY DEF SchedInv, WriteWaker, WakePcs
<1>3. PICK p \in 1..Len(elem) : p = cpu[c].ptr
  BY <1>1, PtrFound DEF WriteWaker
<1>4. /\ \A i \in 1..Len(elem) : i # p => elem'[i] = elem[i]
      /\ elem'[p].waker = on[c] /\ elem'[p].onrq_ns = elem[p].onrq_ns
  BY <1>1, <1>3, WriteWakerEffect DEF WroteAt
<1>5. cpu[c].pc = "writeWaker" /\ UNCHANGED <<now, on, offAt, wakers, start>>
  BY DEF WriteWaker, sched, history
<1>6. Only(c) /\ cpu'[c].pc = "writeOnrq" /\ cpu'[c].cur = u /\ cpu'[c].ptr = p
  BY <1>1, <1>2, <1>3, StepHandler DEF WriteWaker
<1>7. \A v \in Pids : start[v] = p => v = u
  BY <1>2, <1>3, <1>5 DEF OwnerInv, Owns, Subject, WakePcs
<1> SUFFICES ASSUME NEW t \in Tasks
             PROVE  WakersOf(t)'
  BY DEF WakerInv
<1>8. t \in Pids /\ (start[t] # 0 => start[t] \in 1..Len(elem))
  BY <1>1, Constants DEF MapTypes
<1>9. t = u /\ offAt[t] # 0 /\ now > offAt[t] => on[c] \in wakers[t]
  <2>1. t = u /\ offAt[t] # 0 => Waking(c, t)
    BY DEF WakerInv, WakersOf
  <2> QED
    BY <2>1, <1>2, <1>5 DEF Waking, WakePcs
<1>10. offAt[t] # 0 => Waking(c, t)'
  <2> SUFFICES ASSUME offAt[t] # 0, t = u, now > offAt[t]
               PROVE  on[c] \in wakers[t] /\ (p = start[t] => elem'[start[t]].waker \in wakers[t])
    BY <1>5, <1>6 DEF Waking
  <2> QED
    BY <1>4, <1>9
<1>11. CASE start[t] # p
  <2>1. start[t] # 0 => elem'[start[t]] = elem[start[t]]
    BY <1>4, <1>8, <1>11
  <2> QED
    BY <2>1, <1>5, <1>6, <1>10, WakerFrame
<1>12. CASE start[t] = p
  <2>1. t = u
    BY <1>7, <1>8, <1>12
  <2> SUFFICES ASSUME offAt[t] # 0
               PROVE  Recorded(t)' /\ \A d \in Cpus : Waking(d, t)'
    BY <1>5 DEF WakersOf
  <2>2. elem[p].onrq_ns <= now /\ elem[p].onrq_ns \in Nat /\ now \in Nat /\ offAt[t] \in Nat
    <3>1. elem[p] \in Entry
      BY <1>1, <1>3 DEF MapTypes
    <3>2. elem[p].onrq_ns <= now
      BY <1>1, <1>3 DEF MapTypes
    <3>3. elem[p].onrq_ns \in Nat
      BY <3>1 DEF Entry
    <3>4. now \in Nat /\ offAt[t] \in Nat
      BY <1>1, <1>8 DEF SchedTypes, HistoryTypes
    <3> QED
      BY <3>2, <3>3, <3>4
  <2>3. Recorded(t)'
    <3> SUFFICES ASSUME elem[p].onrq_ns > offAt[t]
                 PROVE  on[c] \in wakers[t]
      BY <1>4, <1>5, <1>12 DEF Recorded
    <3>1. now > offAt[t]
      BY <2>2
    <3> QED
      BY <3>1, <2>1, <1>9
  <2>4. ASSUME NEW d \in Cpus, d # c
        PROVE  Waking(d, t)'
    <3>1. cpu'[d] = cpu[d] /\ Waking(d, t)
      BY <2>4, <1>6 DEF Only, WakerInv, WakersOf
    <3> QED
      BY <3>1, <2>1, <1>4, <1>5, <1>9, <1>12 DEF Waking
  <2> QED
    BY <2>3, <2>4, <1>10
<1> QED
  BY <1>11, <1>12

LEMMA WakerWriteOnrq ==
    ASSUME Types, SchedInv, OwnerInv, WakerInv, NEW c \in Cpus, WriteOnrq(c)
    PROVE  WakerInv'
<1>1. SchedTypes /\ HandlerTypes /\ MapTypes /\ HistoryTypes
  BY DEF Types
<1>2. PICK u \in Tasks : u = cpu[c].cur
  BY DEF SchedInv, WriteOnrq, WakePcs
<1>3. PICK p \in 1..Len(elem) : p = cpu[c].ptr
  BY <1>1, PtrFound DEF WriteOnrq
<1>4. cpu[c].pc = "writeOnrq" /\ cpu[c].ts = now /\ UNCHANGED <<now, on, offAt, wakers, start>>
  BY DEF WriteOnrq, history, SchedInv
<1>5. /\ \A i \in 1..Len(elem) : i # p => elem'[i] = elem[i]
      /\ elem'[p].waker = elem[p].waker /\ elem'[p].onrq_ns = now
  BY <1>1, <1>3, <1>4, WriteOnrqEffect DEF WroteAt
<1>6. Only(c) /\ cpu'[c].pc = "none"
  BY <1>1, EndHandler DEF WriteOnrq
<1>7. \A v \in Pids : start[v] = p => v = u
  BY <1>2, <1>3, <1>4 DEF OwnerInv, Owns, Subject, WakePcs
<1> SUFFICES ASSUME NEW t \in Tasks
             PROVE  WakersOf(t)'
  BY DEF WakerInv
<1>8. t \in Pids /\ (start[t] # 0 => start[t] \in 1..Len(elem))
  BY <1>1, Constants DEF MapTypes
<1>9. Waking(c, t)'
  BY <1>6 DEF Waking, WakePcs
<1>10. CASE start[t] # p
  <2>1. start[t] # 0 => elem'[start[t]] = elem[start[t]]
    BY <1>5, <1>8, <1>10
  <2> QED
    BY <2>1, <1>4, <1>6, <1>9, WakerFrame
<1>11. CASE start[t] = p
  <2>1. t = u
    BY <1>7, <1>8, <1>11
  <2> SUFFICES ASSUME offAt[t] # 0
               PROVE  Recorded(t)' /\ \A d \in Cpus : Waking(d, t)'
    BY <1>4 DEF WakersOf
  <2>2. \A d \in Cpus : Waking(d, t)
    BY DEF WakerInv, WakersOf
  <2>3. now > offAt[t] => elem[p].waker \in wakers[t]
    BY <2>1, <2>2, <1>2, <1>3, <1>4, <1>11 DEF Waking, WakePcs
  <2>4. Recorded(t)'
    BY <2>3, <1>4, <1>5, <1>11 DEF Recorded
  <2>5. ASSUME NEW d \in Cpus, d # c
        PROVE  Waking(d, t)'
    <3>1. cpu'[d] = cpu[d] /\ Waking(d, t)
      BY <2>2, <2>5, <1>6 DEF Only
    <3> QED
      BY <3>1, <1>4, <1>5, <1>11 DEF Waking
  <2> QED
    BY <2>4, <2>5, <1>9
<1> QED
  BY <1>10, <1>11

\* sched_switch_hook: the time off begins, its entry is written, and it ends.
LEMMA WakerHook ==
    ASSUME Types, OwnerInv, WakerInv, NEW c \in Cpus, SwitchHook(c)
    PROVE  WakerInv'
<1>1. SchedTypes /\ HandlerTypes /\ MapTypes /\ HistoryTypes
  BY DEF Types
<1>2. PICK u \in Pids : u = cpu[c].prev
  BY <1>1 DEF HandlerTypes, Handler
<1>3. Only(c) /\ cpu'[c].pc \in {"cur", "insertPrev", "writePrev"}
  BY <1>1, HookHandler
<1>4. offAt' = [offAt EXCEPT ![u] = now] /\ UNCHANGED <<now, on, start, elem, wakers>>
  BY <1>2 DEF SwitchHook, sched
<1>5. offAt \in [Pids -> Nat] /\ now \in Nat
  BY <1>1 DEF HistoryTypes, SchedTypes
<1> SUFFICES ASSUME NEW t \in Tasks
             PROVE  WakersOf(t)'
  BY DEF WakerInv
<1>6. Waking(c, t)'
  BY <1>3 DEF Waking, WakePcs
<1>7. t \in Pids /\ (start[t] # 0 => start[t] \in 1..Len(elem))
  BY <1>1, Constants DEF MapTypes
<1>8. CASE t # u
  <2>1. offAt'[t] = offAt[t]
    BY <1>4, <1>5, <1>7, <1>8
  <2> QED
    BY <2>1, <1>3, <1>4, <1>6, WakerFrame
<1>9. CASE t = u
  <2>1. offAt'[t] = now
    BY <1>4, <1>5, <1>7, <1>9
  <2>2. start[t] # 0 => elem[start[t]].onrq_ns <= now /\ elem[start[t]].onrq_ns \in Nat
    <3>1. start[t] # 0 => elem[start[t]] \in Entry /\ elem[start[t]].onrq_ns <= now
      BY <1>1, <1>7 DEF MapTypes
    <3> QED
      BY <3>1 DEF Entry
  <2>3. Recorded(t)'
    BY <2>1, <2>2, <1>4, <1>5 DEF Recorded
  <2>4. \A d \in Cpus : Waking(d, t)'
    BY <2>1, <1>4, <1>5 DEF Waking
  <2> QED
    BY <2>3, <2>4 DEF WakersOf
<1> QED
  BY <1>8, <1>9

LEMMA WakerInsertPrev ==
    ASSUME Types, OwnerInv, WakerInv, NEW c \in Cpus, InsertPrev(c)
    PROVE  WakerInv'
<1>1. SchedTypes /\ HandlerTypes /\ MapTypes /\ HistoryTypes
  BY DEF Types
<1>2. PICK entry \in Entry :
         /\ entry = [NewEntry EXCEPT !.offcpu_ns = cpu[c].ts, !.run_delay_ns = Delay(cpu[c].prev)]
         /\ entry.onrq_ns = 0
  BY <1>1, Inserted
<1>3. PICK u \in Pids : u = cpu[c].prev
  BY <1>1 DEF HandlerTypes, Handler
<1>4. Update(u, entry) /\ UNCHANGED <<now, on, offAt, wakers>>
  BY <1>2, <1>3 DEF InsertPrev, sched
<1>5. Only(c) /\ cpu'[c].pc = "cur"
  BY <1>1, StepHandler DEF InsertPrev
<1>6. /\ \A i \in 1..Len(elem) : elem'[i] = elem[i]
      /\ \A v \in Pids : v # u => start'[v] = start[v]
      /\ (start'[u] = Len(elem) + 1 /\ elem'[start'[u]] = entry) \/ start' = start
  BY <1>1, <1>4, UpdateEffect
<1> SUFFICES ASSUME NEW t \in Tasks
             PROVE  WakersOf(t)'
  BY DEF WakerInv
<1>7. Waking(c, t)'
  BY <1>5 DEF Waking, WakePcs
<1>8. t \in Pids /\ (start[t] # 0 => start[t] \in 1..Len(elem)) /\ Len(elem) \in Nat
  BY <1>1, Constants DEF MapTypes
<1>9. CASE start'[t] = start[t]
  <2>1. start[t] # 0 => elem'[start[t]] = elem[start[t]]
    BY <1>6, <1>8
  <2> QED
    BY <2>1, <1>4, <1>5, <1>7, <1>9, WakerFrame
<1>10. CASE start'[t] # start[t]
  <2>1. start'[t] = Len(elem) + 1 /\ elem'[start'[t]] = entry
    BY <1>6, <1>8, <1>10
  <2> SUFFICES ASSUME offAt[t] # 0
               PROVE  Recorded(t)' /\ \A d \in Cpus : Waking(d, t)'
    BY <1>4 DEF WakersOf
  <2>2. offAt[t] \in Nat
    BY <1>1, <1>8 DEF HistoryTypes
  <2>3. Recorded(t)'
    BY <2>1, <2>2, <1>2, <1>4 DEF Recorded
  <2>4. ASSUME NEW d \in Cpus, d # c
        PROVE  Waking(d, t)'
    <3>1. cpu'[d] = cpu[d] /\ Waking(d, t)
      BY <2>4, <1>5 DEF Only, WakerInv, WakersOf
    <3>2. cpu[d].ptr <= Len(elem) /\ cpu[d].ptr \in Nat
      BY <1>1 DEF HandlerTypes, Handler
    <3>3. cpu[d].ptr # start'[t]
      BY <3>2, <2>1, <1>8
    <3> QED
      BY <3>1, <3>3, <1>4 DEF Waking
  <2> QED
    BY <2>3, <2>4, <1>7
<1> QED
  BY <1>9, <1>10

LEMMA WakerWritePrev ==
    ASSUME Types, OwnerInv, WakerInv, NEW c \in Cpus, WritePrev(c)
    PROVE  WakerInv'
<1>1. SchedTypes /\ HandlerTypes /\ MapTypes
  BY DEF Types
<1>2. PICK p \in 1..Len(elem) : p = cpu[c].ptr
  BY <1>1, PtrFound DEF WritePrev
<1>3. /\ \A i \in 1..Len(elem) : i # p => elem'[i] = elem[i]
      /\ elem'[p].waker = elem[p].waker /\ elem'[p].onrq_ns = elem[p].onrq_ns
  BY <1>1, <1>2, WritePrevEffect DEF WroteAt
<1>4. UNCHANGED <<now, on, offAt, wakers, start>>
  BY DEF WritePrev, sched, history
<1>5. Only(c) /\ cpu'[c].pc = "cur"
  BY <1>1, StepHandler DEF WritePrev
<1> SUFFICES ASSUME NEW t \in Tasks
             PROVE  WakersOf(t)'
  BY DEF WakerInv
<1>6. Waking(c, t)'
  BY <1>5 DEF Waking, WakePcs
<1>7. start[t] # 0 => start[t] \in 1..Len(elem)
  BY <1>1, Constants DEF MapTypes
<1>8. start[t] # 0 => /\ elem'[start[t]].onrq_ns = elem[start[t]].onrq_ns
                      /\ elem'[start[t]].waker = elem[start[t]].waker
  BY <1>3, <1>7
<1> QED
  BY <1>4, <1>5, <1>6, <1>8, WakerFrame

LEMMA WakerCur ==
    ASSUME Types, OwnerInv, WakerInv, NEW c \in Cpus, NotTraced(c) \/ Report(c) \/ NoReport(c)
    PROVE  WakerInv'
<1>1. SchedTypes /\ HandlerTypes /\ MapTypes /\ HistoryTypes
  BY DEF Types
<1>2. PICK u \in Pids : u = cpu[c].cur
  BY <1>1 DEF HandlerTypes, Handler
<1>3. /\ End(c) /\ offAt' = [offAt EXCEPT ![u] = 0] /\ wakers' = [wakers EXCEPT ![u] = {}]
      /\ UNCHANGED <<now, on, start>>
  BY <1>2 DEF NotTraced, Report, NoReport, Finish, sched
<1>4. Only(c) /\ cpu'[c].pc = "none"
  BY <1>1, <1>3, EndHandler
<1>5. \A i \in 1..Len(elem) : elem'[i].onrq_ns = elem[i].onrq_ns /\ elem'[i].waker = elem[i].waker
  <2>1. CASE NotTraced(c)
    BY <2>1 DEF NotTraced
  <2>2. CASE Report(c) \/ NoReport(c)
    <3>1. /\ WroteAt(start[u]) /\ elem'[start[u]].waker = elem[start[u]].waker
          /\ elem'[start[u]].onrq_ns = elem[start[u]].onrq_ns
      BY <2>2, <1>1, <1>2, CurEffect
    <3> QED
      BY <3>1 DEF WroteAt
  <2> QED
    BY <2>1, <2>2
<1> SUFFICES ASSUME NEW t \in Tasks
             PROVE  WakersOf(t)'
  BY DEF WakerInv
<1>6. Waking(c, t)'
  BY <1>4 DEF Waking, WakePcs
<1>7. t \in Pids /\ (start[t] # 0 => start[t] \in 1..Len(elem))
  BY <1>1, Constants DEF MapTypes
<1>8. CASE t # u
  <2>1. offAt'[t] = offAt[t] /\ wakers'[t] = wakers[t]
    BY <1>1, <1>3, <1>7, <1>8 DEF HistoryTypes
  <2> QED
    BY <2>1, <1>3, <1>4, <1>5, <1>6, <1>7, WakerFrame
<1>9. CASE t = u
  <2>1. offAt'[t] = 0
    BY <1>1, <1>3, <1>7, <1>9 DEF HistoryTypes
  <2> QED
    BY <2>1 DEF WakersOf
<1> QED
  BY <1>8, <1>9

LEMMA WakerKept ==
    ASSUME Types, SchedInv, OwnerInv, WakerInv, Next
    PROVE  WakerInv'
<1>1. SchedTypes /\ HandlerTypes
  BY DEF Types
<1>2. CASE Advance
  <2>1. /\ UNCHANGED <<on, cpu, start, elem, offAt, wakers>> /\ \A c \in Cpus : cpu[c].pc = "none"
    BY <1>2 DEF Advance, history
  <2>2. \A t \in Tasks : \A c \in Cpus : Waking(c, t)'
    BY <2>1 DEF Waking, WakePcs
  <2> QED
    BY <2>1, <2>2 DEF WakerInv, WakersOf, Recorded
<1>3. ASSUME NEW c \in Cpus, NEW next \in Pids, NEW how \in {"ready", "blocked"}, Switch(c, next, how)
      PROVE  WakerInv'
  <2>1. Only(c) /\ cpu'[c].pc = "switch"
    BY <1>1, <1>3, SwitchHandler
  <2>2. /\ on' = [on EXCEPT ![c] = next] /\ UNCHANGED <<now, start, elem, offAt, wakers>>
    BY <1>3 DEF Switch, history
  <2>3. \A d \in Cpus : d # c => on'[d] = on[d]
    BY <2>2, <1>1 DEF SchedTypes
  <2>4. \A t \in Tasks : Waking(c, t)'
    BY <2>1 DEF Waking, WakePcs
  <2> QED
    BY <2>1, <2>2, <2>3, <2>4, WakerFrame DEF WakerInv
<1>4. CASE Quiet \/ \E t \in Tasks : WakeUnseen(t) \/ \E c \in Cpus : WakeIgnored(c, t)
  BY <1>4, WakerSame DEF Quiet, WakeUnseen, WakeIgnored, vars, sched, history
<1> QED
  BY <1>2, <1>3, <1>4, WakerTry, WakerInsert, WakerWrite, WakerWriteOnrq, WakerHook, WakerInsertPrev,
     WakerWritePrev, WakerCur DEF Next

----------------------------------------------------------------------------
\* The ring of the switches.
LEMMA CacheFrame ==
    ASSUME CacheInv, NEW c \in Cpus, Only(c), handled' = handled,
           \A d \in Cpus : /\ cache[d].status = "on" => cache'[d].status = "on"
                           /\ cache'[d].id = cache[d].id /\ cache'[d].records = cache[d].records,
           cpu'[c].pc \in SwitchPcs \ {"switch"} =>
               cpu[c].pc \in SwitchPcs \ {"switch"} /\ cpu'[c].prev = cpu[c].prev
    PROVE  CacheInv'
<1> SUFFICES ASSUME RqDur # 0, NEW d \in Cpus
             PROVE  /\ cache'[d].status = "on" /\ cache'[d].id = handled[d]
                    /\ cpu'[d].pc \in SwitchPcs \ {"switch"} =>
                          /\ handled[d] > 0
                          /\ cache'[d].records[(handled[d] - 1) % CacheSize] = cpu'[d].prev
  BY DEF CacheInv
<1>1. /\ cache[d].status = "on" /\ cache[d].id = handled[d]
      /\ cpu[d].pc \in SwitchPcs \ {"switch"} =>
            handled[d] > 0 /\ cache[d].records[(handled[d] - 1) % CacheSize] = cpu[d].prev
  BY DEF CacheInv
<1>2. CASE d # c
  BY <1>1, <1>2 DEF Only
<1>3. CASE d = c
  BY <1>1, <1>3
<1> QED
  BY <1>2, <1>3

LEMMA CacheHook ==
    ASSUME Types, CacheInv, NEW c \in Cpus, SwitchHook(c)
    PROVE  CacheInv'
<1>1. SchedTypes /\ HandlerTypes /\ MapTypes /\ CacheTypes
  BY DEF Types
<1>2. Only(c) /\ cpu'[c].prev = cpu[c].prev
  BY <1>1, HookHandler
<1>3. cache \in [Cpus -> Ring] /\ handled \in [Cpus -> Nat] /\ cpu[c].prev \in Pids
  BY <1>1 DEF CacheTypes, Ring, HandlerTypes, Handler
<1>4. PICK k : k = SchedCacheUpdate(cache[c], cpu[c].prev)
  OBVIOUS
<1>5. cache' = [cache EXCEPT ![c] = k] /\ handled' = [handled EXCEPT ![c] = handled[c] + 1]
  BY <1>3, <1>4 DEF SwitchHook
<1> SUFFICES ASSUME RqDur # 0, NEW d \in Cpus
             PROVE  /\ cache'[d].status = "on" /\ cache'[d].id = handled'[d]
                    /\ cpu'[d].pc \in SwitchPcs \ {"switch"} =>
                          /\ handled'[d] > 0
                          /\ cache'[d].records[(handled'[d] - 1) % CacheSize] = cpu'[d].prev
  BY DEF CacheInv
<1>6. CASE d # c
  <2>1. cache'[d] = cache[d] /\ handled'[d] = handled[d] /\ cpu'[d] = cpu[d]
    BY <1>2, <1>3, <1>5, <1>6 DEF Only
  <2> QED
    BY <2>1 DEF CacheInv
<1>7. CASE d = c
  <2>1. cache[c].status = "on" /\ cache[c].id = handled[c] /\ cache[c] \in Ring
    BY <1>3 DEF CacheInv
  <2>2. k.status = "on" /\ k.id = handled[c] + 1 /\ k.records[handled[c] % CacheSize] = cpu[c].prev
    BY <2>1, <1>3, <1>4, RingEffect
  <2>3. cache'[c] = k /\ handled'[c] = handled[c] + 1
    BY <1>3, <1>5
  <2>4. handled'[c] > 0 /\ handled'[c] - 1 = handled[c]
    BY <2>3, <1>3
  <2> QED
    BY <2>2, <2>3, <2>4, <1>2, <1>7
<1> QED
  BY <1>6, <1>7

LEMMA CacheKept ==
    ASSUME Types, CacheInv, Next
    PROVE  CacheInv'
<1>1. SchedTypes /\ HandlerTypes /\ MapTypes /\ CacheTypes
  BY DEF Types
<1>2. ASSUME NEW c \in Cpus, Only(c), UNCHANGED <<cache, handled>>,
             cpu'[c].pc \in {"none", "switch", "insertWaker", "writeWaker", "writeOnrq"}
      PROVE  CacheInv'
  <2>1. cpu'[c].pc \notin SwitchPcs \ {"switch"}
    BY <1>2 DEF SwitchPcs, LeavePcs
  <2> QED
    BY <2>1, <1>2, CacheFrame
<1>3. ASSUME NEW c \in Cpus, End(c), UNCHANGED <<cache, handled>>
      PROVE  CacheInv'
  BY <1>1, <1>2, <1>3, EndHandler
<1>4. ASSUME NEW c \in Cpus, NEW next \in Pids, NEW how \in {"ready", "blocked"}, Switch(c, next, how)
      PROVE  CacheInv'
  <2>1. Only(c) /\ cpu'[c].pc = "switch"
    BY <1>1, <1>4, SwitchHandler
  <2>2. UNCHANGED <<cache, handled>>
    BY <1>4 DEF Switch, history
  <2> QED
    BY <2>1, <2>2, <1>2
<1>5. ASSUME NEW c \in Cpus, NEW t \in Tasks, TryToWakeUp(c, t)
      PROVE  CacheInv'
  <2>1. Only(c) /\ cpu'[c].pc \in {"insertWaker", "writeWaker"} /\ UNCHANGED <<cache, handled>>
    BY <1>1, <1>5, WakeHandler DEF TryToWakeUp
  <2> QED
    BY <2>1, <1>2
<1>6. ASSUME NEW c \in Cpus, WriteWaker(c)
      PROVE  CacheInv'
  <2>1. Only(c) /\ cpu'[c].pc = "writeOnrq" /\ UNCHANGED <<cache, handled>>
    BY <1>1, <1>6, StepHandler DEF WriteWaker, history
  <2> QED
    BY <2>1, <1>2
<1>7. ASSUME NEW c \in Cpus, InsertPrev(c) \/ WritePrev(c)
      PROVE  CacheInv'
  <2>1. Only(c) /\ cpu'[c].prev = cpu[c].prev /\ UNCHANGED <<cache, handled>>
    BY <1>1, <1>7, StepHandler DEF InsertPrev, WritePrev, history
  <2>2. cpu[c].pc \in SwitchPcs \ {"switch"}
    BY <1>7 DEF InsertPrev, WritePrev, SwitchPcs, LeavePcs
  <2> QED
    BY <2>1, <2>2, CacheFrame
<1>8. ASSUME NEW c \in Cpus, InsertWaker(c) \/ WriteOnrq(c) \/ NotTraced(c) \/ NoReport(c)
      PROVE  CacheInv'
  BY <1>3, <1>8 DEF InsertWaker, WriteOnrq, NotTraced, NoReport, Finish, history
<1>9. ASSUME NEW c \in Cpus, Report(c)
      PROVE  CacheInv'
  <2>1. End(c) /\ handled' = handled /\ (SchedCacheDump(c) \/ cache' = cache)
    BY <1>9 DEF Report, Finish
  <2>2. ASSUME SchedCacheDump(c)
        PROVE  \A d \in Cpus : /\ cache[d].status = "on" => cache'[d].status = "on"
                               /\ cache'[d].id = cache[d].id /\ cache'[d].records = cache[d].records
    <3>1. cache' = [cache EXCEPT ![c].status = "on"] /\ cache \in [Cpus -> Ring]
      BY <2>2, <1>1 DEF SchedCacheDump, CacheTypes, Ring
    <3> QED
      BY <3>1 DEF Ring
  <2>3. \A d \in Cpus : /\ cache[d].status = "on" => cache'[d].status = "on"
                        /\ cache'[d].id = cache[d].id /\ cache'[d].records = cache[d].records
    BY <2>1, <2>2
  <2>4. Only(c) /\ cpu'[c].pc = "none"
    BY <2>1, <1>1, EndHandler
  <2>5. "none" \notin SwitchPcs
    BY DEF SwitchPcs, LeavePcs
  <2> QED
    BY <2>1, <2>3, <2>4, <2>5, CacheFrame
<1>10. ASSUME UNCHANGED <<cache, handled, cpu>>
       PROVE  CacheInv'
  BY <1>10 DEF CacheInv
<1>11. CASE Advance \/ Quiet \/ \E t \in Tasks : WakeUnseen(t) \/ \E c \in Cpus : WakeIgnored(c, t)
  BY <1>10, <1>11 DEF Advance, Quiet, WakeUnseen, WakeIgnored, vars, history
<1> QED
  BY <1>4, <1>5, <1>6, <1>7, <1>8, <1>9, <1>11, CacheHook DEF Next

----------------------------------------------------------------------------
\* What is sent.

\* The task whose switch-in a handler ends is coming: its entry is true.
LEMMA ComingTrue ==
    ASSUME SchedInv, EntryInv, NEW c \in Cpus, NEW t \in Tasks, t = cpu[c].cur, cpu[c].pc = "cur",
           is_target_task(t)
    PROVE  /\ start[t] # 0 /\ elem[start[t]].offcpu_ns # 0 =>
                 /\ elem[start[t]].offcpu_ns = offAt[t]
                 /\ elem[start[t]].run_delay_ns + waited[t] = delay[t]
           /\ offAt[t] # 0 /\ t \notin raced => start[t] # 0 /\ elem[start[t]].offcpu_ns # 0
<1>1. on[c] = t
  BY DEF SchedInv, SwitchPcs
<1>2. t # Idle
  BY Constants
<1>3. \A d \in Cpus : on[d] = t => d = c
  BY <1>1, <1>2 DEF SchedInv
<1>4. ~Settled(t)
  BY <1>3 DEF Settled, SwitchPcs
<1>5. state[t] = "running"
  BY <1>1 DEF SchedInv
<1>6. \A d \in Cpus : ~Leaves(d, t)
  BY <1>5 DEF SchedInv
<1>7. EntryTrue(t) /\ Waited(t) = waited[t]
  BY <1>5 DEF EntryInv, Waited
<1> QED
  BY <1>4, <1>6, <1>7 DEF EntryTrue

LEMMA SentTrue ==
    ASSUME Types, SchedInv, EntryInv, WakerInv, TimesTrue, WakerTrue, Next
    PROVE  TimesTrue' /\ WakerTrue'
<1>1. CASE UNCHANGED <<perf, truth, backup>>
  BY <1>1 DEF TimesTrue, WakerTrue
<1>2. ASSUME NEW c \in Cpus, Report(c)
      PROVE  TimesTrue' /\ WakerTrue'
  <2>1. PICK t, e : t = cpu[c].cur /\ e = elem[start[t]]
    OBVIOUS
  <2>2. /\ t \in Pids /\ e \in Entry /\ e.offcpu_ns # 0
        /\ \A d \in Cpus : d # c => perf'[d] = perf[d] /\ truth'[d] = truth[d]
        /\ perf'[c].task = t /\ perf'[c].dur = cpu[c].ts - e.offcpu_ns /\ perf'[c].rq = RunqDur(t, e)
        /\ perf'[c].offcpu_ns = e.offcpu_ns /\ perf'[c].onrq_ns = e.onrq_ns /\ perf'[c].waker = e.waker
        /\ truth'[c].dur = cpu[c].ts - offAt[t] /\ truth'[c].waited = waited[t]
        /\ truth'[c].wakers = wakers[t]
    BY <2>1, <1>2, ReportEffect
  <2>3. cpu[c].pc = "cur" /\ is_target_task(t) /\ start[t] # 0
    BY <2>1, <1>2 DEF Report, Traced
  <2>4. ASSUME t # Idle
        PROVE  /\ cpu[c].ts - e.offcpu_ns = cpu[c].ts - offAt[t] /\ RunqDur(t, e) = waited[t]
               /\ e.onrq_ns > e.offcpu_ns => e.waker \in wakers[t]
    <3>1. t \in Tasks
      BY <2>2, <2>4 DEF Pids
    <3>2. e.offcpu_ns = offAt[t] /\ e.run_delay_ns + waited[t] = delay[t]
      BY <3>1, <2>1, <2>2, <2>3, ComingTrue
    <3>3. waited[t] \in Nat /\ delay[t] \in Nat /\ e.run_delay_ns \in Nat
      BY <3>1, <2>2 DEF Types, SchedTypes, Entry
    <3>4. delay[t] - e.run_delay_ns = waited[t]
      BY <3>2, <3>3
    <3>5. RunqDur(t, e) = waited[t]
      BY <3>4, <2>4 DEF RunqDur, Delay
    <3>6. Recorded(t)
      BY <3>1, <3>2, <2>2 DEF WakerInv, WakersOf
    <3>7. e.onrq_ns > e.offcpu_ns => e.waker \in wakers[t]
      BY <3>2, <3>6, <2>1, <2>3 DEF Recorded
    <3> QED
      BY <3>2, <3>5, <3>7
  <2>5. TimesTrue'
    BY <2>2, <2>4 DEF TimesTrue
  <2>6. WakerTrue'
    BY <2>2, <2>4 DEF WakerTrue
  <2> QED
    BY <2>5, <2>6
<1> QED
  BY <1>1, <1>2, Silent

LEMMA MissedKept ==
    ASSUME Types, SchedInv, EntryInv, NothingMissed, Next
    PROVE  NothingMissed'
<1>1. ASSUME NEW c \in Cpus, NotTraced(c) \/ NoReport(c)
      PROVE  missed' = missed
  <2>1. PICK t : t = cpu[c].cur
    OBVIOUS
  <2>2. /\ Finish(c, FALSE) /\ cpu[c].pc = "cur"
        /\ is_target_task(t) => \/ start[t] = 0
                                \/ elem[start[t]].offcpu_ns = 0
                                \/ ~InRange(cpu[c].ts - elem[start[t]].offcpu_ns)
    BY <2>1, <1>1 DEF NotTraced, NoReport, Traced
  <2>3. t \in Pids
    BY <2>1 DEF Types, HandlerTypes, Handler
  <2>4. ASSUME t # Idle, t \notin raced, is_target_task(t), offAt[t] # 0, InRange(cpu[c].ts - offAt[t])
        PROVE  FALSE
    <3>1. t \in Tasks
      BY <2>3, <2>4 DEF Pids
    <3>2. start[t] # 0 /\ elem[start[t]].offcpu_ns # 0 /\ elem[start[t]].offcpu_ns = offAt[t]
      BY <3>1, <2>1, <2>2, <2>4, ComingTrue
    <3> QED
      BY <3>2, <2>2, <2>4
  <2>5. missed' = IF /\ ~FALSE /\ t # Idle /\ t \notin raced /\ is_target_task(t)
                     /\ offAt[t] # 0 /\ InRange(cpu[c].ts - offAt[t])
                  THEN missed \cup {t} ELSE missed
    BY <2>1, <2>2 DEF Finish
  <2> QED
    BY <2>4, <2>5
<1>2. ASSUME NEW c \in Cpus, Report(c)
      PROVE  missed' = missed
  <2>1. Finish(c, TRUE)
    BY <1>2 DEF Report
  <2> QED
    BY <2>1 DEF Finish
<1>3. ASSUME NEW c \in Cpus, \/ InsertWaker(c) \/ WriteWaker(c) \/ WriteOnrq(c) \/ SwitchHook(c)
                             \/ InsertPrev(c) \/ WritePrev(c)
      PROVE  missed' = missed
  BY <1>3 DEF InsertWaker, WriteWaker, WriteOnrq, SwitchHook, InsertPrev, WritePrev, history
<1>4. ASSUME NEW c \in Cpus, NEW next \in Pids, NEW how \in {"ready", "blocked"}, Switch(c, next, how)
      PROVE  missed' = missed
  BY <1>4 DEF Switch, history
<1>5. ASSUME NEW c \in Cpus, NEW t \in Tasks, TryToWakeUp(c, t) \/ WakeIgnored(c, t)
      PROVE  missed' = missed
  BY <1>5 DEF TryToWakeUp, WakeIgnored, history
<1>6. CASE Advance \/ Quiet \/ \E t \in Tasks : WakeUnseen(t)
  BY <1>6 DEF Advance, Quiet, WakeUnseen, vars, history, NothingMissed
<1> QED
  BY <1>1, <1>2, <1>3, <1>4, <1>5, <1>6 DEF Next, NothingMissed

\* DumpReady for one CPU.
Ready(c) ==
    /\ perf[c].is_sched_cache_dump = 1 => perf[c].cpu = c /\ Dumped(c) # <<>>
    /\ truth[c].slow =>
          /\ perf[c].is_sched_cache_dump = 1
          /\ Dumped(c)[1] >= truth[c].nth
          /\ Dumped(c)[1] = truth[c].nth =>
                Dumped(c)[2][(truth[c].nth - 1) % CacheSize] = truth[c].prev

LEMMA DumpKept ==
    ASSUME Types, SchedInv, CacheInv, DumpReady, Next
    PROVE  DumpReady'
<1>1. CASE UNCHANGED <<perf, truth, backup>>
  BY <1>1 DEF DumpReady, Dumped
<1>2. ASSUME NEW c \in Cpus, Report(c)
      PROVE  DumpReady'
  <2>1. PICK t, e : t = cpu[c].cur /\ e = elem[start[t]]
    OBVIOUS
  <2>2. /\ \A d \in Cpus : d # c => perf'[d] = perf[d] /\ truth'[d] = truth[d]
        /\ Slow(t, e) => perf'[c].is_sched_cache_dump = 1 /\ perf'[c].cpu = c
        /\ ~Slow(t, e) => /\ perf'[c].is_sched_cache_dump = perf[c].is_sched_cache_dump
                          /\ perf'[c].cpu = perf[c].cpu
        /\ truth'[c].slow = Slow(t, e) /\ truth'[c].prev = cpu[c].prev /\ truth'[c].nth = handled[c]
    BY <2>1, <1>2, ReportEffect
  <2>3. CacheTypes /\ backup \in [Cpus -> {<<>>} \cup (Nat \X Records)]
    BY DEF Types, CacheTypes
  <2>4. IF Slow(t, e) THEN backup' = [backup EXCEPT ![c] = <<cache[c].id, cache[c].records>>]
                      ELSE backup' = backup
    BY <2>1, <1>2 DEF Report, SchedCacheDump
  <2>5. \A d \in Cpus : d # c => backup'[d] = backup[d]
    BY <2>3, <2>4
  <2>6. \A d \in Cpus : Ready(d)
    BY DEF DumpReady, Ready
  <2>7. ASSUME NEW d \in Cpus, d # c
        PROVE  Ready(d)'
    <3>1. perf'[d] = perf[d] /\ truth'[d] = truth[d] /\ Ready(d)
      BY <2>2, <2>6, <2>7
    <3>2. perf[d].is_sched_cache_dump = 1 => perf[d].cpu = d /\ Dumped(d)' = Dumped(d)
      BY <3>1, <2>5, <2>7 DEF Ready, Dumped
    <3> QED
      BY <3>1, <3>2 DEF Ready
  <2>8. Ready(c)'
    <3>1. CASE Slow(t, e)
      <4>1. RqDur # 0 /\ cpu[c].pc = "cur"
        BY <3>1, <1>2 DEF Slow, Report, Traced
      <4>2. cache[c].id = handled[c] /\ cache[c].records[(handled[c] - 1) % CacheSize] = cpu[c].prev
        BY <4>1 DEF CacheInv, SwitchPcs
      <4>3. backup'[c] = <<cache[c].id, cache[c].records>> /\ Dumped(c)' = backup'[c]
        BY <3>1, <2>2, <2>3, <2>4 DEF Dumped
      <4>4. handled[c] \in Nat /\ handled[c] >= handled[c]
        BY <2>3 DEF CacheTypes
      <4>5. Dumped(c)' # <<>> /\ Dumped(c)'[1] = handled[c] /\ Dumped(c)'[2] = cache[c].records
        BY <4>2, <4>3
      <4> QED
        BY <4>2, <4>4, <4>5, <3>1, <2>2 DEF Ready
    <3>2. CASE ~Slow(t, e)
      <4>1. Dumped(c)' = Dumped(c) /\ ~truth'[c].slow
        BY <3>2, <2>2, <2>4 DEF Dumped
      <4> QED
        BY <4>1, <3>2, <2>2, <2>6 DEF Ready
    <3> QED
      BY <3>1, <3>2
  <2>9. \A d \in Cpus : Ready(d)'
    BY <2>7, <2>8
  <2> QED
    BY <2>9 DEF DumpReady, Ready
<1> QED
  BY <1>1, <1>2, Silent

----------------------------------------------------------------------------
\* The invariant holds at the start and is kept.
LEMMA InitTypes == Init => Types
<1> SUFFICES ASSUME Init
             PROVE  Types
  OBVIOUS
<1>1. on \in [Cpus -> Pids] /\ state \in [Tasks -> {"running", "ready", "blocked"}] /\ now = 1
      /\ since = [t \in Tasks |-> IF state[t] = "running" THEN 0 ELSE 1] /\ delay = [t \in Tasks |-> 0]
      /\ waited = [t \in Pids |-> 0]
  BY DEF Init
<1>2. SchedTypes
  <2>1. since \in [Tasks -> Nat] /\ (\A t \in Tasks : since[t] <= now)
    BY <1>1
  <2>2. delay \in [Tasks -> Nat] /\ waited \in [Pids -> Nat] /\ now \in 1..MaxTime
    BY <1>1, Constants
  <2> QED
    BY <1>1, <2>1, <2>2 DEF SchedTypes
<1>3. elem = <<>> /\ Len(elem) = 0 /\ elem \in Seq(Entry) /\ start = [t \in Pids |-> 0]
  BY DEF Init
<1>4. HandlerTypes
  <2>1. tgid \in Tgids /\ cpu = [c \in Cpus |-> NoHandler]
    BY DEF Init
  <2>2. \A c \in Cpus : cpu[c] \in Handler /\ cpu[c].ts = 0 /\ cpu[c].ptr = 0
    BY <2>1, NoHandlerFields
  <2> QED
    BY <2>1, <2>2, <1>1, <1>3, NoHandlerFields DEF HandlerTypes
<1>5. MapTypes
  BY <1>3 DEF MapTypes
<1>6. CacheTypes
  <2>1. PICK r \in Records : r = [i \in 0..(CacheSize - 1) |-> Idle]
    BY Constants DEF Records
  <2>2. cache = [c \in Cpus |-> [status |-> "on", id |-> 0, records |-> r]]
    BY <2>1 DEF Init
  <2>3. backup = [c \in Cpus |-> <<>>] /\ handled = [c \in Cpus |-> 0]
    BY DEF Init
  <2> QED
    BY <2>2, <2>3 DEF CacheTypes
<1>7. EventTypes
  <2>1. NoEvent \in Event
    BY Constants DEF NoEvent, Event
  <2>2. perf = [c \in Cpus |-> NoEvent]
        /\ truth = [c \in Cpus |-> [dur |-> 0, waited |-> 0, wakers |-> {}, slow |-> FALSE,
                                     prev |-> Idle, nth |-> 0]]
    BY DEF Init
  <2>3. [dur |-> 0, waited |-> 0, wakers |-> {}, slow |-> FALSE, prev |-> Idle, nth |-> 0] \in Truth
    BY Constants DEF Truth
  <2> QED
    BY <2>1, <2>2, <2>3 DEF EventTypes
<1>8. HistoryTypes
  BY DEF Init, HistoryTypes
<1> QED
  BY <1>2, <1>4, <1>5, <1>6, <1>7, <1>8 DEF Types

LEMMA InitIInv == Init => IInv
<1> SUFFICES ASSUME Init
             PROVE  IInv
  OBVIOUS
<1>1. Types
  BY InitTypes
<1>2. \A c \in Cpus : cpu[c].pc = "none"
  BY NoHandlerFields DEF Init
<1>3. \A c \in Cpus : \A t \in Tasks : ~Leaves(c, t)
  BY <1>2 DEF Leaves, LeavePcs
<1>4. SchedInv
  <2>1. /\ \A c, d \in Cpus : on[c] = on[d] => c = d \/ on[c] = Idle
        /\ \A t \in Tasks : state[t] = "running" <=> \E c \in Cpus : on[c] = t
    BY DEF Init
  <2>2. \A c \in Cpus : cpu[c].pc \notin SwitchPcs /\ cpu[c].pc \notin WakePcs
    BY <1>2 DEF SwitchPcs, LeavePcs, WakePcs
  <2> QED
    BY <2>1, <2>2, <1>2, <1>3 DEF SchedInv
<1>5. \A t \in Pids : start[t] = 0 /\ offAt[t] = 0
  BY DEF Init
<1>6. OwnerInv
  <2>1. {t \in Pids : start[t] # 0} = {}
    BY <1>5
  <2>2. Cardinality({t \in Pids : start[t] # 0}) = 0
    BY <2>1, FS_EmptySet
  <2>3. \A c \in Cpus : Owns(c)
    BY <1>2 DEF Owns
  <2> QED
    BY <2>2, <2>3, <1>5, Constants DEF OwnerInv
<1>7. EntryInv
  <2>1. \A t \in Tasks : EntryTrue(t)
    BY <1>5, Constants DEF EntryTrue
  <2>2. \A t \in Tasks : \A c \in Cpus : PrevTrue(c, t)
    BY <1>3 DEF PrevTrue
  <2> QED
    BY <2>1, <2>2 DEF EntryInv
<1>8. WakerInv
  BY <1>5, Constants DEF WakerInv, WakersOf
<1>9. CacheInv
  BY <1>2 DEF CacheInv, Init, SwitchPcs, LeavePcs
<1>10. \A c \in Cpus : perf[c].task = Idle /\ perf[c].is_sched_cache_dump = 0 /\ truth[c].slow = FALSE
  BY DEF Init, NoEvent
<1>11. TimesTrue /\ WakerTrue /\ DumpReady
  BY <1>10 DEF TimesTrue, WakerTrue, DumpReady
<1>12. NothingMissed
  BY DEF Init, NothingMissed
<1> QED
  BY <1>1, <1>4, <1>6, <1>7, <1>8, <1>9, <1>11, <1>12 DEF IInv

LEMMA NextIInv == IInv /\ [Next]_vars => IInv'
<1> SUFFICES ASSUME IInv, [Next]_vars
             PROVE  IInv'
  OBVIOUS
<1>1. /\ Types /\ SchedInv /\ OwnerInv /\ EntryInv /\ WakerInv /\ CacheInv
      /\ TimesTrue /\ WakerTrue /\ NothingMissed /\ DumpReady
  BY DEF IInv
<1>2. CASE Next
  <2>1. Types' /\ SchedInv' /\ OwnerInv'
    BY <1>1, <1>2, TypesKept, SchedKept, OwnerKept
  <2>2. EntryInv' /\ WakerInv' /\ CacheInv'
    BY <1>1, <1>2, EntryKept, WakerKept, CacheKept
  <2>3. TimesTrue' /\ WakerTrue' /\ NothingMissed' /\ DumpReady'
    BY <1>1, <1>2, SentTrue, MissedKept, DumpKept
  <2> QED
    BY <2>1, <2>2, <2>3 DEF IInv
<1>3. CASE UNCHANGED vars
  <2>1. Types' /\ SchedInv' /\ OwnerInv'
    <3>1. Types'
      BY <1>1, <1>3 DEF vars, sched, history, Types, SchedTypes, HandlerTypes, MapTypes, CacheTypes, EventTypes,
                        HistoryTypes
    <3>2. SchedInv'
      BY <1>1, <1>3 DEF vars, sched, SchedInv, Leaves
    <3>3. OwnerInv'
      BY <1>1, <1>3 DEF vars, OwnerInv, Owns, Subject
    <3> QED
      BY <3>1, <3>2, <3>3
  <2>2. EntryInv'
    <3>1. UNCHANGED <<on, cpu>> /\ \A t \in Tasks : TaskSame(t)
      BY <1>3 DEF vars, sched, history, TaskSame, Waited
    <3> QED
      BY <3>1, <1>1, EntrySame
  <2>3. WakerInv' /\ CacheInv'
    <3>1. WakerInv'
      BY <1>1, <1>3, WakerSame DEF vars, sched, history
    <3>2. CacheInv'
      BY <1>1, <1>3 DEF vars, history, CacheInv
    <3> QED
      BY <3>1, <3>2
  <2>4. TimesTrue' /\ WakerTrue' /\ NothingMissed' /\ DumpReady'
    BY <1>1, <1>3 DEF vars, history, TimesTrue, WakerTrue, NothingMissed, DumpReady, Dumped
  <2> QED
    BY <2>1, <2>2, <2>3, <2>4 DEF IInv
<1> QED
  BY <1>2, <1>3

\* The handlers, the maps and the history keep their types, times never lie in
\* the future, and start never exceeds its size, for any number of CPUs.
THEOREM TypeCorrect == Spec => []TypeOK
<1>1. IInv => TypeOK
  <2> SUFFICES ASSUME IInv
               PROVE  TypeOK
    OBVIOUS
  <2>1. SchedTypes /\ HandlerTypes /\ MapTypes /\ CacheTypes /\ OwnerInv
    BY DEF IInv, Types
  <2>2. now \in 1..MaxTime /\ now \in Nat /\ on \in [Cpus -> Pids] /\ state \in [Tasks -> {"running", "ready", "blocked"}]
    BY <2>1, Constants DEF SchedTypes
  <2>3. /\ start \in [Pids -> Nat] /\ elem \in Seq(Entry) /\ Len(elem) \in Nat
        /\ \A t \in Pids : start[t] <= Len(elem)
        /\ \A i \in 1..Len(elem) : elem[i].offcpu_ns <= now /\ elem[i].onrq_ns <= now
    BY <2>1 DEF MapTypes
  <2>4. start \in [Pids -> 0..Len(elem)]
    BY <2>3
  <2>5. \A c \in Cpus :
          /\ cpu[c].pc \in {"none", "insertWaker", "writeWaker", "writeOnrq", "switch",
                            "insertPrev", "writePrev", "cur"}
          /\ cpu[c].ts \in Nat /\ cpu[c].ts <= now /\ cpu[c].ptr \in Nat /\ cpu[c].ptr <= Len(elem)
    BY <2>1 DEF HandlerTypes, Handler, SwitchPcs, LeavePcs, WakePcs
  <2>6. \A c \in Cpus : cpu[c].ts \in 0..now /\ cpu[c].ptr \in 0..Len(elem)
    BY <2>2, <2>3, <2>5
  <2>7. \A c \in Cpus : cache[c].records \in [0..(CacheSize - 1) -> Pids]
    BY <2>1 DEF CacheTypes, Records
  <2>8. elem \in Seq([offcpu_ns : 0..now, onrq_ns : 0..now, waker : Pids \cup {Nobody}, run_delay_ns : Nat])
    <3> DEFINE R == [offcpu_ns : 0..now, onrq_ns : 0..now, waker : Pids \cup {Nobody}, run_delay_ns : Nat]
    <3>1. ASSUME NEW i \in 1..Len(elem)
          PROVE  elem[i] \in R
      <4>1. elem[i] \in Entry
        BY <2>3
      <4>2. elem[i].offcpu_ns <= now /\ elem[i].onrq_ns <= now
        BY <2>3
      <4>3. elem[i].offcpu_ns \in 0..now /\ elem[i].onrq_ns \in 0..now
        BY <4>1, <4>2, <2>2 DEF Entry
      <4> QED
        BY <4>1, <4>3 DEF Entry
    <3> HIDE DEF R
    <3>2. elem \in Seq(R)
      BY <3>1, <2>3
    <3> QED
      BY <3>2 DEF R
  <2>9. tgid \in Tgids /\ Cardinality({t \in Pids : start[t] # 0}) <= StartSize
    BY <2>1 DEF HandlerTypes, OwnerInv
  <2> QED
    BY <2>2, <2>4, <2>5, <2>6, <2>7, <2>8, <2>9 DEF TypeOK
<1> QED
  BY <1>1, InitIInv, NextIInv, PTL DEF Spec

\* sched_switch_hook sends the true time off CPU and the true wait on the run
\* queue of every task, whatever wake-ups on other CPUs do to its entry.
THEOREM SentTimes == Spec => []TimesTrue
<1>1. IInv => TimesTrue
  BY DEF IInv
<1> QED
  BY <1>1, InitIInv, NextIInv, PTL DEF Spec

\* The waker sent with a wake-up time after the switch-out did try to wake the
\* task in this time off CPU, however many CPUs tried at once.
THEOREM SentWaker == Spec => []WakerTrue
<1>1. IInv => WakerTrue
  BY DEF IInv
<1> QED
  BY <1>1, InitIInv, NextIInv, PTL DEF Spec

\* sched_switch_hook sends every time off CPU of a target that the options ask
\* for, unless the entry was replaced by a wake-up or refused by a full map.
THEOREM AllSent == Spec => []NothingMissed
<1>1. IInv => NothingMissed
  BY DEF IInv
<1> QED
  BY <1>1, InitIInv, NextIInv, PTL DEF Spec

\* An event with the flag of sched_cache_dump names the CPU that sent it, and
\* the backup of that CPU is there and holds the switch that ended the wait.
THEOREM DumpThere == Spec => []DumpReady
<1>1. IInv => DumpReady
  BY DEF IInv
<1> QED
  BY <1>1, InitIInv, NextIInv, PTL DEF Spec

=============================================================================
