------------------------- MODULE SyscallSnoopProofs -------------------------
(***************************************************************************)
(* Proofs about SyscallSnoop, for every set of tids and system calls, all  *)
(* options, every size of start and every bound.                           *)
(*                                                                         *)
(* The map start is never cleaned, so what makes an event true is a fact   *)
(* about every call under way: its own enter has either written the entry  *)
(* of its tid or, refused, found none that a later exit could take for it. *)
(***************************************************************************)
EXTENDS SyscallSnoop, FiniteSetTheorems, TLAPS

\* The call of t passed sys_enter under this tid and the filters.
Seen(t) == thr[t].state = "call" /\ thr[t].began # 0 /\ Targeted(t, thr[t].id)

\* The entry of a thread in a call that was seen is that call's, and there is
\* none when the map refused it.
Own ==
    \A t \in Tids : Seen(t) =>
        IF thr[t].refused THEN start[t] = NoEntry
        ELSE start[t] = [ts |-> thr[t].began, pid |-> thr[t].pid]

IInv == TypeOK /\ Own /\ EventTrue /\ NothingMissed

\* Whole milliseconds: a duration in the range asked for passes the test of
\* sys_exit, which divides first.
LEMMA RangeOfTicks ==
    ASSUME NEW d \in Nat, d \in (MinDurMs * PerMs)..((MaxDurMs + 1) * PerMs - 1)
    PROVE  InRange(d)
  <1> DEFINE q == d \div PerMs
  <1>1. PerMs \in Nat /\ PerMs > 0 /\ MinDurMs \in Nat /\ MaxDurMs \in Nat
    BY SyscallAssumption
  <1>2. q \in Int /\ d = PerMs * q + (d % PerMs) /\ d % PerMs \in 0..(PerMs - 1)
    BY <1>1
  <1> HIDE DEF q
  <1>3. MinDurMs <= q
    <2> SUFFICES ASSUME q + 1 <= MinDurMs PROVE FALSE
      BY <1>1, <1>2
    <2>1. PerMs * (q + 1) <= PerMs * MinDurMs
      BY <1>1, <1>2
    <2>2. PerMs * (q + 1) = PerMs * q + PerMs /\ PerMs * MinDurMs = MinDurMs * PerMs
      BY <1>1, <1>2
    <2> QED BY <1>1, <1>2, <2>1, <2>2
  <1>4. q <= MaxDurMs
    <2> SUFFICES ASSUME MaxDurMs + 1 <= q PROVE FALSE
      BY <1>1, <1>2
    <2>1. (MaxDurMs + 1) * PerMs <= PerMs * q
      BY <1>1, <1>2
    <2> QED BY <1>1, <1>2, <2>1
  <1> QED BY <1>3, <1>4 DEF InRange, q

----------------------------------------------------------------------------
\* What the proofs about types need of the constants.
LEMMA Consts ==
    /\ MaxTime \in Nat /\ MaxTime > 0 /\ StartSize \in Nat /\ MaxCalls \in Nat
    /\ {Clone, Execve, SigReturn, Exit} \subseteq Ids /\ Nothing \notin Ids
  BY SyscallAssumption

LEMMA ThreadTypes ==
    /\ NoThread \in Thread /\ NoThread.began = 0
    /\ \A p \in Tids \cup {0} : InUser(p) \in Thread /\ InUser(p).began = 0
    /\ \A p \in Tids \cup {0}, id \in Ids, began \in 0..MaxTime, refused \in BOOLEAN :
          InCall(p, id, began, refused) \in Thread /\ InCall(p, id, began, refused).began = began
  BY Consts DEF Thread, NoThread, InUser, InCall

LEMMA InitThreads == Init => thr \in [Tids -> Thread] /\ \A t \in Tids : thr[t].began = 0
  <1> SUFFICES ASSUME Init
               PROVE  thr \in [Tids -> Thread] /\ \A t \in Tids : thr[t].began = 0
      OBVIOUS
  <1>1. PICK alive \in SUBSET Tids, busy \in SUBSET Tids :
           /\ 1 \in alive
           /\ thr = [t \in Tids |-> CASE t \in busy -> InCall(1, Clone, 0, FALSE)
                                     [] t \in alive \ busy -> InUser(1)
                                     [] OTHER -> NoThread]
    BY DEF Init
  <1>2. 1 \in Tids
    BY <1>1
  <1>3. 0 \in 0..MaxTime /\ Clone \in Ids /\ FALSE \in BOOLEAN
    BY Consts
  <1>4. \A t \in Tids : thr[t] \in {InCall(1, Clone, 0, FALSE), InUser(1), NoThread}
    BY <1>1
  <1>5. \A th \in {InCall(1, Clone, 0, FALSE), InUser(1), NoThread} : th \in Thread /\ th.began = 0
    <2>1. InCall(1, Clone, 0, FALSE) \in Thread /\ InCall(1, Clone, 0, FALSE).began = 0
      BY <1>2, <1>3, ThreadTypes, Zenon
    <2>2. InUser(1) \in Thread /\ InUser(1).began = 0
      BY <1>2, ThreadTypes, Zenon
    <2>3. NoThread \in Thread /\ NoThread.began = 0
      BY ThreadTypes, Zenon
    <2> QED BY <2>1, <2>2, <2>3, Zenon
  <1> QED BY <1>1, <1>4, <1>5

LEMMA InitTypeOK == Init => TypeOK
  <1> SUFFICES ASSUME Init PROVE TypeOK
      OBVIOUS
  <1>1. args_map \in [pid : Nat, tid : Nat, syscall_id : Ids \cup {Nothing}]
    <2>1. PICK o \in Options :
             args_map = [pid |-> o.pid, tid |-> o.tid, syscall_id |-> SyscallNameToId(o.name)]
      BY DEF Init
    <2>2. o.pid \in Nat /\ o.tid \in Nat
      BY SyscallAssumption
    <2>3. SyscallNameToId(o.name) \in Ids \cup {Nothing}
      BY DEF SyscallNameToId
    <2> QED BY <2>1, <2>2, <2>3
  <1>2. thr \in [Tids -> Thread] /\ \A t \in Tids : thr[t].began = 0
    BY InitThreads
  <1>3. start = [t \in Tids |-> NoEntry]
    BY DEF Init
  <1>4. start \in [Tids -> Entry] /\ \A t \in Tids : start[t].ts = 0
    BY <1>3, Consts DEF Entry, NoEntry
  <1>5. Recorded = {}
    BY <1>3 DEF Recorded
  <1>6. Cardinality(Recorded) <= StartSize
    BY <1>5, FS_EmptySet, Consts
  <1>7. now = 1 /\ calls = 0 /\ missed = FALSE
    BY DEF Init
  <1>8. now \in 1..MaxTime /\ calls \in 0..MaxCalls
    BY <1>7, Consts
  <1>9. \A t \in Tids : thr[t].began <= now /\ start[t].ts <= now
    BY <1>2, <1>4, <1>7
  <1> QED BY <1>1, <1>2, <1>4, <1>6, <1>7, <1>8, <1>9 DEF TypeOK

LEMMA InitIInv == Init => IInv
  <1> SUFFICES ASSUME Init PROVE IInv
      OBVIOUS
  <1>1. TypeOK
    BY InitTypeOK
  <1>2. \A t \in Tids : thr[t].began = 0
    BY InitThreads
  <1>3. Own
    BY <1>2 DEF Own, Seen
  <1>4. EventTrue /\ NothingMissed
    BY DEF Init, EventTrue, NothingMissed
  <1> QED BY <1>1, <1>3, <1>4 DEF IInv

\* start has at most StartSize entries after an enter: one more only if there
\* was room.
LEMMA EnterWithinSize ==
    ASSUME TypeOK, NEW t \in Tids, NEW id \in Ids, SysEnter(t, id)
    PROVE  Cardinality(Recorded)' <= StartSize
  <1>1. IsFiniteSet(Recorded)
    BY FS_Subset, SyscallAssumption DEF Recorded
  <1>2. Cardinality(Recorded) \in Nat /\ StartSize \in Nat
    BY <1>1, FS_CardinalityType, SyscallAssumption
  <1>3. CASE start' = start
    <2>1. Recorded' = Recorded
      BY <1>3 DEF Recorded
    <2> QED BY <2>1 DEF TypeOK
  <1>4. CASE start' # start
    <2>1. HasRoom(t) /\ start' = [start EXCEPT ![t] = [ts |-> now, pid |-> thr[t].pid]]
      BY <1>4 DEF SysEnter
    <2>2. now # 0
      BY Consts DEF TypeOK
    <2>3. Recorded' = Recorded \cup {t}
      BY <2>1, <2>2 DEF Recorded, NoEntry, TypeOK
    <2>4. t \in Recorded \/ Cardinality(Recorded) < StartSize
      BY <2>1 DEF HasRoom
    <2>5. Cardinality(Recorded \cup {t}) = IF t \in Recorded THEN Cardinality(Recorded)
                                          ELSE Cardinality(Recorded) + 1
      BY <1>1, FS_AddElement
    <2>6. Cardinality(Recorded) <= StartSize
      BY DEF TypeOK
    <2>7. Cardinality(Recorded \cup {t}) <= StartSize
      BY <1>2, <2>4, <2>5, <2>6
    <2> QED BY <2>3, <2>7
  <1> QED BY <1>3, <1>4

\* Type correctness is preserved by every step.
LEMMA NextTypeOK == TypeOK /\ [Next]_vars => TypeOK'
  <1> SUFFICES ASSUME TypeOK, [Next]_vars PROVE TypeOK'
      OBVIOUS
  <1> USE Consts
  <1>1. ASSUME NEW t \in Tids, NEW id \in Ids, SysEnter(t, id) PROVE TypeOK'
    <2>a. thr[t].pid \in Tids \cup {0} /\ now \in 0..MaxTime /\ (~HasRoom(t)) \in BOOLEAN
      BY DEF TypeOK, Thread, HasRoom
    <2> DEFINE new == InCall(thr[t].pid, id, now, ~HasRoom(t))
    <2>e. new \in Thread /\ new.began = now
      BY <2>a, ThreadTypes, ZenonT(60)
    <2> HIDE DEF new
    <2>f. thr' = [thr EXCEPT ![t] = new]
      BY <1>1 DEF SysEnter, new
    <2>b. thr' \in [Tids -> Thread] /\ \A u \in Tids : thr'[u].began <= now
      BY <2>e, <2>f DEF TypeOK
    <2>c. [ts |-> now, pid |-> thr[t].pid] \in Entry
      BY DEF TypeOK, Thread, Entry
    <2>d. start' \in [Tids -> Entry]
      BY <1>1, <2>c DEF SysEnter, TypeOK
    <2>1. thr' \in [Tids -> Thread] /\ start' \in [Tids -> Entry]
      BY <2>b, <2>d
    <2>2. \A u \in Tids : thr'[u].began <= now /\ start'[u].ts <= now
      BY <1>1, <2>b DEF SysEnter, TypeOK, Entry
    <2>3. calls' \in 0..MaxCalls
      BY <1>1 DEF SysEnter, TypeOK
    <2>4. Cardinality(Recorded)' <= StartSize
      BY <1>1, EnterWithinSize
    <2> QED BY <1>1, <2>1, <2>2, <2>3, <2>4 DEF SysEnter, TypeOK
  <1>2. ASSUME start' = start, now' = now, calls' = calls, args_map' = args_map,
               thr' \in [Tids -> Thread], \A u \in Tids : thr'[u].began <= now,
               missed' \in BOOLEAN
        PROVE  TypeOK'
    <2>1. Recorded' = Recorded
      BY <1>2 DEF Recorded
    <2> QED BY <1>2, <2>1 DEF TypeOK
  <1>3. ASSUME NEW t \in Tids, SysExit(t) \/ SysExitInterrupt(t) PROVE TypeOK'
    <2>1. BackToUser(t)
      BY <1>3 DEF SysExit, SysExitInterrupt
    <2>2. thr' \in [Tids -> Thread] /\ \A u \in Tids : thr'[u].began <= now
      <3>1. thr[t].pid \in Tids \cup {0}
        BY DEF TypeOK, Thread
      <3> QED BY <2>1, <3>1, ThreadTypes DEF BackToUser, TypeOK
    <2>3. missed' \in BOOLEAN
      BY <1>3 DEF SysExit, SysExitInterrupt, TypeOK
    <2> QED BY <1>2, <1>3, <2>2, <2>3 DEF SysExit, SysExitInterrupt
  <1>4. ASSUME NEW t \in Tids, NEW u \in Tids, Fork(t, u) PROVE TypeOK'
    <2>1. PICK pid \in {thr[t].pid, u} : thr' = [thr EXCEPT ![u] = InCall(pid, Clone, 0, FALSE)]
      BY <1>4 DEF Fork
    <2>2. pid \in Tids \cup {0} /\ 0 \in 0..MaxTime /\ FALSE \in BOOLEAN
      BY DEF TypeOK, Thread
    <2> DEFINE new == InCall(pid, Clone, 0, FALSE)
    <2>3. new \in Thread /\ new.began = 0
      BY <2>2, Consts, ThreadTypes, ZenonT(60)
    <2> HIDE DEF new
    <2>4. thr' = [thr EXCEPT ![u] = new]
      BY <2>1 DEF new
    <2>5. thr' \in [Tids -> Thread] /\ \A v \in Tids : thr'[v].began <= now
      BY <2>3, <2>4 DEF TypeOK
    <2> QED BY <1>2, <1>4, <2>5 DEF Fork, TypeOK
  <1>5. ASSUME NEW t \in Tids, Exec(t) PROVE TypeOK'
    <2> DEFINE new == InCall(thr[t].pid, Execve, 0, FALSE)
    <2>1. \A u \in Tids : thr'[u] = NoThread \/ thr'[u] = thr[u] \/ thr'[u] = thr[t] \/ thr'[u] = new
      BY <1>5 DEF Exec
    <2>2. thr[t].pid \in Tids \cup {0} /\ 0 \in 0..MaxTime /\ FALSE \in BOOLEAN
      BY DEF TypeOK, Thread
    <2>3. new \in Thread /\ new.began = 0
      BY <2>2, Consts, ThreadTypes, ZenonT(60)
    <2> HIDE DEF new
    <2>5. NoThread \in Thread /\ NoThread.began = 0
      BY ThreadTypes, Zenon
    <2>6. thr' = [u \in Tids |-> thr'[u]]
      BY <1>5 DEF Exec
    <2>7. \A v \in Tids : thr[v] \in Thread /\ thr[v].began <= now
      BY DEF TypeOK
    <2>8. \A v \in Tids : thr'[v] \in Thread /\ thr'[v].began <= now
      BY <2>1, <2>3, <2>5, <2>7 DEF TypeOK
    <2>4. thr' \in [Tids -> Thread] /\ \A v \in Tids : thr'[v].began <= now
      BY <2>6, <2>8
    <2> QED BY <1>2, <1>5, <2>4 DEF Exec, TypeOK
  <1>6. ASSUME NEW t \in Tids, Die(t) PROVE TypeOK'
    <2>1. thr' \in [Tids -> Thread] /\ \A v \in Tids : thr'[v].began <= now
      BY <1>6, ThreadTypes DEF Die, TypeOK
    <2> QED BY <1>2, <1>6, <2>1 DEF Die, TypeOK
  <1>7. CASE Advance
    <2>1. Recorded' = Recorded
      BY <1>7 DEF Advance, Recorded
    <2>2. \A u \in Tids : thr[u].began <= now' /\ start[u].ts <= now'
      BY <1>7 DEF Advance, TypeOK, Thread, Entry
    <2> QED BY <1>7, <2>1, <2>2 DEF Advance, TypeOK
  <1>8. CASE Quiet \/ UNCHANGED vars
    <2>1. UNCHANGED vars
      BY <1>8 DEF Quiet
    <2> QED BY <1>2, <2>1 DEF vars, TypeOK
  <1> QED BY <1>1, <1>3, <1>4, <1>5, <1>6, <1>7, <1>8 DEF Next

\* The sys_enter and sys_exit handlers only ever leave well-formed threads,
\* entries and options, and start never holds more than StartSize entries,
\* for every value of the constants.
THEOREM TypeCorrect == Spec => []TypeOK
  <1>1. Init => TypeOK
    BY InitTypeOK
  <1>2. TypeOK /\ [Next]_vars => TypeOK'
    BY NextTypeOK
  <1> QED BY <1>1, <1>2, PTL DEF Spec

----------------------------------------------------------------------------
\* A seen call of t in the next state was seen before with the same entry, or
\* no call of t is seen: enough for every step that leaves start alone.
LEMMA OwnKept ==
    ASSUME TypeOK, Own, start' = start, args_map' = args_map,
           \A u \in Tids : thr'[u] = thr[u] \/ thr'[u].began = 0
    PROVE  Own'
  <1> SUFFICES ASSUME NEW u \in Tids, Seen(u)'
               PROVE  IF thr'[u].refused THEN start'[u] = NoEntry
                      ELSE start'[u] = [ts |-> thr'[u].began, pid |-> thr'[u].pid]
      BY DEF Own
  <1>1. thr'[u] = thr[u]
    BY DEF Seen
  <1>2. Seen(u)
    BY <1>1 DEF Seen, Targeted
  <1> QED BY <1>1, <1>2 DEF Own

\* sys_enter writes the entry of its own call, or has no entry to leave behind.
LEMMA EnterOwn ==
    ASSUME TypeOK, Own, NEW t \in Tids, NEW id \in Ids, SysEnter(t, id)
    PROVE  Own'
  <1>1. thr' = [thr EXCEPT ![t] = InCall(thr[t].pid, id, now, ~HasRoom(t))] /\ args_map' = args_map
    BY DEF SysEnter
  <1>2. thr \in [Tids -> Thread] /\ start \in [Tids -> Entry]
    BY DEF TypeOK
  <1> SUFFICES ASSUME NEW u \in Tids, Seen(u)'
               PROVE  IF thr'[u].refused THEN start'[u] = NoEntry
                      ELSE start'[u] = [ts |-> thr'[u].began, pid |-> thr'[u].pid]
      BY DEF Own
  <1>3. CASE u # t
    <2>1. thr'[u] = thr[u] /\ start'[u] = start[u]
      BY <1>1, <1>2, <1>3 DEF SysEnter
    <2>2. Seen(u)
      BY <1>1, <2>1 DEF Seen, Targeted
    <2> QED BY <2>1, <2>2 DEF Own
  <1>4. CASE u = t
    <2>1. thr'[t] = InCall(thr[t].pid, id, now, ~HasRoom(t))
      BY <1>1, <1>2
    <2>2. thr'[t].pid = thr[t].pid /\ thr'[t].id = id /\ thr'[t].began = now
      BY <2>1 DEF InCall
    <2>3. thr'[t].refused = ~HasRoom(t)
      <3> DEFINE full == ~HasRoom(t)
      <3>1. thr'[t] = InCall(thr[t].pid, id, now, full) /\ full \in BOOLEAN
        BY <2>1, Zenon
      <3> HIDE DEF full
      <3>2. thr'[t].refused = full
        <4>1. InCall(thr[t].pid, id, now, full).refused = full
          BY <3>1 DEF InCall
        <4> QED BY <3>1, <4>1
      <3> QED BY <3>2, Zenon DEF full
    <2>4. Targeted(t, id)
      BY <1>1, <1>4, <2>2 DEF Seen, Targeted
    <2>5. CASE HasRoom(t)
      <3>1. start'[t] = [ts |-> now, pid |-> thr[t].pid]
        BY <1>2, <2>4, <2>5 DEF SysEnter
      <3>2. ~thr'[t].refused
        BY <2>3, <2>5, Zenon
      <3> QED BY <1>4, <2>2, <3>1, <3>2
    <2>6. CASE ~HasRoom(t)
      <3>1. start' = start
        BY <2>6 DEF SysEnter
      <3>2. start[t] = NoEntry
        BY <2>6 DEF HasRoom, Recorded
      <3>3. thr'[t].refused
        BY <2>3, <2>6, Zenon
      <3> QED BY <1>4, <3>1, <3>2, <3>3
    <2> QED BY <2>5, <2>6
  <1> QED BY <1>3, <1>4

\* What sys_exit sends of a call that was seen is that call's, and a call in
\* the range asked for that was not refused is sent.
LEMMA ExitTrue ==
    ASSUME IInv, NEW t \in Tids, SysExit(t)
    PROVE  EventTrue' /\ NothingMissed'
  <1> DEFINE send == Targeted(t, thr[t].id) /\ t \in Recorded /\ InRange(now - start[t].ts)
  <1>1. sent' = (IF send THEN Event(t) ELSE sent) /\ missed' = (missed \/ (Expected(t) /\ ~send))
    BY DEF SysExit
  <1>2. thr[t].state = "call" /\ args_map' = args_map
    BY DEF SysExit
  <1>3. Seen(t) => IF thr[t].refused THEN start[t] = NoEntry
                   ELSE start[t] = [ts |-> thr[t].began, pid |-> thr[t].pid]
    BY DEF IInv, Own
  <1>4. EventTrue'
    <2>1. CASE ~send
      <3>1. sent' = sent
        BY <1>1, <2>1
      <3> QED BY <1>2, <3>1 DEF IInv, EventTrue
    <2>2. CASE send
      <3> SUFFICES ASSUME thr[t].began # 0
                   PROVE  /\ start[t].ts = thr[t].began /\ start[t].pid = thr[t].pid
                          /\ args_map.syscall_id \in {Nothing, thr[t].id}
                          /\ ~thr[t].refused
          BY <1>1, <1>2, <2>2 DEF EventTrue, Event
      <3>1. Seen(t)
        BY <1>2, <2>2 DEF Seen
      <3>2. start[t] # NoEntry
        BY <2>2 DEF Recorded
      <3>3. ~thr[t].refused /\ start[t] = [ts |-> thr[t].began, pid |-> thr[t].pid]
        BY <1>3, <3>1, <3>2
      <3>4. args_map.syscall_id \in {Nothing, thr[t].id}
        BY <2>2 DEF Targeted
      <3> QED BY <3>3, <3>4
    <2> QED BY <2>1, <2>2
  <1>5. Expected(t) => send
    <2> SUFFICES ASSUME Expected(t) PROVE send
        OBVIOUS
    <2>1. thr[t].began # 0 /\ ~thr[t].refused /\ Targeted(t, thr[t].id)
      BY DEF Expected
    <2>2. start[t] = [ts |-> thr[t].began, pid |-> thr[t].pid]
      BY <1>2, <1>3, <2>1 DEF Seen
    <2>3. t \in Recorded
      BY <2>1, <2>2 DEF Recorded, NoEntry
    <2>4. now - thr[t].began \in Nat
      <3>1. now \in Nat /\ thr[t].began \in Nat /\ thr[t].began <= now
        BY Consts DEF IInv, TypeOK, Thread
      <3> QED BY <3>1
    <2>5. InRange(now - thr[t].began)
      BY <2>4, RangeOfTicks DEF Expected
    <2> QED BY <2>1, <2>2, <2>3, <2>5
  <1>6. NothingMissed'
    BY <1>1, <1>5 DEF IInv, NothingMissed
  <1> QED BY <1>4, <1>6

\* The invariant is preserved by every step.
LEMMA NextIInv == IInv /\ [Next]_vars => IInv'
  <1> SUFFICES ASSUME IInv, [Next]_vars PROVE IInv'
      OBVIOUS
  <1>1. TypeOK /\ Own /\ EventTrue /\ NothingMissed /\ TypeOK'
    BY NextTypeOK DEF IInv
  <1>2. thr \in [Tids -> Thread]
    BY <1>1 DEF TypeOK
  <1>3. ASSUME sent' = sent, missed' = missed, args_map' = args_map, Own' PROVE IInv'
    BY <1>1, <1>3 DEF IInv, EventTrue, NothingMissed
  <1>4. ASSUME NEW t \in Tids, NEW id \in Ids, SysEnter(t, id) PROVE IInv'
    <2>1. Own'
      BY <1>1, <1>4, EnterOwn
    <2> QED BY <1>3, <1>4, <2>1 DEF SysEnter
  <1>5. ASSUME NEW t \in Tids, BackToUser(t), start' = start, args_map' = args_map PROVE Own'
    <2>1. \A u \in Tids : thr'[u] = thr[u] \/ thr'[u].began = 0
      BY <1>2, <1>5 DEF BackToUser, InUser
    <2> QED BY <1>1, <1>5, <2>1, OwnKept
  <1>6. ASSUME NEW t \in Tids, SysExit(t) PROVE IInv'
    <2>1. Own'
      BY <1>5, <1>6 DEF SysExit
    <2>2. EventTrue' /\ NothingMissed'
      BY <1>6, ExitTrue
    <2> QED BY <1>1, <2>1, <2>2 DEF IInv
  <1>7. ASSUME NEW t \in Tids, SysExitInterrupt(t) PROVE IInv'
    <2>1. Own'
      BY <1>5, <1>7 DEF SysExitInterrupt
    <2> QED BY <1>3, <1>7, <2>1 DEF SysExitInterrupt
  <1>8. ASSUME NEW t \in Tids, NEW u \in Tids, Fork(t, u) PROVE IInv'
    <2>1. \A v \in Tids : thr'[v] = thr[v] \/ thr'[v].began = 0
      BY <1>2, <1>8 DEF Fork, InCall
    <2>2. Own'
      BY <1>1, <1>8, <2>1, OwnKept DEF Fork
    <2> QED BY <1>3, <1>8, <2>2 DEF Fork
  <1>9. ASSUME NEW t \in Tids, Exec(t) PROVE IInv'
    <2>1. \A v \in Tids : thr'[v] = thr[v] \/ thr'[v].began = 0
      BY <1>9 DEF Exec, InCall, NoThread
    <2>2. Own'
      BY <1>1, <1>9, <2>1, OwnKept DEF Exec
    <2> QED BY <1>3, <1>9, <2>2 DEF Exec
  <1>10. ASSUME NEW t \in Tids, Die(t) PROVE IInv'
    <2>1. \A v \in Tids : thr'[v] = thr[v] \/ thr'[v].began = 0
      BY <1>2, <1>10 DEF Die, NoThread
    <2>2. Own'
      BY <1>1, <1>10, <2>1, OwnKept DEF Die
    <2> QED BY <1>3, <1>10, <2>2 DEF Die
  <1>11. CASE Advance
    <2>1. Own'
      BY <1>1, <1>11, OwnKept DEF Advance
    <2> QED BY <1>3, <1>11, <2>1 DEF Advance
  <1>12. CASE Quiet \/ UNCHANGED vars
    <2>1. Own'
      BY <1>1, <1>12, OwnKept DEF Quiet, vars
    <2> QED BY <1>3, <1>12, <2>1 DEF Quiet, vars
  <1> QED BY <1>4, <1>6, <1>7, <1>8, <1>9, <1>10, <1>11, <1>12 DEF Next

LEMMA Invariance == Spec => []IInv
  BY InitIInv, NextIInv, PTL DEF Spec

\* Although sys_exit never deletes an entry of start, an event of a call that
\* passed sys_enter never tells the time or the process of another call.
THEOREM EventsTrue == Spec => []EventTrue
  <1>1. IInv => EventTrue
    BY DEF IInv
  <1> QED BY <1>1, Invariance, PTL

\* A call that passed sys_enter while start had room for it, and lasts as
\* long as asked for in whole milliseconds, is sent by sys_exit.
THEOREM AllSent == Spec => []NothingMissed
  <1>1. IInv => NothingMissed
    BY DEF IInv
  <1> QED BY <1>1, Invariance, PTL
=============================================================================
