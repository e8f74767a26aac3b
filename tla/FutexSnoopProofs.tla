-------------------------- MODULE FutexSnoopProofs --------------------------
(***************************************************************************)
(* Proofs about FutexSnoop, for every number of threads and locks, every   *)
(* size of the maps, all options and every bound.                          *)
(*                                                                         *)
(* A handler keeps a pointer to an entry of lock_map over several steps.   *)
(* What makes the counter exact is that the pointer is to the entry of the *)
(* handler's own lock, to the current one unless two first users raced,    *)
(* and that futex_exit finds in start the lock that futex_enter counted.   *)
(***************************************************************************)
EXTENDS FutexSnoop, FiniteSetTheorems, SequenceTheorems, WellFoundedInduction, TLAPS

\* The stages in which a handler uses its pointer.
Pointing == {"add", "compare", "set", "report", "subtract"}

\* What a thread's call, its stage and its start entry say of each other.
ThreadInv ==
    \A t \in Threads :
        /\ start[t] \in {None, call[t]}
        /\ pc[t] = "out" => call[t] = None
        /\ ~Targeted(t) => pc[t] \in {"out", "waiting"} /\ start[t] = None
        /\ pc[t] \notin {"out", "waiting"} => call[t] \in Locks
        /\ pc[t] \in {"subtract", "record"} => start[t] = call[t]
        /\ Targeted(t) /\ call[t] \in Locks \ leaked => start[t] = call[t]

\* Pointers lead to entries of the handler's own lock.
PtrInv ==
    \A t \in Threads : pc[t] \in Pointing =>
        /\ ptr[t] \in 1..Len(elem)
        /\ lock_map[call[t]] # 0
        /\ \A m \in Locks : lock_map[m] = ptr[t] => m = call[t]
        /\ call[t] \notin raced => ptr[t] = lock_map[call[t]]

\* Two locks have no entry in common.
MapInv == \A l, m \in Locks : lock_map[l] = lock_map[m] /\ lock_map[l] # 0 => l = m

\* A thread is counted for a lock that has no entry only when there was no
\* room for one, and then there never will be.
FullInv == \A l \in Locks : ~Present(l) /\ Counted(l) # {} => ~LockMapHasRoom

\* The traced threads inside a call on l.
Traced(l) == {t \in Threads : call[t] = l /\ Targeted(t)}

\* peak is an upper bound of what the handlers can see.
PeakInv ==
    /\ peak \in [Locks -> Nat]
    /\ \A l \in Locks : Cardinality(Traced(l)) <= peak[l]
    /\ \A t \in Threads : pc[t] = "set" /\ call[t] \notin raced \cup leaked
                              => seen[t] <= peak[call[t]]

\* The invariant: first the shape of the state, then what is counted.
Shape == TypeOK /\ ThreadInv /\ PtrInv /\ MapInv
IInv  == Shape /\ FullInv /\ CountExact /\ PeakInv /\ NoFalseAlarm

ElemRec == [user_cnt : 0..(Word - 1), max_user_cnt : 0..(Word - 1)]
HistRec == [contended : Nat, total_elapsed : Nat, min_dur : Nat, max_dur : Nat, delta_dur : Nat]

----------------------------------------------------------------------------
(***************************************************************************)
(* Constants and sets of threads.                                          *)
(***************************************************************************)
LEMMA Consts ==
    /\ IsFiniteSet(Threads) /\ Cardinality(Threads) \in Nat /\ Word \in Nat
    /\ Cardinality(Threads) < Word /\ None \notin Locks
    /\ MaxCalls \in Nat /\ Durations \subseteq Nat /\ MaxLockHoldUsers \in Nat
  BY FutexAssumption, NoneAssumption, FS_CardinalityType

LEMMA ThreadSets ==
    ASSUME NEW S, S \subseteq Threads
    PROVE  /\ IsFiniteSet(S) /\ Cardinality(S) \in Nat
           /\ Cardinality(S) <= Cardinality(Threads) /\ Cardinality(S) < Word
           /\ \A t \in Threads \ S : /\ Cardinality(S \cup {t}) = Cardinality(S) + 1
                                     /\ Cardinality(S) + 1 < Word
           /\ \A t \in S : Cardinality(S \ {t}) = Cardinality(S) - 1 /\ Cardinality(S) >= 1
  <1>1. /\ IsFiniteSet(S) /\ Cardinality(S) \in Nat /\ Cardinality(S) <= Cardinality(Threads)
    BY Consts, FS_Subset, FS_CardinalityType
  <1>2. ASSUME NEW t \in Threads \ S
        PROVE  Cardinality(S \cup {t}) = Cardinality(S) + 1 /\ Cardinality(S) + 1 < Word
    <2>1. Cardinality(S \cup {t}) = Cardinality(S) + 1
      BY <1>1, <1>2, FS_AddElement
    <2>2. S \cup {t} \in SUBSET Threads
      BY <1>2
    <2>3. Cardinality(S \cup {t}) <= Cardinality(Threads)
      BY <2>2, Consts, FS_Subset
    <2> QED BY <1>1, <2>1, <2>3, Consts
  <1>3. ASSUME NEW t \in S PROVE Cardinality(S \ {t}) = Cardinality(S) - 1 /\ Cardinality(S) >= 1
    <2>1. Cardinality(S \ {t}) = Cardinality(S) - 1
      BY <1>1, FS_RemoveElement
    <2>2. Cardinality(S \ {t}) \in Nat
      BY <1>1, FS_RemoveElement, FS_CardinalityType
    <2> QED BY <1>1, <2>1, <2>2
  <1> QED BY <1>1, <1>2, <1>3, Consts

\* A thread exists, so a counter can hold 1.
LEMMA WordSize == ASSUME NEW t \in Threads PROVE Word >= 2 /\ [user_cnt |-> 1, max_user_cnt |-> 1] \in ElemRec
  <1>1. Cardinality({}) + 1 < Word /\ Cardinality({}) \in Nat
    BY ThreadSets
  <1>2. Word >= 2
    BY <1>1, Consts
  <1> QED BY <1>2, Consts DEF ElemRec

\* A store to a field of entry i.
LEMMA ElemStore ==
    ASSUME TypeOK, NEW i \in 1..Len(elem), NEW e \in ElemRec, elem' = [elem EXCEPT ![i] = e]
    PROVE  /\ elem' \in Seq(ElemRec) /\ Len(elem') = Len(elem)
           /\ elem'[i] = e
           /\ \A j \in 1..Len(elem) : j # i => elem'[j] = elem[j]
  <1>1. elem \in Seq(ElemRec)
    BY DEF TypeOK, ElemRec
  <1> QED BY <1>1, ExceptSeq

\* A new entry at the end.
LEMMA ElemNew ==
    ASSUME TypeOK, NEW e \in ElemRec, elem' = Append(elem, e)
    PROVE  /\ elem' \in Seq(ElemRec) /\ Len(elem') = Len(elem) + 1 /\ Len(elem) \in Nat
           /\ elem'[Len(elem) + 1] = e
           /\ \A j \in 1..Len(elem) : elem'[j] = elem[j]
  <1>1. elem \in Seq(ElemRec)
    BY DEF TypeOK, ElemRec
  <1>2. Len(elem) \in Nat
    BY <1>1, LenProperties
  <1> QED BY <1>1, <1>2, AppendProperties

\* The increment and the decrement of a counter modulo Word.
LEMMA Modulo ==
    \A c \in 0..(Word - 1) :
        /\ (c + 1) % Word \in 0..(Word - 1) /\ (c + Word - 1) % Word \in 0..(Word - 1)
        /\ c + 1 < Word => (c + 1) % Word = c + 1
        /\ c >= 1 => (c + Word - 1) % Word = c - 1
  <1> SUFFICES ASSUME NEW c \in 0..(Word - 1)
               PROVE  /\ (c + 1) % Word \in 0..(Word - 1) /\ (c + Word - 1) % Word \in 0..(Word - 1)
                      /\ c + 1 < Word => (c + 1) % Word = c + 1
                      /\ c >= 1 => (c + Word - 1) % Word = c - 1
      OBVIOUS
  <1>1. Word \in Nat /\ Word > 0 /\ c \in Nat /\ c < Word
    BY Consts
  <1>2. (c + 1) % Word \in 0..(Word - 1) /\ (c + Word - 1) % Word \in 0..(Word - 1)
    BY <1>1
  <1>3. c + 1 < Word => (c + 1) % Word = c + 1
    BY <1>1
  <1>4. c >= 1 => (c + Word - 1) % Word = c - 1
    BY <1>1
  <1> QED BY <1>2, <1>3, <1>4

----------------------------------------------------------------------------
(***************************************************************************)
(* The shape of the state, action by action.                               *)
(***************************************************************************)
\* The entry a handler points to, and the handler's lock.
LEMMA Pointed ==
    ASSUME Shape, NEW t \in Threads, pc[t] \in Pointing
    PROVE  /\ ptr[t] \in 1..Len(elem) /\ Len(elem) \in Nat /\ elem[ptr[t]] \in ElemRec
           /\ call[t] \in Locks
  <1>1. ptr[t] \in 1..Len(elem)
    BY DEF Shape, PtrInv
  <1>2. elem \in Seq(ElemRec)
    BY DEF Shape, TypeOK, ElemRec
  <1>3. elem[ptr[t]] \in ElemRec /\ Len(elem) \in Nat
    BY <1>1, <1>2, ElementOfSeq, LenProperties
  <1>4. call[t] \in Locks
    BY DEF Shape, ThreadInv, Pointing
  <1> QED BY <1>1, <1>3, <1>4

LEMMA ShapeEnterIgnored ==
    ASSUME Shape, NEW t \in Threads, NEW l \in Locks \cup {None}, FutexEnterIgnored(t, l)
    PROVE  Shape'
  <1> USE Consts DEF Shape, FutexEnterIgnored, BeginCall, maps, history
  <1>1. TypeOK'
    BY SMTT(30) DEF TypeOK, Stage
  <1>2. ThreadInv'
    BY DEF TypeOK, ThreadInv
  <1>3. PtrInv'
    BY DEF TypeOK, PtrInv, Pointing
  <1>4. MapInv'
    BY DEF MapInv
  <1> QED BY <1>1, <1>2, <1>3, <1>4

LEMMA ShapeEnter ==
    ASSUME Shape, NEW t \in Threads, NEW l \in Locks, FutexEnter(t, l)
    PROVE  Shape'
  <1> USE Consts DEF Shape, FutexEnter, BeginCall, Present
  <1>0. lock_map[l] \in 0..Len(elem)
    BY DEF TypeOK
  <1>a. start' \in [Threads -> Locks \cup {None}]
    BY DEF TypeOK
  <1>b. ptr' \in [Threads -> 0..Len(elem)] /\ pc' \in [Threads -> Stage]
    BY <1>0 DEF TypeOK, Stage
  <1>c. call' \in [Threads -> Locks \cup {None}] /\ calls' \in 0..MaxCalls
    BY DEF TypeOK
  <1>1. TypeOK'
    BY <1>a, <1>b, <1>c DEF TypeOK
  <1>2. ThreadInv'
    BY DEF TypeOK, ThreadInv
  <1>3. PtrInv'
    BY SMTT(30) DEF TypeOK, PtrInv, Pointing, MapInv
  <1>4. MapInv'
    BY DEF MapInv
  <1> QED BY <1>1, <1>2, <1>3, <1>4

LEMMA ShapeInsert ==
    ASSUME Shape, NEW t \in Threads, InsertLock(t)
    PROVE  Shape'
  <1> DEFINE l == call[t]
  <1>l. l \in Locks
    BY DEF Shape, ThreadInv, InsertLock, TypeOK
  <1>1. ThreadInv'
    BY DEF Shape, TypeOK, ThreadInv, InsertLock
  <1>2. CASE Present(l) \/ LockMapHasRoom
    <2>1. /\ elem' = Append(elem, [user_cnt |-> 1, max_user_cnt |-> 1])
          /\ lock_map' = [lock_map EXCEPT ![l] = Len(elem) + 1]
      BY <1>2 DEF InsertLock
    <2>2. /\ elem' \in Seq(ElemRec) /\ Len(elem') = Len(elem) + 1 /\ Len(elem) \in Nat
      BY <2>1, WordSize, ElemNew DEF Shape
    <2>3. TypeOK'
      BY SMTT(30), <2>1, <2>2, <1>l DEF Shape, TypeOK, Stage, InsertLock, ElemRec
    <2>4. PtrInv'
      BY SMTT(30), <2>1, <2>2, <1>l DEF Shape, TypeOK, PtrInv, Pointing, InsertLock, Present
    <2>5. MapInv'
      BY <2>1, <2>2, <1>l DEF Shape, TypeOK, MapInv
    <2> QED BY <1>1, <2>3, <2>4, <2>5 DEF Shape
  <1>3. CASE ~(Present(l) \/ LockMapHasRoom)
    <2>1. UNCHANGED <<elem, lock_map, raced>>
      BY <1>3 DEF InsertLock
    <2> QED BY <1>1, <2>1 DEF Shape, TypeOK, Stage, InsertLock, PtrInv, Pointing, MapInv
  <1> QED BY <1>2, <1>3

LEMMA ShapeAdd ==
    ASSUME Shape, NEW t \in Threads, AddUser(t)
    PROVE  Shape' /\ ptr[t] \in 1..Len(elem)
           /\ elem' = [elem EXCEPT ![ptr[t]] = [elem[ptr[t]] EXCEPT !.user_cnt = (@ + 1) % Word]]
  <1>1. ptr[t] \in 1..Len(elem) /\ Len(elem) \in Nat /\ elem[ptr[t]] \in ElemRec
    BY Pointed DEF AddUser, Pointing
  <1>2. elem' = [elem EXCEPT ![ptr[t]] = [elem[ptr[t]] EXCEPT !.user_cnt = (@ + 1) % Word]]
    BY <1>1 DEF AddUser, Shape, TypeOK
  <1>3. [elem[ptr[t]] EXCEPT !.user_cnt = (@ + 1) % Word] \in ElemRec
    BY <1>1, Modulo DEF ElemRec
  <1>4. elem' \in Seq(ElemRec) /\ Len(elem') = Len(elem)
    BY <1>1, <1>2, <1>3, ElemStore DEF Shape
  <1>5. TypeOK'
    BY <1>1, <1>4 DEF Shape, TypeOK, Stage, AddUser, ElemRec, history
  <1>6. ThreadInv' /\ MapInv'
    BY DEF Shape, TypeOK, ThreadInv, MapInv, AddUser, history
  <1>7. PtrInv'
    BY <1>4 DEF Shape, TypeOK, PtrInv, Pointing, AddUser, history
  <1> QED BY <1>1, <1>2, <1>5, <1>6, <1>7 DEF Shape

LEMMA ShapeCompare ==
    ASSUME Shape, NEW t \in Threads, CompareMax(t)
    PROVE  Shape'
  <1>1. ptr[t] \in 1..Len(elem) /\ Len(elem) \in Nat /\ elem[ptr[t]] \in ElemRec
    BY Pointed DEF CompareMax, Pointing
  <1>2. TypeOK'
    BY <1>1 DEF Shape, TypeOK, Stage, CompareMax, ElemRec, history, maps
  <1>3. ThreadInv' /\ MapInv' /\ PtrInv'
    BY SMTT(30) DEF Shape, TypeOK, ThreadInv, MapInv, PtrInv, Pointing, CompareMax, history, maps
  <1> QED BY <1>2, <1>3 DEF Shape

LEMMA ShapeSet ==
    ASSUME Shape, NEW t \in Threads, SetMax(t)
    PROVE  Shape' /\ ptr[t] \in 1..Len(elem)
           /\ elem' = [elem EXCEPT ![ptr[t]] = [elem[ptr[t]] EXCEPT !.max_user_cnt = seen[t]]]
  <1>1. ptr[t] \in 1..Len(elem) /\ Len(elem) \in Nat /\ elem[ptr[t]] \in ElemRec
    BY Pointed DEF SetMax, Pointing
  <1>2. elem' = [elem EXCEPT ![ptr[t]] = [elem[ptr[t]] EXCEPT !.max_user_cnt = seen[t]]]
    BY <1>1 DEF SetMax, Shape, TypeOK
  <1>3. [elem[ptr[t]] EXCEPT !.max_user_cnt = seen[t]] \in ElemRec
    BY <1>1 DEF ElemRec, Shape, TypeOK
  <1>4. elem' \in Seq(ElemRec) /\ Len(elem') = Len(elem)
    BY <1>1, <1>2, <1>3, ElemStore DEF Shape
  <1>5. TypeOK'
    BY <1>1, <1>4 DEF Shape, TypeOK, Stage, SetMax, ElemRec, history
  <1>6. ThreadInv' /\ MapInv'
    BY DEF Shape, TypeOK, ThreadInv, MapInv, SetMax, history
  <1>7. PtrInv'
    BY <1>4 DEF Shape, TypeOK, PtrInv, Pointing, SetMax, history
  <1> QED BY <1>1, <1>2, <1>5, <1>6, <1>7 DEF Shape

LEMMA ShapeReport ==
    ASSUME Shape, NEW t \in Threads, ReportLock(t)
    PROVE  Shape'
  <1>1. Len(elem) \in Nat /\ call[t] \in Locks
    BY Pointed DEF ReportLock, Pointing
  <1>2. TypeOK'
    BY SMTT(30), <1>1, WordSize, Consts DEF Shape, TypeOK, Stage, ReportLock, DropLocals, history, maps
  <1>3. ThreadInv' /\ MapInv' /\ PtrInv'
    BY DEF Shape, TypeOK, ThreadInv, MapInv, PtrInv, Pointing, ReportLock, DropLocals, history, maps
  <1> QED BY <1>2, <1>3 DEF Shape

LEMMA ShapeExitUnknown ==
    ASSUME Shape, NEW t \in Threads, FutexExitUnknown(t)
    PROVE  Shape'
  <1>1. Len(elem) \in Nat
    BY LenProperties DEF Shape, TypeOK
  <1>2. TypeOK'
    BY SMTT(30), <1>1, WordSize, Consts DEF Shape, TypeOK, Stage, FutexExitUnknown, Leave, DropLocals, history, maps
  <1>3. ThreadInv' /\ MapInv' /\ PtrInv'
    BY SMTT(30), Consts DEF Shape, TypeOK, ThreadInv, MapInv, PtrInv, Pointing, FutexExitUnknown, Leave, DropLocals,
           history, maps
  <1> QED BY <1>2, <1>3 DEF Shape

LEMMA ShapeExit ==
    ASSUME Shape, NEW t \in Threads, FutexExit(t)
    PROVE  Shape' /\ start[t] = call[t] /\ call[t] \in Locks /\ Targeted(t)
  <1>1. start[t] = call[t] /\ call[t] \in Locks /\ Targeted(t)
    BY DEF FutexExit, Shape, ThreadInv, TypeOK
  <1>2. lock_map[call[t]] \in 0..Len(elem) /\ Len(elem) \in Nat
    BY <1>1, LenProperties DEF Shape, TypeOK
  <1>3. TypeOK'
    BY <1>1, <1>2 DEF Shape, TypeOK, Stage, FutexExit, history, maps
  <1>4. ThreadInv' /\ MapInv'
    BY <1>1 DEF Shape, TypeOK, ThreadInv, MapInv, FutexExit, history, maps
  <1>5. PtrInv'
    BY SMTT(30), <1>1, <1>2 DEF Shape, TypeOK, PtrInv, MapInv, Pointing, FutexExit, Present, history, maps
  <1> QED BY <1>1, <1>3, <1>4, <1>5 DEF Shape

LEMMA ShapeSubtract ==
    ASSUME Shape, NEW t \in Threads, SubtractUser(t)
    PROVE  Shape' /\ ptr[t] \in 1..Len(elem)
           /\ elem' = [elem EXCEPT ![ptr[t]] = [elem[ptr[t]] EXCEPT !.user_cnt = (@ + Word - 1) % Word]]
  <1>1. ptr[t] \in 1..Len(elem) /\ Len(elem) \in Nat /\ elem[ptr[t]] \in ElemRec
    BY Pointed DEF SubtractUser, Pointing
  <1>2. elem' = [elem EXCEPT ![ptr[t]] = [elem[ptr[t]] EXCEPT !.user_cnt = (@ + Word - 1) % Word]]
    BY <1>1 DEF SubtractUser, Shape, TypeOK
  <1>3. [elem[ptr[t]] EXCEPT !.user_cnt = (@ + Word - 1) % Word] \in ElemRec
    BY <1>1, Modulo DEF ElemRec
  <1>4. elem' \in Seq(ElemRec) /\ Len(elem') = Len(elem)
    BY <1>1, <1>2, <1>3, ElemStore DEF Shape
  <1>5. TypeOK'
    <2>1. ptr' \in [Threads -> 0..Len(elem)] /\ seen' \in [Threads -> 0..(Word - 1)]
      BY SMTT(30), <1>1, WordSize, Consts DEF Shape, TypeOK, SubtractUser, DropLocals
    <2> QED BY <1>4, <2>1 DEF Shape, TypeOK, Stage, SubtractUser, ElemRec, history
  <1>6. ThreadInv' /\ MapInv'
    BY DEF Shape, TypeOK, ThreadInv, MapInv, SubtractUser, DropLocals, history
  <1>7. PtrInv'
    BY <1>4 DEF Shape, TypeOK, PtrInv, Pointing, SubtractUser, DropLocals, history
  <1> QED BY <1>1, <1>2, <1>5, <1>6, <1>7 DEF Shape

LEMMA ShapeExitFailed ==
    ASSUME Shape, NEW t \in Threads, FutexExitFailed(t)
    PROVE  Shape'
  <1>1. Len(elem) \in Nat
    BY LenProperties DEF Shape, TypeOK
  <1>2. TypeOK'
    BY SMTT(30), <1>1, WordSize, Consts DEF Shape, TypeOK, Stage, FutexExitFailed, Leave, DropLocals, history
  <1>3. ThreadInv' /\ MapInv' /\ PtrInv'
    BY SMTT(30), Consts DEF Shape, TypeOK, ThreadInv, MapInv, PtrInv, Pointing, FutexExitFailed, Leave, DropLocals,
           history
  <1> QED BY <1>2, <1>3 DEF Shape

LEMMA HistType ==
    ASSUME NEW h \in HistRec, NEW d \in Nat
    PROVE  ReportTask(AddDuration(h, d), d) \in HistRec
  <1> DEFINE m == IF h.min_dur = 0 \/ h.min_dur > d THEN d ELSE h.min_dur
  <1>0. h.contended + 1 \in Nat /\ h.total_elapsed + d \in Nat /\ m \in Nat
    BY DEF HistRec
  <1>1. AddDuration(h, d) \in HistRec
    <2>1. [h EXCEPT !.contended = @ + 1] \in HistRec
      BY <1>0 DEF HistRec
    <2>2. [[h EXCEPT !.contended = @ + 1] EXCEPT !.total_elapsed = @ + d] \in HistRec
      BY <2>1, <1>0 DEF HistRec
    <2>3. AddDuration(h, d) = [[[h EXCEPT !.contended = @ + 1] EXCEPT !.total_elapsed = @ + d]
                                   EXCEPT !.min_dur = m]
      BY DEF AddDuration, HistRec
    <2> HIDE DEF m
    <2> QED BY <2>2, <2>3, <1>0 DEF HistRec
  <1> QED BY <1>1 DEF HistRec, ReportTask

LEMMA ShapeExitRecord ==
    ASSUME Shape, NEW t \in Threads, NEW d \in Durations, FutexExitRecord(t, d)
    PROVE  Shape'
  <1>1. Len(elem) \in Nat /\ hists \in [Key -> HistRec] /\ d \in Nat
    BY LenProperties, Consts DEF Shape, TypeOK, HistRec
  <1>k. <<t, start[t]>> \in Key
    BY DEF FutexExitRecord, Shape, ThreadInv, Key
  <1>h. hists' \in [Key -> HistRec]
    BY <1>1, <1>k, HistType DEF FutexExitRecord
  <1>2. TypeOK'
    <2>1. ptr' \in [Threads -> 0..Len(elem)] /\ seen' \in [Threads -> 0..(Word - 1)]
      BY SMTT(30), <1>1, WordSize, Consts DEF Shape, TypeOK, FutexExitRecord, Leave, DropLocals
    <2>2. /\ pc' \in [Threads -> Stage] /\ call' \in [Threads -> Locks \cup {None}]
          /\ start' \in [Threads -> Locks \cup {None}]
      BY DEF Shape, TypeOK, Stage, FutexExitRecord, Leave
    <2> QED BY <1>h, <2>1, <2>2 DEF Shape, TypeOK, FutexExitRecord, HistRec
  <1>3. ThreadInv' /\ MapInv' /\ PtrInv'
    BY SMTT(30), Consts DEF Shape, TypeOK, ThreadInv, MapInv, PtrInv, Pointing, FutexExitRecord, Leave, DropLocals
  <1> QED BY <1>2, <1>3 DEF Shape

----------------------------------------------------------------------------
(***************************************************************************)
(* The counters.                                                           *)
(***************************************************************************)
\* The parts of the invariant about the counters, over a step that leaves the
\* lock map alone and counts nobody for a lock without an entry.
LEMMA FullKept ==
    ASSUME FullInv, lock_map' = lock_map,
           \A l \in Locks : Present(l) \/ Counted(l)' \subseteq Counted(l)
    PROVE  FullInv'
  <1>1. LockMapHasRoom' = LockMapHasRoom /\ \A l \in Locks : Present(l)' = Present(l)
    BY DEF LockMapHasRoom, Present
  <1> SUFFICES ASSUME NEW l \in Locks, ~Present(l)', Counted(l)' # {} PROVE ~LockMapHasRoom'
    BY DEF FullInv
  <1>2. ~Present(l) /\ Counted(l) # {}
    BY <1>1
  <1> QED BY <1>1, <1>2 DEF FullInv

LEMMA CountKept ==
    ASSUME CountExact, lock_map' = lock_map, raced \subseteq raced', leaked \subseteq leaked',
           \A l \in Locks \ (raced' \cup leaked') : Present(l) =>
               Entry(l)'.user_cnt = Entry(l).user_cnt /\ Counted(l)' = Counted(l)
    PROVE  CountExact'
  <1> SUFFICES ASSUME NEW l \in Locks \ (raced' \cup leaked'), Present(l)'
               PROVE  Entry(l)'.user_cnt = Cardinality(Counted(l)')
    BY DEF CountExact
  <1>1. Present(l) /\ l \in Locks \ (raced \cup leaked)
    BY DEF Present
  <1> QED BY <1>1 DEF CountExact

\* A store through the pointer of a handler: it hits the entry of the
\* handler's lock, or one that no lock has any more.
LEMMA Stored ==
    ASSUME Shape, NEW t \in Threads, pc[t] \in Pointing, NEW l \in Locks, l = call[t],
           NEW e \in ElemRec, elem' = [elem EXCEPT ![ptr[t]] = e], lock_map' = lock_map
    PROVE  /\ \A m \in Locks : Present(m) /\ m # l => Entry(m)' = Entry(m)
           /\ l \notin raced => Entry(l)' = e /\ Entry(l) = elem[ptr[t]]
           /\ Present(l)
  <1>1. ptr[t] \in 1..Len(elem) /\ Len(elem) \in Nat
    BY Pointed
  <1>2. elem'[ptr[t]] = e /\ \A j \in 1..Len(elem) : j # ptr[t] => elem'[j] = elem[j]
    BY <1>1, ElemStore DEF Shape
  <1>3. ASSUME NEW m \in Locks, Present(m), m # l PROVE Entry(m)' = Entry(m)
    <2>1. lock_map[m] \in 1..Len(elem)
      BY <1>1, <1>3 DEF Present, Shape, TypeOK
    <2>2. lock_map[m] # ptr[t]
      BY <1>3 DEF Shape, PtrInv
    <2> QED BY <1>2, <2>1, <2>2 DEF Entry
  <1>4. l \notin raced => ptr[t] = lock_map[l]
    BY DEF Shape, PtrInv
  <1>5. Present(l)
    BY DEF Shape, PtrInv, Present
  <1> QED BY <1>2, <1>3, <1>4, <1>5 DEF Entry

\* A step that leaves a lock's entry as it is.
LEMMA SameEntries ==
    ASSUME elem' = elem, lock_map' = lock_map
    PROVE  \A l \in Locks : Entry(l)' = Entry(l) /\ Present(l)' = Present(l)
  BY DEF Entry, Present

LEMMA CountEnterIgnored ==
    ASSUME IInv, NEW t \in Threads, NEW l \in Locks \cup {None}, FutexEnterIgnored(t, l)
    PROVE  FullInv' /\ CountExact'
  <1>1. UNCHANGED <<elem, lock_map, raced, leaked>>
    BY DEF FutexEnterIgnored, maps, history
  <1>2. ASSUME NEW m \in Locks PROVE Counted(m)' = Counted(m)
    BY Consts DEF IInv, Shape, TypeOK, ThreadInv, FutexEnterIgnored, BeginCall, Counted, Inside, Present, maps
  <1> QED BY <1>1, <1>2, SameEntries, FullKept, CountKept DEF IInv

LEMMA CountEnter ==
    ASSUME IInv, NEW t \in Threads, NEW l \in Locks, FutexEnter(t, l)
    PROVE  FullInv' /\ CountExact'
  <1>1. UNCHANGED <<elem, lock_map, raced>> /\ leaked \subseteq leaked'
    BY DEF FutexEnter
  <1>2. ASSUME NEW m \in Locks PROVE Counted(m)' = Counted(m)
    BY Consts DEF IInv, Shape, TypeOK, ThreadInv, FutexEnter, BeginCall, Counted, Inside, Present
  <1> QED BY <1>1, <1>2, SameEntries, FullKept, CountKept DEF IInv

LEMMA CountInsert ==
    ASSUME IInv, NEW t \in Threads, InsertLock(t)
    PROVE  FullInv' /\ CountExact'
  <1>0. call[t] \in Locks /\ Targeted(t)
    BY DEF IInv, Shape, ThreadInv, InsertLock
  <1>l. PICK l \in Locks : l = call[t]
    BY <1>0
  <1>p. pc[t] = "insert" /\ pc' = [pc EXCEPT ![t] = "waiting"] /\ UNCHANGED <<call, leaked>>
    BY DEF InsertLock
  <1>t. pc \in [Threads -> Stage]
    BY DEF IInv, Shape, TypeOK
  <1>n. t \notin Counted(l)
    BY <1>p DEF Counted
  <1>1. CASE ~(Present(l) \/ LockMapHasRoom)
    <2>1. UNCHANGED <<elem, lock_map, raced>>
      BY <1>1, <1>l DEF InsertLock
    <2>2. ~LockMapHasRoom'
      BY <1>1, <2>1 DEF LockMapHasRoom, Present
    <2>3. ASSUME NEW m \in Locks, Present(m) PROVE Counted(m)' = Counted(m)
      BY <1>1, <1>l, <1>0, <1>p, <1>t, <2>1, <2>3 DEF Counted, Inside, Present
    <2> QED BY <2>1, <2>2, <2>3, <1>p, SameEntries, CountKept DEF IInv, FullInv
  <1>2. CASE Present(l) \/ LockMapHasRoom
    <2>1. /\ elem' = Append(elem, [user_cnt |-> 1, max_user_cnt |-> 1])
          /\ lock_map' = [lock_map EXCEPT ![l] = Len(elem) + 1]
          /\ raced' = IF Present(l) THEN raced \cup {l} ELSE raced
      BY <1>2, <1>l DEF InsertLock
    <2>2. /\ Len(elem) \in Nat /\ elem'[Len(elem) + 1] = [user_cnt |-> 1, max_user_cnt |-> 1]
          /\ \A j \in 1..Len(elem) : elem'[j] = elem[j]
      BY <2>1, WordSize, ElemNew DEF IInv, Shape
    <2>3. lock_map \in [Locks -> 0..Len(elem)]
      BY DEF IInv, Shape, TypeOK
    <2>4. Present(l)' /\ Entry(l)' = [user_cnt |-> 1, max_user_cnt |-> 1]
      BY <1>l, <1>0, <2>1, <2>2, <2>3 DEF Present, Entry
    <2>5. ASSUME NEW m \in Locks, m # l
          PROVE  /\ Present(m)' = Present(m) /\ Counted(m)' = Counted(m)
                 /\ Present(m) => Entry(m)' = Entry(m)
      <3>1. lock_map'[m] = lock_map[m]
        BY <2>1, <2>3, <2>5
      <3>2. Present(m)' = Present(m)
        BY <3>1 DEF Present
      <3>3. Counted(m)' = Counted(m)
        BY <3>2, <2>5, <1>p, <1>t, <1>l DEF Counted, Inside
      <3>4. Present(m) => lock_map[m] \in 1..Len(elem)
        BY <2>2, <2>3 DEF Present
      <3> QED BY <3>1, <3>2, <3>3, <3>4, <2>2 DEF Entry
    <2>6. FullInv'
      <3>1. CASE Present(l)
        <4>1. \A m \in Locks : Present(m)' = Present(m)
          <5>1. Present(l)' = Present(l)
            BY <3>1, <2>4 DEF Present
          <5> QED BY <5>1, <2>5
        <4>2. LockMapHasRoom' = LockMapHasRoom
          BY <4>1 DEF LockMapHasRoom
        <4> QED BY <4>1, <4>2, <2>4, <2>5 DEF IInv, FullInv
      <3>2. CASE LockMapHasRoom
        BY <3>2, <2>4, <2>5 DEF IInv, FullInv
      <3> QED BY <1>2, <3>1, <3>2
    <2>7. CountExact'
      <3> SUFFICES ASSUME NEW m \in Locks \ (raced' \cup leaked'), Present(m)'
                   PROVE  Entry(m)'.user_cnt = Cardinality(Counted(m)')
        BY DEF CountExact
      <3>1. CASE m # l
        BY <3>1, <2>1, <2>5, <1>p DEF IInv, CountExact
      <3>2. CASE m = l
        <4>1. ~Present(l) /\ LockMapHasRoom
          BY <3>2, <2>1, <1>2
        <4>2. Counted(l) = {}
          BY <4>1, <1>l, <1>0 DEF IInv, FullInv
        <4>3. Counted(l)' = {t}
          BY <4>1, <4>2, <2>4, <1>p, <1>t, <1>l, <1>0 DEF Counted, Inside
        <4>4. Cardinality({t}) = 1
          BY FS_Singleton
        <4> QED BY <4>3, <4>4, <3>2, <2>4
      <3> QED BY <3>1, <3>2
    <2> QED BY <2>6, <2>7
  <1> QED BY <1>1, <1>2

LEMMA CountAdd ==
    ASSUME IInv, NEW t \in Threads, AddUser(t)
    PROVE  FullInv' /\ CountExact'
  <1>p. /\ pc[t] = "add" /\ pc[t] \in Pointing /\ pc' = [pc EXCEPT ![t] = "compare"]
        /\ UNCHANGED <<call, lock_map, raced, leaked>>
    BY DEF AddUser, Pointing, history
  <1>t. pc \in [Threads -> Stage] /\ Targeted(t)
    BY <1>p DEF IInv, Shape, TypeOK, ThreadInv
  <1>e. elem[ptr[t]] \in ElemRec /\ call[t] \in Locks
    BY <1>p, Pointed DEF IInv
  <1>l. PICK l \in Locks : l = call[t]
    BY <1>e
  <1>f. PICK e \in ElemRec : /\ elem' = [elem EXCEPT ![ptr[t]] = e]
                             /\ e.user_cnt = (elem[ptr[t]].user_cnt + 1) % Word
    <2>1. /\ [elem[ptr[t]] EXCEPT !.user_cnt = (@ + 1) % Word] \in ElemRec
          /\ [elem[ptr[t]] EXCEPT !.user_cnt = (@ + 1) % Word].user_cnt = (elem[ptr[t]].user_cnt + 1) % Word
      BY <1>e, Modulo DEF ElemRec
    <2> QED BY <2>1, ShapeAdd DEF IInv
  <1>2. /\ \A m \in Locks : Present(m) /\ m # l => Entry(m)' = Entry(m)
        /\ l \notin raced => Entry(l)' = e /\ Entry(l) = elem[ptr[t]]
        /\ Present(l)
    BY <1>l, <1>p, <1>f, Stored DEF IInv
  <1>3. ASSUME NEW m \in Locks, m # l PROVE Counted(m)' = Counted(m)
    BY <1>3, <1>l, <1>p, <1>t DEF Counted, Inside, Present
  <1>4. Counted(l)' = Counted(l) \cup {t} /\ t \notin Counted(l) /\ Counted(l) \subseteq Threads
    BY <1>l, <1>p, <1>t, <1>e DEF Counted, Inside, Present
  <1>5. FullInv'
    BY <1>2, <1>3, <1>p, FullKept DEF IInv
  <1>6. CountExact'
    <2> SUFFICES ASSUME NEW m \in Locks \ (raced' \cup leaked'), Present(m)'
                 PROVE  Entry(m)'.user_cnt = Cardinality(Counted(m)')
      BY DEF CountExact
    <2>1. CASE m # l
      BY <2>1, <1>2, <1>3, <1>p DEF IInv, CountExact, Present
    <2>2. CASE m = l
      <3>1. /\ Entry(l)' = e /\ Entry(l) = elem[ptr[t]]
            /\ Entry(l).user_cnt = Cardinality(Counted(l))
        BY <2>2, <1>2, <1>p DEF IInv, CountExact
      <3>2. /\ Cardinality(Counted(l) \cup {t}) = Cardinality(Counted(l)) + 1
            /\ Cardinality(Counted(l)) + 1 < Word /\ Cardinality(Counted(l)) \in Nat
        BY <1>4, ThreadSets
      <3>3. Entry(l).user_cnt \in 0..(Word - 1)
        BY <3>1, <1>e DEF ElemRec
      <3>4. (Entry(l).user_cnt + 1) % Word = Entry(l).user_cnt + 1
        BY <3>1, <3>2, <3>3, Modulo
      <3> QED BY <3>1, <3>2, <3>4, <1>f, <1>4, <2>2
    <2> QED BY <2>1, <2>2
  <1> QED BY <1>5, <1>6

LEMMA CountCompare ==
    ASSUME IInv, NEW t \in Threads, CompareMax(t)
    PROVE  FullInv' /\ CountExact'
  <1>1. UNCHANGED <<elem, lock_map, raced, leaked>>
    BY DEF CompareMax, maps, history
  <1>2. ASSUME NEW m \in Locks PROVE Counted(m)' = Counted(m)
    BY DEF IInv, Shape, TypeOK, CompareMax, Counted, Inside, Present, maps
  <1> QED BY <1>1, <1>2, SameEntries, FullKept, CountKept DEF IInv

LEMMA CountSet ==
    ASSUME IInv, NEW t \in Threads, SetMax(t)
    PROVE  FullInv' /\ CountExact'
  <1>p. pc[t] \in Pointing /\ UNCHANGED <<call, lock_map, raced, leaked>>
    BY DEF SetMax, Pointing, history
  <1>e. elem[ptr[t]] \in ElemRec /\ call[t] \in Locks
    BY <1>p, Pointed DEF IInv
  <1>l. PICK l \in Locks : l = call[t]
    BY <1>e
  <1>f. PICK e \in ElemRec : elem' = [elem EXCEPT ![ptr[t]] = e] /\ e.user_cnt = elem[ptr[t]].user_cnt
    <2>1. /\ [elem[ptr[t]] EXCEPT !.max_user_cnt = seen[t]] \in ElemRec
          /\ [elem[ptr[t]] EXCEPT !.max_user_cnt = seen[t]].user_cnt = elem[ptr[t]].user_cnt
      BY <1>e DEF ElemRec, IInv, Shape, TypeOK
    <2> QED BY <2>1, ShapeSet DEF IInv
  <1>2. \A m \in Locks \ raced : Present(m) => Entry(m)'.user_cnt = Entry(m).user_cnt
    BY <1>l, <1>p, <1>f, Stored DEF IInv
  <1>3. ASSUME NEW m \in Locks PROVE Counted(m)' = Counted(m)
    BY DEF IInv, Shape, TypeOK, SetMax, Counted, Inside, Present
  <1> QED BY <1>2, <1>3, <1>p, FullKept, CountKept DEF IInv

LEMMA CountReport ==
    ASSUME IInv, NEW t \in Threads, ReportLock(t)
    PROVE  FullInv' /\ CountExact'
  <1>1. UNCHANGED <<elem, lock_map, raced, leaked>>
    BY DEF ReportLock, maps, history
  <1>2. ASSUME NEW m \in Locks PROVE Counted(m)' = Counted(m)
    BY DEF IInv, Shape, TypeOK, ReportLock, Counted, Inside, Present, maps
  <1> QED BY <1>1, <1>2, SameEntries, FullKept, CountKept DEF IInv

\* Only a thread that start had no room for leaves this way while counted.
LEMMA CountExitUnknown ==
    ASSUME IInv, NEW t \in Threads, FutexExitUnknown(t)
    PROVE  FullInv' /\ CountExact'
  <1>1. UNCHANGED <<elem, lock_map, raced, leaked>>
    BY DEF FutexExitUnknown, maps, history
  <1>2. \A m \in Locks : Counted(m)' \subseteq Counted(m)
    BY <1>1, Consts DEF IInv, Shape, TypeOK, FutexExitUnknown, Leave, Counted, Inside, Present
  <1>3. ASSUME NEW m \in Locks \ leaked PROVE Counted(m)' = Counted(m)
    <2>1. call[t] # m \/ ~Targeted(t)
      BY Consts DEF IInv, Shape, ThreadInv, FutexExitUnknown
    <2> QED BY <1>1, <2>1, Consts DEF IInv, Shape, TypeOK, FutexExitUnknown, Leave, Counted, Inside, Present
  <1> QED BY <1>1, <1>2, <1>3, SameEntries, FullKept, CountKept DEF IInv

LEMMA CountExit ==
    ASSUME IInv, NEW t \in Threads, FutexExit(t)
    PROVE  FullInv' /\ CountExact'
  <1>1. UNCHANGED <<elem, lock_map, raced, leaked>> /\ start[t] = call[t]
    BY ShapeExit DEF FutexExit, maps, history, IInv
  <1>2. ASSUME NEW m \in Locks PROVE Counted(m)' = Counted(m)
    BY <1>1 DEF IInv, Shape, TypeOK, FutexExit, Counted, Inside, Present
  <1> QED BY <1>1, <1>2, SameEntries, FullKept, CountKept DEF IInv

LEMMA CountSubtract ==
    ASSUME IInv, NEW t \in Threads, SubtractUser(t)
    PROVE  FullInv' /\ CountExact'
  <1>p. /\ pc[t] = "subtract" /\ pc[t] \in Pointing /\ pc' = [pc EXCEPT ![t] = "record"]
        /\ UNCHANGED <<call, lock_map, raced, leaked>>
    BY DEF SubtractUser, Pointing, history
  <1>t. pc \in [Threads -> Stage] /\ Targeted(t)
    BY <1>p DEF IInv, Shape, TypeOK, ThreadInv
  <1>e. elem[ptr[t]] \in ElemRec /\ call[t] \in Locks
    BY <1>p, Pointed DEF IInv
  <1>l. PICK l \in Locks : l = call[t]
    BY <1>e
  <1>f. PICK e \in ElemRec : /\ elem' = [elem EXCEPT ![ptr[t]] = e]
                             /\ e.user_cnt = (elem[ptr[t]].user_cnt + Word - 1) % Word
    <2>1. /\ [elem[ptr[t]] EXCEPT !.user_cnt = (@ + Word - 1) % Word] \in ElemRec
          /\ [elem[ptr[t]] EXCEPT !.user_cnt = (@ + Word - 1) % Word].user_cnt
                = (elem[ptr[t]].user_cnt + Word - 1) % Word
      BY <1>e, Modulo DEF ElemRec
    <2> QED BY <2>1, ShapeSubtract DEF IInv
  <1>2. /\ \A m \in Locks : Present(m) /\ m # l => Entry(m)' = Entry(m)
        /\ l \notin raced => Entry(l)' = e /\ Entry(l) = elem[ptr[t]]
        /\ Present(l)
    BY <1>l, <1>p, <1>f, Stored DEF IInv
  <1>3. ASSUME NEW m \in Locks, m # l PROVE Counted(m)' = Counted(m)
    BY <1>3, <1>l, <1>p, <1>t DEF Counted, Inside, Present
  <1>4. Counted(l)' = Counted(l) \ {t} /\ t \in Counted(l) /\ Counted(l) \subseteq Threads
    BY <1>l, <1>p, <1>t, <1>2 DEF Counted, Inside, Present
  <1>5. FullInv'
    BY <1>2, <1>3, <1>p, FullKept DEF IInv
  <1>6. CountExact'
    <2> SUFFICES ASSUME NEW m \in Locks \ (raced' \cup leaked'), Present(m)'
                 PROVE  Entry(m)'.user_cnt = Cardinality(Counted(m)')
      BY DEF CountExact
    <2>1. CASE m # l
      BY <2>1, <1>2, <1>3, <1>p DEF IInv, CountExact, Present
    <2>2. CASE m = l
      <3>1. /\ Entry(l)' = e /\ Entry(l) = elem[ptr[t]]
            /\ Entry(l).user_cnt = Cardinality(Counted(l))
        BY <2>2, <1>2, <1>p DEF IInv, CountExact
      <3>2. /\ Cardinality(Counted(l) \ {t}) = Cardinality(Counted(l)) - 1
            /\ Cardinality(Counted(l)) >= 1
        BY <1>4, ThreadSets
      <3>3. Entry(l).user_cnt \in 0..(Word - 1)
        BY <3>1, <1>e DEF ElemRec
      <3>4. (Entry(l).user_cnt + Word - 1) % Word = Entry(l).user_cnt - 1
        BY <3>1, <3>2, <3>3, Modulo
      <3> QED BY <3>1, <3>2, <3>4, <1>f, <1>4, <2>2
    <2> QED BY <2>1, <2>2
  <1> QED BY <1>5, <1>6

\* A thread that has been taken off leaves.
LEMMA CountLeave ==
    ASSUME IInv, NEW t \in Threads, pc[t] = "record", Leave(t),
           UNCHANGED <<elem, lock_map, raced, leaked>>
    PROVE  FullInv' /\ CountExact'
  <1>1. \A m \in Locks : Counted(m)' \subseteq Counted(m)
    BY Consts DEF IInv, Shape, TypeOK, Leave, Counted, Inside, Present
  <1>2. ASSUME NEW m \in Locks, Present(m) PROVE Counted(m)' = Counted(m)
    BY <1>2, Consts DEF IInv, Shape, TypeOK, Leave, Counted, Inside, Present
  <1> QED BY <1>1, <1>2, SameEntries, FullKept, CountKept DEF IInv

----------------------------------------------------------------------------
(***************************************************************************)
(* The peaks and the reports.                                              *)
(***************************************************************************)
LEMMA MaxOfTwo ==
    ASSUME NEW a \in Nat, NEW b \in Nat
    PROVE  Max({a, b}) \in Nat /\ a <= Max({a, b}) /\ b <= Max({a, b})
  <1>1. \E x \in {a, b} : \A y \in {a, b} : x >= y
    <2>1. CASE a >= b
      BY <2>1
    <2>2. CASE b >= a
      BY <2>2
    <2> QED BY <2>1, <2>2
  <1>2. Max({a, b}) \in {a, b} /\ \A y \in {a, b} : Max({a, b}) >= y
    BY <1>1 DEF Max
  <1> QED BY <1>2

LEMMA TracedSets ==
    ASSUME NEW l \in Locks
    PROVE  /\ Counted(l) \subseteq Traced(l) /\ Traced(l) \subseteq Inside(l)
           /\ Inside(l) \subseteq Threads
           /\ Cardinality(Counted(l)) <= Cardinality(Traced(l))
           /\ Cardinality(Traced(l)) <= Cardinality(Inside(l))
           /\ Cardinality(Counted(l)) \in Nat /\ Cardinality(Traced(l)) \in Nat
           /\ Cardinality(Inside(l)) \in Nat
  <1>1. /\ Counted(l) \subseteq Traced(l) /\ Traced(l) \subseteq Inside(l)
        /\ Inside(l) \subseteq Threads
    BY DEF Counted, Traced, Inside
  <1>2. /\ IsFiniteSet(Traced(l)) /\ IsFiniteSet(Inside(l))
        /\ Cardinality(Counted(l)) \in Nat /\ Cardinality(Traced(l)) \in Nat
        /\ Cardinality(Inside(l)) \in Nat
    BY <1>1, ThreadSets
  <1>3. /\ Cardinality(Counted(l)) <= Cardinality(Traced(l))
        /\ Cardinality(Traced(l)) <= Cardinality(Inside(l))
    BY <1>1, <1>2, FS_Subset
  <1> QED BY <1>1, <1>2, <1>3

\* A step in which no thread enters a call and no handler takes a new maximum.
LEMMA PeakKept ==
    ASSUME PeakInv, TypeOK, peak' = peak, raced \subseteq raced', leaked \subseteq leaked',
           \A u \in Threads : call'[u] \in {call[u], None},
           \A u \in Threads : pc'[u] = "set" =>
               pc[u] = "set" /\ seen'[u] = seen[u] /\ call'[u] = call[u]
    PROVE  PeakInv'
  <1>1. ASSUME NEW l \in Locks PROVE Cardinality(Traced(l)') <= peak[l]
    <2>1. Traced(l)' \subseteq Traced(l)
      BY Consts DEF Traced
    <2>2. IsFiniteSet(Traced(l)) /\ Cardinality(Traced(l)) \in Nat /\ Traced(l) \subseteq Threads
      BY TracedSets, ThreadSets
    <2>3. Cardinality(Traced(l)') <= Cardinality(Traced(l)) /\ Cardinality(Traced(l)') \in Nat
      BY <2>1, <2>2, FS_Subset, ThreadSets
    <2>4. Cardinality(Traced(l)) <= peak[l] /\ peak[l] \in Nat
      BY DEF PeakInv
    <2> QED BY <2>2, <2>3, <2>4
  <1>2. peak' \in [Locks -> Nat]
    BY DEF PeakInv
  <1>3. \A t \in Threads : pc'[t] = "set" /\ call'[t] \notin raced' \cup leaked'
                              => seen'[t] <= peak'[call'[t]]
    BY DEF PeakInv
  <1> QED BY <1>1, <1>2, <1>3 DEF PeakInv

LEMMA AlarmKept ==
    ASSUME NoFalseAlarm, lock_map' = lock_map, peak' = peak, reported' = reported,
           raced \subseteq raced', leaked \subseteq leaked',
           \A l \in Locks \ (raced' \cup leaked') : Present(l) =>
               Entry(l)'.max_user_cnt = Entry(l).max_user_cnt
    PROVE  NoFalseAlarm'
  <1>1. \A l \in Locks : Present(l)' = Present(l)
    BY DEF Present
  <1> QED BY <1>1 DEF NoFalseAlarm

LEMMA PeakEnterIgnored ==
    ASSUME IInv, NEW t \in Threads, NEW l \in Locks \cup {None}, FutexEnterIgnored(t, l)
    PROVE  PeakInv' /\ NoFalseAlarm'
  <1>1. UNCHANGED <<elem, lock_map, raced, leaked, peak, reported, seen>>
    BY DEF FutexEnterIgnored, maps, history
  <1>2. NoFalseAlarm'
    BY <1>1, SameEntries, AlarmKept DEF IInv
  <1>3. ASSUME NEW m \in Locks PROVE Traced(m)' = Traced(m)
    BY Consts DEF IInv, Shape, TypeOK, ThreadInv, FutexEnterIgnored, BeginCall, Traced
  <1>4. \A u \in Threads : pc'[u] = "set" => pc[u] = "set" /\ call'[u] = call[u]
    BY DEF IInv, Shape, TypeOK, FutexEnterIgnored, BeginCall
  <1> QED BY <1>1, <1>2, <1>3, <1>4 DEF IInv, PeakInv

LEMMA PeakEnter ==
    ASSUME IInv, NEW t \in Threads, NEW l \in Locks, FutexEnter(t, l)
    PROVE  PeakInv' /\ NoFalseAlarm'
  <1>0. /\ pc[t] = "out" /\ call[t] = None /\ Targeted(t) /\ leaked \subseteq leaked'
        /\ UNCHANGED <<elem, lock_map, raced, reported, seen>>
        /\ call' = [call EXCEPT ![t] = l]
        /\ peak' = [peak EXCEPT ![l] = Max({peak[l], Cardinality(Inside(l)) + 1})]
    BY DEF FutexEnter, BeginCall, IInv, Shape, ThreadInv
  <1>1. peak \in [Locks -> Nat] /\ call \in [Threads -> Locks \cup {None}]
    BY DEF IInv, PeakInv, Shape, TypeOK
  <1>2. PICK mx : mx = Max({peak[l], Cardinality(Inside(l)) + 1})
    OBVIOUS
  <1>3. mx \in Nat /\ peak[l] <= mx /\ Cardinality(Inside(l)) + 1 <= mx
    BY <1>1, <1>2, TracedSets, MaxOfTwo
  <1>4. peak' \in [Locks -> Nat] /\ peak'[l] = mx /\ \A m \in Locks : peak[m] <= peak'[m]
    BY <1>0, <1>1, <1>2, <1>3
  <1>5. ASSUME NEW m \in Locks PROVE Cardinality(Traced(m)') <= peak'[m]
    <2>1. CASE m = l
      <3>1. Traced(l)' = Traced(l) \cup {t} /\ t \notin Traced(l) /\ Traced(l) \subseteq Threads
        BY <1>0, <1>1, Consts DEF Traced
      <3>2. Cardinality(Traced(l)') = Cardinality(Traced(l)) + 1
        BY <3>1, ThreadSets
      <3>3. /\ Cardinality(Traced(l)) <= Cardinality(Inside(l))
            /\ Cardinality(Traced(l)) \in Nat /\ Cardinality(Inside(l)) \in Nat
        BY TracedSets
      <3> QED BY <2>1, <3>2, <3>3, <1>3, <1>4
    <2>2. CASE m # l
      <3>1. Traced(m)' = Traced(m)
        BY <2>2, <1>0, <1>1, Consts DEF Traced
      <3> QED BY <3>1, <2>2, <1>0, <1>1 DEF IInv, PeakInv
    <2> QED BY <2>1, <2>2
  <1>6. \A u \in Threads : pc'[u] = "set" => u # t /\ pc[u] = "set" /\ call'[u] = call[u]
    BY <1>0, <1>1 DEF IInv, Shape, TypeOK, FutexEnter
  <1>7. ASSUME NEW u \in Threads, pc'[u] = "set", call'[u] \notin raced' \cup leaked'
        PROVE  seen'[u] <= peak'[call'[u]]
    <2>1. pc[u] = "set" /\ call'[u] = call[u] /\ call[u] \in Locks /\ call[u] \notin raced \cup leaked
      BY <1>0, <1>6, <1>7 DEF IInv, Shape, ThreadInv
    <2>2. seen[u] <= peak[call[u]] /\ seen[u] \in Nat
      BY <2>1, Consts DEF IInv, PeakInv, Shape, TypeOK
    <2>3. peak[call[u]] <= peak'[call[u]] /\ peak[call[u]] \in Nat /\ peak'[call[u]] \in Nat
      BY <2>1, <1>4, <1>1
    <2> QED BY <1>0, <2>1, <2>2, <2>3
  <1>8. NoFalseAlarm'
    <2> SUFFICES ASSUME NEW m \in Locks \ (raced' \cup leaked')
                 PROVE  /\ Present(m)' => Entry(m)'.max_user_cnt <= peak'[m]
                        /\ m \in reported' => peak'[m] > MaxLockHoldUsers
      BY DEF NoFalseAlarm
    <2>1. /\ Present(m) => Entry(m).max_user_cnt <= peak[m]
          /\ m \in reported => peak[m] > MaxLockHoldUsers
      BY <1>0 DEF IInv, NoFalseAlarm
    <2>2. Present(m)' = Present(m) /\ Entry(m)' = Entry(m) /\ reported' = reported
      BY <1>0, SameEntries
    <2>3. peak[m] <= peak'[m] /\ peak[m] \in Nat /\ peak'[m] \in Nat
      BY <1>1, <1>4
    <2>4. Present(m) => Entry(m).max_user_cnt \in Nat
      <3>1. Present(m) => lock_map[m] \in 1..Len(elem)
        BY DEF Present, IInv, Shape, TypeOK
      <3>2. \A i \in 1..Len(elem) : elem[i] \in ElemRec
        BY ElementOfSeq DEF IInv, Shape, TypeOK, ElemRec
      <3> QED BY <3>1, <3>2, Consts DEF Entry, ElemRec
    <2> QED BY <2>1, <2>2, <2>3, <2>4, Consts
  <1> QED BY <1>4, <1>5, <1>7, <1>8 DEF PeakInv

LEMMA PeakInsert ==
    ASSUME IInv, NEW t \in Threads, InsertLock(t)
    PROVE  PeakInv' /\ NoFalseAlarm'
  <1>0. /\ call[t] \in Locks /\ Targeted(t) /\ raced \subseteq raced'
        /\ UNCHANGED <<call, leaked, peak, reported, seen>>
    BY DEF IInv, Shape, ThreadInv, InsertLock
  <1>l. PICK l \in Locks : l = call[t]
    BY <1>0
  <1>1. PeakInv'
    <2>1. \A u \in Threads : pc'[u] = "set" => pc[u] = "set"
      BY DEF InsertLock, IInv, Shape, TypeOK
    <2> QED BY <1>0, <2>1, PeakKept DEF IInv, Shape
  <1>2. CASE ~(Present(l) \/ LockMapHasRoom)
    <2>1. UNCHANGED <<elem, lock_map>>
      BY <1>2, <1>l DEF InsertLock
    <2> QED BY <1>0, <1>1, <2>1, SameEntries, AlarmKept DEF IInv
  <1>3. CASE Present(l) \/ LockMapHasRoom
    <2>1. /\ elem' = Append(elem, [user_cnt |-> 1, max_user_cnt |-> 1])
          /\ lock_map' = [lock_map EXCEPT ![l] = Len(elem) + 1]
      BY <1>3, <1>l DEF InsertLock
    <2>2. /\ Len(elem) \in Nat /\ elem'[Len(elem) + 1] = [user_cnt |-> 1, max_user_cnt |-> 1]
          /\ \A j \in 1..Len(elem) : elem'[j] = elem[j]
      BY <2>1, WordSize, ElemNew DEF IInv, Shape
    <2>3. lock_map \in [Locks -> 0..Len(elem)]
      BY DEF IInv, Shape, TypeOK
    <2>4. Entry(l)'.max_user_cnt = 1
      BY <2>1, <2>2, <2>3 DEF Entry
    <2>5. ASSUME NEW m \in Locks, m # l
          PROVE  Present(m)' = Present(m) /\ (Present(m) => Entry(m)' = Entry(m))
      <3>1. lock_map'[m] = lock_map[m]
        BY <2>1, <2>3, <2>5
      <3>2. Present(m) => lock_map[m] \in 1..Len(elem)
        BY <2>2, <2>3 DEF Present
      <3> QED BY <3>1, <3>2, <2>2 DEF Entry, Present
    <2>6. peak[l] >= 1
      <3>1. t \in Traced(l) /\ Traced(l) \subseteq Threads
        BY <1>0, <1>l DEF Traced
      <3>2. Cardinality(Traced(l)) >= 1 /\ Cardinality(Traced(l)) \in Nat
        BY <3>1, ThreadSets
      <3>3. Cardinality(Traced(l)) <= peak[l] /\ peak[l] \in Nat
        BY DEF IInv, PeakInv
      <3> QED BY <3>2, <3>3
    <2>7. NoFalseAlarm'
      <3> SUFFICES ASSUME NEW m \in Locks \ (raced' \cup leaked')
                   PROVE  /\ Present(m)' => Entry(m)'.max_user_cnt <= peak'[m]
                          /\ m \in reported' => peak'[m] > MaxLockHoldUsers
        BY DEF NoFalseAlarm
      <3>1. /\ Present(m) => Entry(m).max_user_cnt <= peak[m]
            /\ m \in reported => peak[m] > MaxLockHoldUsers
        BY <1>0 DEF IInv, NoFalseAlarm
      <3>2. peak[l] \in Nat
        BY DEF IInv, PeakInv
      <3> QED BY <1>0, <3>1, <3>2, <2>4, <2>5, <2>6
    <2> QED BY <1>1, <2>7
  <1> QED BY <1>2, <1>3

\* The steps that touch neither the maximum of an entry nor the reports.
LEMMA PeakOther ==
    ASSUME IInv, NEW t \in Threads,
           AddUser(t) \/ FutexExitUnknown(t) \/ FutexExit(t) \/ SubtractUser(t) \/ FutexExitFailed(t)
               \/ \E d \in Durations : FutexExitRecord(t, d)
    PROVE  PeakInv' /\ NoFalseAlarm'
  <1>1. UNCHANGED <<lock_map, raced, leaked, peak, reported>>
    BY DEF AddUser, FutexExitUnknown, FutexExit, SubtractUser, FutexExitFailed, FutexExitRecord, maps, history
  <1>2. /\ \A u \in Threads : call'[u] \in {call[u], None}
        /\ \A u \in Threads : pc'[u] = "set" =>
               pc[u] = "set" /\ seen'[u] = seen[u] /\ call'[u] = call[u]
    <2>0. /\ pc \in [Threads -> Stage] /\ call \in [Threads -> Locks \cup {None}]
          /\ seen \in [Threads -> 0..(Word - 1)]
      BY DEF IInv, Shape, TypeOK
    <2>1. CASE AddUser(t)
      BY <2>0, <2>1 DEF AddUser
    <2>2. CASE FutexExitUnknown(t)
      BY <2>0, <2>2 DEF FutexExitUnknown, Leave, DropLocals
    <2>3. CASE FutexExit(t)
      BY <2>0, <2>3 DEF FutexExit
    <2>4. CASE SubtractUser(t)
      BY <2>0, <2>4 DEF SubtractUser, DropLocals
    <2>5. CASE FutexExitFailed(t)
      BY <2>0, <2>5 DEF FutexExitFailed, Leave, DropLocals
    <2>6. CASE \E d \in Durations : FutexExitRecord(t, d)
      BY <2>0, <2>6 DEF FutexExitRecord, Leave, DropLocals
    <2> QED BY <2>1, <2>2, <2>3, <2>4, <2>5, <2>6
  <1>3. PeakInv'
    BY <1>1, <1>2, PeakKept DEF IInv, Shape
  <1>4. \A m \in Locks \ raced : Present(m) => Entry(m)'.max_user_cnt = Entry(m).max_user_cnt
    <2>1. CASE AddUser(t) \/ SubtractUser(t)
      <3>1. pc[t] \in Pointing
        BY <2>1 DEF AddUser, SubtractUser, Pointing
      <3>2. elem[ptr[t]] \in ElemRec /\ call[t] \in Locks
        BY <3>1, Pointed DEF IInv
      <3>3. PICK l \in Locks : l = call[t]
        BY <3>2
      <3>4. \A c \in 0..(Word - 1) :
                /\ [elem[ptr[t]] EXCEPT !.user_cnt = c] \in ElemRec
                /\ [elem[ptr[t]] EXCEPT !.user_cnt = c].max_user_cnt = elem[ptr[t]].max_user_cnt
        BY <3>2 DEF ElemRec
      <3>5. elem[ptr[t]].user_cnt \in 0..(Word - 1)
        BY <3>2 DEF ElemRec
      <3>6. PICK c \in 0..(Word - 1) : elem' = [elem EXCEPT ![ptr[t]] = [elem[ptr[t]] EXCEPT !.user_cnt = c]]
        BY <2>1, <3>5, Modulo, ShapeAdd, ShapeSubtract DEF IInv
      <3>7. PICK e \in ElemRec : /\ elem' = [elem EXCEPT ![ptr[t]] = e]
                                 /\ e.max_user_cnt = elem[ptr[t]].max_user_cnt
        BY <3>4, <3>6
      <3> QED BY <1>1, <3>1, <3>3, <3>7, Stored DEF IInv
    <2>2. CASE ~(AddUser(t) \/ SubtractUser(t))
      <3>1. elem' = elem
        BY <2>2 DEF FutexExitUnknown, FutexExit, FutexExitFailed, FutexExitRecord, maps
      <3> QED BY <1>1, <3>1, SameEntries
    <2> QED BY <2>1, <2>2
  <1> QED BY <1>1, <1>3, <1>4, AlarmKept DEF IInv

\* What a handler loads is the number of threads counted, at most the peak.
LEMMA PeakCompare ==
    ASSUME IInv, NEW t \in Threads, CompareMax(t)
    PROVE  PeakInv' /\ NoFalseAlarm'
  <1>1. /\ UNCHANGED <<call, elem, lock_map, raced, leaked, peak, reported>>
        /\ pc[t] \in Pointing /\ seen' = [seen EXCEPT ![t] = elem[ptr[t]].user_cnt]
    BY DEF CompareMax, maps, history, Pointing
  <1>2. NoFalseAlarm'
    BY <1>1, SameEntries, AlarmKept DEF IInv
  <1>3. call[t] \in Locks
    BY <1>1, Pointed DEF IInv
  <1>l. PICK l \in Locks : l = call[t]
    BY <1>3
  <1>4. l \notin raced \cup leaked => elem[ptr[t]].user_cnt <= peak[l]
    <2> SUFFICES ASSUME l \notin raced \cup leaked PROVE elem[ptr[t]].user_cnt <= peak[l]
      OBVIOUS
    <2>1. ptr[t] = lock_map[l] /\ Present(l)
      BY <1>1, <1>l DEF IInv, Shape, PtrInv, Present
    <2>2. elem[ptr[t]].user_cnt = Cardinality(Counted(l))
      BY <2>1 DEF IInv, CountExact, Entry
    <2>3. /\ Cardinality(Counted(l)) <= Cardinality(Traced(l))
          /\ Cardinality(Counted(l)) \in Nat /\ Cardinality(Traced(l)) \in Nat
      BY TracedSets
    <2>4. Cardinality(Traced(l)) <= peak[l] /\ peak[l] \in Nat
      BY DEF IInv, PeakInv
    <2> QED BY <2>2, <2>3, <2>4
  <1>5. ASSUME NEW u \in Threads, pc'[u] = "set", call'[u] \notin raced' \cup leaked'
        PROVE  seen'[u] <= peak'[call'[u]]
    <2>1. CASE u = t
      BY <2>1, <1>5, <1>1, <1>4, <1>l DEF IInv, Shape, TypeOK
    <2>2. CASE u # t
      <3>1. pc[u] = "set" /\ seen'[u] = seen[u]
        BY <2>2, <1>1, <1>5 DEF CompareMax, IInv, Shape, TypeOK
      <3> QED BY <3>1, <1>1, <1>5 DEF IInv, PeakInv
    <2> QED BY <2>1, <2>2
  <1>6. ASSUME NEW m \in Locks PROVE Traced(m)' = Traced(m)
    BY <1>1 DEF Traced
  <1> QED BY <1>1, <1>2, <1>5, <1>6 DEF IInv, PeakInv

LEMMA PeakSet ==
    ASSUME IInv, NEW t \in Threads, SetMax(t)
    PROVE  PeakInv' /\ NoFalseAlarm'
  <1>1. /\ UNCHANGED <<call, seen, lock_map, raced, leaked, peak, reported>>
        /\ pc[t] = "set" /\ pc[t] \in Pointing
    BY DEF SetMax, history, Pointing
  <1>2. PeakInv'
    <2>1. \A u \in Threads : pc'[u] = "set" => pc[u] = "set"
      BY DEF SetMax, IInv, Shape, TypeOK
    <2> QED BY <1>1, <2>1, PeakKept DEF IInv, Shape
  <1>3. elem[ptr[t]] \in ElemRec /\ call[t] \in Locks
    BY <1>1, Pointed DEF IInv
  <1>l. PICK l \in Locks : l = call[t]
    BY <1>3
  <1>f. PICK e \in ElemRec : elem' = [elem EXCEPT ![ptr[t]] = e] /\ e.max_user_cnt = seen[t]
    <2>1. /\ [elem[ptr[t]] EXCEPT !.max_user_cnt = seen[t]] \in ElemRec
          /\ [elem[ptr[t]] EXCEPT !.max_user_cnt = seen[t]].max_user_cnt = seen[t]
      BY <1>3 DEF ElemRec, IInv, Shape, TypeOK
    <2> QED BY <2>1, ShapeSet DEF IInv
  <1>4. /\ \A m \in Locks : Present(m) /\ m # l => Entry(m)' = Entry(m)
        /\ l \notin raced => Entry(l)'.max_user_cnt = seen[t]
    BY <1>1, <1>l, <1>f, Stored DEF IInv
  <1>5. l \notin raced \cup leaked => seen[t] <= peak[l]
    BY <1>1, <1>l DEF IInv, PeakInv
  <1>6. NoFalseAlarm'
    <2> SUFFICES ASSUME NEW m \in Locks \ (raced' \cup leaked')
                 PROVE  /\ Present(m)' => Entry(m)'.max_user_cnt <= peak'[m]
                        /\ m \in reported' => peak'[m] > MaxLockHoldUsers
      BY DEF NoFalseAlarm
    <2>1. /\ Present(m) => Entry(m).max_user_cnt <= peak[m]
          /\ m \in reported => peak[m] > MaxLockHoldUsers
      BY <1>1 DEF IInv, NoFalseAlarm
    <2>2. Present(m)' = Present(m)
      BY <1>1 DEF Present
    <2> QED BY <1>1, <1>4, <1>5, <2>1, <2>2
  <1> QED BY <1>2, <1>6

LEMMA PeakReport ==
    ASSUME IInv, NEW t \in Threads, ReportLock(t)
    PROVE  PeakInv' /\ NoFalseAlarm'
  <1>1. UNCHANGED <<call, elem, lock_map, raced, leaked, peak>> /\ pc[t] \in Pointing
    BY DEF ReportLock, maps, history, Pointing
  <1>2. PeakInv'
    <2>1. \A u \in Threads : pc'[u] = "set" => pc[u] = "set" /\ seen'[u] = seen[u]
      BY DEF ReportLock, DropLocals, IInv, Shape, TypeOK
    <2> QED BY <1>1, <2>1, PeakKept DEF IInv, Shape
  <1>3. call[t] \in Locks /\ elem[ptr[t]] \in ElemRec
    BY <1>1, Pointed DEF IInv
  <1>l. PICK l \in Locks : l = call[t]
    BY <1>3
  <1>4. ASSUME l \notin raced \cup leaked, elem[ptr[t]].max_user_cnt > MaxLockHoldUsers
        PROVE  peak[l] > MaxLockHoldUsers
    <2>1. ptr[t] = lock_map[l] /\ Present(l)
      BY <1>1, <1>4, <1>l DEF IInv, Shape, PtrInv, Present
    <2>2. elem[ptr[t]].max_user_cnt <= peak[l]
      BY <2>1, <1>4 DEF IInv, NoFalseAlarm, Entry
    <2>3. elem[ptr[t]].max_user_cnt \in Nat /\ peak[l] \in Nat
      BY <1>3, Consts DEF ElemRec, IInv, PeakInv
    <2> QED BY <1>4, <2>2, <2>3, Consts
  <1>5. NoFalseAlarm'
    <2> SUFFICES ASSUME NEW m \in Locks \ (raced' \cup leaked')
                 PROVE  /\ Present(m)' => Entry(m)'.max_user_cnt <= peak'[m]
                        /\ m \in reported' => peak'[m] > MaxLockHoldUsers
      BY DEF NoFalseAlarm
    <2>1. /\ Present(m) => Entry(m).max_user_cnt <= peak[m]
          /\ m \in reported => peak[m] > MaxLockHoldUsers
      BY <1>1 DEF IInv, NoFalseAlarm
    <2>2. Present(m)' = Present(m) /\ Entry(m)' = Entry(m)
      BY <1>1, SameEntries
    <2>3. m \in reported' => m \in reported \/ (m = l /\ elem[ptr[t]].max_user_cnt > MaxLockHoldUsers)
      BY <1>l DEF ReportLock
    <2> QED BY <1>1, <1>4, <2>1, <2>2, <2>3
  <1> QED BY <1>2, <1>5

----------------------------------------------------------------------------
(***************************************************************************)
(* The theorems.                                                           *)
(***************************************************************************)
LEMMA InitIInv == Init => IInv
  <1> SUFFICES ASSUME Init PROVE IInv
    OBVIOUS
  <1>0. Len(elem) = 0 /\ elem \in Seq(ElemRec) /\ 0 \in 0..Len(elem) /\ NoHist \in HistRec
    BY DEF Init, NoHist, HistRec
  <1>w. \A t \in Threads : 0 \in 0..(Word - 1)
    BY WordSize, Consts
  <1>1. TypeOK
    BY <1>0, <1>w, Consts DEF Init, TypeOK, Stage, ElemRec, HistRec
  <1>2. ThreadInv /\ PtrInv /\ MapInv
    BY Consts DEF Init, ThreadInv, PtrInv, MapInv, Pointing
  <1>3. \A l \in Locks : ~Present(l) /\ Counted(l) = {} /\ Traced(l) = {}
    BY Consts DEF Init, Present, Counted, Inside, Traced
  <1>4. Cardinality({}) = 0
    BY FS_EmptySet
  <1>5. FullInv /\ CountExact /\ NoFalseAlarm
    BY <1>3 DEF Init, FullInv, CountExact, NoFalseAlarm
  <1>6. PeakInv
    <2>1. peak \in [Locks -> Nat] /\ \A l \in Locks : peak[l] = 0
      BY DEF Init
    <2>2. \A l \in Locks : Cardinality(Traced(l)) <= peak[l]
      BY <1>3, <1>4, <2>1
    <2>3. \A t \in Threads : pc[t] # "set"
      BY DEF Init
    <2> QED BY <2>1, <2>2, <2>3 DEF PeakInv
  <1> QED BY <1>1, <1>2, <1>5, <1>6 DEF IInv, Shape

LEMMA NextIInv == IInv /\ [Next]_vars => IInv'
  <1> SUFFICES ASSUME IInv, [Next]_vars PROVE IInv'
    OBVIOUS
  <1>s. Shape
    BY DEF IInv
  <1>1. ASSUME NEW t \in Threads, NEW l \in Locks \cup {None}, FutexEnterIgnored(t, l) PROVE IInv'
    BY <1>1, <1>s, ShapeEnterIgnored, CountEnterIgnored, PeakEnterIgnored DEF IInv
  <1>2. ASSUME NEW t \in Threads, NEW l \in Locks, FutexEnter(t, l) PROVE IInv'
    BY <1>2, <1>s, ShapeEnter, CountEnter, PeakEnter DEF IInv
  <1>3. ASSUME NEW t \in Threads, InsertLock(t) PROVE IInv'
    BY <1>3, <1>s, ShapeInsert, CountInsert, PeakInsert DEF IInv
  <1>4. ASSUME NEW t \in Threads, AddUser(t) PROVE IInv'
    BY <1>4, <1>s, ShapeAdd, CountAdd, PeakOther DEF IInv
  <1>5. ASSUME NEW t \in Threads, CompareMax(t) PROVE IInv'
    BY <1>5, <1>s, ShapeCompare, CountCompare, PeakCompare DEF IInv
  <1>6. ASSUME NEW t \in Threads, SetMax(t) PROVE IInv'
    BY <1>6, <1>s, ShapeSet, CountSet, PeakSet DEF IInv
  <1>7. ASSUME NEW t \in Threads, ReportLock(t) PROVE IInv'
    BY <1>7, <1>s, ShapeReport, CountReport, PeakReport DEF IInv
  <1>8. ASSUME NEW t \in Threads, FutexExitUnknown(t) PROVE IInv'
    BY <1>8, <1>s, ShapeExitUnknown, CountExitUnknown, PeakOther DEF IInv
  <1>9. ASSUME NEW t \in Threads, FutexExit(t) PROVE IInv'
    BY <1>9, <1>s, ShapeExit, CountExit, PeakOther DEF IInv
  <1>10. ASSUME NEW t \in Threads, SubtractUser(t) PROVE IInv'
    BY <1>10, <1>s, ShapeSubtract, CountSubtract, PeakOther DEF IInv
  <1>11. ASSUME NEW t \in Threads, FutexExitFailed(t) PROVE IInv'
    <2>1. pc[t] = "record" /\ Leave(t) /\ UNCHANGED <<elem, lock_map, raced, leaked>>
      BY <1>11 DEF FutexExitFailed, history
    <2> QED BY <2>1, <1>11, <1>s, ShapeExitFailed, CountLeave, PeakOther DEF IInv
  <1>12. ASSUME NEW t \in Threads, NEW d \in Durations, FutexExitRecord(t, d) PROVE IInv'
    <2>1. pc[t] = "record" /\ Leave(t) /\ UNCHANGED <<elem, lock_map, raced, leaked>>
      BY <1>12 DEF FutexExitRecord
    <2> QED BY <2>1, <1>12, <1>s, ShapeExitRecord, CountLeave, PeakOther DEF IInv
  <1>13. ASSUME UNCHANGED vars PROVE IInv'
    <2>0. /\ UNCHANGED <<pc, call, ptr, seen, start, lock_map, elem, hists, reported, calls>>
          /\ UNCHANGED <<raced, leaked, peak>>
      BY <1>13 DEF vars, handlers, maps, history
    <2>1. Shape'
      BY <1>s, <2>0 DEF Shape, TypeOK, ThreadInv, PtrInv, MapInv
    <2>2. \A l \in Locks : Counted(l)' = Counted(l)
      BY <2>0 DEF Counted, Inside, Present
    <2>3. FullInv' /\ CountExact'
      BY <2>0, <2>2, SameEntries, FullKept, CountKept DEF IInv
    <2>4. PeakInv'
      BY <2>0, <1>s, PeakKept DEF IInv, Shape
    <2>5. NoFalseAlarm'
      BY <2>0, SameEntries, AlarmKept DEF IInv
    <2> QED BY <2>1, <2>3, <2>4, <2>5 DEF IInv
  <1> QED BY <1>1, <1>2, <1>3, <1>4, <1>5, <1>6, <1>7, <1>8, <1>9, <1>10, <1>11, <1>12, <1>13
          DEF Next, Quiet

LEMMA Invariance == Spec => []IInv
  BY InitIInv, NextIInv, PTL DEF Spec

\* The values of all variables keep to their sets; in particular a handler's
\* pointer and the entries of lock_map are indices of entries that exist, and
\* the counters stay in a machine word.
THEOREM TypeCorrect == Spec => []TypeOK
  <1>1. IInv => TypeOK
    BY DEF IInv, Shape
  <1> QED BY Invariance, <1>1, PTL

\* Of a lock whose first users did not race, and for whose threads start had
\* room, user_cnt is the number of threads between the increment in
\* futex_enter and the decrement in futex_exit, whatever the interleaving of
\* the handlers: the counter neither drifts nor wraps.
THEOREM CounterExact == Spec => []CountExact
  <1>1. IInv => CountExact
    BY DEF IInv
  <1> QED BY Invariance, <1>1, PTL

\* The unlocked load, comparison and store of max_user_cnt never invents a
\* peak: such a lock is reported only if more than MaxLockHoldUsers threads
\* were inside at once.
THEOREM NoFalseReport == Spec => []NoFalseAlarm
  <1>1. IInv => NoFalseAlarm
    BY DEF IInv
  <1> QED BY Invariance, <1>1, PTL

\* futex_exit never finds in start the lock of an earlier call of the thread.
THEOREM StartOfThisCall == Spec => []StartPaired
  <1>1. IInv => StartPaired
    BY DEF IInv, Shape, ThreadInv, StartPaired
  <1> QED BY Invariance, <1>1, PTL

----------------------------------------------------------------------------
(***************************************************************************)
(* The statistics of the waits.  What FoldLeft computes is proved by       *)
(* induction on the length of the sequence.                                *)
(***************************************************************************)

Less == {p \in Nat \X Nat : p[1] < p[2]}

\* Induction: a set of numbers that is not empty has a least one.
LEMMA NatLeast ==
    ASSUME NEW T \in SUBSET Nat, T # {}
    PROVE  \E n \in T : \A m \in T : n <= m
  <1>1. IsWellFoundedOn(Less, Nat)
    BY NatLessThanWellFounded DEF OpToRel, Less
  <1>2. PICK n \in T : \A m \in T : <<m, n>> \notin Less
    BY <1>1, WFMin
  <1>3. \A m \in T : ~(m < n)
    BY <1>2 DEF Less
  <1> QED BY <1>3

\* The largest number of a set that is bounded by one of its members.
LEMMA MaxIs ==
    ASSUME NEW n \in Nat, NEW S, S \subseteq 1..n, n \in S
    PROVE  Max(S) = n
  <1>1. n \in S /\ \A y \in S : n >= y
    OBVIOUS
  <1>2. Max(S) \in S /\ \A y \in S : Max(S) >= y
    BY <1>1 DEF Max
  <1>3. PICK m \in S : m = Max(S)
    BY <1>2
  <1>4. m \in Nat /\ m >= n /\ n >= m
    BY <1>1, <1>2, <1>3
  <1> QED BY <1>3, <1>4

\* The function FoldLeft(+, 0, s) is defined by, on the parts of 1..n.
Adds(f, s, n) ==
    f = [S \in SUBSET (1..n) |-> IF S = {} THEN 0 ELSE f[S \ {Max(S)}] + s[Max(S)]]

LEMMA AddsExists ==
    ASSUME NEW s
    PROVE  \A n \in Nat : \E f : Adds(f, s, n)
  <1> DEFINE T == {n \in Nat : ~ \E f : Adds(f, s, n)}
  <1> SUFFICES ASSUME T # {} PROVE FALSE
      OBVIOUS
  <1>1. PICK m \in T : \A k \in T : m <= k
    <2>1. T \in SUBSET Nat
      OBVIOUS
    <2> HIDE DEF T
    <2> QED BY <2>1, NatLeast
  <1>2. m \in Nat /\ ~ \E f : Adds(f, s, m)
    BY <1>1
  <1>3. CASE m = 0
    <2> DEFINE g == [S \in SUBSET (1..0) |-> 0]
    <2>1. \A S \in SUBSET (1..0) : S = {} /\ g[S] = 0
      OBVIOUS
    <2>2. g = [S \in SUBSET (1..0) |-> IF S = {} THEN 0 ELSE g[S \ {Max(S)}] + s[Max(S)]]
      BY <2>1
    <2>3. Adds(g, s, 0)
      <3> HIDE DEF g
      <3> QED BY <2>2 DEF Adds
    <2> QED BY <1>2, <1>3, <2>3
  <1>4. CASE m # 0
    <2>1. m - 1 \in Nat /\ m - 1 \notin T
      BY <1>1, <1>2, <1>4
    <2>2. PICK f : Adds(f, s, m - 1)
      BY <2>1
    <2> DEFINE g == [S \in SUBSET (1..m) |-> IF m \in S THEN f[S \ {m}] + s[m] ELSE f[S]]
    <2>3. ASSUME NEW S \in SUBSET (1..m)
          PROVE  g[S] = IF S = {} THEN 0 ELSE g[S \ {Max(S)}] + s[Max(S)]
      <3>1. CASE m \in S
        <4>1. Max(S) = m
          BY <1>2, <3>1, MaxIs
        <4>2. S \ {m} \in SUBSET (1..m) /\ m \notin S \ {m}
          OBVIOUS
        <4>3. g[S \ {m}] = f[S \ {m}]
          BY <4>2
        <4>4. g[S] = f[S \ {m}] + s[m]
          BY <3>1
        <4> HIDE DEF g
        <4> QED BY <3>1, <4>1, <4>3, <4>4
      <3>2. CASE m \notin S
        <4>1. S \in SUBSET (1..(m - 1))
          BY <1>2, <3>2
        <4>2. f[S] = IF S = {} THEN 0 ELSE f[S \ {Max(S)}] + s[Max(S)]
          BY <2>2, <4>1 DEF Adds
        <4>3. g[S] = f[S]
          BY <3>2
        <4>4. g[S \ {Max(S)}] = f[S \ {Max(S)}]
          <5>1. S \ {Max(S)} \in SUBSET (1..m) /\ m \notin S \ {Max(S)}
            BY <3>2
          <5> QED BY <5>1
        <4> HIDE DEF g
        <4> QED BY <4>2, <4>3, <4>4
      <3> QED BY <3>1, <3>2
    <2>4. g = [S \in SUBSET (1..m) |-> g[S]]
      OBVIOUS
    <2>5. Adds(g, s, m)
      <3> HIDE DEF g
      <3> QED BY <2>3, <2>4 DEF Adds
    <2> HIDE DEF g
    <2> QED BY <1>2, <2>5
  <1> QED BY <1>3, <1>4

\* The sum of the first m elements.
LEMMA AddsFirst ==
    ASSUME NEW s, NEW n \in Nat, NEW f, Adds(f, s, n)
    PROVE  /\ f[1..0] = 0
           /\ \A m \in Nat : m + 1 <= n => f[1..(m + 1)] = f[1..m] + s[m + 1]
  <1>1. 1..0 = {} /\ 1..0 \in SUBSET (1..n)
    OBVIOUS
  <1>2. f[1..0] = 0
    BY <1>1 DEF Adds
  <1>3. ASSUME NEW m \in Nat, m + 1 <= n PROVE f[1..(m + 1)] = f[1..m] + s[m + 1]
    <2>1. /\ 1..(m + 1) \in SUBSET (1..n) /\ m + 1 \in 1..(m + 1) /\ m + 1 \in Nat
          /\ 1..(m + 1) # {}
      BY <1>3
    <2>2. Max(1..(m + 1)) = m + 1
      BY <2>1, MaxIs
    <2>3. (1..(m + 1)) \ {m + 1} = 1..m
      OBVIOUS
    <2>4. f[1..(m + 1)] = f[(1..(m + 1)) \ {Max(1..(m + 1))}] + s[Max(1..(m + 1))]
      BY <2>1 DEF Adds
    <2> QED BY <2>2, <2>3, <2>4
  <1> QED BY <1>2, <1>3

\* The sum of a sequence.
Total(s) == FoldLeft(+, 0, s)

LEMMA FoldIsAdds ==
    ASSUME NEW s \in Seq(Nat)
    PROVE  \E f : Adds(f, s, Len(s)) /\ Total(s) = f[1..Len(s)]
  <1> DEFINE f == CHOOSE g : Adds(g, s, Len(s))
  <1>1. Len(s) \in Nat /\ DOMAIN s = 1..Len(s)
    OBVIOUS
  <1>2. Adds(f, s, Len(s))
    <2>1. \E g : Adds(g, s, Len(s))
      BY <1>1, AddsExists
    <2> QED BY <2>1
  <1>3. Total(s) = f[1..Len(s)]
    BY <1>1 DEF Total, FoldLeft, MapThenFoldSet, Adds
  <1> QED BY <1>2, <1>3

\* Two sums of the same first elements agree, and they are numbers.
LEMMA AddsAgree ==
    ASSUME NEW s \in Seq(Nat), NEW q, NEW n \in Nat, NEW k \in Nat, n <= Len(s), n <= k,
           \A i \in 1..n : q[i] = s[i],
           NEW f, Adds(f, s, Len(s)), NEW g, Adds(g, q, k)
    PROVE  f[1..n] = g[1..n] /\ f[1..n] \in Nat
  <1> DEFINE T == {m \in 0..n : ~(f[1..m] = g[1..m] /\ f[1..m] \in Nat)}
  <1>0. Len(s) \in Nat
    OBVIOUS
  <1>1. T = {}
    <2> SUFFICES ASSUME T # {} PROVE FALSE
        OBVIOUS
    <2>1. PICK m \in T : \A j \in T : m <= j
      <3>1. T \in SUBSET Nat
        OBVIOUS
      <3> HIDE DEF T
      <3> QED BY <3>1, NatLeast
    <2>2. m \in 0..n /\ ~(f[1..m] = g[1..m] /\ f[1..m] \in Nat)
      BY <2>1
    <2>3. CASE m = 0
      <3>1. f[1..0] = 0 /\ g[1..0] = 0
        BY <1>0, AddsFirst
      <3> QED BY <2>2, <2>3, <3>1
    <2>4. CASE m # 0
      <3>1. PICK j \in Nat : m = j + 1
        <4>1. m - 1 \in Nat /\ m = (m - 1) + 1
          BY <2>2, <2>4
        <4> QED BY <4>1
      <3>2. j \in 0..n /\ j \notin T /\ j + 1 <= Len(s) /\ j + 1 <= k /\ j + 1 \in 1..n
        BY SMTT(30), <1>0, <2>1, <2>2, <3>1
      <3>3. f[1..j] = g[1..j] /\ f[1..j] \in Nat
        BY <3>2
      <3>4. f[1..(j + 1)] = f[1..j] + s[j + 1]
        BY <1>0, <3>2, AddsFirst
      <3>5. g[1..(j + 1)] = g[1..j] + q[j + 1]
        BY SMTT(30), <3>2, AddsFirst
      <3>6. q[j + 1] = s[j + 1] /\ s[j + 1] \in Nat
        BY SMTT(30), <1>0, <3>2
      <3> QED BY SMTT(30), <2>2, <3>1, <3>3, <3>4, <3>5, <3>6
    <2> QED BY <2>3, <2>4
  <1>2. n \in 0..n /\ n \notin T
    BY <1>1
  <1> QED BY <1>2

\* Total(s), one element at a time.
LEMMA FoldAppend ==
    ASSUME NEW s \in Seq(Nat), NEW d \in Nat
    PROVE  /\ Total(s) \in Nat
           /\ Total(Append(s, d)) = Total(s) + d
  <1>1. PICK q : q = Append(s, d)
    OBVIOUS
  <1>2. /\ q \in Seq(Nat) /\ Len(q) = Len(s) + 1 /\ q[Len(s) + 1] = d /\ Len(s) \in Nat
        /\ \A i \in 1..Len(s) : q[i] = s[i]
    BY <1>1
  <1>3. PICK f : Adds(f, s, Len(s)) /\ Total(s) = f[1..Len(s)]
    BY FoldIsAdds
  <1>4. PICK g : Adds(g, q, Len(q)) /\ Total(q) = g[1..Len(q)]
    BY <1>2, FoldIsAdds
  <1>5. f[1..Len(s)] = g[1..Len(s)] /\ f[1..Len(s)] \in Nat
    <2>1. PICK n \in Nat : n = Len(s)
      BY <1>2
    <2>2. PICK k \in Nat : k = Len(q)
      BY <1>2
    <2>3. n <= Len(s) /\ n <= k /\ \A i \in 1..n : q[i] = s[i]
      BY <1>2, <2>1, <2>2
    <2>4. Adds(f, s, Len(s)) /\ Adds(g, q, k)
      BY <1>3, <1>4, <2>2
    <2>5. f[1..n] = g[1..n] /\ f[1..n] \in Nat
      BY <2>3, <2>4, AddsAgree
    <2> QED BY <2>1, <2>5
  <1>6. g[1..(Len(s) + 1)] = g[1..Len(s)] + q[Len(s) + 1]
    <2>1. Len(s) + 1 <= Len(q) /\ Len(q) \in Nat
      BY <1>2
    <2> QED BY <1>2, <1>4, <2>1, AddsFirst
  <1> QED BY <1>1, <1>2, <1>3, <1>4, <1>5, <1>6

LEMMA FoldEmpty == Total(<<>>) = 0
  <1>1. <<>> \in Seq(Nat) /\ Len(<<>>) = 0
    OBVIOUS
  <1>2. PICK f : Adds(f, <<>>, Len(<<>>)) /\ Total(<<>>) = f[1..Len(<<>>)]
    BY <1>1, FoldIsAdds
  <1>3. PICK z \in Nat : z = 0
    OBVIOUS
  <1>4. f[1..0] = 0
    BY <1>1, <1>2, <1>3, AddsFirst
  <1> QED BY <1>1, <1>2, <1>4

\* When no element is less than d, neither is the average.
LEMMA FoldAtLeast ==
    ASSUME NEW s \in Seq(Nat), NEW d \in Nat, \A i \in 1..Len(s) : s[i] >= d
    PROVE  Total(s) >= Len(s) * d
  <1>1. PICK f : Adds(f, s, Len(s)) /\ Total(s) = f[1..Len(s)]
    BY FoldIsAdds
  <1>0. Len(s) \in Nat
    OBVIOUS
  <1> DEFINE T == {m \in 0..Len(s) : ~(f[1..m] \in Nat /\ f[1..m] >= m * d)}
  <1>2. T = {}
    <2> SUFFICES ASSUME T # {} PROVE FALSE
        OBVIOUS
    <2>1. PICK m \in T : \A j \in T : m <= j
      <3>1. T \in SUBSET Nat
        OBVIOUS
      <3> HIDE DEF T
      <3> QED BY <3>1, NatLeast
    <2>2. m \in 0..Len(s) /\ ~(f[1..m] \in Nat /\ f[1..m] >= m * d)
      BY <2>1
    <2>3. CASE m = 0
      <3>1. f[1..0] = 0
        BY <1>0, <1>1, AddsFirst
      <3> QED BY <2>2, <2>3, <3>1
    <2>4. CASE m # 0
      <3>1. PICK j \in Nat : m = j + 1
        <4>1. m - 1 \in Nat /\ m = (m - 1) + 1
          BY <2>2, <2>4
        <4> QED BY <4>1
      <3>2. j \in 0..Len(s) /\ j \notin T /\ j + 1 <= Len(s) /\ j + 1 \in 1..Len(s)
        BY <1>0, <2>1, <2>2, <3>1
      <3>3. f[1..j] \in Nat /\ f[1..j] >= j * d
        BY <3>2
      <3>4. f[1..(j + 1)] = f[1..j] + s[j + 1]
        BY <1>0, <1>1, <3>2, AddsFirst
      <3>5. s[j + 1] \in Nat /\ s[j + 1] >= d
        BY SMTT(30), <1>0, <3>2
      <3>6. (j + 1) * d = j * d + d /\ j * d \in Nat
        OBVIOUS
      <3>7. f[1..(j + 1)] \in Nat /\ f[1..(j + 1)] >= (j + 1) * d
        BY SMTT(30), <3>3, <3>4, <3>5, <3>6
      <3> QED BY <2>2, <3>1, <3>7
    <2> QED BY <2>3, <2>4
  <1>3. Len(s) \in 0..Len(s) /\ Len(s) \notin T
    BY <1>0, <1>2
  <1> QED BY <1>1, <1>3

\* A duration above the average is above one of the durations.
LEMMA AboveAverage ==
    ASSUME NEW s \in Seq(Nat), s # <<>>, NEW d \in Nat, d > Total(s) \div Len(s)
    PROVE  \E i \in DOMAIN s : s[i] < d
  <1>1. Len(s) \in Nat /\ Len(s) > 0 /\ DOMAIN s = 1..Len(s)
    OBVIOUS
  <1>2. SUFFICES ASSUME \A i \in 1..Len(s) : s[i] >= d PROVE FALSE
    BY <1>1
  <1>3. PICK x \in Nat : x = Total(s)
    BY FoldAppend
  <1>4. PICK n \in Nat : n = Len(s) /\ n > 0
    BY <1>1
  <1>5. x >= n * d
    BY <1>2, <1>3, <1>4, FoldAtLeast
  <1>6. d > x \div n
    BY <1>3, <1>4
  <1>7. PICK q \in Nat : q = x \div n
    BY <1>4
  <1>8. x < n * q + n
    BY <1>4, <1>7
  <1>9. q + 1 <= d
    BY <1>6, <1>7
  <1>10. n * (q + 1) <= n * d
    BY <1>4, <1>9
  <1>11. n * (q + 1) = n * q + n
    OBVIOUS
  <1> QED BY <1>5, <1>8, <1>10, <1>11

\* What the statistics h of a thread and a lock say of the durations s that
\* were recorded.
Exact(h, s) ==
    /\ h.contended = Len(s)
    /\ h.total_elapsed = Total(s)
    /\ s = <<>> => h.min_dur = 0
    /\ s # <<>> /\ 0 \notin ToSet(s) =>
          h.min_dur \in ToSet(s) /\ \A x \in ToSet(s) : h.min_dur <= x
    /\ h.delta_dur # 0 =>
          h.delta_dur \in ToSet(s) /\ \E i \in DOMAIN s : s[i] < h.delta_dur

HistsInv ==
    /\ durs \in [Key -> Seq(Nat)]
    /\ \A k \in Key : Exact(hists[k], durs[k])

\* One more wait.
LEMMA ExactStep ==
    ASSUME NEW h \in HistRec, NEW s \in Seq(Nat), NEW d \in Nat, Exact(h, s)
    PROVE  Exact(ReportTask(AddDuration(h, d), d), Append(s, d))
  <1>1. PICK q \in Seq(Nat) : q = Append(s, d)
    <2>1. Append(s, d) \in Seq(Nat)
      BY AppendProperties
    <2> QED BY <2>1
  <1>2. /\ Len(q) = Len(s) + 1 /\ q[Len(s) + 1] = d /\ Len(s) \in Nat
        /\ (\A i \in 1..Len(s) : q[i] = s[i])
        /\ DOMAIN q = 1..Len(q) /\ DOMAIN s = 1..Len(s)
    BY <1>1
  <1>3. q # <<>> /\ ToSet(q) = ToSet(s) \cup {d}
    <2>1. \A i \in 1..Len(q) : i \in 1..Len(s) \/ i = Len(s) + 1
      BY <1>2
    <2>2. \A x \in ToSet(q) : x \in ToSet(s) \/ x = d
      BY <1>2, <2>1 DEF ToSet
    <2>3. \A x \in ToSet(s) : x \in ToSet(q)
      <3> SUFFICES ASSUME NEW i \in 1..Len(s) PROVE s[i] \in ToSet(q)
          BY <1>2 DEF ToSet
      <3>1. i \in DOMAIN q /\ q[i] = s[i]
        BY <1>2
      <3> QED BY <3>1 DEF ToSet
    <2>4. d \in ToSet(q)
      <3>1. Len(s) + 1 \in DOMAIN q
        BY <1>2
      <3> QED BY <1>2, <3>1 DEF ToSet
    <2>5. q # <<>>
      BY <1>2
    <2> QED BY <2>2, <2>3, <2>4, <2>5
  <1>4. Total(s) \in Nat /\ Total(q) = Total(s) + d
    BY <1>1, FoldAppend
  <1>5. PICK g \in HistRec : g = AddDuration(h, d)
    <2>1. AddDuration(h, d) \in HistRec
      <3>1. h.contended + 1 \in Nat /\ h.total_elapsed + d \in Nat
            /\ (IF h.min_dur = 0 \/ h.min_dur > d THEN d ELSE h.min_dur) \in Nat
        BY DEF HistRec
      <3> QED BY <3>1 DEF AddDuration, HistRec
    <2> QED BY <2>1
  <1>6. /\ g.contended = h.contended + 1 /\ g.total_elapsed = h.total_elapsed + d
        /\ g.min_dur = (IF h.min_dur = 0 \/ h.min_dur > d THEN d ELSE h.min_dur)
        /\ g.delta_dur = h.delta_dur
    BY <1>5 DEF AddDuration, HistRec
  <1>7. g.contended = Len(q) /\ g.total_elapsed = Total(q)
    BY <1>2, <1>4, <1>6 DEF Exact
  <1>8. ASSUME 0 \notin ToSet(q)
        PROVE  g.min_dur \in ToSet(q) /\ \A x \in ToSet(q) : g.min_dur <= x
    <2>1. h.min_dur \in Nat /\ ToSet(s) \subseteq Nat
      <3>1. \A i \in DOMAIN s : s[i] \in Nat
        BY <1>2
      <3> QED BY <3>1 DEF HistRec, ToSet
    <2>2. CASE s = <<>>
      <3>1. h.min_dur = 0 /\ ToSet(s) = {}
        BY <2>2 DEF Exact, ToSet
      <3> QED BY <1>3, <1>6, <3>1
    <2>3. CASE s # <<>>
      <3>1. 0 \notin ToSet(s)
        BY <1>3, <1>8
      <3>2. h.min_dur \in ToSet(s) /\ \A x \in ToSet(s) : h.min_dur <= x
        BY <2>3, <3>1 DEF Exact
      <3>3. h.min_dur # 0
        BY <3>1, <3>2
      <3>4. CASE h.min_dur > d
        <4>1. g.min_dur = d
          BY <1>6, <3>4
        <4>2. \A x \in ToSet(s) : d <= x
          BY <2>1, <3>2, <3>4
        <4> QED BY <1>3, <4>1, <4>2
      <3>5. CASE ~(h.min_dur > d)
        <4>1. g.min_dur = h.min_dur
          BY <1>6, <3>3, <3>5
        <4>2. h.min_dur <= d
          BY <2>1, <3>5
        <4> QED BY <1>3, <3>2, <4>1, <4>2
      <3> QED BY <3>4, <3>5
    <2> QED BY <2>2, <2>3
  <1>9. g.delta_dur # 0 => g.delta_dur \in ToSet(q) /\ \E i \in DOMAIN q : q[i] < g.delta_dur
    <2> SUFFICES ASSUME h.delta_dur # 0
                 PROVE  h.delta_dur \in ToSet(q) /\ \E i \in DOMAIN q : q[i] < h.delta_dur
        BY <1>6
    <2>1. h.delta_dur \in ToSet(s)
      BY DEF Exact
    <2>2. PICK i \in DOMAIN s : s[i] < h.delta_dur
      BY DEF Exact
    <2>3. i \in DOMAIN q /\ q[i] = s[i]
      BY <1>2
    <2> QED BY <1>3, <2>1, <2>2, <2>3
  <1>10. Exact(g, q)
    BY <1>3, <1>7, <1>8, <1>9 DEF Exact
  <1>11. CASE ~(d > MinDur /\ d < MaxDur /\ d > g.total_elapsed \div g.contended)
    <2>1. ReportTask(g, d) = g
      BY <1>11 DEF ReportTask
    <2> QED BY <1>1, <1>5, <1>10, <2>1
  <1>12. CASE d > MinDur /\ d < MaxDur /\ d > g.total_elapsed \div g.contended
    <2>1. PICK r : r = ReportTask(g, d)
      OBVIOUS
    <2>2. /\ r.contended = g.contended /\ r.total_elapsed = g.total_elapsed
          /\ r.min_dur = g.min_dur /\ r.delta_dur = d
      <3>1. r = [g EXCEPT !.delta_dur = d]
        BY <1>12, <2>1 DEF ReportTask
      <3> QED BY <3>1 DEF HistRec
    <2>3. d > Total(q) \div Len(q)
      BY <1>7, <1>12
    <2>4. \E i \in DOMAIN q : q[i] < d
      BY <1>3, <2>3, AboveAverage
    <2>5. Exact(r, q)
      BY <1>3, <1>10, <2>2, <2>4 DEF Exact
    <2> QED BY <1>1, <1>5, <2>1, <2>5
  <1> QED BY <1>11, <1>12

LEMMA InitHists == Init => HistsInv
  <1> SUFFICES ASSUME Init PROVE HistsInv
      OBVIOUS
  <1>1. \A k \in Key : hists[k] = NoHist /\ durs[k] = <<>>
    BY DEF Init
  <1>2. durs \in [Key -> Seq(Nat)]
    <2>1. <<>> \in Seq(Nat) /\ durs = [k \in Key |-> <<>>]
      BY DEF Init
    <2> QED BY <2>1
  <1>3. Total(<<>>) = 0 /\ Len(<<>>) = 0
    BY FoldEmpty
  <1>4. Exact(NoHist, <<>>)
    BY <1>3 DEF Exact, NoHist
  <1> QED BY <1>1, <1>2, <1>4 DEF HistsInv

\* Only futex_exit touches the statistics, and only those of its own thread.
LEMMA NextHists == IInv /\ HistsInv /\ [Next]_vars => HistsInv'
  <1> SUFFICES ASSUME IInv, HistsInv, [Next]_vars PROVE HistsInv'
      OBVIOUS
  <1>1. ASSUME UNCHANGED <<hists, durs>> PROVE HistsInv'
    BY <1>1 DEF HistsInv
  <1>2. ASSUME NEW t \in Threads, NEW d \in Durations, FutexExitRecord(t, d) PROVE HistsInv'
    <2>1. PICK k \in Key : k = <<t, start[t]>>
      BY <1>2 DEF FutexExitRecord, IInv, Shape, ThreadInv, Key
    <2>2. hists \in [Key -> HistRec] /\ durs \in [Key -> Seq(Nat)] /\ d \in Nat
      BY Consts DEF IInv, Shape, TypeOK, HistRec, HistsInv
    <2>3. \/ UNCHANGED <<hists, durs>>
          \/ /\ hists' = [hists EXCEPT ![k] = ReportTask(AddDuration(hists[k], d), d)]
             /\ durs' = [durs EXCEPT ![k] = Append(durs[k], d)]
      BY <1>2, <2>1 DEF FutexExitRecord
    <2>4. ASSUME hists' = [hists EXCEPT ![k] = ReportTask(AddDuration(hists[k], d), d)],
                 durs' = [durs EXCEPT ![k] = Append(durs[k], d)]
          PROVE  HistsInv'
      <3>1. Append(durs[k], d) \in Seq(Nat)
        BY <2>2
      <3>2. durs' \in [Key -> Seq(Nat)]
        BY <2>2, <2>4, <3>1
      <3>3. hists[k] \in HistRec /\ durs[k] \in Seq(Nat) /\ Exact(hists[k], durs[k])
        BY <2>2 DEF HistsInv
      <3>4. Exact(ReportTask(AddDuration(hists[k], d), d), Append(durs[k], d))
        BY <2>2, <3>3, ExactStep
      <3>5. /\ hists'[k] = ReportTask(AddDuration(hists[k], d), d)
            /\ durs'[k] = Append(durs[k], d)
            /\ \A j \in Key \ {k} : hists'[j] = hists[j] /\ durs'[j] = durs[j]
        BY <2>2, <2>4
      <3>6. Exact(hists'[k], durs'[k])
        BY <3>4, <3>5
      <3>7. \A j \in Key \ {k} : Exact(hists'[j], durs'[j])
        BY <3>5 DEF HistsInv
      <3> QED BY <3>2, <3>6, <3>7 DEF HistsInv
    <2> QED BY <1>1, <2>3, <2>4
  <1>3. ASSUME NEW t \in Threads,
               \/ \E l \in Locks \cup {None} : FutexEnterIgnored(t, l)
               \/ \E l \in Locks : FutexEnter(t, l)
               \/ InsertLock(t) \/ AddUser(t) \/ CompareMax(t) \/ SetMax(t) \/ ReportLock(t)
               \/ FutexExitUnknown(t) \/ FutexExit(t) \/ SubtractUser(t) \/ FutexExitFailed(t)
        PROVE  UNCHANGED <<hists, durs>>
    BY <1>3 DEF FutexEnterIgnored, FutexEnter, InsertLock, AddUser, CompareMax, SetMax, ReportLock,
                FutexExitUnknown, FutexExit, SubtractUser, FutexExitFailed, maps, history
  <1>4. ASSUME Quiet \/ UNCHANGED vars PROVE UNCHANGED <<hists, durs>>
    BY <1>4 DEF Quiet, vars, maps, history
  <1> QED BY <1>1, <1>2, <1>3, <1>4 DEF Next

LEMMA HistsInvariance == Spec => []HistsInv
  BY InitHists, NextHists, Invariance, PTL DEF Spec

\* The statistics of a thread and a lock are those of the waits recorded for
\* them: how many, their sum, the shortest, and a wait is only reported when
\* one was shorter, although futex_exit updates them with plain stores.
THEOREM HistogramsExact == Spec => []HistsExact
  <1>1. ASSUME HistsInv PROVE HistsExact
    <2>1. ASSUME NEW k \in Key, durs[k] # <<>>, 0 \notin ToSet(durs[k])
          PROVE  hists[k].min_dur = Min(ToSet(durs[k]))
      <3>1. PICK m : m = hists[k].min_dur
        OBVIOUS
      <3>2. m \in ToSet(durs[k]) /\ \A x \in ToSet(durs[k]) : m <= x
        BY <1>1, <2>1, <3>1 DEF HistsInv, Exact
      <3>3. ToSet(durs[k]) \subseteq Nat
        <4>1. durs[k] \in Seq(Nat)
          BY <1>1 DEF HistsInv
        <4> QED BY <4>1 DEF ToSet
      <3>4. PICK S : S = ToSet(durs[k])
        OBVIOUS
      <3>5. Min(S) \in S /\ \A x \in S : Min(S) <= x
        BY <3>2, <3>4 DEF Min
      <3>6. PICK n \in S : n = Min(S)
        BY <3>5
      <3>7. n \in Nat /\ m \in Nat /\ n <= m /\ m <= n
        BY <3>2, <3>3, <3>4, <3>5, <3>6
      <3> QED BY <3>1, <3>4, <3>6, <3>7
    <2>2. \A k \in Key : /\ hists[k].contended = Len(durs[k])
                         /\ hists[k].total_elapsed = Total(durs[k])
                         /\ hists[k].delta_dur # 0 =>
                               /\ hists[k].delta_dur \in ToSet(durs[k])
                               /\ \E i \in DOMAIN durs[k] : durs[k][i] < hists[k].delta_dur
      BY <1>1 DEF HistsInv, Exact
    <2> QED BY <2>1, <2>2 DEF HistsExact, Total
  <1> QED BY <1>1, HistsInvariance, PTL

=============================================================================
