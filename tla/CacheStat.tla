------------------------------ MODULE CacheStat ------------------------------
(***************************************************************************)
(* The cachestat tool: vfs_write_hook and vfs_read_hook count the accesses *)
(* of a process to a file, and their sizes, in the hash map cachestat_map, *)
(* on every CPU and without a lock; Reset of the session reads the map in  *)
(* every round and never empties it.                                       *)
(*                                                                         *)
(* A file is the address of its name.  An element of the map is a slot.    *)
(* The kernel keeps a spare slot for each CPU: an update that replaces an  *)
(* element puts the new one in the spare slot and takes the old slot as    *)
(* the next spare, while a handler may still point to it.                  *)
(***************************************************************************)
EXTENDS Integers, FiniteSets

CONSTANTS
    Cpus,
    Every,        \* -1: no filter on the process or the CPU
    Accesses,     \* what a process can do: [op, pid, file, count]
    Options,      \* values of --pid, --cpu and --cache-type to try
    Free,         \* the key of a slot that is not in the map
    Half,         \* 2^31 in the code: an int is less, and at least -Half
    MapSize,      \* CACHESTAT_MAP_SIZE, 10240 in the code
    MaxAccesses,  \* bound on the accesses
    MaxRounds     \* bound on the rounds of the session

READ_WRITE_CACHE == 0
READ_CACHE  == 1
WRITE_CACHE == 2

ASSUME CacheStatAssumption ==
    /\ IsFiniteSet(Cpus) /\ Cpus \cap Nat = {} /\ Every \notin Cpus
    /\ {Half, MapSize} \subseteq Nat \ {0} /\ {MaxAccesses, MaxRounds} \subseteq Nat
    /\ \A a \in Accesses : a.op \in {"read", "write"} /\ a.count \in Nat /\ a.pid # Every
    /\ \A o \in Options : o.cache_type \in {READ_WRITE_CACHE, READ_CACHE, WRITE_CACHE}

Slots == 1..MapSize \cup Cpus      \* a CPU stands for the slot it is given first
Key   == {[pid |-> a.pid, file |-> a.file] : a \in Accesses}
Ops   == {"read", "write"}

ASSUME FreeAssumption == Free \notin Key

VARIABLES
    args_map,
    cpu,        \* cpu[c]: the handler running on c, see Idle
    key,        \* key[i]: the key of the element in slot i, or Free
    info,       \* info[i]: its value: cnt, and size (read_size and write_size)
    spare,      \* spare[c]: the slot kept for CPU c
    reading,    \* whether Reset is reading the map
    must,       \* keys that were in the map when it began
    rows,       \* rows[k]: the cnt this round has read for key k
    accesses, rounds,
    begun,      \* history: begun[k], accesses of k that passed the filters
    done,       \* history: done[k], those whose handler has ended
    moved,      \* history: moved[k], their sizes for each operation
    owed,       \* history: done when the round began
    raced,      \* history: keys with two handlers at once, or refused
    stale       \* history: keys hit by a store through an outdated pointer

truth == <<begun, done, moved, raced, stale>>
vars  == <<args_map, cpu, key, info, spare, reading, must, rows, accesses, rounds, owed, truth>>

Idle    == [pc |-> "idle", op |-> "read", key |-> Free, count |-> 0, ptr |-> 0, seen |-> 0,
            gone |-> FALSE]
NoInfo  == [cnt |-> 0, size |-> [op \in Ops |-> 0]]
Present == {key[i] : i \in Slots} \ {Free}
SlotOf(k) == CHOOSE i \in Slots : key[i] = k

Init ==
    /\ args_map \in Options
    /\ cpu = [c \in Cpus |-> Idle]
    /\ key = [i \in Slots |-> Free] /\ info = [i \in Slots |-> NoInfo]
    /\ spare = [c \in Cpus |-> c]
    /\ reading = FALSE /\ must = {} /\ rows = [k \in {} |-> 0]
    /\ accesses = 0 /\ rounds = 0
    /\ begun = [k \in Key |-> 0] /\ done = [k \in Key |-> 0] /\ owed = [k \in Key |-> 0]
    /\ moved = [k \in Key |-> [op \in Ops |-> 0]]
    /\ raced = {} /\ stale = {}

----------------------------------------------------------------------------
\* The filters of the two hooks.
Targeted(c, a) ==
    /\ args_map.pid \in {Every, a.pid}
    /\ args_map.cpu \in {Every, c}
    /\ args_map.cache_type # (IF a.op = "write" THEN READ_CACHE ELSE WRITE_CACHE)

\* Faulty: the cast is to unsigned int.
ToIntUnsigned(n) == n % (2 * Half)

\* The cast of the third argument to int.
ToInt(n) == LET m == n % (2 * Half) IN IF m < Half THEN m ELSE m - 2 * Half

\* The addition to an unsigned 64-bit field.
AddSize(s, n) == (s + n) % (4 * Half * Half)

\* The handlers that have looked k up and not ended.
Using(k) == {c \in Cpus : cpu[c].key = k}

\* vfs_write_hook or vfs_read_hook on CPU c up to the lookup.
VfsHook(c, a) ==
    /\ cpu[c].pc = "idle" /\ accesses < MaxAccesses /\ Targeted(c, a)
    /\ accesses' = accesses + 1
    /\ LET k == [pid |-> a.pid, file |-> a.file]
           found == k \in Present
       IN  /\ cpu' = [cpu EXCEPT ![c] = [Idle EXCEPT
                         !.pc = IF found THEN "loadSize" ELSE "insert", !.op = a.op, !.key = k,
                         !.count = ToInt(a.count), !.ptr = IF found THEN SlotOf(k) ELSE 0]]
           /\ begun' = [begun EXCEPT ![k] = @ + 1]
           /\ moved' = [moved EXCEPT ![k][a.op] = @ + a.count]
           /\ raced' = IF Using(k) # {} THEN raced \cup {k} ELSE raced
    /\ UNCHANGED <<args_map, key, info, spare, reading, must, rows, rounds, owed, done, stale>>

\* The end of a handler.
End(c) ==
    /\ cpu' = [d \in Cpus |-> IF d = c THEN Idle ELSE cpu[d]]
    /\ done' = [done EXCEPT ![cpu[c].key] = @ + 1]

\* Slots of the map that hold nothing.
Unused == {i \in Slots : key[i] = Free /\ \A c \in Cpus : spare[c] # i}

\* Faulty: the first access is not counted.
FirstInfoUncounted(c) ==
    [cnt |-> 0, size |-> [op \in Ops |-> IF op = cpu[c].op THEN AddSize(0, cpu[c].count) ELSE 0]]

\* The value of a new element.
FirstInfo(c) ==
    [cnt |-> 1, size |-> [op \in Ops |-> IF op = cpu[c].op THEN AddSize(0, cpu[c].count) ELSE 0]]

\* Faulty: the access that inserts the element is then added to it.
InsertNewAndAdd(c) ==
    /\ cpu[c].pc = "insert" /\ cpu[c].key \notin Present
    /\ Cardinality(Present) < MapSize
    /\ LET i == CHOOSE j \in Unused : TRUE
       IN  /\ key' = [key EXCEPT ![i] = cpu[c].key]
           /\ info' = [info EXCEPT ![i] = FirstInfo(c)]
           /\ cpu' = [cpu EXCEPT ![c].pc = "loadSize", ![c].ptr = i]
    /\ UNCHANGED <<args_map, spare, reading, must, rows, accesses, rounds, owed, truth>>

\* bpf_map_update_elem with BPF_ANY: nobody has inserted the key meanwhile.
InsertNew(c) ==
    /\ cpu[c].pc = "insert" /\ cpu[c].key \notin Present
    /\ IF Cardinality(Present) < MapSize
       THEN /\ LET i == CHOOSE j \in Unused : TRUE
               IN  /\ key' = [key EXCEPT ![i] = cpu[c].key]
                   /\ info' = [info EXCEPT ![i] = FirstInfo(c)]
            /\ raced' = raced
       ELSE /\ UNCHANGED <<key, info>>
            /\ raced' = raced \cup {cpu[c].key}
    /\ End(c)
    /\ UNCHANGED <<args_map, spare, reading, must, rows, accesses, rounds, owed, begun, moved, stale>>

\* The same when another CPU has: its element is replaced.
InsertOver(c) ==
    /\ cpu[c].pc = "insert" /\ cpu[c].key \in Present
    /\ LET old == SlotOf(cpu[c].key)
       IN  /\ key' = [key EXCEPT ![old] = Free, ![spare[c]] = cpu[c].key]
           /\ info' = [info EXCEPT ![spare[c]] = FirstInfo(c)]
           /\ spare' = [spare EXCEPT ![c] = old]
           /\ cpu' = [d \in Cpus |-> IF d = c THEN Idle
                                     ELSE [cpu[d] EXCEPT !.gone = @ \/ cpu[d].ptr = old]]
    /\ done' = [done EXCEPT ![cpu[c].key] = @ + 1]
    /\ UNCHANGED <<args_map, reading, must, rows, accesses, rounds, owed, begun, moved, raced, stale>>

\* The size is loaded; it is stored and the count loaded; the count is stored.
LoadSize(c) ==
    /\ cpu[c].pc = "loadSize"
    /\ cpu' = [cpu EXCEPT ![c].pc = "storeSize", ![c].seen = info[cpu[c].ptr].size[cpu[c].op]]
    /\ UNCHANGED <<args_map, key, info, spare, reading, must, rows, accesses, rounds, owed, truth>>

\* A store of CPU c is outdated when its slot now holds an element it did not
\* look up.
Stored(c) == stale' = IF cpu[c].gone THEN stale \cup ({key[cpu[c].ptr]} \ {Free}) ELSE stale

StoreSize(c) ==
    /\ cpu[c].pc = "storeSize"
    /\ info' = [info EXCEPT ![cpu[c].ptr].size[cpu[c].op] = AddSize(cpu[c].seen, cpu[c].count)]
    /\ cpu' = [cpu EXCEPT ![c].pc = "storeCnt", ![c].seen = info[cpu[c].ptr].cnt]
    /\ Stored(c)
    /\ UNCHANGED <<args_map, key, spare, reading, must, rows, accesses, rounds, owed, begun, done, moved, raced>>

StoreCnt(c) ==
    /\ cpu[c].pc = "storeCnt"
    /\ info' = [info EXCEPT ![cpu[c].ptr].cnt = cpu[c].seen + 1]
    /\ End(c) /\ Stored(c)
    /\ UNCHANGED <<args_map, key, spare, reading, must, rows, accesses, rounds, owed, begun, moved, raced>>

----------------------------------------------------------------------------
\* The ticker: Reset begins to read, with a batch or by iterating.
Tick ==
    /\ ~reading /\ rounds < MaxRounds
    /\ reading' = TRUE /\ rounds' = rounds + 1
    /\ must' = Present /\ owed' = done /\ rows' = [k \in {} |-> 0]
    /\ UNCHANGED <<args_map, cpu, key, info, spare, accesses, truth>>

\* The value of key k is read; one that came in between may be.
ReadValue(k) ==
    /\ reading /\ k \in Present \ DOMAIN rows
    /\ rows' = [j \in DOMAIN rows \cup {k} |-> IF j = k THEN info[SlotOf(k)].cnt ELSE rows[j]]
    /\ UNCHANGED <<args_map, cpu, key, info, spare, reading, must, accesses, rounds, owed, truth>>

\* Faulty: a part of the keys is taken for all of them.
EndResetEarly ==
    /\ reading /\ (must = {} \/ DOMAIN rows # {})
    /\ reading' = FALSE
    /\ UNCHANGED <<args_map, cpu, key, info, spare, must, rows, accesses, rounds, owed, truth>>

\* Everything that was there has been read and is sent.
EndReset ==
    /\ reading /\ must \subseteq DOMAIN rows
    /\ reading' = FALSE
    /\ UNCHANGED <<args_map, cpu, key, info, spare, must, rows, accesses, rounds, owed, truth>>

\* Nothing more to do, or nothing that the filters let through.
Quiet ==
    /\ ~reading /\ rounds = MaxRounds /\ \A c \in Cpus : cpu[c].pc = "idle"
    /\ accesses = MaxAccesses \/ \A c \in Cpus, a \in Accesses : ~Targeted(c, a)
    /\ UNCHANGED vars

Next ==
    \/ \E c \in Cpus :
        \/ \E a \in Accesses : VfsHook(c, a)
        \/ InsertNew(c) \/ InsertOver(c)
        \/ LoadSize(c) \/ StoreSize(c) \/ StoreCnt(c)
    \/ Tick \/ EndReset
    \/ \E k \in Key : ReadValue(k)
    \/ Quiet

Spec == Init /\ [][Next]_vars

----------------------------------------------------------------------------
TypeOK ==
    /\ args_map \in Options
    /\ \A c \in Cpus :
          /\ cpu[c].pc \in {"idle", "insert", "loadSize", "storeSize", "storeCnt"}
          /\ cpu[c].pc # "idle" => cpu[c].key \in Key /\ cpu[c].count \in (-Half)..(Half - 1)
          /\ cpu[c].ptr \in Slots \cup {0}
    /\ key \in [Slots -> Key \cup {Free}] /\ Cardinality(Present) <= MapSize
    /\ \A i \in Slots : info[i].cnt \in 0..MaxAccesses
                        /\ info[i].size \in [Ops -> 0..(4 * Half * Half - 1)]
    /\ spare \in [Cpus -> Slots] /\ \A c \in Cpus : key[spare[c]] = Free
    /\ must \subseteq Key /\ DOMAIN rows \subseteq Key

\* The counts of k fit an int; a sum with a larger one is a different number.
Small(k) == \A a \in Accesses : a.pid = k.pid /\ a.file = k.file => a.count < Half

Value(k) == IF k \in Present THEN info[SlotOf(k)] ELSE NoInfo

\* Racing hooks lose accesses, and none is counted twice: the count and the
\* sizes of a key are never more than what was accessed, unless a store went
\* through a pointer to a replaced element that holds another key by then.
NoOvercount ==
    \A k \in Key \ stale :
        /\ Value(k).cnt <= begun[k]
        /\ Small(k) => \A op \in Ops : Value(k).size[op] <= moved[k][op]

\* A key that two CPUs never used at once, and that found room, has an exact
\* count and exact sizes, modulo 2^64, whenever no handler is at it.  With the
\* option --cpu no two CPUs ever do.
Undisturbed ==
    /\ \A k \in Key \ (raced \cup stale) :
          Using(k) = {} => /\ Value(k).cnt = begun[k]
                           /\ Small(k) => \A op \in Ops : Value(k).size[op] = moved[k][op] % (4 * Half * Half)
    /\ args_map.cpu # Every => \A k \in raced : k \notin Present

\* A round reports every undisturbed key with all the accesses that were over
\* when the round began, so the reported counts of a key never decrease.
RoundComplete ==
    ~reading /\ rounds > 0 =>
        \A k \in Key \ (raced \cup stale) :
            IF k \in DOMAIN rows THEN rows[k] \in owed[k]..begun[k] ELSE owed[k] = 0
=============================================================================
