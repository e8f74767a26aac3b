-------------------------- MODULE CacheStatProofs --------------------------
(***************************************************************************)
(* Proofs about CacheStat, for every number of CPUs, every set of accesses *)
(* and options, all sizes and every bound.                                 *)
(*                                                                         *)
(* The argument follows a handler's pointer.  As long as the element was   *)
(* not replaced (gone) the slot holds the handler's key, so a store hits   *)
(* that key; a store through an outdated pointer makes the key it hits     *)
(* stale.  What the map holds of a key that is not stale is then bounded   *)
(* by the handlers that have stored it, and is exact while one handler at  *)
(* a time uses the key.                                                    *)
(***************************************************************************)
EXTENDS CacheStat, FiniteSetTheorems, TLAPS

Wrap    == 4 * Half * Half     \* 2^64 in the code
Handler == [pc : {"idle", "insert", "loadSize", "storeSize", "storeCnt"}, op : Ops, key : Key \cup {Free},
            count : (-Half)..(Half - 1), ptr : Slots \cup {0}, seen : Nat, gone : BOOLEAN]
Info    == [cnt : Nat, size : [Ops -> 0..(Wrap - 1)]]

HandlerTypes ==
    /\ args_map \in Options /\ cpu \in [Cpus -> Handler]
    /\ \A c \in Cpus : cpu[c].pc = "idle" <=> cpu[c].key = Free
MapTypes ==
    /\ key \in [Slots -> Key \cup {Free}] /\ info \in [Slots -> Info] /\ spare \in [Cpus -> Slots]
RoundTypes ==
    /\ reading \in BOOLEAN /\ must \subseteq Key /\ DOMAIN rows \subseteq Key /\ rows \in [DOMAIN rows -> Nat]
    /\ accesses \in 0..MaxAccesses /\ rounds \in Nat
TruthTypes ==
    /\ begun \in [Key -> Nat] /\ done \in [Key -> Nat] /\ owed \in [Key -> Nat]
    /\ moved \in [Key -> [Ops -> Nat]] /\ raced \subseteq Key /\ stale \subseteq Key
Types == HandlerTypes /\ MapTypes /\ RoundTypes /\ TruthTypes

Pointing(c) == cpu[c].pc \in {"loadSize", "storeSize", "storeCnt"}

\* A key has one slot, and so has every CPU's spare element, which is not in
\* the map; a pointer that is not outdated is to the slot of the handler's key.
PointerInv ==
    /\ \A i, j \in Slots : key[i] = key[j] /\ key[i] # Free => i = j
    /\ \A c, d \in Cpus : spare[c] = spare[d] => c = d
    /\ \A c \in Cpus : key[spare[c]] = Free
    /\ \A c \in Cpus : /\ Pointing(c) => cpu[c].ptr \in Slots
                       /\ Pointing(c) /\ ~cpu[c].gone => key[cpu[c].ptr] = cpu[c].key
                       /\ ~Pointing(c) => cpu[c].ptr = 0 /\ ~cpu[c].gone
    /\ Cardinality(Present) <= MapSize

\* The accesses whose handler has ended; no count exceeds their number.
Active   == {c \in Cpus : cpu[c].pc # "idle"}
Finished == accesses - Cardinality(Active)
Bounded ==
    /\ \A i \in Slots : info[i].cnt <= Finished
    /\ \A c \in Cpus : cpu[c].pc = "storeCnt" => cpu[c].seen <= Finished

\* The handler of c is about to store the count, or the size, of key k.
Stores(c, k, pc) == cpu[c].pc = pc /\ cpu[c].key = k /\ ~cpu[c].gone

\* No access is counted twice.
CountInv ==
    \A k \in Key :
        /\ begun[k] = done[k] + Cardinality(Using(k))
        /\ k \notin stale =>
              /\ Value(k).cnt <= done[k]
              /\ \A c \in Cpus : Stores(c, k, "storeCnt") => cpu[c].seen <= done[k]

\* The size that a handler has yet to add to key k.
Due(k, op) ==
    [c \in Cpus |-> IF cpu[c].key = k /\ cpu[c].op = op /\ cpu[c].pc # "storeCnt" THEN cpu[c].count ELSE 0]

\* total[S] is the sum of w over the set S of CPUs.
Sums(total, w) ==
    /\ total \in [SUBSET Cpus -> Nat]
    /\ \A S \in SUBSET Cpus : \A c \in Cpus : c \notin S => total[S \cup {c}] = total[S] + w[c]

\* No size is added twice: the sizes in the map and the ones due, which add up
\* to total, are at most what was accessed.
AtMost(k, op, total) ==
    /\ Sums(total, Due(k, op))
    /\ Value(k).size[op] + total[Cpus] <= moved[k][op]
    /\ \A c \in Cpus : Stores(c, k, "storeSize") /\ cpu[c].op = op => cpu[c].seen + total[Cpus] <= moved[k][op]
SizeInv ==
    /\ \A c \in Cpus : cpu[c].key # Free /\ Small(cpu[c].key) => cpu[c].count >= 0
    /\ \A k \in Key \ stale : Small(k) => \A op \in Ops : \E total : AtMost(k, op, total)

\* A key that one handler at a time uses.  Its size in the map is, modulo 2^64,
\* what was accessed without what is due.
Alone(k) ==
    /\ \A c, d \in Using(k) : c = d
    /\ \A c \in Using(k) : ~cpu[c].gone /\ (cpu[c].pc = "insert" => k \notin Present)
ExactCount(k) ==
    /\ Value(k).cnt = done[k]
    /\ \A c \in Using(k) : cpu[c].pc = "storeCnt" => cpu[c].seen = done[k]
ExactSize(k, op) ==
    /\ Using(k) = {} => Value(k).size[op] = moved[k][op] % Wrap
    /\ \A c \in Using(k) :
          /\ Due(k, op)[c] <= moved[k][op]
          /\ Value(k).size[op] = (moved[k][op] - Due(k, op)[c]) % Wrap
          /\ cpu[c].pc = "storeSize" /\ cpu[c].op = op => cpu[c].seen = Value(k).size[op]
AloneInv ==
    /\ \A k \in Key \ raced : Alone(k)
    /\ \A k \in Key \ (raced \cup stale) :
          ExactCount(k) /\ (Small(k) => \A op \in Ops : ExactSize(k, op))

\* With the option --cpu only that CPU has handlers, and a key is refused only
\* when the map is full, and then for ever.
OneCpuInv ==
    args_map.cpu # Every =>
        /\ \A c \in Cpus : cpu[c].pc # "idle" => c = args_map.cpu
        /\ raced # {} => Cardinality(Present) >= MapSize
        /\ raced \cap Present = {}

\* What a round has read, or has still to read, of an undisturbed key.
RoundInv ==
    /\ ~reading => must \subseteq DOMAIN rows
    /\ \A k \in Key \ (raced \cup stale) :
          /\ owed[k] <= done[k] /\ (k \notin must => owed[k] = 0)
          /\ k \in DOMAIN rows => rows[k] \in owed[k]..begun[k]

IInv ==
    /\ Types /\ PointerInv /\ Bounded /\ CountInv /\ SizeInv /\ AloneInv /\ OneCpuInv /\ RoundInv

----------------------------------------------------------------------------
\* Arithmetic and sums.
LEMMA ModUnique ==
    ASSUME NEW m \in Nat, m > 0, NEW q \in Int, NEW p \in Int, NEW r \in 0..(m - 1), NEW s \in 0..(m - 1),
           m * q + r = m * p + s
    PROVE  r = s
<1>1. m * (q - p) = s - r
  OBVIOUS
<1>2. CASE q - p >= 1
  <2>1. m * (q - p) >= m
    BY <1>2
  <2> QED
    BY <2>1, <1>1
<1>3. CASE q - p <= -1
  <2>1. m * (q - p) <= -m
    BY <1>3
  <2> QED
    BY <2>1, <1>1
<1>4. CASE q - p = 0
  <2>1. m * (q - p) = 0
    BY <1>4
  <2> QED
    BY <2>1, <1>1
<1> QED
  BY <1>2, <1>3, <1>4

LEMMA ModSum ==
    ASSUME NEW m \in Nat, m > 0, NEW x \in Int, NEW y \in Int
    PROVE  ((x % m) + y) % m = (x + y) % m
<1> DEFINE a == x % m
           q == x \div m
           b == (a + y) % m
           p == (a + y) \div m
           d == (x + y) % m
           u == (x + y) \div m
<1>1. x = m * q + a /\ a \in 0..(m - 1) /\ q \in Int
  OBVIOUS
<1>2. a + y = m * p + b /\ b \in 0..(m - 1) /\ p \in Int
  BY <1>1
<1>3. x + y = m * u + d /\ d \in 0..(m - 1) /\ u \in Int
  OBVIOUS
<1> HIDE DEF a, q, b, p, d, u
<1>4. m * u + d = m * q + m * p + b
  BY <1>1, <1>2, <1>3
<1>5. m * q + m * p = m * (q + p)
  BY <1>1, <1>2
<1>6. m * u + d = m * (q + p) + b
  BY <1>4, <1>5, <1>1, <1>2, <1>3
<1>7. d = b
  <2>1. PICK k \in Int : k = q + p
    BY <1>1, <1>2
  <2>2. m * u + d = m * k + b
    BY <2>1, <1>6
  <2> QED
    BY <2>1, <2>2, <1>2, <1>3, ModUnique
<1> QED
  BY <1>7 DEF a, b, d

LEMMA ModBounds ==
    ASSUME NEW m \in Nat, m > 0, NEW x \in Nat
    PROVE  x % m \in Nat /\ x % m <= x
<1>1. x = m * (x \div m) + (x % m) /\ x % m \in 0..(m - 1) /\ x \div m \in Nat
  OBVIOUS
<1>2. m * (x \div m) >= 0
  BY <1>1
<1> QED
  BY <1>1, <1>2

\* A sum over the CPUs changes as the weight of one of them does.
LEMMA SumsStep ==
    ASSUME NEW w \in [Cpus -> Nat], NEW total, Sums(total, w), NEW c \in Cpus, NEW n \in Nat
    PROVE  \E sum : Sums(sum, [w EXCEPT ![c] = n]) /\ sum[Cpus] + w[c] = total[Cpus] + n
<1> DEFINE v == [w EXCEPT ![c] = n]
           sum == [S \in SUBSET Cpus |-> IF c \in S THEN total[S \ {c}] + n ELSE total[S]]
<1>1. /\ total \in [SUBSET Cpus -> Nat]
      /\ \A S \in SUBSET Cpus : \A d \in Cpus : d \notin S => total[S \cup {d}] = total[S] + w[d]
  BY DEF Sums
<1>2. sum \in [SUBSET Cpus -> Nat]
  BY <1>1
<1>3. v[c] = n /\ \A d \in Cpus : d # c => v[d] = w[d]
  OBVIOUS
<1>4. ASSUME NEW S \in SUBSET Cpus, NEW d \in Cpus, d \notin S
      PROVE  sum[S \cup {d}] = sum[S] + v[d]
  <2>1. S \cup {d} \in SUBSET Cpus
    OBVIOUS
  <2>2. CASE d = c
    <3>1. (S \cup {c}) \ {c} = S
      BY <2>2, <1>4
    <3> QED
      BY <3>1, <2>1, <2>2, <1>3, <1>4
  <2>3. CASE d # c /\ c \in S
    <3>1. (S \cup {d}) \ {c} = (S \ {c}) \cup {d} /\ S \ {c} \in SUBSET Cpus /\ d \notin S \ {c}
      BY <2>3, <1>4
    <3>2. total[(S \ {c}) \cup {d}] = total[S \ {c}] + w[d]
      BY <3>1, <1>1
    <3>3. sum[S \cup {d}] = total[(S \ {c}) \cup {d}] + n /\ sum[S] = total[S \ {c}] + n
      BY <3>1, <2>1, <2>3
    <3>4. total[S \ {c}] \in Nat /\ w[d] \in Nat
      BY <3>1, <1>1
    <3> QED
      BY <3>2, <3>3, <3>4, <2>3, <1>3
  <2>4. CASE d # c /\ c \notin S
    <3>1. total[S \cup {d}] = total[S] + w[d]
      BY <1>1, <1>4
    <3>2. sum[S \cup {d}] = total[S \cup {d}] /\ sum[S] = total[S]
      BY <2>1, <2>4
    <3> QED
      BY <3>1, <3>2, <2>4, <1>3
  <2> QED
    BY <2>2, <2>3, <2>4
<1>5. Sums(sum, v)
  BY <1>2, <1>4 DEF Sums
<1>6. sum[Cpus] + w[c] = total[Cpus] + n
  <2>1. Cpus \ {c} \in SUBSET Cpus /\ (Cpus \ {c}) \cup {c} = Cpus /\ Cpus \in SUBSET Cpus
    OBVIOUS
  <2>2. total[Cpus] = total[Cpus \ {c}] + w[c]
    BY <2>1, <1>1
  <2>3. sum[Cpus] = total[Cpus \ {c}] + n
    BY <2>1
  <2>4. total[Cpus \ {c}] \in Nat /\ w[c] \in Nat
    BY <2>1, <1>1
  <2> HIDE DEF sum
  <2> QED
    BY <2>2, <2>3, <2>4
<1> QED
  BY <1>5, <1>6

----------------------------------------------------------------------------
(***************************************************************************)
(* Constants, records, and what the map holds of a key.                    *)
(***************************************************************************)
LEMMA Consts ==
    /\ IsFiniteSet(Cpus) /\ Every \notin Cpus /\ Cpus \cap Nat = {}
    /\ Half \in Nat /\ Half > 0 /\ MapSize \in Nat /\ MapSize > 0 /\ MaxAccesses \in Nat /\ MaxRounds \in Nat
    /\ 0 \notin Slots /\ Cpus \subseteq Slots /\ Free \notin Key
    /\ \A a \in Accesses : a.op \in Ops /\ a.count \in Nat
    /\ \A a \in Accesses : [pid |-> a.pid, file |-> a.file] \in Key
  BY CacheStatAssumption, FreeAssumption DEF Slots, Key, Ops

LEMMA WrapType == Wrap \in Nat /\ Wrap > 0
<1>1. Half * Half \in Nat /\ Half * Half > 0
  BY Consts
<1>2. 4 * Half * Half = 4 * (Half * Half)
  BY Consts
<1> QED
  BY <1>1, <1>2 DEF Wrap

LEMMA IdleType == Idle \in Handler /\ NoInfo \in Info /\ Idle.pc = "idle" /\ Idle.key = Free
<1>1. 0 \in (-Half)..(Half - 1) /\ 0 \in 0..(Wrap - 1)
  BY Consts, WrapType
<1>2. [op \in Ops |-> 0] \in [Ops -> 0..(Wrap - 1)]
  BY <1>1
<1> QED
  BY <1>1, <1>2 DEF Idle, Handler, NoInfo, Info, Ops

\* The conversion to int keeps a small number; an addition is modulo 2^64.
LEMMA ToIntType ==
    ASSUME NEW n \in Nat
    PROVE  ToInt(n) \in (-Half)..(Half - 1) /\ (n < Half => ToInt(n) = n)
<1>1. 2 * Half \in Nat /\ 2 * Half > 0 /\ Half \in Nat
  BY Consts
<1>2. n % (2 * Half) \in 0..(2 * Half - 1) /\ n % (2 * Half) <= n
  BY <1>1
<1>3. PICK m \in 0..(2 * Half - 1) : m = n % (2 * Half)
  BY <1>2
<1>4. ToInt(n) = IF m < Half THEN m ELSE m - 2 * Half
  BY <1>3 DEF ToInt
<1>5. ASSUME n < Half PROVE m = n
  <2>1. n = (2 * Half) * (n \div (2 * Half)) + m /\ n \div (2 * Half) \in Int
    BY <1>1, <1>3
  <2>2. n \in 0..(2 * Half - 1) /\ n = (2 * Half) * 0 + n
    BY <1>1, <1>5
  <2>3. PICK w \in Nat : w = 2 * Half
    BY <1>1
  <2>4. PICK q \in Int : q = n \div (2 * Half)
    BY <2>1
  <2>5. w > 0 /\ m \in 0..(w - 1) /\ n \in 0..(w - 1) /\ w * q + m = w * 0 + n
    BY <1>1, <2>1, <2>2, <2>3, <2>4
  <2> QED
    BY <2>5, ModUnique
<1> QED
  BY <1>1, <1>4, <1>5

LEMMA AddSizeType ==
    ASSUME NEW s \in Nat, NEW n \in Int
    PROVE  AddSize(s, n) \in 0..(Wrap - 1) /\ AddSize(s, n) = (s + n) % Wrap
           /\ (n >= 0 => AddSize(s, n) <= s + n)
<1>1. AddSize(s, n) = (s + n) % Wrap
  BY DEF AddSize, Wrap
<1>2. (s + n) % Wrap \in 0..(Wrap - 1)
  BY WrapType
<1>3. ASSUME n >= 0 PROVE (s + n) % Wrap <= s + n
  <2>1. s + n \in Nat
    BY <1>3
  <2> QED
    BY <2>1, WrapType, ModBounds
<1> QED
  BY <1>1, <1>2, <1>3

\* The value of k in a map with keys ks and values v.
ValueIn(ks, v, k) ==
    IF k \in {ks[i] : i \in Slots} \ {Free} THEN v[CHOOSE i \in Slots : ks[i] = k] ELSE NoInfo

LEMMA ValueIs ==
    ASSUME NEW ks \in [Slots -> Key \cup {Free}], NEW v \in [Slots -> Info], NEW k \in Key,
           \A i, j \in Slots : ks[i] = ks[j] /\ ks[i] # Free => i = j
    PROVE  /\ \A i \in Slots : ks[i] = k => ValueIn(ks, v, k) = v[i]
           /\ (\A i \in Slots : ks[i] # k) => ValueIn(ks, v, k) = NoInfo
           /\ ValueIn(ks, v, k) \in Info
<1>1. ASSUME NEW i \in Slots, ks[i] = k PROVE ValueIn(ks, v, k) = v[i]
  <2>1. k \in {ks[j] : j \in Slots} \ {Free}
    BY <1>1, Consts
  <2>2. (CHOOSE j \in Slots : ks[j] = k) \in Slots /\ ks[CHOOSE j \in Slots : ks[j] = k] = k
    BY <1>1
  <2>3. (CHOOSE j \in Slots : ks[j] = k) = i
    BY <1>1, <2>2, Consts
  <2> QED
    BY <2>1, <2>3 DEF ValueIn
<1>2. ASSUME \A i \in Slots : ks[i] # k PROVE ValueIn(ks, v, k) = NoInfo
  BY <1>2 DEF ValueIn
<1> QED
  BY <1>1, <1>2, IdleType

\* The map of the present state.
LEMMA ValueFacts ==
    ASSUME IInv, NEW k \in Key
    PROVE  /\ \A i \in Slots : key[i] = k => Value(k) = info[i] /\ SlotOf(k) = i /\ k \in Present
           /\ k \notin Present => Value(k) = NoInfo /\ \A i \in Slots : key[i] # k
           /\ k \in Present => SlotOf(k) \in Slots /\ key[SlotOf(k)] = k /\ Value(k) = info[SlotOf(k)]
           /\ Value(k) \in Info
<1>1. Value(k) = ValueIn(key, info, k)
  BY DEF Value, ValueIn, Present, SlotOf
<1>2. /\ key \in [Slots -> Key \cup {Free}] /\ info \in [Slots -> Info]
      /\ \A i, j \in Slots : key[i] = key[j] /\ key[i] # Free => i = j
  BY DEF IInv, Types, MapTypes, PointerInv
<1>3. k \in Present <=> \E i \in Slots : key[i] = k
  BY Consts DEF Present
<1>4. k \in Present => SlotOf(k) \in Slots /\ key[SlotOf(k)] = k
  BY <1>3 DEF SlotOf
<1>5. ASSUME NEW i \in Slots, key[i] = k PROVE SlotOf(k) = i
  BY <1>2, <1>3, <1>4, <1>5, Consts
<1>6. /\ \A i \in Slots : key[i] = k => ValueIn(key, info, k) = info[i]
      /\ (\A i \in Slots : key[i] # k) => ValueIn(key, info, k) = NoInfo
      /\ ValueIn(key, info, k) \in Info
  BY <1>2, ValueIs
<1> QED
  BY <1>1, <1>3, <1>4, <1>5, <1>6

\* The map after a step, with the keys and values that changed.
LEMMA ValueNext ==
    ASSUME IInv, NEW k \in Key,
           key' \in [Slots -> Key \cup {Free}], info' \in [Slots -> Info],
           \A i, j \in Slots : key'[i] = key'[j] /\ key'[i] # Free => i = j
    PROVE  /\ \A i \in Slots : key'[i] = k => Value(k)' = info'[i] /\ k \in Present'
           /\ (\A i \in Slots : key'[i] # k) => Value(k)' = NoInfo /\ k \notin Present'
           /\ (\A i \in Slots : (key[i] = k <=> key'[i] = k) /\ (key[i] = k => info'[i] = info[i]))
                 => Value(k)' = Value(k) /\ (k \in Present' <=> k \in Present)
<1>1. Value(k)' = ValueIn(key', info', k)
  BY DEF Value, ValueIn, Present, SlotOf
<1>2. k \in Present' <=> \E i \in Slots : key'[i] = k
  BY Consts DEF Present
<1>3. /\ \A i \in Slots : key'[i] = k => Value(k)' = info'[i] /\ k \in Present'
      /\ (\A i \in Slots : key'[i] # k) => Value(k)' = NoInfo /\ k \notin Present'
  BY <1>1, <1>2, ValueIs
<1>4. ASSUME \A i \in Slots : (key[i] = k <=> key'[i] = k) /\ (key[i] = k => info'[i] = info[i])
      PROVE  Value(k)' = Value(k) /\ (k \in Present' <=> k \in Present)
  <2>1. CASE k \in Present
    <3>1. PICK i \in Slots : key[i] = k
      BY <2>1 DEF Present
    <3>2. Value(k) = info[i]
      BY <3>1, ValueFacts
    <3> QED
      BY <1>3, <1>4, <2>1, <3>1, <3>2
  <2>2. CASE k \notin Present
    <3>1. Value(k) = NoInfo /\ \A i \in Slots : key[i] # k
      BY <2>2, ValueFacts
    <3> QED
      BY <1>3, <1>4, <2>2, <3>1
  <2> QED
    BY <2>1, <2>2
<1> QED
  BY <1>3, <1>4

\* Sets of CPUs, and the keys in the map, are finite.
LEMMA CpuSets ==
    ASSUME NEW S, S \subseteq Cpus
    PROVE  /\ IsFiniteSet(S) /\ Cardinality(S) \in Nat
           /\ \A c \in Cpus \ S : Cardinality(S \cup {c}) = Cardinality(S) + 1
           /\ \A c \in S : Cardinality(S \ {c}) = Cardinality(S) - 1
<1>1. IsFiniteSet(S) /\ Cardinality(S) \in Nat
  BY Consts, FS_Subset, FS_CardinalityType
<1> QED
  BY <1>1, FS_AddElement, FS_RemoveElement

LEMMA SlotCount ==
    IsFiniteSet(Slots) /\ Cardinality(Slots) = MapSize + Cardinality(Cpus)
<1>1. IsFiniteSet(1..MapSize) /\ Cardinality(1..MapSize) = MapSize
  BY Consts, FS_Interval
<1>2. (1..MapSize) \cap Cpus = {}
  BY Consts
<1>3. /\ IsFiniteSet((1..MapSize) \cup Cpus)
      /\ Cardinality((1..MapSize) \cup Cpus)
            = Cardinality(1..MapSize) + Cardinality(Cpus) - Cardinality((1..MapSize) \cap Cpus)
  BY <1>1, Consts, FS_Union
<1>4. Cardinality((1..MapSize) \cap Cpus) = 0 /\ Cardinality(Cpus) \in Nat
  BY <1>2, FS_EmptySet, Consts, FS_CardinalityType
<1> QED
  BY <1>1, <1>3, <1>4, Consts DEF Slots

LEMMA PresentFinite ==
    ASSUME key \in [Slots -> Key \cup {Free}]
    PROVE  IsFiniteSet(Present) /\ Cardinality(Present) \in Nat
<1> DEFINE T == {key[i] : i \in Slots}
<1>1. key \in Surjection(Slots, T)
  BY DEF Surjection
<1>2. IsFiniteSet(T)
  BY <1>1, SlotCount, FS_Surjection
<1>3. Present \in SUBSET T
  BY DEF Present
<1> QED
  BY <1>2, <1>3, FS_Subset, FS_CardinalityType

\* There is a slot for a new key as long as the map has less than MapSize.
LEMMA RoomLeft ==
    ASSUME IInv, Cardinality(Present) < MapSize
    PROVE  Unused # {}
<1> DEFINE taken == {i \in Slots : key[i] # Free}
           spares == {spare[c] : c \in Cpus}
<1>0. /\ key \in [Slots -> Key \cup {Free}] /\ spare \in [Cpus -> Slots]
      /\ \A i, j \in Slots : key[i] = key[j] /\ key[i] # Free => i = j
  BY DEF IInv, Types, MapTypes, PointerInv
<1>1. IsFiniteSet(taken) /\ Cardinality(taken) <= Cardinality(Present)
  <2>1. [i \in taken |-> key[i]] \in Injection(taken, Present)
    <3>1. \A i \in taken : key[i] \in Present
      BY <1>0 DEF Present
    <3>2. \A i, j \in taken : key[i] = key[j] => i = j
      BY <1>0
    <3> HIDE DEF taken
    <3> QED
      BY <3>1, <3>2 DEF Injection, IsInjective
  <2> QED
    BY <2>1, <1>0, PresentFinite, FS_Injection
<1>2. IsFiniteSet(spares) /\ Cardinality(spares) <= Cardinality(Cpus)
  <2>1. spare \in Surjection(Cpus, spares)
    BY <1>0 DEF Surjection
  <2> QED
    BY <2>1, Consts, FS_Surjection
<1>3. SUFFICES ASSUME Unused = {} PROVE FALSE
  OBVIOUS
<1>4. Slots = taken \cup spares
  BY <1>0, <1>3 DEF Unused
<1> HIDE DEF taken, spares
<1>5. Cardinality(taken \cup spares) = Cardinality(taken) + Cardinality(spares) - Cardinality(taken \cap spares)
  BY <1>1, <1>2, FS_Union
<1>6. Cardinality(taken) \in Nat /\ Cardinality(spares) \in Nat /\ Cardinality(taken \cap spares) \in Nat
  BY <1>1, <1>2, FS_CardinalityType, FS_Intersection
<1>7. Cardinality(Cpus) \in Nat /\ Cardinality(Present) \in Nat
  BY <1>0, Consts, FS_CardinalityType, PresentFinite
<1> QED
  BY <1>1, <1>2, <1>4, <1>5, <1>6, <1>7, SlotCount, Consts

----------------------------------------------------------------------------
(***************************************************************************)
(* What each action does to the handlers and to the map.                   *)
(***************************************************************************)
LEMMA HandlerFacts ==
    ASSUME IInv, NEW c \in Cpus
    PROVE  /\ cpu \in [Cpus -> Handler] /\ cpu[c] \in Handler
           /\ cpu[c].pc \in {"idle", "insert", "loadSize", "storeSize", "storeCnt"} /\ cpu[c].op \in Ops
           /\ cpu[c].count \in (-Half)..(Half - 1) /\ cpu[c].count \in Int /\ cpu[c].seen \in Nat
           /\ cpu[c].gone \in BOOLEAN /\ cpu[c].ptr \in Slots \cup {0}
           /\ cpu[c].key \in Key \cup {Free}
           /\ cpu[c].pc = "idle" => cpu[c].key = Free
           /\ cpu[c].pc # "idle" => cpu[c].key \in Key /\ cpu[c].key # Free
           /\ Pointing(c) => cpu[c].ptr \in Slots
           /\ ~Pointing(c) => ~cpu[c].gone
<1>1. cpu \in [Cpus -> Handler] /\ (cpu[c].pc = "idle" <=> cpu[c].key = Free)
  BY DEF IInv, Types, HandlerTypes
<1>2. cpu[c] \in Handler
  BY <1>1
<1>3. /\ cpu[c].pc \in {"idle", "insert", "loadSize", "storeSize", "storeCnt"} /\ cpu[c].op \in Ops
      /\ cpu[c].count \in (-Half)..(Half - 1) /\ cpu[c].seen \in Nat /\ cpu[c].gone \in BOOLEAN
      /\ cpu[c].ptr \in Slots \cup {0} /\ cpu[c].key \in Key \cup {Free}
  BY <1>2 DEF Handler
<1>4. cpu[c].count \in Int
  BY <1>3, Consts
<1>5. (Pointing(c) => cpu[c].ptr \in Slots) /\ (~Pointing(c) => ~cpu[c].gone)
  BY DEF IInv, PointerInv
<1> QED
  BY <1>1, <1>2, <1>3, <1>4, <1>5, Consts

LEMMA HookStep ==
    ASSUME IInv, NEW c \in Cpus, NEW a \in Accesses, VfsHook(c, a)
    PROVE  \E k \in Key :
              /\ k = [pid |-> a.pid, file |-> a.file]
              /\ cpu[c].pc = "idle" /\ cpu[c].key = Free /\ Targeted(c, a)
              /\ cpu' \in [Cpus -> Handler] /\ \A d \in Cpus \ {c} : cpu'[d] = cpu[d]
              /\ cpu'[c].key = k /\ cpu'[c].op = a.op /\ cpu'[c].count = ToInt(a.count)
              /\ cpu'[c].seen = 0 /\ ~cpu'[c].gone
              /\ \/ k \in Present /\ cpu'[c].pc = "loadSize" /\ cpu'[c].ptr = SlotOf(k) /\ SlotOf(k) \in Slots
                                  /\ key[SlotOf(k)] = k
                 \/ k \notin Present /\ cpu'[c].pc = "insert" /\ cpu'[c].ptr = 0
              /\ begun' \in [Key -> Nat] /\ begun'[k] = begun[k] + 1
              /\ \A j \in Key \ {k} : begun'[j] = begun[j]
              /\ moved' \in [Key -> [Ops -> Nat]] /\ moved'[k][a.op] = moved[k][a.op] + a.count
              /\ \A j \in Key : \A op \in Ops : (j # k \/ op # a.op) => moved'[j][op] = moved[j][op]
              /\ raced' = IF Using(k) # {} THEN raced \cup {k} ELSE raced
              /\ accesses' = accesses + 1 /\ accesses' \in 0..MaxAccesses
<1>1. PICK k \in Key : k = [pid |-> a.pid, file |-> a.file]
  BY Consts
<1>2. cpu[c].pc = "idle" /\ cpu[c].key = Free /\ cpu \in [Cpus -> Handler] /\ Targeted(c, a)
  BY HandlerFacts DEF VfsHook
<1>3. PICK h : h = [Idle EXCEPT !.pc = IF k \in Present THEN "loadSize" ELSE "insert", !.op = a.op, !.key = k,
                        !.count = ToInt(a.count), !.ptr = IF k \in Present THEN SlotOf(k) ELSE 0]
  OBVIOUS
<1>4. cpu' = [cpu EXCEPT ![c] = h]
  BY <1>1, <1>3 DEF VfsHook
<1>5. k \in Present => SlotOf(k) \in Slots /\ key[SlotOf(k)] = k
  BY <1>1, ValueFacts
<1>6. /\ h.pc = (IF k \in Present THEN "loadSize" ELSE "insert") /\ h.op = a.op /\ h.key = k
      /\ h.count = ToInt(a.count) /\ h.ptr = (IF k \in Present THEN SlotOf(k) ELSE 0)
      /\ h.seen = 0 /\ h.gone = FALSE
  BY <1>3 DEF Idle
<1>7. h \in Handler
  <2>1. a.op \in Ops /\ ToInt(a.count) \in (-Half)..(Half - 1)
    BY Consts, ToIntType
  <2>2. PICK p \in {"idle", "insert", "loadSize", "storeSize", "storeCnt"} :
            p = IF k \in Present THEN "loadSize" ELSE "insert"
    OBVIOUS
  <2>3. PICK i \in Slots \cup {0} : i = IF k \in Present THEN SlotOf(k) ELSE 0
    BY <1>5
  <2>4. PICK n \in (-Half)..(Half - 1) : n = ToInt(a.count)
    BY <2>1
  <2>5. h = [Idle EXCEPT !.pc = p, !.op = a.op, !.key = k, !.count = n, !.ptr = i]
    BY <1>3, <2>2, <2>3, <2>4
  <2> QED
    BY <2>1, <2>5 DEF Idle, Handler
<1>8. cpu' \in [Cpus -> Handler] /\ cpu'[c] = h /\ \A d \in Cpus \ {c} : cpu'[d] = cpu[d]
  BY <1>2, <1>4, <1>7
<1>9. begun' \in [Key -> Nat] /\ begun'[k] = begun[k] + 1 /\ \A j \in Key \ {k} : begun'[j] = begun[j]
  <2>1. begun \in [Key -> Nat] /\ begun' = [begun EXCEPT ![k] = @ + 1]
    BY <1>1 DEF IInv, Types, TruthTypes, VfsHook
  <2> QED
    BY <2>1
<1>10. /\ moved' \in [Key -> [Ops -> Nat]] /\ moved'[k][a.op] = moved[k][a.op] + a.count
       /\ \A j \in Key : \A op \in Ops : (j # k \/ op # a.op) => moved'[j][op] = moved[j][op]
  <2>1. moved \in [Key -> [Ops -> Nat]] /\ moved' = [moved EXCEPT ![k][a.op] = @ + a.count]
    BY <1>1 DEF IInv, Types, TruthTypes, VfsHook
  <2>2. a.op \in Ops /\ a.count \in Nat
    BY Consts
  <2>3. PICK m \in [Ops -> Nat] : m = moved[k]
    BY <2>1
  <2>4. PICK n \in [Ops -> Nat] : n = [m EXCEPT ![a.op] = m[a.op] + a.count]
    <3>1. PICK y \in Nat : y = m[a.op] + a.count
      BY <2>2, <2>3
    <3>2. [m EXCEPT ![a.op] = y] \in [Ops -> Nat]
      BY <2>2, <2>3
    <3> QED
      BY <3>1, <3>2
  <2>5. moved' = [moved EXCEPT ![k] = n]
    BY <2>1, <2>3, <2>4
  <2>6. moved' \in [Key -> [Ops -> Nat]] /\ moved'[k] = n /\ \A j \in Key : j # k => moved'[j] = moved[j]
    BY <2>1, <2>5
  <2>7. n[a.op] = moved[k][a.op] + a.count /\ \A op \in Ops : op # a.op => n[op] = moved[k][op]
    BY <2>2, <2>3, <2>4
  <2> QED
    BY <2>6, <2>7
<1>11. raced' = IF Using(k) # {} THEN raced \cup {k} ELSE raced
  BY <1>1 DEF VfsHook
<1>12. accesses' = accesses + 1 /\ accesses' \in 0..MaxAccesses
  <2>1. accesses \in 0..MaxAccesses /\ accesses < MaxAccesses /\ accesses' = accesses + 1
    BY DEF IInv, Types, RoundTypes, VfsHook
  <2> QED
    BY <2>1, Consts
<1> QED
  BY <1>1, <1>2, <1>5, <1>6, <1>8, <1>9, <1>10, <1>11, <1>12

LEMMA EndStep ==
    ASSUME IInv, NEW c \in Cpus, cpu[c].pc # "idle",
           done' = [done EXCEPT ![cpu[c].key] = @ + 1]
    PROVE  /\ cpu[c].key \in Key
           /\ End(c) => cpu' \in [Cpus -> Handler] /\ cpu'[c] = Idle /\ \A d \in Cpus \ {c} : cpu'[d] = cpu[d]
           /\ done' \in [Key -> Nat] /\ done'[cpu[c].key] = done[cpu[c].key] + 1
           /\ \A k \in Key \ {cpu[c].key} : done'[k] = done[k]
<1>1. cpu \in [Cpus -> Handler] /\ cpu[c].key \in Key
  BY HandlerFacts
<1>2. done \in [Key -> Nat]
  BY DEF IInv, Types, TruthTypes
<1>3. done' \in [Key -> Nat] /\ done'[cpu[c].key] = done[cpu[c].key] + 1
      /\ \A k \in Key \ {cpu[c].key} : done'[k] = done[k]
  BY <1>1, <1>2
<1> QED
  BY <1>1, <1>3, IdleType DEF End

LEMMA FirstInfoType ==
    ASSUME IInv, NEW c \in Cpus
    PROVE  /\ FirstInfo(c) \in Info /\ FirstInfo(c).cnt = 1
           /\ FirstInfo(c).size[cpu[c].op] = AddSize(0, cpu[c].count)
           /\ \A op \in Ops : op # cpu[c].op => FirstInfo(c).size[op] = 0
<1>1. cpu[c].op \in Ops /\ cpu[c].count \in Int
  BY HandlerFacts
<1>2. AddSize(0, cpu[c].count) \in 0..(Wrap - 1) /\ 0 \in 0..(Wrap - 1)
  <2>1. PICK z \in Nat : z = 0
    OBVIOUS
  <2>2. AddSize(z, cpu[c].count) \in 0..(Wrap - 1)
    BY <1>1, AddSizeType
  <2> QED
    BY <2>1, <2>2, WrapType
<1>3. PICK f : f = [op \in Ops |-> IF op = cpu[c].op THEN AddSize(0, cpu[c].count) ELSE 0]
  OBVIOUS
<1>4. f \in [Ops -> 0..(Wrap - 1)]
  BY <1>2, <1>3
<1>5. FirstInfo(c) = [cnt |-> 1, size |-> f]
  BY <1>3 DEF FirstInfo
<1> QED
  BY <1>1, <1>3, <1>4, <1>5 DEF Info

\* The new element is in the map, or the map is full.
LEMMA InsertNewStep ==
    ASSUME IInv, NEW c \in Cpus, NEW x \in Key, x = cpu[c].key, InsertNew(c)
    PROVE  /\ cpu[c].pc = "insert" /\ x \notin Present
           /\ key' \in [Slots -> Key \cup {Free}] /\ info' \in [Slots -> Info]
           /\ \A i, j \in Slots : key'[i] = key'[j] /\ key'[i] # Free => i = j
           /\ \A d \in Cpus : key'[spare[d]] = Free
           /\ \A i \in Slots : key[i] # Free => key'[i] = key[i]
           /\ \A i \in Slots : info'[i] = info[i] \/ info'[i].cnt = 1
           /\ \A k \in Key \ {x} : Value(k)' = Value(k)
           /\ \/ /\ Cardinality(Present) < MapSize /\ raced' = raced
                 /\ Value(x)' = FirstInfo(c) /\ Present' = Present \cup {x}
              \/ /\ Cardinality(Present) >= MapSize /\ raced' = raced \cup {x}
                 /\ Value(x)' = Value(x) /\ Present' = Present /\ key' = key
<1>1. cpu[c].pc = "insert" /\ cpu[c].key \notin Present /\ cpu[c].key \in Key /\ cpu[c].key # Free
  BY HandlerFacts DEF InsertNew
<1>2. x \in Key /\ x = cpu[c].key
  OBVIOUS
<1>3. /\ key \in [Slots -> Key \cup {Free}] /\ info \in [Slots -> Info] /\ spare \in [Cpus -> Slots]
      /\ \A i, j \in Slots : key[i] = key[j] /\ key[i] # Free => i = j
      /\ \A d \in Cpus : key[spare[d]] = Free
  BY DEF IInv, Types, MapTypes, PointerInv
<1>4. \A i \in Slots : key[i] # x
  BY <1>1, <1>2, ValueFacts
<1>5. Cardinality(Present) \in Nat
  BY <1>3, PresentFinite
<1>6. CASE Cardinality(Present) < MapSize
  <2>1. PICK i \in Unused : key' = [key EXCEPT ![i] = x] /\ info' = [info EXCEPT ![i] = FirstInfo(c)]
    <3>1. Unused # {}
      BY <1>6, RoomLeft
    <3>2. (CHOOSE j \in Unused : TRUE) \in Unused
      BY <3>1
    <3> QED
      BY <1>2, <1>6, <3>2 DEF InsertNew
  <2>2. i \in Slots /\ key[i] = Free /\ \A d \in Cpus : spare[d] # i
    BY <2>1 DEF Unused
  <2>3. FirstInfo(c) \in Info /\ FirstInfo(c).cnt = 1
    BY FirstInfoType
  <2>4. /\ key' \in [Slots -> Key \cup {Free}] /\ info' \in [Slots -> Info]
        /\ key'[i] = x /\ info'[i] = FirstInfo(c)
        /\ \A j \in Slots \ {i} : key'[j] = key[j] /\ info'[j] = info[j]
    BY <1>3, <2>1, <2>2, <2>3
  <2>5. \A j, l \in Slots : key'[j] = key'[l] /\ key'[j] # Free => j = l
    BY <1>3, <1>4, <2>2, <2>4
  <2>6. ASSUME NEW k \in Key, k # x PROVE Value(k)' = Value(k)
    <3>1. \A j \in Slots : (key[j] = k <=> key'[j] = k) /\ (key[j] = k => info'[j] = info[j])
      BY <2>2, <2>4, <2>6, Consts
    <3> QED
      BY <2>4, <2>5, <3>1, ValueNext
  <2>7. Value(x)' = FirstInfo(c)
    BY <2>2, <2>4, <2>5, ValueNext
  <2>8. Present' = Present \cup {x}
    BY <1>1, <1>2, <2>2, <2>4 DEF Present
  <2>9. raced' = raced
    BY <1>6 DEF InsertNew
  <2>10. \A d \in Cpus : key'[spare[d]] = Free
    BY <1>3, <2>2, <2>4
  <2>11. \A j \in Slots : (key[j] # Free => key'[j] = key[j]) /\ (info'[j] = info[j] \/ info'[j].cnt = 1)
    BY <2>2, <2>3, <2>4
  <2>12. \A k \in Key \ {x} : Value(k)' = Value(k)
    BY <1>2, <2>6
  <2>13. /\ Cardinality(Present) < MapSize /\ raced' = raced
         /\ Value(x)' = FirstInfo(c) /\ Present' = Present \cup {x}
    BY <1>2, <1>6, <2>7, <2>8, <2>9
  <2>14. key' \in [Slots -> Key \cup {Free}] /\ info' \in [Slots -> Info]
    BY <2>4
  <2> QED
    BY <1>1, <2>5, <2>10, <2>11, <2>12, <2>13, <2>14
<1>7. CASE ~(Cardinality(Present) < MapSize)
  <2>1. key' = key /\ info' = info /\ raced' = raced \cup {x}
    BY <1>2, <1>7 DEF InsertNew
  <2>2. Present' = Present /\ \A k \in Key : Value(k)' = Value(k)
    BY <2>1 DEF Present, Value, SlotOf
  <2>3. Cardinality(Present) >= MapSize
    BY <1>5, <1>7, Consts
  <2>4. \A k \in Key \ {x} : Value(k)' = Value(k)
    BY <2>2
  <2>5. Value(x)' = Value(x)
    BY <1>1, <2>2
  <2>6. /\ key' \in [Slots -> Key \cup {Free}] /\ info' \in [Slots -> Info]
        /\ \A i, j \in Slots : key'[i] = key'[j] /\ key'[i] # Free => i = j
        /\ \A d \in Cpus : key'[spare[d]] = Free
        /\ \A i \in Slots : key[i] # Free => key'[i] = key[i]
        /\ \A i \in Slots : info'[i] = info[i] \/ info'[i].cnt = 1
    BY <1>3, <2>1
  <2> QED
    BY <1>1, <2>1, <2>2, <2>3, <2>4, <2>5, <2>6
<1> QED
  BY <1>6, <1>7

\* Handler d keeps its stage, its key and its locals.
Kept(d) ==
    /\ cpu'[d].pc = cpu[d].pc /\ cpu'[d].op = cpu[d].op /\ cpu'[d].key = cpu[d].key
    /\ cpu'[d].count = cpu[d].count /\ cpu'[d].ptr = cpu[d].ptr /\ cpu'[d].seen = cpu[d].seen

LEMMA KeptSame == ASSUME NEW d, cpu'[d] = cpu[d] PROVE Kept(d) /\ cpu'[d].gone = cpu[d].gone
  BY DEF Kept

\* The element of x is replaced; pointers to the old one are outdated.
LEMMA InsertOverStep ==
    ASSUME IInv, NEW c \in Cpus, NEW x \in Key, x = cpu[c].key, InsertOver(c)
    PROVE  /\ cpu[c].pc = "insert" /\ x \in Present
           /\ cpu' \in [Cpus -> Handler] /\ cpu'[c] = Idle
           /\ \A d \in Cpus \ {c} : Kept(d) /\ cpu'[d].gone = (cpu[d].gone \/ cpu[d].ptr = SlotOf(x))
           /\ key' \in [Slots -> Key \cup {Free}] /\ info' \in [Slots -> Info]
           /\ spare' \in [Cpus -> Slots] /\ \A d, e \in Cpus : spare'[d] = spare'[e] => d = e
           /\ \A i, j \in Slots : key'[i] = key'[j] /\ key'[i] # Free => i = j
           /\ \A d \in Cpus : key'[spare'[d]] = Free
           /\ \A i \in Slots : key[i] # Free /\ i # SlotOf(x) => key'[i] = key[i]
           /\ SlotOf(x) \in Slots /\ key[SlotOf(x)] = x
           /\ \A i \in Slots : info'[i] = info[i] \/ info'[i].cnt = 1
           /\ \A k \in Key \ {x} : Value(k)' = Value(k)
           /\ Value(x)' = FirstInfo(c) /\ Present' = Present
<1>1. cpu[c].pc = "insert" /\ x \in Present /\ x # Free
  BY Consts DEF InsertOver
<1>2. PICK old \in Slots : old = SlotOf(x) /\ key[old] = x
  BY <1>1, ValueFacts
<1>3. /\ key \in [Slots -> Key \cup {Free}] /\ info \in [Slots -> Info] /\ spare \in [Cpus -> Slots]
      /\ \A i, j \in Slots : key[i] = key[j] /\ key[i] # Free => i = j
      /\ \A d \in Cpus : key[spare[d]] = Free
      /\ \A d, e \in Cpus : spare[d] = spare[e] => d = e
  BY DEF IInv, Types, MapTypes, PointerInv
<1>4. PICK s \in Slots : s = spare[c] /\ key[s] = Free /\ s # old
  BY <1>1, <1>2, <1>3
<1>5. /\ key' = [key EXCEPT ![old] = Free, ![s] = x] /\ info' = [info EXCEPT ![s] = FirstInfo(c)]
      /\ spare' = [spare EXCEPT ![c] = old]
      /\ cpu' = [d \in Cpus |-> IF d = c THEN Idle ELSE [cpu[d] EXCEPT !.gone = @ \/ cpu[d].ptr = old]]
  BY <1>2, <1>4 DEF InsertOver
<1>6. FirstInfo(c) \in Info /\ FirstInfo(c).cnt = 1
  BY FirstInfoType
<1>7. /\ key' \in [Slots -> Key \cup {Free}] /\ info' \in [Slots -> Info] /\ spare' \in [Cpus -> Slots]
      /\ key'[s] = x /\ key'[old] = Free /\ info'[s] = FirstInfo(c) /\ spare'[c] = old
      /\ \A i \in Slots \ {s, old} : key'[i] = key[i]
      /\ \A i \in Slots \ {s} : info'[i] = info[i]
      /\ \A d \in Cpus \ {c} : spare'[d] = spare[d]
  BY <1>2, <1>3, <1>4, <1>5, <1>6
<1>8. \A i, j \in Slots : key'[i] = key'[j] /\ key'[i] # Free => i = j
  BY <1>1, <1>2, <1>3, <1>4, <1>7
<1>9. \A d, e \in Cpus : spare'[d] = spare'[e] => d = e
  BY <1>1, <1>2, <1>3, <1>7
<1>10. \A d \in Cpus : key'[spare'[d]] = Free
  BY <1>1, <1>2, <1>3, <1>4, <1>7
<1>11. ASSUME NEW d \in Cpus \ {c}
       PROVE  cpu'[d] \in Handler /\ Kept(d) /\ cpu'[d].gone = (cpu[d].gone \/ cpu[d].ptr = old)
  <2>1. cpu'[d] = [cpu[d] EXCEPT !.gone = cpu[d].gone \/ cpu[d].ptr = old] /\ cpu[d] \in Handler
    BY <1>5, HandlerFacts
  <2> QED
    BY <2>1 DEF Handler, Kept
<1>12. cpu'[c] = Idle /\ cpu' \in [Cpus -> Handler]
  <2>1. cpu'[c] = Idle /\ \A d \in Cpus : cpu'[d] \in Handler
    BY <1>5, <1>11, IdleType
  <2>2. cpu' = [d \in Cpus |-> cpu'[d]]
    BY <1>5
  <2> QED
    BY <2>1, <2>2
<1>13. ASSUME NEW k \in Key, k # x PROVE Value(k)' = Value(k)
  <2>1. \A j \in Slots : (key[j] = k <=> key'[j] = k) /\ (key[j] = k => info'[j] = info[j])
    BY <1>2, <1>4, <1>7, <1>13, Consts
  <2> QED
    BY <1>7, <1>8, <2>1, ValueNext
<1>14. Value(x)' = FirstInfo(c)
  BY <1>7, <1>8, ValueNext
<1>15. Present' = Present
  <2>1. ASSUME NEW k, k \in Present' PROVE k \in Present
    BY <1>1, <1>7, <2>1 DEF Present
  <2>2. ASSUME NEW k, k \in Present PROVE k \in Present'
    <3>1. PICK i \in Slots : key[i] = k /\ k # Free
      BY <2>2 DEF Present
    <3>2. \E j \in Slots : key'[j] = k
      BY <1>2, <1>4, <1>7, <3>1
    <3> QED
      BY <3>1, <3>2 DEF Present
  <2> QED
    BY <2>1, <2>2
<1>16. \A i \in Slots : info'[i] = info[i] \/ info'[i].cnt = 1
  BY <1>6, <1>7
<1>17. \A i \in Slots : key[i] # Free /\ i # old => key'[i] = key[i]
  BY <1>4, <1>7
<1>18. /\ key' \in [Slots -> Key \cup {Free}] /\ info' \in [Slots -> Info] /\ spare' \in [Cpus -> Slots]
       /\ \A k \in Key \ {x} : Value(k)' = Value(k)
  BY <1>7, <1>13
<1> QED
  BY <1>1, <1>2, <1>8, <1>9, <1>10, <1>11, <1>12, <1>14, <1>15, <1>16, <1>17, <1>18

LEMMA LoadSizeStep ==
    ASSUME IInv, NEW c \in Cpus, NEW x \in Key, x = cpu[c].key, LoadSize(c)
    PROVE  /\ cpu[c].pc = "loadSize" /\ cpu' \in [Cpus -> Handler]
           /\ \A d \in Cpus \ {c} : cpu'[d] = cpu[d]
           /\ cpu'[c].pc = "storeSize" /\ cpu'[c].op = cpu[c].op /\ cpu'[c].key = x
           /\ cpu'[c].count = cpu[c].count /\ cpu'[c].ptr = cpu[c].ptr /\ cpu'[c].gone = cpu[c].gone
           /\ cpu'[c].seen \in Nat /\ (~cpu[c].gone => x \in Present /\ cpu'[c].seen = Value(x).size[cpu[c].op])
<1>1. cpu[c].pc = "loadSize" /\ cpu \in [Cpus -> Handler] /\ cpu[c] \in Handler /\ cpu[c].op \in Ops
  BY HandlerFacts DEF LoadSize
<1>2. cpu[c].ptr \in Slots /\ (~cpu[c].gone => key[cpu[c].ptr] = x)
  BY <1>1 DEF IInv, PointerInv, Pointing
<1>3. info[cpu[c].ptr] \in Info
  BY <1>2 DEF IInv, Types, MapTypes
<1>4. PICK n \in Nat : n = info[cpu[c].ptr].size[cpu[c].op]
  BY <1>1, <1>3, WrapType DEF Info
<1>5. PICK h : h = [cpu[c] EXCEPT !.pc = "storeSize", !.seen = n]
  OBVIOUS
<1>6. cpu' = [cpu EXCEPT ![c] = h]
  BY <1>1, <1>4, <1>5 DEF LoadSize
<1>7. /\ h \in Handler /\ h.pc = "storeSize" /\ h.seen = n /\ h.op = cpu[c].op /\ h.key = cpu[c].key
      /\ h.count = cpu[c].count /\ h.ptr = cpu[c].ptr /\ h.gone = cpu[c].gone
  BY <1>1, <1>5 DEF Handler
<1>8. ~cpu[c].gone => x \in Present /\ n = Value(x).size[cpu[c].op]
  BY <1>2, <1>4, ValueFacts
<1>9. cpu' \in [Cpus -> Handler] /\ cpu'[c] = h /\ \A d \in Cpus \ {c} : cpu'[d] = cpu[d]
  BY <1>1, <1>6, <1>7
<1> QED
  BY <1>1, <1>7, <1>8, <1>9

\* Handler c puts the value n where it points to.
Puts(c, n) == info' = [info EXCEPT ![cpu[c].ptr] = n] /\ key' = key /\ Stored(c)

\* A store hits the handler's key, or a key that is stale from then on.
LEMMA StoredStep ==
    ASSUME IInv, NEW c \in Cpus, NEW x \in Key, x = cpu[c].key, Pointing(c),
           NEW n \in Info, Puts(c, n)
    PROVE  /\ stale \subseteq stale' /\ stale' \subseteq Key /\ info' \in [Slots -> Info]
           /\ cpu[c].ptr \in Slots /\ info'[cpu[c].ptr] = n
           /\ \A i \in Slots \ {cpu[c].ptr} : info'[i] = info[i]
           /\ ~cpu[c].gone => stale' = stale /\ x \in Present /\ Value(x)' = n
                              /\ Value(x) = info[cpu[c].ptr]
           /\ \A k \in Key \ stale' : cpu[c].gone \/ k # x => Value(k)' = Value(k)
           /\ Present' = Present
<1>1. PICK p \in Slots : p = cpu[c].ptr
  BY DEF IInv, PointerInv
<1>2. /\ key \in [Slots -> Key \cup {Free}] /\ info \in [Slots -> Info]
      /\ \A i, j \in Slots : key[i] = key[j] /\ key[i] # Free => i = j
      /\ stale \subseteq Key
  BY DEF IInv, Types, MapTypes, TruthTypes, PointerInv
<1>3. /\ info' \in [Slots -> Info] /\ info'[p] = n /\ \A i \in Slots \ {p} : info'[i] = info[i]
  BY <1>1, <1>2 DEF Puts
<1>k. key' = key
  BY DEF Puts
<1>4. stale' = IF cpu[c].gone THEN stale \cup ({key[p]} \ {Free}) ELSE stale
  BY <1>1 DEF Stored, Puts
<1>5. key[p] \in Key \cup {Free}
  BY <1>1, <1>2
<1>6. stale \subseteq stale' /\ stale' \subseteq Key
  BY <1>2, <1>4, <1>5
<1>7. ASSUME ~cpu[c].gone
      PROVE  key[p] = x /\ stale' = stale /\ x \in Present /\ Value(x)' = n /\ Value(x) = info[p]
  <2>1. key[p] = x
    BY <1>1, <1>7 DEF IInv, PointerInv
  <2>2. Value(x) = info[p] /\ x \in Present
    BY <2>1, ValueFacts
  <2>3. Value(x)' = n
    <3>1. key'[p] = x /\ key' \in [Slots -> Key \cup {Free}]
          /\ \A i, j \in Slots : key'[i] = key'[j] /\ key'[i] # Free => i = j
      BY <1>2, <1>k, <2>1
    <3> QED
      BY <1>3, <3>1, ValueNext
  <2> QED
    BY <1>4, <1>7, <2>1, <2>2, <2>3
<1>8. ASSUME NEW k \in Key \ stale', cpu[c].gone \/ k # x PROVE Value(k)' = Value(k)
  <2>1. key[p] # k
    <3>1. CASE cpu[c].gone
      BY <1>4, <1>8, <3>1, Consts
    <3>2. CASE ~cpu[c].gone
      BY <1>7, <1>8, <3>2
    <3> QED
      BY <3>1, <3>2
  <2>2. \A i \in Slots : (key[i] = k <=> key'[i] = k) /\ (key[i] = k => info'[i] = info[i])
    BY <1>3, <1>k, <2>1
  <2>3. key' \in [Slots -> Key \cup {Free}]
        /\ \A i, j \in Slots : key'[i] = key'[j] /\ key'[i] # Free => i = j
    BY <1>2, <1>k
  <2> QED
    BY <1>3, <2>2, <2>3, ValueNext
<1>9. Present' = Present
  BY <1>k DEF Present
<1> QED
  BY <1>1, <1>3, <1>6, <1>7, <1>8, <1>9

LEMMA StoreSizeStep ==
    ASSUME IInv, NEW c \in Cpus, NEW x \in Key, x = cpu[c].key, StoreSize(c)
    PROVE  /\ cpu[c].pc = "storeSize" /\ cpu' \in [Cpus -> Handler]
           /\ \A d \in Cpus \ {c} : cpu'[d] = cpu[d]
           /\ cpu'[c].pc = "storeCnt" /\ cpu'[c].op = cpu[c].op /\ cpu'[c].key = x
           /\ cpu'[c].count = cpu[c].count /\ cpu'[c].ptr = cpu[c].ptr /\ cpu'[c].gone = cpu[c].gone
           /\ cpu[c].ptr \in Slots /\ cpu'[c].seen = info[cpu[c].ptr].cnt
           /\ stale \subseteq stale' /\ stale' \subseteq Key /\ info' \in [Slots -> Info] /\ Present' = Present
           /\ \A i \in Slots : info'[i].cnt = info[i].cnt
           /\ ~cpu[c].gone =>
                 /\ stale' = stale /\ x \in Present
                 /\ cpu'[c].seen = Value(x).cnt /\ Value(x)'.cnt = Value(x).cnt
                 /\ Value(x)'.size[cpu[c].op] = AddSize(cpu[c].seen, cpu[c].count)
                 /\ \A op \in Ops : op # cpu[c].op => Value(x)'.size[op] = Value(x).size[op]
           /\ \A k \in Key \ stale' : cpu[c].gone \/ k # x => Value(k)' = Value(k)
<1>1. /\ cpu[c].pc = "storeSize" /\ cpu \in [Cpus -> Handler] /\ cpu[c] \in Handler /\ cpu[c].op \in Ops
      /\ cpu[c].seen \in Nat /\ cpu[c].count \in Int
  BY HandlerFacts DEF StoreSize
<1>2. Pointing(c)
  BY <1>1 DEF Pointing
<1>3. PICK p \in Slots : p = cpu[c].ptr
  BY <1>2 DEF IInv, PointerInv
<1>4. info \in [Slots -> Info] /\ info[p] \in Info
  BY <1>3 DEF IInv, Types, MapTypes
<1>5. PICK y \in 0..(Wrap - 1) : y = AddSize(cpu[c].seen, cpu[c].count)
  BY <1>1, AddSizeType
<1>6. PICK f : f = [info[p].size EXCEPT ![cpu[c].op] = y]
  OBVIOUS
<1>7. /\ f \in [Ops -> 0..(Wrap - 1)] /\ f[cpu[c].op] = y
      /\ \A op \in Ops : op # cpu[c].op => f[op] = info[p].size[op]
  BY <1>1, <1>4, <1>6 DEF Info
<1>8. PICK n : n = [info[p] EXCEPT !.size = f]
  OBVIOUS
<1>9. n \in Info /\ n.cnt = info[p].cnt /\ n.size = f
  BY <1>4, <1>7, <1>8 DEF Info
<1>10. Puts(c, n)
  <2>1. info' = [info EXCEPT ![p].size[cpu[c].op] = y] /\ key' = key /\ Stored(c)
    BY <1>3, <1>5 DEF StoreSize
  <2> QED
    BY <1>3, <1>6, <1>8, <2>1 DEF Puts
<1>11. PICK m \in Nat : m = info[p].cnt
  BY <1>4 DEF Info
<1>12. PICK h : h = [cpu[c] EXCEPT !.pc = "storeCnt", !.seen = m]
  OBVIOUS
<1>13. cpu' = [cpu EXCEPT ![c] = h]
  BY <1>1, <1>3, <1>11, <1>12 DEF StoreSize
<1>14. /\ h \in Handler /\ h.pc = "storeCnt" /\ h.seen = m /\ h.op = cpu[c].op /\ h.key = cpu[c].key
       /\ h.count = cpu[c].count /\ h.ptr = cpu[c].ptr /\ h.gone = cpu[c].gone
  BY <1>1, <1>12 DEF Handler
<1>15. cpu' \in [Cpus -> Handler] /\ cpu'[c] = h /\ \A d \in Cpus \ {c} : cpu'[d] = cpu[d]
  BY <1>1, <1>13, <1>14
<1>16. /\ stale \subseteq stale' /\ stale' \subseteq Key /\ info' \in [Slots -> Info]
       /\ info'[p] = n /\ \A i \in Slots \ {p} : info'[i] = info[i]
       /\ ~cpu[c].gone => stale' = stale /\ x \in Present /\ Value(x)' = n /\ Value(x) = info[p]
       /\ \A k \in Key \ stale' : cpu[c].gone \/ k # x => Value(k)' = Value(k)
       /\ Present' = Present
  <2>1. /\ stale \subseteq stale' /\ stale' \subseteq Key /\ info' \in [Slots -> Info]
        /\ info'[cpu[c].ptr] = n /\ \A i \in Slots \ {cpu[c].ptr} : info'[i] = info[i]
        /\ ~cpu[c].gone => stale' = stale /\ x \in Present /\ Value(x)' = n /\ Value(x) = info[cpu[c].ptr]
        /\ \A k \in Key \ stale' : cpu[c].gone \/ k # x => Value(k)' = Value(k)
        /\ Present' = Present
    BY <1>2, <1>9, <1>10, StoredStep
  <2> QED
    BY <1>3, <2>1
<1>17. \A i \in Slots : info'[i].cnt = info[i].cnt
  BY <1>9, <1>16
<1>18. ASSUME ~cpu[c].gone
       PROVE  /\ stale' = stale /\ x \in Present /\ cpu'[c].seen = Value(x).cnt /\ Value(x)'.cnt = Value(x).cnt
              /\ Value(x)'.size[cpu[c].op] = AddSize(cpu[c].seen, cpu[c].count)
              /\ \A op \in Ops : op # cpu[c].op => Value(x)'.size[op] = Value(x).size[op]
  BY <1>5, <1>7, <1>9, <1>11, <1>14, <1>15, <1>16, <1>18
<1> QED
  BY <1>1, <1>3, <1>11, <1>14, <1>15, <1>16, <1>17, <1>18

LEMMA StoreCntStep ==
    ASSUME IInv, NEW c \in Cpus, NEW x \in Key, x = cpu[c].key, StoreCnt(c)
    PROVE  /\ cpu[c].pc = "storeCnt"
           /\ stale \subseteq stale' /\ stale' \subseteq Key /\ info' \in [Slots -> Info] /\ Present' = Present
           /\ \A i \in Slots : info'[i].cnt \in {info[i].cnt, cpu[c].seen + 1}
           /\ ~cpu[c].gone =>
                 /\ stale' = stale /\ x \in Present
                 /\ Value(x)'.cnt = cpu[c].seen + 1 /\ Value(x)'.size = Value(x).size
           /\ \A k \in Key \ stale' : cpu[c].gone \/ k # x => Value(k)' = Value(k)
<1>1. cpu[c].pc = "storeCnt" /\ cpu[c].seen \in Nat
  BY HandlerFacts DEF StoreCnt
<1>2. Pointing(c)
  BY <1>1 DEF Pointing
<1>3. PICK p \in Slots : p = cpu[c].ptr
  BY <1>2 DEF IInv, PointerInv
<1>4. info \in [Slots -> Info] /\ info[p] \in Info
  BY <1>3 DEF IInv, Types, MapTypes
<1>5. PICK m \in Nat : m = cpu[c].seen + 1
  BY <1>1
<1>6. PICK n : n = [info[p] EXCEPT !.cnt = m]
  OBVIOUS
<1>7. n \in Info /\ n.cnt = m /\ n.size = info[p].size
  BY <1>4, <1>6 DEF Info
<1>8. Puts(c, n)
  <2>1. info' = [info EXCEPT ![p].cnt = m] /\ key' = key /\ Stored(c)
    BY <1>3, <1>5 DEF StoreCnt
  <2> QED
    BY <1>3, <1>6, <2>1 DEF Puts
<1>9. /\ stale \subseteq stale' /\ stale' \subseteq Key /\ info' \in [Slots -> Info]
      /\ info'[p] = n /\ \A i \in Slots \ {p} : info'[i] = info[i]
      /\ ~cpu[c].gone => stale' = stale /\ x \in Present /\ Value(x)' = n /\ Value(x) = info[p]
      /\ \A k \in Key \ stale' : cpu[c].gone \/ k # x => Value(k)' = Value(k)
      /\ Present' = Present
  <2>1. /\ stale \subseteq stale' /\ stale' \subseteq Key /\ info' \in [Slots -> Info]
        /\ info'[cpu[c].ptr] = n /\ \A i \in Slots \ {cpu[c].ptr} : info'[i] = info[i]
        /\ ~cpu[c].gone => stale' = stale /\ x \in Present /\ Value(x)' = n /\ Value(x) = info[cpu[c].ptr]
        /\ \A k \in Key \ stale' : cpu[c].gone \/ k # x => Value(k)' = Value(k)
        /\ Present' = Present
    BY <1>2, <1>7, <1>8, StoredStep
  <2> QED
    BY <1>3, <2>1
<1>10. \A i \in Slots : info'[i].cnt \in {info[i].cnt, cpu[c].seen + 1}
  BY <1>5, <1>7, <1>9
<1>11. ASSUME ~cpu[c].gone
       PROVE  /\ stale' = stale /\ x \in Present
              /\ Value(x)'.cnt = cpu[c].seen + 1 /\ Value(x)'.size = Value(x).size
  BY <1>5, <1>7, <1>9, <1>11
<1> QED
  BY <1>1, <1>9, <1>10, <1>11

----------------------------------------------------------------------------
(***************************************************************************)
(* Types, pointers and the bound on the counts.                            *)
(***************************************************************************)
\* What the handlers of a CPU do.
Handling(c) ==
    \/ \E a \in Accesses : VfsHook(c, a)
    \/ InsertNew(c) \/ InsertOver(c) \/ LoadSize(c) \/ StoreSize(c) \/ StoreCnt(c)

\* What Reset does, and a step that changes nothing.
Reading == Tick \/ EndReset \/ (\E k \in Key : ReadValue(k)) \/ UNCHANGED vars

LEMMA HandlingFrame ==
    ASSUME NEW c \in Cpus, Handling(c)
    PROVE  UNCHANGED <<args_map, reading, must, rows, rounds, owed>>
<1>1. ASSUME NEW a \in Accesses, VfsHook(c, a) PROVE UNCHANGED <<args_map, reading, must, rows, rounds, owed>>
  BY <1>1 DEF VfsHook
<1>2. CASE InsertNew(c) \/ InsertOver(c)
  BY <1>2 DEF InsertNew, InsertOver
<1>3. CASE LoadSize(c) \/ StoreSize(c) \/ StoreCnt(c)
  BY <1>3 DEF LoadSize, StoreSize, StoreCnt
<1> QED
  BY <1>1, <1>2, <1>3 DEF Handling

LEMMA ReadingFrame ==
    ASSUME Reading
    PROVE  UNCHANGED <<args_map, cpu, key, info, spare, accesses, begun, done, moved, raced, stale>>
<1>1. CASE Tick \/ EndReset
  BY <1>1 DEF Tick, EndReset, truth
<1>2. ASSUME NEW k \in Key, ReadValue(k)
      PROVE  UNCHANGED <<args_map, cpu, key, info, spare, accesses, begun, done, moved, raced, stale>>
  BY <1>2 DEF ReadValue, truth
<1>3. CASE UNCHANGED vars
  BY <1>3 DEF vars, truth
<1> QED
  BY <1>1, <1>2, <1>3 DEF Reading

\* The handler that acts: what becomes of it, and the rest.
LEMMA HandlingCpu ==
    ASSUME IInv, NEW c \in Cpus, Handling(c)
    PROVE  /\ cpu' \in [Cpus -> Handler] /\ \A d \in Cpus \ {c} : Kept(d) /\ (cpu[d].gone => cpu'[d].gone)
           /\ \/ cpu'[c] = Idle
              \/ cpu'[c].pc # "idle" /\ cpu'[c].key \in Key
<1>1. ASSUME NEW a \in Accesses, VfsHook(c, a)
      PROVE  /\ cpu' \in [Cpus -> Handler] /\ \A d \in Cpus \ {c} : cpu'[d] = cpu[d]
             /\ cpu'[c].pc # "idle" /\ cpu'[c].key \in Key
  BY <1>1, HookStep
<1>2. CASE InsertNew(c) \/ StoreCnt(c)
  <2>1. cpu[c].pc # "idle" /\ End(c)
    BY <1>2 DEF InsertNew, StoreCnt
  <2>2. done' = [done EXCEPT ![cpu[c].key] = @ + 1]
    BY <2>1 DEF End
  <2>3. cpu' \in [Cpus -> Handler] /\ cpu'[c] = Idle /\ \A d \in Cpus \ {c} : cpu'[d] = cpu[d]
    BY <2>1, <2>2, EndStep
  <2> QED
    BY <2>3, KeptSame
<1>3. CASE InsertOver(c)
  <2>1. PICK x \in Key : x = cpu[c].key
    BY <1>3, HandlerFacts DEF InsertOver
  <2> QED
    BY <1>3, <2>1, InsertOverStep
<1>4. CASE LoadSize(c) \/ StoreSize(c)
  <2>1. PICK x \in Key : x = cpu[c].key
    BY <1>4, HandlerFacts DEF LoadSize, StoreSize
  <2>2. /\ cpu' \in [Cpus -> Handler] /\ \A d \in Cpus \ {c} : cpu'[d] = cpu[d]
        /\ cpu'[c].pc # "idle" /\ cpu'[c].key = x
    <3>1. CASE LoadSize(c)
      BY <3>1, <2>1, LoadSizeStep
    <3>2. CASE StoreSize(c)
      BY <3>2, <2>1, StoreSizeStep
    <3> QED
      BY <1>4, <3>1, <3>2
  <2> QED
    BY <2>1, <2>2, KeptSame
<1> QED
  BY <1>1, <1>2, <1>3, <1>4, KeptSame DEF Handling

\* A handler that has begun and has not ended.
LEMMA KeyOfHandler ==
    ASSUME IInv, NEW c \in Cpus,
           InsertNew(c) \/ InsertOver(c) \/ LoadSize(c) \/ StoreSize(c) \/ StoreCnt(c)
    PROVE  cpu[c].pc # "idle" /\ cpu[c].key \in Key
<1>1. cpu[c].pc # "idle"
  BY DEF InsertNew, InsertOver, LoadSize, StoreSize, StoreCnt
<1> QED
  BY <1>1, HandlerFacts

LEMMA MapTypesStep ==
    ASSUME IInv, NEW c \in Cpus, Handling(c)
    PROVE  MapTypes'
<1>0. key \in [Slots -> Key \cup {Free}] /\ info \in [Slots -> Info] /\ spare \in [Cpus -> Slots]
  BY DEF IInv, Types, MapTypes
<1>1. CASE (\E a \in Accesses : VfsHook(c, a)) \/ LoadSize(c)
  BY <1>0, <1>1 DEF VfsHook, LoadSize, MapTypes
<1>2. ASSUME InsertNew(c) \/ InsertOver(c) \/ StoreSize(c) \/ StoreCnt(c) PROVE MapTypes'
  <2>1. PICK x \in Key : x = cpu[c].key
    BY <1>2, KeyOfHandler
  <2>2. CASE InsertNew(c)
    <3>1. key' \in [Slots -> Key \cup {Free}] /\ info' \in [Slots -> Info]
      BY <2>1, <2>2, InsertNewStep
    <3>2. spare' = spare
      BY <2>2 DEF InsertNew
    <3> QED
      BY <1>0, <3>1, <3>2 DEF MapTypes
  <2>3. CASE InsertOver(c)
    <3>1. key' \in [Slots -> Key \cup {Free}] /\ info' \in [Slots -> Info] /\ spare' \in [Cpus -> Slots]
      BY <2>1, <2>3, InsertOverStep
    <3> QED
      BY <3>1 DEF MapTypes
  <2>4. CASE StoreSize(c) \/ StoreCnt(c)
    <3>1. info' \in [Slots -> Info]
      BY <2>1, <2>4, StoreSizeStep, StoreCntStep
    <3>2. key' = key /\ spare' = spare
      BY <2>4 DEF StoreSize, StoreCnt
    <3> QED
      BY <1>0, <3>1, <3>2 DEF MapTypes
  <2> QED
    BY <1>2, <2>2, <2>3, <2>4
<1> QED
  BY <1>1, <1>2 DEF Handling

LEMMA TruthTypesStep ==
    ASSUME IInv, NEW c \in Cpus, Handling(c)
    PROVE  TruthTypes'
<1>0. /\ begun \in [Key -> Nat] /\ done \in [Key -> Nat] /\ owed \in [Key -> Nat]
      /\ moved \in [Key -> [Ops -> Nat]] /\ raced \subseteq Key /\ stale \subseteq Key /\ owed' = owed
  BY HandlingFrame DEF IInv, Types, TruthTypes
<1>1. ASSUME NEW a \in Accesses, VfsHook(c, a) PROVE TruthTypes'
  <2>1. PICK k \in Key : /\ begun' \in [Key -> Nat] /\ moved' \in [Key -> [Ops -> Nat]]
                         /\ raced' = IF Using(k) # {} THEN raced \cup {k} ELSE raced
    BY <1>1, HookStep
  <2>2. raced' \subseteq Key
    BY <1>0, <2>1
  <2>3. done' = done /\ stale' = stale
    BY <1>1 DEF VfsHook
  <2> QED
    BY <1>0, <2>1, <2>2, <2>3 DEF TruthTypes
<1>2. ASSUME InsertNew(c) \/ InsertOver(c) \/ StoreCnt(c) PROVE TruthTypes'
  <2>1. PICK x \in Key : x = cpu[c].key /\ cpu[c].pc # "idle"
    BY <1>2, KeyOfHandler
  <2>2. done' = [done EXCEPT ![cpu[c].key] = @ + 1] /\ begun' = begun /\ moved' = moved
    BY <1>2 DEF InsertNew, InsertOver, StoreCnt, End
  <2>3. done' \in [Key -> Nat]
    BY <2>1, <2>2, EndStep
  <2>4. raced' \subseteq Key /\ stale' \subseteq Key
    <3>1. CASE InsertNew(c)
      <4>1. raced' = raced \/ raced' = raced \cup {x}
        BY <2>1, <3>1, InsertNewStep
      <4>2. stale' = stale
        BY <3>1 DEF InsertNew
      <4> QED
        BY <1>0, <4>1, <4>2
    <3>2. CASE InsertOver(c)
      BY <1>0, <3>2 DEF InsertOver
    <3>3. CASE StoreCnt(c)
      <4>1. stale' \subseteq Key
        BY <2>1, <3>3, StoreCntStep
      <4> QED
        BY <1>0, <3>3, <4>1 DEF StoreCnt
    <3> QED
      BY <1>2, <3>1, <3>2, <3>3
  <2> QED
    BY <1>0, <2>2, <2>3, <2>4 DEF TruthTypes
<1>3. CASE LoadSize(c)
  BY <1>0, <1>3 DEF LoadSize, truth, TruthTypes
<1>4. CASE StoreSize(c)
  <2>1. PICK x \in Key : x = cpu[c].key
    BY <1>4, KeyOfHandler
  <2>2. stale' \subseteq Key
    BY <1>4, <2>1, StoreSizeStep
  <2>3. begun' = begun /\ done' = done /\ moved' = moved /\ raced' = raced
    BY <1>4 DEF StoreSize
  <2> QED
    BY <1>0, <2>2, <2>3 DEF TruthTypes
<1> QED
  BY <1>1, <1>2, <1>3, <1>4 DEF Handling

LEMMA TypesHandling ==
    ASSUME IInv, NEW c \in Cpus, Handling(c)
    PROVE  Types'
<1>1. HandlerTypes'
  <2>1. /\ cpu' \in [Cpus -> Handler] /\ \A d \in Cpus \ {c} : Kept(d)
        /\ cpu'[c] = Idle \/ (cpu'[c].pc # "idle" /\ cpu'[c].key \in Key)
    BY HandlingCpu
  <2>2. ASSUME NEW d \in Cpus PROVE cpu'[d].pc = "idle" <=> cpu'[d].key = Free
    <3>1. CASE d = c
      BY <2>1, <3>1, IdleType, Consts
    <3>2. CASE d # c
      <4>1. cpu'[d].pc = cpu[d].pc /\ cpu'[d].key = cpu[d].key
        BY <2>1, <3>2 DEF Kept
      <4> QED
        BY <4>1 DEF IInv, Types, HandlerTypes
    <3> QED
      BY <3>1, <3>2
  <2>3. args_map' \in Options
    BY HandlingFrame DEF IInv, Types, HandlerTypes
  <2> QED
    BY <2>1, <2>2, <2>3 DEF HandlerTypes
<1>2. RoundTypes'
  <2>1. /\ reading \in BOOLEAN /\ must \subseteq Key /\ DOMAIN rows \subseteq Key /\ rows \in [DOMAIN rows -> Nat]
        /\ accesses \in 0..MaxAccesses /\ rounds \in Nat
    BY DEF IInv, Types, RoundTypes
  <2>2. accesses' \in 0..MaxAccesses
    <3>1. ASSUME NEW a \in Accesses, VfsHook(c, a) PROVE accesses' \in 0..MaxAccesses
      BY <3>1, HookStep
    <3>2. CASE InsertNew(c) \/ InsertOver(c) \/ LoadSize(c) \/ StoreSize(c) \/ StoreCnt(c)
      BY <2>1, <3>2 DEF InsertNew, InsertOver, LoadSize, StoreSize, StoreCnt
    <3> QED
      BY <3>1, <3>2 DEF Handling
  <2>3. reading' = reading /\ must' = must /\ rows' = rows /\ rounds' = rounds
    BY HandlingFrame
  <2> QED
    BY <2>1, <2>2, <2>3 DEF RoundTypes
<1> QED
  BY <1>1, <1>2, MapTypesStep, TruthTypesStep DEF Types

LEMMA TypesReading ==
    ASSUME IInv, Reading
    PROVE  Types'
<1>0. UNCHANGED <<args_map, cpu, key, info, spare, accesses, begun, done, moved, raced, stale>>
  BY ReadingFrame
<1>1. HandlerTypes'
  BY <1>0 DEF IInv, Types, HandlerTypes
<1>2. MapTypes'
  BY <1>0 DEF IInv, Types, MapTypes
<1>3. TruthTypes'
  <2>1. TruthTypes
    BY DEF IInv, Types
  <2>2. owed' \in {owed, done}
    BY DEF Reading, Tick, EndReset, ReadValue, vars
  <2> QED
    BY <1>0, <2>1, <2>2 DEF TruthTypes
<1>4. RoundTypes'
  <2>0. /\ reading \in BOOLEAN /\ must \subseteq Key /\ DOMAIN rows \subseteq Key /\ rows \in [DOMAIN rows -> Nat]
        /\ accesses \in 0..MaxAccesses /\ rounds \in Nat
    BY DEF IInv, Types, RoundTypes
  <2>1. CASE Tick
    <3>1. Present \subseteq Key
      BY DEF IInv, Types, MapTypes, Present
    <3>2. reading' = TRUE /\ rounds' = rounds + 1 /\ must' = Present /\ rows' = [k \in {} |-> 0]
      BY <2>1 DEF Tick
    <3> QED
      BY <1>0, <2>0, <3>1, <3>2 DEF RoundTypes
  <2>2. ASSUME NEW k \in Key, ReadValue(k) PROVE RoundTypes'
    <3>1. k \in Present /\ reading' = reading /\ must' = must /\ rounds' = rounds
      BY <2>2 DEF ReadValue
    <3>2. info[SlotOf(k)] \in Info
      BY <3>1, ValueFacts
    <3>3. PICK n \in Nat : n = info[SlotOf(k)].cnt
      BY <3>2 DEF Info
    <3>4. rows' = [j \in DOMAIN rows \cup {k} |-> IF j = k THEN n ELSE rows[j]]
      BY <2>2, <3>3 DEF ReadValue
    <3>5. DOMAIN rows' \subseteq Key /\ rows' \in [DOMAIN rows' -> Nat]
      BY <2>0, <3>4
    <3> QED
      BY <1>0, <2>0, <3>1, <3>5 DEF RoundTypes
  <2>3. CASE EndReset
    BY <1>0, <2>0, <2>3 DEF EndReset, RoundTypes
  <2>4. CASE UNCHANGED vars
    BY <2>0, <2>4 DEF vars, RoundTypes
  <2> QED
    BY <2>1, <2>2, <2>3, <2>4 DEF Reading
<1> QED
  BY <1>1, <1>2, <1>3, <1>4 DEF Types

\* The pointer of handler d.
PointerOK(d) ==
    /\ Pointing(d) => cpu[d].ptr \in Slots
    /\ Pointing(d) /\ ~cpu[d].gone => key[cpu[d].ptr] = cpu[d].key
    /\ ~Pointing(d) => cpu[d].ptr = 0 /\ ~cpu[d].gone

LEMMA PointerIdle == ASSUME NEW d, cpu'[d] = Idle PROVE PointerOK(d)'
  BY DEF PointerOK, Pointing, Idle

LEMMA PointerKept ==
    ASSUME IInv, NEW d \in Cpus, Kept(d), cpu'[d].gone = cpu[d].gone,
           \A i \in Slots : key[i] # Free => key'[i] = key[i]
    PROVE  PointerOK(d)'
<1>1. PointerOK(d)
  BY DEF IInv, PointerInv, PointerOK
<1>2. Pointing(d)' <=> Pointing(d)
  BY DEF Pointing, Kept
<1>3. Pointing(d) => cpu[d].key # Free
  BY HandlerFacts DEF Pointing
<1> QED
  BY <1>1, <1>2, <1>3 DEF PointerOK, Kept

\* The handler that acts keeps its pointer, in a map with the same keys.
LEMMA PointerSame ==
    ASSUME IInv, NEW c \in Cpus, key' = key, Pointing(c), Pointing(c)', cpu'[c].ptr = cpu[c].ptr,
           cpu'[c].gone = cpu[c].gone, cpu'[c].key = cpu[c].key
    PROVE  PointerOK(c)'
<1>1. PointerOK(c)
  BY DEF IInv, PointerInv, PointerOK
<1> QED
  BY <1>1 DEF PointerOK

LEMMA PointerHandling ==
    ASSUME IInv, NEW c \in Cpus, Handling(c)
    PROVE  PointerInv'
<1>0. /\ \A i, j \in Slots : key[i] = key[j] /\ key[i] # Free => i = j
      /\ \A d, e \in Cpus : spare[d] = spare[e] => d = e
      /\ \A d \in Cpus : key[spare[d]] = Free
      /\ Cardinality(Present) <= MapSize /\ Cardinality(Present) \in Nat
  BY PresentFinite DEF IInv, Types, MapTypes, PointerInv
<1>1. ASSUME /\ \A i, j \in Slots : key'[i] = key'[j] /\ key'[i] # Free => i = j
             /\ \A d, e \in Cpus : spare'[d] = spare'[e] => d = e
             /\ \A d \in Cpus : key'[spare'[d]] = Free
             /\ \A d \in Cpus : PointerOK(d)'
             /\ Cardinality(Present') <= MapSize
      PROVE  PointerInv'
  BY <1>1 DEF PointerInv, PointerOK
<1>2. ASSUME key' = key, spare' = spare, \A d \in Cpus \ {c} : cpu'[d] = cpu[d], PointerOK(c)'
      PROVE  PointerInv'
  <2>1. Present' = Present
    BY <1>2 DEF Present
  <2>2. \A d \in Cpus : PointerOK(d)'
    <3>1. ASSUME NEW d \in Cpus, d # c PROVE PointerOK(d)'
      BY <1>2, <3>1, KeptSame, PointerKept
    <3> QED
      BY <1>2, <3>1
  <2> QED
    BY <1>0, <1>1, <1>2, <2>1, <2>2
<1>3. ASSUME NEW a \in Accesses, VfsHook(c, a) PROVE PointerInv'
  <2>1. PICK k \in Key :
           /\ \A d \in Cpus \ {c} : cpu'[d] = cpu[d]
           /\ cpu'[c].key = k /\ ~cpu'[c].gone
           /\ \/ cpu'[c].pc = "loadSize" /\ cpu'[c].ptr \in Slots /\ key[cpu'[c].ptr] = k
              \/ cpu'[c].pc = "insert" /\ cpu'[c].ptr = 0
    BY <1>3, HookStep
  <2>2. key' = key /\ spare' = spare
    BY <1>3 DEF VfsHook
  <2>3. PointerOK(c)'
    BY <2>1, <2>2 DEF PointerOK, Pointing
  <2> QED
    BY <1>2, <2>1, <2>2, <2>3
<1>4. CASE LoadSize(c) \/ StoreSize(c)
  <2>1. PICK x \in Key : x = cpu[c].key
    BY <1>4, KeyOfHandler
  <2>2. /\ \A d \in Cpus \ {c} : cpu'[d] = cpu[d]
        /\ cpu[c].pc \in {"loadSize", "storeSize"} /\ cpu'[c].pc \in {"storeSize", "storeCnt"}
        /\ cpu'[c].key = x /\ cpu'[c].ptr = cpu[c].ptr /\ cpu'[c].gone = cpu[c].gone
    <3>1. CASE LoadSize(c)
      BY <2>1, <3>1, LoadSizeStep
    <3>2. CASE StoreSize(c)
      BY <2>1, <3>2, StoreSizeStep
    <3> QED
      BY <1>4, <3>1, <3>2
  <2>3. key' = key /\ spare' = spare
    BY <1>4 DEF LoadSize, StoreSize
  <2>4. PointerOK(c)'
    <3>1. Pointing(c) /\ Pointing(c)'
      BY <2>2 DEF Pointing
    <3> QED
      BY <2>1, <2>2, <2>3, <3>1, PointerSame
  <2> QED
    BY <1>2, <2>2, <2>3, <2>4
<1>5. CASE StoreCnt(c)
  <2>1. cpu[c].pc # "idle" /\ End(c) /\ key' = key /\ spare' = spare
        /\ done' = [done EXCEPT ![cpu[c].key] = @ + 1]
    BY <1>5 DEF StoreCnt, End
  <2>2. cpu'[c] = Idle /\ \A d \in Cpus \ {c} : cpu'[d] = cpu[d]
    BY <2>1, EndStep
  <2> QED
    BY <1>2, <2>1, <2>2, PointerIdle
<1>6. CASE InsertNew(c)
  <2>1. cpu[c].pc # "idle" /\ End(c) /\ spare' = spare /\ done' = [done EXCEPT ![cpu[c].key] = @ + 1]
    BY <1>6 DEF InsertNew, End
  <2>2. cpu'[c] = Idle /\ \A d \in Cpus \ {c} : cpu'[d] = cpu[d]
    BY <2>1, EndStep
  <2>3. PICK x \in Key : x = cpu[c].key
    BY <1>6, KeyOfHandler
  <2>4. /\ x \notin Present
        /\ \A i, j \in Slots : key'[i] = key'[j] /\ key'[i] # Free => i = j
        /\ \A d \in Cpus : key'[spare[d]] = Free
        /\ \A i \in Slots : key[i] # Free => key'[i] = key[i]
        /\ \/ Cardinality(Present) < MapSize /\ Present' = Present \cup {x}
           \/ Present' = Present
    BY <1>6, <2>3, InsertNewStep
  <2>5. \A d \in Cpus : PointerOK(d)'
    <3>1. ASSUME NEW d \in Cpus, d # c PROVE PointerOK(d)'
      BY <2>2, <2>4, <3>1, KeptSame, PointerKept
    <3> QED
      BY <2>2, <3>1, PointerIdle
  <2>6. Cardinality(Present') <= MapSize
    <3>1. IsFiniteSet(Present)
      BY PresentFinite DEF IInv, Types, MapTypes
    <3>2. Cardinality(Present \cup {x}) = Cardinality(Present) + 1
      BY <2>4, <3>1, FS_AddElement
    <3>3. CASE Cardinality(Present) < MapSize /\ Present' = Present \cup {x}
      <4>1. Cardinality(Present') = Cardinality(Present) + 1
        BY <3>2, <3>3
      <4> QED
        BY <1>0, <3>3, <4>1, Consts
    <3>4. CASE Present' = Present
      <4>1. Cardinality(Present') = Cardinality(Present)
        BY <3>4
      <4> QED
        BY <1>0, <4>1
    <3> QED
      BY <2>4, <3>3, <3>4
  <2> QED
    BY <1>0, <1>1, <2>1, <2>4, <2>5, <2>6
<1>7. CASE InsertOver(c)
  <2>1. PICK x \in Key : x = cpu[c].key
    BY <1>7, KeyOfHandler
  <2>2. /\ cpu'[c] = Idle /\ Present' = Present
        /\ \A d \in Cpus \ {c} : Kept(d) /\ cpu'[d].gone = (cpu[d].gone \/ cpu[d].ptr = SlotOf(x))
        /\ \A d, e \in Cpus : spare'[d] = spare'[e] => d = e
        /\ \A i, j \in Slots : key'[i] = key'[j] /\ key'[i] # Free => i = j
        /\ \A d \in Cpus : key'[spare'[d]] = Free
        /\ \A i \in Slots : key[i] # Free /\ i # SlotOf(x) => key'[i] = key[i]
        /\ SlotOf(x) \in Slots /\ key[SlotOf(x)] = x
    BY <1>7, <2>1, InsertOverStep
  <2>3. ASSUME NEW d \in Cpus, d # c PROVE PointerOK(d)'
    <3>1. PointerOK(d) /\ (Pointing(d)' <=> Pointing(d))
      BY <2>2, <2>3 DEF IInv, PointerInv, PointerOK, Pointing, Kept
    <3>2. Pointing(d) => cpu[d].key # Free
      BY HandlerFacts DEF Pointing
    <3>3. Kept(d) /\ cpu'[d].gone = (cpu[d].gone \/ cpu[d].ptr = SlotOf(x))
      BY <2>2, <2>3
    <3>4. ASSUME Pointing(d), ~cpu'[d].gone PROVE key'[cpu'[d].ptr] = cpu'[d].key
      <4>1. ~cpu[d].gone /\ cpu[d].ptr # SlotOf(x)
        BY <3>3, <3>4
      <4>2. cpu[d].ptr \in Slots /\ key[cpu[d].ptr] = cpu[d].key
        BY <3>1, <3>4, <4>1 DEF PointerOK
      <4>3. key'[cpu[d].ptr] = key[cpu[d].ptr]
        BY <2>2, <3>2, <3>4, <4>1, <4>2
      <4> QED
        BY <3>3, <4>2, <4>3 DEF Kept
    <3>5. ASSUME ~Pointing(d) PROVE cpu'[d].ptr = 0 /\ ~cpu'[d].gone
      <4>1. cpu[d].ptr = 0 /\ ~cpu[d].gone /\ SlotOf(x) # 0
        BY <2>2, <3>1, <3>5, Consts DEF PointerOK
      <4> QED
        BY <3>3, <4>1 DEF Kept
    <3>6. Pointing(d) => cpu'[d].ptr \in Slots
      BY <3>1, <3>3 DEF PointerOK, Kept
    <3> QED
      BY <3>1, <3>4, <3>5, <3>6 DEF PointerOK
  <2> QED
    BY <1>0, <1>1, <2>2, <2>3, PointerIdle
<1> QED
  BY <1>3, <1>4, <1>5, <1>6, <1>7 DEF Handling

\* The number of accesses whose handler has ended.
LEMMA FinishedType == ASSUME IInv PROVE Finished \in Nat /\ Finished <= accesses
<1>1. MapSize \in Slots /\ info \in [Slots -> Info] /\ accesses \in Nat
  BY Consts DEF Slots, IInv, Types, MapTypes, RoundTypes
<1>2. info[MapSize].cnt <= Finished /\ info[MapSize].cnt \in Nat
  BY <1>1 DEF IInv, Bounded, Info
<1>3. Active \subseteq Cpus
  BY DEF Active
<1>4. Cardinality(Active) \in Nat
  BY <1>3, CpuSets
<1> QED
  BY <1>1, <1>2, <1>4 DEF Finished

LEMMA FinishedKept ==
    ASSUME accesses' = accesses, \A d \in Cpus : cpu'[d].pc # "idle" <=> cpu[d].pc # "idle"
    PROVE  Finished' = Finished
<1>1. Active' = Active
  BY DEF Active
<1> QED
  BY <1>1 DEF Finished

LEMMA FinishedGrows ==
    ASSUME IInv, NEW c \in Cpus, cpu[c].pc # "idle", cpu'[c] = Idle, accesses' = accesses,
           \A d \in Cpus \ {c} : cpu'[d].pc = cpu[d].pc
    PROVE  Finished' = Finished + 1
<1>1. Active' = Active \ {c} /\ c \in Active /\ Active \subseteq Cpus
  BY IdleType DEF Active
<1>2. Cardinality(Active \ {c}) = Cardinality(Active) - 1 /\ Cardinality(Active) \in Nat
  BY <1>1, CpuSets
<1>3. accesses \in Nat
  BY DEF IInv, Types, RoundTypes
<1> QED
  BY <1>1, <1>2, <1>3 DEF Finished

LEMMA BoundedHandling ==
    ASSUME IInv, NEW c \in Cpus, Handling(c)
    PROVE  Bounded'
<1>b. /\ \A i \in Slots : info[i].cnt <= Finished /\ info[i].cnt \in Nat
      /\ \A d \in Cpus : /\ cpu[d].pc = "storeCnt" => cpu[d].seen <= Finished
                         /\ cpu[d].seen \in Nat
      /\ Finished \in Nat
  BY HandlerFacts, FinishedType DEF IInv, Types, MapTypes, Info, Bounded
<1>1. ASSUME NEW a \in Accesses, VfsHook(c, a) PROVE Bounded'
  <2>1. /\ cpu[c].pc = "idle" /\ cpu'[c].pc # "idle" /\ cpu'[c].pc # "storeCnt"
        /\ \A d \in Cpus \ {c} : cpu'[d] = cpu[d]
        /\ accesses' = accesses + 1
    BY <1>1, HookStep
  <2>2. Finished' = Finished
    <3>1. Active' = Active \cup {c} /\ c \in Cpus \ Active /\ Active \subseteq Cpus
      BY <2>1 DEF Active
    <3>2. Cardinality(Active') = Cardinality(Active) + 1 /\ Cardinality(Active) \in Nat
      BY <3>1, CpuSets
    <3>3. accesses \in Nat
      BY DEF IInv, Types, RoundTypes
    <3> QED
      BY <2>1, <3>2, <3>3 DEF Finished
  <2>3. info' = info
    BY <1>1 DEF VfsHook
  <2> QED
    BY <1>b, <2>1, <2>2, <2>3 DEF Bounded
<1>2. ASSUME InsertNew(c) \/ InsertOver(c) \/ StoreCnt(c) PROVE Bounded'
  <2>1. PICK x \in Key : x = cpu[c].key /\ cpu[c].pc # "idle"
    BY <1>2, KeyOfHandler
  <2>2. cpu'[c] = Idle /\ \A d \in Cpus \ {c} : Kept(d)
    <3>1. cpu'[c] = Idle
      BY <1>2 DEF InsertNew, InsertOver, StoreCnt, End
    <3> QED
      BY <1>2, <3>1, HandlingCpu DEF Handling
  <2>3. accesses' = accesses
    BY <1>2 DEF InsertNew, InsertOver, StoreCnt
  <2>4. Finished' = Finished + 1
    BY <2>1, <2>2, <2>3, FinishedGrows DEF Kept
  <2>5. \A i \in Slots : \/ info'[i].cnt = info[i].cnt
                         \/ info'[i].cnt = 1
                         \/ cpu[c].pc = "storeCnt" /\ info'[i].cnt = cpu[c].seen + 1
    <3>1. CASE InsertNew(c)
      <4>1. \A i \in Slots : info'[i] = info[i] \/ info'[i].cnt = 1
        BY <2>1, <3>1, InsertNewStep
      <4> QED
        BY <4>1
    <3>2. CASE InsertOver(c)
      <4>1. \A i \in Slots : info'[i] = info[i] \/ info'[i].cnt = 1
        BY <2>1, <3>2, InsertOverStep
      <4> QED
        BY <4>1
    <3>3. CASE StoreCnt(c)
      <4>1. cpu[c].pc = "storeCnt" /\ \A i \in Slots : info'[i].cnt \in {info[i].cnt, cpu[c].seen + 1}
        BY <2>1, <3>3, StoreCntStep
      <4> QED
        BY <4>1
    <3> QED
      BY <1>2, <3>1, <3>2, <3>3
  <2>6. \A i \in Slots : info'[i].cnt <= Finished + 1
    BY <1>b, <2>5
  <2>7. \A d \in Cpus : cpu'[d].pc = "storeCnt" => cpu'[d].seen <= Finished + 1
    BY <1>b, <2>2, IdleType DEF Kept
  <2> QED
    BY <2>4, <2>6, <2>7 DEF Bounded
<1>3. ASSUME LoadSize(c) \/ StoreSize(c) PROVE Bounded'
  <2>1. PICK x \in Key : x = cpu[c].key /\ cpu[c].pc # "idle"
    BY <1>3, KeyOfHandler
  <2>2. accesses' = accesses
    BY <1>3 DEF LoadSize, StoreSize
  <2>3. /\ cpu'[c].pc # "idle" /\ \A d \in Cpus \ {c} : cpu'[d] = cpu[d]
        /\ cpu'[c].pc = "storeCnt" => \E i \in Slots : cpu'[c].seen = info[i].cnt
        /\ \A i \in Slots : info'[i].cnt = info[i].cnt
    <3>1. CASE LoadSize(c)
      <4>1. cpu'[c].pc = "storeSize" /\ \A d \in Cpus \ {c} : cpu'[d] = cpu[d]
        BY <2>1, <3>1, LoadSizeStep
      <4>2. info' = info
        BY <3>1 DEF LoadSize
      <4> QED
        BY <4>1, <4>2
    <3>2. CASE StoreSize(c)
      BY <2>1, <3>2, StoreSizeStep
    <3> QED
      BY <1>3, <3>1, <3>2
  <2>4. Finished' = Finished
    BY <2>1, <2>2, <2>3, FinishedKept
  <2> QED
    BY <1>b, <2>3, <2>4 DEF Bounded
<1> QED
  BY <1>1, <1>2, <1>3 DEF Handling

----------------------------------------------------------------------------
(***************************************************************************)
(* No access is counted twice.                                             *)
(***************************************************************************)
LEMMA UsingKept ==
    ASSUME \A d \in Cpus : cpu'[d].key = cpu[d].key, NEW k
    PROVE  Using(k)' = Using(k)
  BY DEF Using

\* The handler of c joins the handlers of key x, or leaves them.
LEMMA UsingJoin ==
    ASSUME IInv, NEW c \in Cpus, cpu[c].key = Free, NEW x \in Key, cpu'[c].key = x,
           \A d \in Cpus \ {c} : cpu'[d].key = cpu[d].key
    PROVE  /\ Using(x)' = Using(x) \cup {c} /\ c \notin Using(x)
           /\ Cardinality(Using(x)') = Cardinality(Using(x)) + 1
           /\ \A k \in Key \ {x} : Using(k)' = Using(k)
<1>1. Using(x)' = Using(x) \cup {c} /\ c \in Cpus \ Using(x) /\ Using(x) \subseteq Cpus
  BY Consts DEF Using
<1>2. Cardinality(Using(x) \cup {c}) = Cardinality(Using(x)) + 1
  BY <1>1, CpuSets
<1>3. \A k \in Key \ {x} : Using(k)' = Using(k)
  BY Consts DEF Using
<1> QED
  BY <1>1, <1>2, <1>3

LEMMA UsingLeave ==
    ASSUME IInv, NEW c \in Cpus, NEW x \in Key, cpu[c].key = x, cpu'[c] = Idle,
           \A d \in Cpus \ {c} : cpu'[d].key = cpu[d].key
    PROVE  /\ Using(x)' = Using(x) \ {c} /\ c \in Using(x)
           /\ Cardinality(Using(x)') = Cardinality(Using(x)) - 1
           /\ \A k \in Key \ {x} : Using(k)' = Using(k)
<1>0. cpu'[c].key = Free
  BY IdleType
<1>1. Using(x)' = Using(x) \ {c} /\ c \in Using(x) /\ Using(x) \subseteq Cpus
  BY <1>0, Consts DEF Using
<1>2. Cardinality(Using(x) \ {c}) = Cardinality(Using(x)) - 1
  BY <1>1, CpuSets
<1>3. \A k \in Key \ {x} : Using(k)' = Using(k)
  BY <1>0, Consts DEF Using
<1> QED
  BY <1>1, <1>2, <1>3

LEMMA UsingCount == ASSUME NEW k PROVE Cardinality(Using(k)) \in Nat
<1>1. Using(k) \subseteq Cpus
  BY DEF Using
<1> QED
  BY <1>1, CpuSets

\* A handler that does not act stores what it would have stored before.
LEMMA StoresKept ==
    ASSUME NEW d, Kept(d), cpu[d].gone => cpu'[d].gone, NEW k, NEW pc, Stores(d, k, pc)'
    PROVE  Stores(d, k, pc)
  BY DEF Stores, Kept

LEMMA ValueCount ==
    ASSUME IInv, NEW k \in Key
    PROVE  /\ Value(k).cnt \in Nat /\ done[k] \in Nat /\ begun[k] \in Nat /\ Cardinality(Using(k)) \in Nat
           /\ begun[k] = done[k] + Cardinality(Using(k))
<1>1. Value(k).cnt \in Nat
  BY ValueFacts DEF Info
<1>2. done[k] \in Nat /\ begun[k] \in Nat
  BY DEF IInv, Types, TruthTypes
<1> QED
  BY <1>1, <1>2, UsingCount DEF IInv, CountInv

\* What ends a handler of x: the key has one more access that is over.
LEMMA EndCount ==
    ASSUME IInv, NEW c \in Cpus, NEW x \in Key, x = cpu[c].key, InsertNew(c) \/ InsertOver(c) \/ StoreCnt(c)
    PROVE  /\ cpu[c].pc # "idle" /\ cpu'[c] = Idle
           /\ \A d \in Cpus \ {c} : Kept(d) /\ (cpu[d].gone => cpu'[d].gone)
           /\ done' \in [Key -> Nat] /\ done'[x] = done[x] + 1 /\ \A k \in Key \ {x} : done'[k] = done[k]
           /\ begun' = begun /\ moved' = moved /\ stale \subseteq stale'
           /\ \A k \in Key : begun'[k] = done'[k] + Cardinality(Using(k)')
<1>1. cpu[c].pc # "idle"
  BY KeyOfHandler
<1>2. cpu'[c] = Idle
  BY DEF InsertNew, InsertOver, StoreCnt, End
<1>3. \A d \in Cpus \ {c} : Kept(d) /\ (cpu[d].gone => cpu'[d].gone)
  BY HandlingCpu DEF Handling
<1>4. done' = [done EXCEPT ![cpu[c].key] = @ + 1] /\ begun' = begun /\ moved' = moved
  BY DEF InsertNew, InsertOver, StoreCnt, End
<1>5. done' \in [Key -> Nat] /\ done'[x] = done[x] + 1 /\ \A k \in Key \ {x} : done'[k] = done[k]
  BY <1>1, <1>4, EndStep
<1>6. stale \subseteq stale'
  <2>1. CASE InsertNew(c) \/ InsertOver(c)
    BY <2>1 DEF InsertNew, InsertOver
  <2>2. CASE StoreCnt(c)
    BY <2>2, StoreCntStep
  <2> QED
    BY <2>1, <2>2
<1>7. /\ Cardinality(Using(x)') = Cardinality(Using(x)) - 1
      /\ \A k \in Key \ {x} : Using(k)' = Using(k)
  BY <1>2, <1>3, UsingLeave DEF Kept
<1>8. ASSUME NEW k \in Key PROVE begun'[k] = done'[k] + Cardinality(Using(k)')
  <2>1. /\ done[k] \in Nat /\ begun[k] \in Nat /\ Cardinality(Using(k)) \in Nat
        /\ begun[k] = done[k] + Cardinality(Using(k))
    BY ValueCount
  <2>2. CASE k = x
    BY <1>4, <1>5, <1>7, <2>1, <2>2
  <2>3. CASE k # x
    <3>1. Using(k)' = Using(k) /\ done'[k] = done[k]
      BY <1>5, <1>7, <2>3
    <3> QED
      BY <1>4, <2>1, <3>1
  <2> QED
    BY <2>2, <2>3
<1> QED
  BY <1>1, <1>2, <1>3, <1>4, <1>5, <1>6, <1>8

LEMMA CountHandling ==
    ASSUME IInv, NEW c \in Cpus, Handling(c)
    PROVE  CountInv'
<1>b. ASSUME NEW k \in Key \ stale
      PROVE  /\ Value(k).cnt <= done[k] /\ Value(k).cnt \in Nat /\ done[k] \in Nat
             /\ \A d \in Cpus : Stores(d, k, "storeCnt") => cpu[d].seen <= done[k] /\ cpu[d].seen \in Nat
  BY HandlerFacts, ValueCount DEF IInv, CountInv
<1>1. ASSUME NEW a \in Accesses, VfsHook(c, a) PROVE CountInv'
  <2>1. PICK x \in Key :
           /\ cpu[c].key = Free /\ cpu'[c].key = x /\ cpu'[c].pc # "storeCnt"
           /\ \A d \in Cpus \ {c} : cpu'[d] = cpu[d]
           /\ begun'[x] = begun[x] + 1 /\ \A j \in Key \ {x} : begun'[j] = begun[j]
    BY <1>1, HookStep
  <2>2. key' = key /\ info' = info /\ done' = done /\ stale' = stale
    BY <1>1 DEF VfsHook
  <2>3. \A k \in Key : Value(k)' = Value(k)
    BY <2>2 DEF Value, SlotOf, Present
  <2>4. /\ Cardinality(Using(x)') = Cardinality(Using(x)) + 1
        /\ \A k \in Key \ {x} : Using(k)' = Using(k)
    BY <2>1, UsingJoin
  <2>5. ASSUME NEW k \in Key PROVE begun'[k] = done'[k] + Cardinality(Using(k)')
    <3>1. /\ done[k] \in Nat /\ begun[k] \in Nat /\ Cardinality(Using(k)) \in Nat
          /\ begun[k] = done[k] + Cardinality(Using(k))
      BY ValueCount
    <3>2. CASE k = x
      BY <2>1, <2>2, <2>4, <3>1, <3>2
    <3>3. CASE k # x
      <4>1. Using(k)' = Using(k) /\ begun'[k] = begun[k]
        BY <2>1, <2>4, <3>3
      <4> QED
        BY <2>2, <3>1, <4>1
    <3> QED
      BY <3>2, <3>3
  <2>6. ASSUME NEW k \in Key \ stale, NEW d \in Cpus, Stores(d, k, "storeCnt")' PROVE cpu'[d].seen <= done'[k]
    <3>1. d # c
      BY <2>1, <2>6 DEF Stores
    <3>2. cpu'[d] = cpu[d] /\ Stores(d, k, "storeCnt")
      BY <2>1, <2>6, <3>1 DEF Stores
    <3> QED
      BY <1>b, <2>2, <3>2
  <2> QED
    BY <1>b, <2>2, <2>3, <2>5, <2>6 DEF CountInv
<1>2. ASSUME InsertNew(c) \/ InsertOver(c) \/ StoreCnt(c) PROVE CountInv'
  <2>1. PICK x \in Key : x = cpu[c].key
    BY <1>2, KeyOfHandler
  <2>2. /\ cpu'[c] = Idle /\ \A d \in Cpus \ {c} : Kept(d) /\ (cpu[d].gone => cpu'[d].gone)
        /\ done'[x] = done[x] + 1 /\ \A k \in Key \ {x} : done'[k] = done[k]
        /\ stale \subseteq stale' /\ \A k \in Key : begun'[k] = done'[k] + Cardinality(Using(k)')
    BY <1>2, <2>1, EndCount
  <2>3. \A k \in Key : done'[k] >= done[k] /\ done[k] \in Nat /\ done'[k] \in Nat
    BY <2>2, ValueCount
  <2>4. ASSUME NEW k \in Key \ stale'
        PROVE  \/ Value(k)'.cnt = Value(k).cnt
               \/ k = x /\ Value(k)'.cnt = 1
               \/ k = x /\ Stores(c, k, "storeCnt") /\ Value(k)'.cnt = cpu[c].seen + 1
    <3>1. CASE InsertNew(c)
      <4>1. /\ \A j \in Key \ {x} : Value(j)' = Value(j)
            /\ Value(x)' = FirstInfo(c) \/ Value(x)' = Value(x)
        BY <2>1, <3>1, InsertNewStep
      <4> QED
        BY <2>4, <4>1, FirstInfoType
    <3>2. CASE InsertOver(c)
      <4>1. (\A j \in Key \ {x} : Value(j)' = Value(j)) /\ Value(x)' = FirstInfo(c)
        BY <2>1, <3>2, InsertOverStep
      <4> QED
        BY <2>4, <4>1, FirstInfoType
    <3>3. CASE StoreCnt(c)
      <4>1. /\ cpu[c].pc = "storeCnt" /\ (~cpu[c].gone => Value(x)'.cnt = cpu[c].seen + 1)
            /\ \A j \in Key \ stale' : cpu[c].gone \/ j # x => Value(j)' = Value(j)
        BY <2>1, <3>3, StoreCntStep
      <4>2. CASE cpu[c].gone \/ k # x
        BY <2>4, <4>1, <4>2
      <4>3. CASE ~cpu[c].gone /\ k = x
        BY <2>1, <4>1, <4>3 DEF Stores
      <4> QED
        BY <4>2, <4>3
    <3> QED
      BY <1>2, <3>1, <3>2, <3>3
  <2>5. ASSUME NEW k \in Key \ stale' PROVE Value(k)'.cnt <= done'[k]
    <3>1. k \in Key \ stale
      BY <2>2, <2>5
    <3> QED
      BY <1>b, <2>2, <2>3, <2>4, <3>1
  <2>6. ASSUME NEW k \in Key \ stale', NEW d \in Cpus, Stores(d, k, "storeCnt")' PROVE cpu'[d].seen <= done'[k]
    <3>1. k \in Key \ stale /\ d # c
      BY <2>2, <2>6, IdleType DEF Stores
    <3>2. Stores(d, k, "storeCnt") /\ cpu'[d].seen = cpu[d].seen
      BY <2>2, <2>6, <3>1, StoresKept DEF Kept
    <3>3. cpu[d].seen <= done[k] /\ cpu[d].seen \in Nat
      BY <1>b, <3>1, <3>2
    <3> QED
      BY <2>3, <3>1, <3>2, <3>3
  <2> QED
    BY <2>2, <2>5, <2>6 DEF CountInv
<1>3. ASSUME LoadSize(c) \/ StoreSize(c) PROVE CountInv'
  <2>1. PICK x \in Key : x = cpu[c].key
    BY <1>3, KeyOfHandler
  <2>2. /\ \A d \in Cpus \ {c} : cpu'[d] = cpu[d]
        /\ cpu'[c].key = x /\ stale \subseteq stale'
        /\ \A k \in Key \ stale' : Value(k)'.cnt = Value(k).cnt
        /\ Stores(c, x, "storeCnt")' => cpu'[c].seen = Value(x).cnt
    <3>1. CASE LoadSize(c)
      <4>1. /\ \A d \in Cpus \ {c} : cpu'[d] = cpu[d]
            /\ cpu'[c].key = x /\ cpu'[c].pc = "storeSize"
        BY <2>1, <3>1, LoadSizeStep
      <4>2. key' = key /\ info' = info /\ stale' = stale
        BY <3>1 DEF LoadSize, truth
      <4>3. \A k \in Key : Value(k)' = Value(k)
        BY <4>2 DEF Value, SlotOf, Present
      <4> QED
        BY <4>1, <4>2, <4>3 DEF Stores
    <3>2. CASE StoreSize(c)
      <4>1. /\ \A d \in Cpus \ {c} : cpu'[d] = cpu[d]
            /\ cpu'[c].key = x /\ stale \subseteq stale' /\ cpu'[c].gone = cpu[c].gone
            /\ ~cpu[c].gone => Value(x)'.cnt = Value(x).cnt /\ cpu'[c].seen = Value(x).cnt
            /\ \A k \in Key \ stale' : cpu[c].gone \/ k # x => Value(k)' = Value(k)
        BY <2>1, <3>2, StoreSizeStep
      <4>2. \A k \in Key \ stale' : Value(k)'.cnt = Value(k).cnt
        BY <4>1
      <4> QED
        BY <4>1, <4>2 DEF Stores
    <3> QED
      BY <1>3, <3>1, <3>2
  <2>3. begun' = begun /\ done' = done
    BY <1>3 DEF LoadSize, StoreSize, truth
  <2>4. \A d \in Cpus : cpu'[d].key = cpu[d].key
    BY <2>1, <2>2
  <2>5. ASSUME NEW k \in Key PROVE begun'[k] = done'[k] + Cardinality(Using(k)')
    <3>1. Using(k)' = Using(k)
      BY <2>4, UsingKept
    <3> QED
      BY <2>3, <3>1, ValueCount
  <2>6. ASSUME NEW k \in Key \ stale'
        PROVE  /\ Value(k)'.cnt <= done'[k]
               /\ \A d \in Cpus : Stores(d, k, "storeCnt")' => cpu'[d].seen <= done'[k]
    <3>1. k \in Key \ stale
      BY <2>2, <2>6
    <3>2. Value(k)'.cnt <= done'[k]
      BY <1>b, <2>2, <2>3, <2>6, <3>1
    <3>3. ASSUME NEW d \in Cpus, d # c, Stores(d, k, "storeCnt")' PROVE cpu'[d].seen <= done'[k]
      <4>1. cpu'[d] = cpu[d] /\ Stores(d, k, "storeCnt")
        BY <2>2, <3>3 DEF Stores
      <4> QED
        BY <1>b, <2>3, <3>1, <4>1
    <3>4. ASSUME Stores(c, k, "storeCnt")' PROVE cpu'[c].seen <= done'[k]
      <4>1. k = x
        BY <2>2, <3>4 DEF Stores
      <4> QED
        BY <1>b, <2>2, <2>3, <3>1, <3>4, <4>1
    <3> QED
      BY <3>2, <3>3, <3>4
  <2> QED
    BY <2>5, <2>6 DEF CountInv
<1> QED
  BY <1>1, <1>2, <1>3 DEF Handling

----------------------------------------------------------------------------
(***************************************************************************)
(* No size is added twice.                                                 *)
(***************************************************************************)
LEMMA DueType ==
    ASSUME IInv, NEW k \in Key, Small(k), NEW op \in Ops
    PROVE  Due(k, op) \in [Cpus -> Nat]
<1>1. ASSUME NEW c \in Cpus, cpu[c].key = k PROVE cpu[c].count \in Nat
  <2>1. cpu[c].count \in Int
    BY HandlerFacts
  <2>2. cpu[c].count >= 0
    BY <1>1, Consts DEF IInv, SizeInv
  <2> QED
    BY <2>1, <2>2
<1> QED
  BY <1>1 DEF Due

LEMMA DueAt ==
    ASSUME NEW k, NEW op, NEW c \in Cpus
    PROVE  /\ Due(k, op)[c] = IF cpu[c].key = k /\ cpu[c].op = op /\ cpu[c].pc # "storeCnt" THEN cpu[c].count ELSE 0
           /\ Due(k, op)'[c] = IF cpu'[c].key = k /\ cpu'[c].op = op /\ cpu'[c].pc # "storeCnt"
                               THEN cpu'[c].count ELSE 0
  BY DEF Due

LEMMA DueStep ==
    ASSUME NEW c \in Cpus, \A d \in Cpus \ {c} : Kept(d), NEW k, NEW op, NEW n, Due(k, op)'[c] = n
    PROVE  Due(k, op)' = [Due(k, op) EXCEPT ![c] = n]
<1>1. ASSUME NEW d \in Cpus, d # c PROVE Due(k, op)'[d] = Due(k, op)[d]
  BY <1>1, DueAt DEF Kept
<1>2. Due(k, op)' = [d \in Cpus |-> Due(k, op)'[d]]
  BY DEF Due
<1>3. Due(k, op) = [d \in Cpus |-> Due(k, op)[d]]
  BY DEF Due
<1>4. PICK f : f = Due(k, op)
  OBVIOUS
<1>5. PICK g : g = Due(k, op)'
  OBVIOUS
<1>6. g = [d \in Cpus |-> g[d]] /\ f = [d \in Cpus |-> f[d]] /\ g[c] = n /\ \A d \in Cpus : d # c => g[d] = f[d]
  BY <1>1, <1>2, <1>3, <1>4, <1>5
<1>7. g = [f EXCEPT ![c] = n]
  BY <1>6
<1> QED
  BY <1>4, <1>5, <1>7

\* It is enough to look at the handler that acts, for any sum t of the sizes
\* due, and at what the sum grows by.
LEMMA AtMostStep ==
    ASSUME IInv, NEW c \in Cpus, Handling(c), NEW k \in Key \ stale, Small(k), NEW op \in Ops,
           NEW n \in Nat, Due(k, op)'[c] = n,
           NEW w \in Nat, Due(k, op)[c] = w,
           n - w <= moved'[k][op] - moved[k][op],
           \A t \in Nat :
              /\ t >= w
              /\ Value(k).size[op] + t <= moved[k][op]
              /\ Stores(c, k, "storeSize") /\ cpu[c].op = op => cpu[c].seen + t <= moved[k][op]
              => /\ Value(k)'.size[op] + (t + n - w) <= moved'[k][op]
                 /\ Stores(c, k, "storeSize")' /\ cpu'[c].op = op => cpu'[c].seen + (t + n - w) <= moved'[k][op]
    PROVE  \E total : AtMost(k, op, total)'
<1>1. PICK total : AtMost(k, op, total)
  BY DEF IInv, SizeInv
<1>2. Due(k, op) \in [Cpus -> Nat]
  BY DueType
<1>3. Sums(total, Due(k, op))
  BY <1>1 DEF AtMost
<1>4. \A d \in Cpus \ {c} : Kept(d) /\ (cpu[d].gone => cpu'[d].gone)
  BY HandlingCpu
<1>5. PICK sum : Sums(sum, [Due(k, op) EXCEPT ![c] = n]) /\ sum[Cpus] + Due(k, op)[c] = total[Cpus] + n
  BY ZenonT(60), <1>2, <1>3, SumsStep
<1>6. Sums(sum, Due(k, op)')
  BY <1>4, <1>5, DueStep
<1>7. PICK t \in Nat : t = total[Cpus]
  BY <1>3 DEF Sums
<1>8. t >= w
  <2>1. Cpus \ {c} \in SUBSET Cpus /\ (Cpus \ {c}) \cup {c} = Cpus
    OBVIOUS
  <2>2. total[(Cpus \ {c}) \cup {c}] = total[Cpus \ {c}] + Due(k, op)[c] /\ total[Cpus \ {c}] \in Nat
    BY <1>3, <2>1 DEF Sums
  <2>3. PICK m \in Nat : m = total[Cpus \ {c}]
    BY <2>2
  <2>4. total[Cpus] = m + w
    BY <2>1, <2>2, <2>3
  <2> QED
    BY <1>7, <2>4
<1>9. sum[Cpus] = t + n - w
  <2>1. sum[Cpus] \in Nat
    BY <1>6 DEF Sums
  <2> QED
    BY <1>5, <1>7, <2>1
<1>10. /\ Value(k).size[op] + t <= moved[k][op]
       /\ \A d \in Cpus : Stores(d, k, "storeSize") /\ cpu[d].op = op => cpu[d].seen + t <= moved[k][op]
  BY <1>1, <1>7 DEF AtMost
<1>11. Value(k)'.size[op] + sum[Cpus] <= moved'[k][op]
  BY <1>8, <1>9, <1>10
<1>12. ASSUME NEW d \in Cpus, Stores(d, k, "storeSize")', cpu'[d].op = op
       PROVE  cpu'[d].seen + sum[Cpus] <= moved'[k][op]
  <2>1. CASE d = c
    BY <1>8, <1>9, <1>10, <1>12, <2>1
  <2>2. CASE d # c
    <3>1. Kept(d) /\ (cpu[d].gone => cpu'[d].gone)
      BY <1>4, <2>2
    <3>2. Stores(d, k, "storeSize") /\ cpu[d].op = op /\ cpu'[d].seen = cpu[d].seen
      BY <1>12, <3>1, StoresKept DEF Kept
    <3>3. cpu[d].seen + t <= moved[k][op] /\ cpu[d].seen \in Nat
      BY <1>10, <3>2, HandlerFacts
    <3>4. moved[k][op] \in Nat /\ moved'[k][op] \in Nat
      <4>1. moved \in [Key -> [Ops -> Nat]]
        BY DEF IInv, Types, TruthTypes
      <4>2. moved' \in [Key -> [Ops -> Nat]]
        BY TruthTypesStep DEF TruthTypes
      <4> QED
        BY <4>1, <4>2
    <3> QED
      BY <1>9, <3>2, <3>3, <3>4
  <2> QED
    BY <2>1, <2>2
<1> QED
  BY <1>6, <1>11, <1>12 DEF AtMost

LEMMA SignHandling ==
    ASSUME IInv, NEW c \in Cpus, Handling(c), NEW d \in Cpus, cpu'[d].key # Free, Small(cpu'[d].key)
    PROVE  cpu'[d].count >= 0
<1>0. ASSUME cpu'[d].key = cpu[d].key, cpu'[d].count = cpu[d].count PROVE cpu'[d].count >= 0
  BY <1>0 DEF IInv, SizeInv
<1>1. CASE d # c
  <2>1. Kept(d)
    BY <1>1, HandlingCpu
  <2> QED
    BY <1>0, <2>1 DEF Kept
<1>2. ASSUME d = c, NEW a \in Accesses, VfsHook(c, a) PROVE cpu'[d].count >= 0
  <2>1. PICK k \in Key : k = [pid |-> a.pid, file |-> a.file] /\ cpu'[c].key = k /\ cpu'[c].count = ToInt(a.count)
    BY <1>2, HookStep
  <2>2. a.count < Half /\ a.count \in Nat
    BY <1>2, <2>1, Consts DEF Small
  <2> QED
    BY <1>2, <2>1, <2>2, ToIntType
<1>3. ASSUME d = c, InsertNew(c) \/ InsertOver(c) \/ StoreCnt(c) PROVE FALSE
  <2>1. cpu'[c] = Idle
    BY <1>3 DEF InsertNew, InsertOver, StoreCnt, End
  <2> QED
    BY <1>3, <2>1, IdleType
<1>4. ASSUME d = c, LoadSize(c) \/ StoreSize(c) PROVE cpu'[d].count >= 0
  <2>1. PICK x \in Key : x = cpu[c].key
    BY <1>4, KeyOfHandler
  <2>2. cpu'[c].key = cpu[c].key /\ cpu'[c].count = cpu[c].count
    BY <1>4, <2>1, LoadSizeStep, StoreSizeStep
  <2> QED
    BY <1>0, <1>4, <2>2
<1> QED
  BY <1>1, <1>2, <1>3, <1>4 DEF Handling

LEMMA SizeTypes ==
    ASSUME IInv, NEW k \in Key, NEW op \in Ops
    PROVE  Value(k).size[op] \in Nat /\ moved[k][op] \in Nat
<1>1. Value(k) \in Info
  BY ValueFacts
<1>2. Value(k).size[op] \in 0..(Wrap - 1)
  BY <1>1 DEF Info
<1>3. moved \in [Key -> [Ops -> Nat]]
  BY DEF IInv, Types, TruthTypes
<1> QED
  BY <1>2, <1>3, WrapType

\* A step that leaves alone the value of k, what it owes and what it was sent.
LEMMA AtMostSame ==
    ASSUME IInv, NEW c \in Cpus, Handling(c), NEW k \in Key \ stale, Small(k), NEW op \in Ops,
           NEW w \in Nat, Due(k, op)'[c] = w, Due(k, op)[c] = w, moved'[k][op] = moved[k][op],
           Value(k)'.size[op] = Value(k).size[op],
           Stores(c, k, "storeSize")' /\ cpu'[c].op = op => cpu'[c].seen = Value(k).size[op]
    PROVE  \E total : AtMost(k, op, total)'
<1>1. Value(k).size[op] \in Nat /\ moved[k][op] \in Nat
  BY SizeTypes
<1>2. w - w <= moved'[k][op] - moved[k][op]
  BY <1>1
<1>3. \A t \in Nat : t + w - w = t
  OBVIOUS
<1>4. ASSUME NEW t \in Nat, Value(k).size[op] + t <= moved[k][op]
      PROVE  /\ Value(k)'.size[op] + (t + w - w) <= moved'[k][op]
             /\ Stores(c, k, "storeSize")' /\ cpu'[c].op = op => cpu'[c].seen + (t + w - w) <= moved'[k][op]
  BY <1>1, <1>3, <1>4
<1> QED
  BY <1>2, <1>4, AtMostStep

LEMMA SizeHook ==
    ASSUME IInv, NEW c \in Cpus, NEW a \in Accesses, VfsHook(c, a),
           NEW k \in Key \ stale', Small(k), NEW op \in Ops
    PROVE  \E total : AtMost(k, op, total)'
<1>1. PICK x \in Key :
         /\ x = [pid |-> a.pid, file |-> a.file]
         /\ cpu[c].key = Free /\ cpu'[c].key = x /\ cpu'[c].op = a.op /\ cpu'[c].count = ToInt(a.count)
         /\ cpu'[c].pc \in {"loadSize", "insert"}
         /\ moved'[x][a.op] = moved[x][a.op] + a.count
         /\ \A j \in Key : \A o \in Ops : (j # x \/ o # a.op) => moved'[j][o] = moved[j][o]
  BY HookStep
<1>2. key' = key /\ info' = info /\ stale' = stale /\ Handling(c)
  BY DEF VfsHook, Handling
<1>3. Value(k)' = Value(k)
  BY <1>2 DEF Value, SlotOf, Present
<1>4. ~(Stores(c, k, "storeSize")') /\ k \in Key \ stale
  BY <1>1, <1>2 DEF Stores
<1>5. Due(k, op)[c] = 0
  BY <1>1, DueAt, Consts
<1>6. CASE k # x \/ op # a.op
  <2>1. Due(k, op)'[c] = 0 /\ moved'[k][op] = moved[k][op]
    BY <1>1, <1>6, DueAt
  <2>2. 0 \in Nat
    OBVIOUS
  <2> QED
    BY <1>2, <1>3, <1>4, <1>5, <2>1, <2>2, AtMostSame
<1>7. CASE k = x /\ op = a.op
  <2>1. a.count \in Nat /\ a.count < Half
    BY <1>1, <1>7, Consts DEF Small
  <2>2. Due(k, op)'[c] = a.count
    BY <1>1, <1>7, <2>1, DueAt, ToIntType
  <2>3. PICK n \in Nat : n = a.count
    BY <2>1
  <2>4. moved'[k][op] = moved[k][op] + n /\ Value(k).size[op] \in Nat /\ moved[k][op] \in Nat
    BY <1>1, <1>7, <2>3, SizeTypes
  <2>5. n - 0 <= moved'[k][op] - moved[k][op]
    BY <2>4
  <2>6. ASSUME NEW t \in Nat, Value(k).size[op] + t <= moved[k][op]
        PROVE  Value(k)'.size[op] + (t + n - 0) <= moved'[k][op]
    BY <1>3, <2>4, <2>6
  <2>7. PICK z \in Nat : z = 0
    OBVIOUS
  <2> QED
    BY <1>2, <1>4, <1>5, <2>2, <2>3, <2>5, <2>6, <2>7, AtMostStep
<1> QED
  BY <1>6, <1>7

\* A handler ends: what it owes to its key is in the map, or is given up.
LEMMA SizeGiven ==
    ASSUME IInv, NEW c \in Cpus, Handling(c), NEW k \in Key \ stale, Small(k), NEW op \in Ops,
           NEW w \in Nat, Due(k, op)[c] = w, Due(k, op)'[c] = 0, moved' = moved,
           ~(Stores(c, k, "storeSize")'), Value(k)'.size[op] \in Nat,
           \/ Value(k)'.size[op] = Value(k).size[op]
           \/ Value(k)'.size[op] <= w
           \/ Stores(c, k, "storeSize") /\ cpu[c].op = op /\ Value(k)'.size[op] <= cpu[c].seen + w
    PROVE  \E total : AtMost(k, op, total)'
<1>1. Value(k).size[op] \in Nat /\ moved[k][op] \in Nat /\ moved'[k][op] = moved[k][op] /\ cpu[c].seen \in Nat
  BY SizeTypes, HandlerFacts
<1>2. 0 - w <= moved'[k][op] - moved[k][op]
  BY <1>1
<1>3. ASSUME NEW t \in Nat, t >= w, Value(k).size[op] + t <= moved[k][op],
             Stores(c, k, "storeSize") /\ cpu[c].op = op => cpu[c].seen + t <= moved[k][op]
      PROVE  Value(k)'.size[op] + (t + 0 - w) <= moved'[k][op]
  BY <1>1, <1>3
<1>4. PICK z \in Nat : z = 0
  OBVIOUS
<1> QED
  BY <1>2, <1>3, <1>4, AtMostStep

LEMMA SizeInsert ==
    ASSUME IInv, NEW c \in Cpus, InsertNew(c) \/ InsertOver(c),
           NEW k \in Key \ stale', Small(k), NEW op \in Ops
    PROVE  \E total : AtMost(k, op, total)'
<1>1. PICK x \in Key : x = cpu[c].key
  BY KeyOfHandler
<1>2. moved' = moved /\ stale' = stale /\ Handling(c) /\ cpu'[c] = Idle /\ cpu[c].pc = "insert"
  BY DEF InsertNew, InsertOver, Handling, End
<1>3. /\ \A j \in Key \ {x} : Value(j)' = Value(j)
      /\ Value(x)' = FirstInfo(c) \/ Value(x)' = Value(x)
  BY <1>1, InsertNewStep, InsertOverStep
<1>4. Due(k, op)'[c] = 0 /\ ~(Stores(c, k, "storeSize")')
  BY <1>2, DueAt, IdleType, Consts DEF Stores
<1>5. PICK w \in Nat : w = Due(k, op)[c]
  BY DueType
<1>6. Value(k)'.size[op] = Value(k).size[op] \/ (Value(k)'.size[op] \in Nat /\ Value(k)'.size[op] <= w)
  <2>1. CASE k # x \/ Value(x)' = Value(x)
    BY <1>3, <2>1
  <2>2. CASE k = x /\ Value(x)' = FirstInfo(c) /\ op = cpu[c].op
    <3>1. w = cpu[c].count
      BY <1>1, <1>2, <1>5, <2>2, DueAt
    <3>2. PICK z \in Nat : z = 0
      OBVIOUS
    <3>3. AddSize(z, w) \in 0..(Wrap - 1) /\ AddSize(z, w) <= z + w
      BY AddSizeType
    <3>4. Value(k)'.size[op] = AddSize(z, w)
      BY <2>2, <3>1, <3>2, FirstInfoType
    <3> QED
      BY <3>2, <3>3, <3>4, WrapType
  <2>3. CASE k = x /\ Value(x)' = FirstInfo(c) /\ op # cpu[c].op
    <3>1. Value(k)'.size[op] = 0
      BY <2>3, FirstInfoType
    <3> QED
      BY <3>1
  <2> QED
    BY <1>3, <2>1, <2>2, <2>3
<1>7. Value(k).size[op] \in Nat /\ k \in Key \ stale
  BY <1>2, SizeTypes
<1>8. Value(k)'.size[op] \in Nat
  BY <1>6, <1>7
<1>9. Value(k)'.size[op] = Value(k).size[op] \/ Value(k)'.size[op] <= w
  BY <1>6
<1> QED
  BY <1>2, <1>4, <1>5, <1>7, <1>8, <1>9, SizeGiven

LEMMA SizeStores ==
    ASSUME IInv, NEW c \in Cpus, LoadSize(c) \/ StoreSize(c) \/ StoreCnt(c),
           NEW k \in Key \ stale', Small(k), NEW op \in Ops
    PROVE  \E total : AtMost(k, op, total)'
<1>0. PICK x \in Key : x = cpu[c].key
  BY KeyOfHandler
<1>1. moved' = moved /\ Handling(c)
  BY DEF LoadSize, StoreSize, StoreCnt, truth, Handling
<1>2. PICK w \in Nat : w = Due(k, op)[c]
  BY DueType
<1>3. Value(k).size[op] \in Nat /\ moved'[k][op] = moved[k][op]
  BY <1>1, SizeTypes
<1>4. CASE LoadSize(c)
  <2>1. /\ cpu[c].pc = "loadSize" /\ cpu'[c].pc = "storeSize" /\ cpu'[c].op = cpu[c].op /\ cpu'[c].key = x
        /\ cpu'[c].count = cpu[c].count /\ cpu'[c].gone = cpu[c].gone
        /\ ~cpu[c].gone => cpu'[c].seen = Value(x).size[cpu[c].op]
    BY <1>0, <1>4, LoadSizeStep
  <2>2. key' = key /\ info' = info /\ stale' = stale
    BY <1>4 DEF LoadSize, truth
  <2>3. Value(k)' = Value(k)
    BY <2>2 DEF Value, SlotOf, Present
  <2>4. Due(k, op)'[c] = w
    BY <1>0, <1>2, <2>1, DueAt
  <2>5. Stores(c, k, "storeSize")' /\ cpu'[c].op = op => cpu'[c].seen = Value(k).size[op]
    BY <2>1 DEF Stores
  <2>6. k \in Key \ stale /\ Value(k)'.size[op] = Value(k).size[op]
    BY <2>2, <2>3
  <2> QED
    BY <1>1, <1>2, <1>3, <2>4, <2>5, <2>6, AtMostSame
<1>5. CASE StoreSize(c)
  <2>1. /\ cpu[c].pc = "storeSize" /\ cpu'[c].pc = "storeCnt" /\ stale \subseteq stale'
        /\ ~cpu[c].gone => /\ Value(x)'.size[cpu[c].op] = AddSize(cpu[c].seen, cpu[c].count)
                           /\ \A o \in Ops : o # cpu[c].op => Value(x)'.size[o] = Value(x).size[o]
        /\ \A j \in Key \ stale' : cpu[c].gone \/ j # x => Value(j)' = Value(j)
    BY <1>0, <1>5, StoreSizeStep
  <2>2. Due(k, op)'[c] = 0 /\ ~(Stores(c, k, "storeSize")') /\ k \in Key \ stale
    BY <2>1, DueAt DEF Stores
  <2>3. CASE ~cpu[c].gone /\ k = x /\ op = cpu[c].op
    <3>1. w = cpu[c].count /\ cpu[c].seen \in Nat
      BY <1>0, <1>2, <2>1, <2>3, DueAt, HandlerFacts
    <3>2. Value(k)'.size[op] = AddSize(cpu[c].seen, w)
      BY <2>1, <2>3, <3>1
    <3>3. AddSize(cpu[c].seen, w) \in 0..(Wrap - 1) /\ AddSize(cpu[c].seen, w) <= cpu[c].seen + w
      BY <3>1, AddSizeType
    <3>4. Value(k)'.size[op] \in Nat /\ Value(k)'.size[op] <= cpu[c].seen + w
      BY <3>2, <3>3, WrapType
    <3>5. Stores(c, k, "storeSize") /\ cpu[c].op = op
      BY <1>0, <2>1, <2>3 DEF Stores
    <3> QED
      BY <1>1, <1>2, <2>2, <3>4, <3>5, SizeGiven
  <2>4. CASE ~(~cpu[c].gone /\ k = x /\ op = cpu[c].op)
    <3>1. Value(k)'.size[op] = Value(k).size[op]
      BY <2>1, <2>4
    <3> QED
      BY <1>1, <1>2, <1>3, <2>2, <3>1, SizeGiven
  <2> QED
    BY <2>3, <2>4
<1>6. CASE StoreCnt(c)
  <2>1. /\ cpu[c].pc = "storeCnt" /\ stale \subseteq stale'
        /\ ~cpu[c].gone => Value(x)'.size = Value(x).size
        /\ \A j \in Key \ stale' : cpu[c].gone \/ j # x => Value(j)' = Value(j)
    BY <1>0, <1>6, StoreCntStep
  <2>2. cpu'[c] = Idle
    BY <1>6 DEF StoreCnt, End
  <2>3. Due(k, op)'[c] = 0 /\ ~(Stores(c, k, "storeSize")') /\ k \in Key \ stale
    BY <2>1, <2>2, DueAt, IdleType, Consts DEF Stores
  <2>4. Value(k)'.size[op] = Value(k).size[op]
    BY <2>1
  <2> QED
    BY <1>1, <1>2, <1>3, <2>3, <2>4, SizeGiven
<1> QED
  BY <1>4, <1>5, <1>6

LEMMA SizeHandling ==
    ASSUME IInv, NEW c \in Cpus, Handling(c)
    PROVE  SizeInv'
<1>1. \A d \in Cpus : cpu'[d].key # Free /\ Small(cpu'[d].key) => cpu'[d].count >= 0
  BY SignHandling
<1>2. ASSUME NEW k \in Key \ stale', Small(k), NEW op \in Ops PROVE \E total : AtMost(k, op, total)'
  BY <1>2, SizeHook, SizeInsert, SizeStores DEF Handling
<1> QED
  BY <1>1, <1>2 DEF SizeInv, Small

----------------------------------------------------------------------------
(***************************************************************************)
(* The value of a key is exact while one handler at a time uses it.        *)
(***************************************************************************)
Exact(k) == ExactCount(k) /\ (Small(k) => \A op \in Ops : ExactSize(k, op))

LEMMA AloneFacts ==
    ASSUME IInv, NEW k \in Key
    PROVE  /\ k \notin raced => Alone(k)
           /\ k \notin raced \cup stale => Exact(k)
  BY DEF IInv, AloneInv, Exact

\* A step of the handler of another key.
LEMMA AloneSame ==
    ASSUME NEW k \in Key, Using(k)' = Using(k), k \in Present' <=> k \in Present,
           \A d \in Using(k) : Kept(d) /\ cpu'[d].gone = cpu[d].gone
    PROVE  Alone(k) => Alone(k)'
  BY DEF Alone, Kept

LEMMA ExactSame ==
    ASSUME NEW k \in Key, Using(k)' = Using(k), Value(k)' = Value(k), done'[k] = done[k],
           \A op \in Ops : moved'[k][op] = moved[k][op],
           \A d \in Using(k) : Kept(d)
    PROVE  Exact(k) => Exact(k)'
<1>1. ExactCount(k) => ExactCount(k)'
  BY DEF ExactCount, Kept
<1>2. ASSUME NEW op \in Ops, ExactSize(k, op) PROVE ExactSize(k, op)'
  <2>1. ASSUME NEW d \in Using(k) PROVE Due(k, op)'[d] = Due(k, op)[d]
    <3>1. d \in Cpus /\ Kept(d)
      BY DEF Using
    <3> QED
      BY <3>1, DueAt DEF Kept
  <2>2. Using(k) = {} => Value(k)'.size[op] = moved'[k][op] % Wrap
    BY <1>2 DEF ExactSize
  <2>3. ASSUME NEW d \in Using(k)'
        PROVE  /\ Due(k, op)'[d] <= moved'[k][op]
               /\ Value(k)'.size[op] = (moved'[k][op] - Due(k, op)'[d]) % Wrap
               /\ cpu'[d].pc = "storeSize" /\ cpu'[d].op = op => cpu'[d].seen = Value(k)'.size[op]
    <3>1. d \in Using(k) /\ Kept(d)
      BY <2>3
    <3>2. /\ Due(k, op)[d] <= moved[k][op]
          /\ Value(k).size[op] = (moved[k][op] - Due(k, op)[d]) % Wrap
          /\ cpu[d].pc = "storeSize" /\ cpu[d].op = op => cpu[d].seen = Value(k).size[op]
      BY <1>2, <3>1 DEF ExactSize
    <3>3. Due(k, op)'[d] = Due(k, op)[d] /\ moved'[k][op] = moved[k][op]
      BY <2>1, <3>1
    <3> QED
      BY <3>1, <3>2, <3>3 DEF Kept
  <2> QED
    BY <2>2, <2>3 DEF ExactSize
<1> QED
  BY <1>1, <1>2 DEF Exact, Small

\* An element that a handler of k points to is not the one of key x.
LEMMA OtherPointer ==
    ASSUME IInv, NEW x \in Key, x \in Present, NEW k \in Key \ {x}, NEW d \in Cpus, cpu[d].key = k, ~cpu[d].gone
    PROVE  cpu[d].ptr # SlotOf(x)
<1>1. SlotOf(x) \in Slots /\ key[SlotOf(x)] = x
  BY ValueFacts
<1>2. Pointing(d) => key[cpu[d].ptr] = k
  BY DEF IInv, PointerInv
<1>3. ~Pointing(d) => cpu[d].ptr = 0
  BY DEF IInv, PointerInv
<1> QED
  BY <1>1, <1>2, <1>3, Consts

\* What a step of another key's handler leaves alone.
OtherKept(k) ==
    /\ raced \subseteq raced' /\ stale \subseteq stale' /\ done'[k] = done[k]
    /\ \A op \in Ops : moved'[k][op] = moved[k][op]
    /\ k \in Present' <=> k \in Present
    /\ k \notin stale' => Value(k)' = Value(k)
    /\ \A d \in Using(k) : ~cpu[d].gone => ~cpu'[d].gone

LEMMA AloneOther ==
    ASSUME IInv, NEW c \in Cpus, Handling(c), NEW k \in Key \ raced', cpu[c].key # k, cpu'[c].key # k
    PROVE  Alone(k)' /\ (k \notin stale' => Exact(k)')
<1>1. Using(k)' = Using(k) /\ \A d \in Using(k) : d \in Cpus \ {c} /\ Kept(d)
  <2>1. \A d \in Cpus \ {c} : Kept(d)
    BY HandlingCpu
  <2> QED
    BY <2>1 DEF Using, Kept
<1>p. OtherKept(k)
  <2>1. ASSUME NEW a \in Accesses, VfsHook(c, a) PROVE OtherKept(k)
    <3>1. PICK x \in Key :
             /\ x = [pid |-> a.pid, file |-> a.file]
             /\ cpu'[c].key = x
             /\ \A d \in Cpus \ {c} : cpu'[d] = cpu[d]
             /\ \A j \in Key : \A op \in Ops : (j # x \/ op # a.op) => moved'[j][op] = moved[j][op]
      BY <2>1, HookStep
    <3>r. raced' = IF Using(x) # {} THEN raced \cup {x} ELSE raced
      BY <2>1, <3>1 DEF VfsHook
    <3>2. key' = key /\ info' = info /\ done' = done /\ stale' = stale
      BY <2>1 DEF VfsHook
    <3>3. Value(k)' = Value(k) /\ Present' = Present
      BY <3>2 DEF Value, SlotOf, Present
    <3> QED
      BY <1>1, <3>1, <3>r, <3>2, <3>3 DEF OtherKept
  <2>2. ASSUME InsertNew(c) \/ InsertOver(c) \/ StoreCnt(c) PROVE OtherKept(k)
    <3>1. PICK x \in Key : x = cpu[c].key
      BY <2>2, KeyOfHandler
    <3>2. done'[k] = done[k] /\ moved' = moved /\ stale \subseteq stale'
      BY <2>2, <3>1, EndCount
    <3>3. CASE InsertNew(c)
      <4>1. /\ raced' = raced \/ raced' = raced \cup {x}
            /\ Present' = Present \/ Present' = Present \cup {x}
            /\ \A j \in Key \ {x} : Value(j)' = Value(j)
        BY <3>1, <3>3, InsertNewStep
      <4>2. \A d \in Using(k) : cpu'[d] = cpu[d]
        BY <1>1, <3>3 DEF InsertNew, End
      <4> QED
        BY <3>1, <3>2, <4>1, <4>2 DEF OtherKept
    <3>4. CASE InsertOver(c)
      <4>1. /\ x \in Present /\ Present' = Present
            /\ \A j \in Key \ {x} : Value(j)' = Value(j)
            /\ \A d \in Cpus \ {c} : cpu'[d].gone = (cpu[d].gone \/ cpu[d].ptr = SlotOf(x))
        BY <3>1, <3>4, InsertOverStep
      <4>2. \A d \in Using(k) : ~cpu[d].gone => ~cpu'[d].gone
        BY <1>1, <3>1, <4>1, OtherPointer DEF Using
      <4>3. raced' = raced
        BY <3>4 DEF InsertOver
      <4> QED
        BY <3>1, <3>2, <4>1, <4>2, <4>3 DEF OtherKept
    <3>5. CASE StoreCnt(c)
      <4>1. Present' = Present /\ \A j \in Key \ stale' : cpu[c].gone \/ j # x => Value(j)' = Value(j)
        BY <3>1, <3>5, StoreCntStep
      <4>2. raced' = raced /\ \A d \in Using(k) : cpu'[d] = cpu[d]
        BY <1>1, <3>5 DEF StoreCnt, End
      <4> QED
        BY <3>1, <3>2, <4>1, <4>2 DEF OtherKept
    <3> QED
      BY <2>2, <3>3, <3>4, <3>5
  <2>3. ASSUME LoadSize(c) \/ StoreSize(c) PROVE OtherKept(k)
    <3>1. PICK x \in Key : x = cpu[c].key
      BY <2>3, KeyOfHandler
    <3>2. CASE LoadSize(c)
      <4>1. key' = key /\ info' = info /\ UNCHANGED truth
        BY <3>2 DEF LoadSize
      <4>2. Value(k)' = Value(k) /\ Present' = Present
        BY <4>1 DEF Value, SlotOf, Present
      <4>3. \A d \in Cpus \ {c} : cpu'[d] = cpu[d]
        BY <3>1, <3>2, LoadSizeStep
      <4> QED
        BY <1>1, <4>1, <4>2, <4>3 DEF truth, OtherKept
    <3>3. CASE StoreSize(c)
      <4>1. /\ Present' = Present /\ \A j \in Key \ stale' : cpu[c].gone \/ j # x => Value(j)' = Value(j)
            /\ \A d \in Cpus \ {c} : cpu'[d] = cpu[d]
            /\ stale \subseteq stale'
        BY <3>1, <3>3, StoreSizeStep
      <4>2. raced' = raced /\ done' = done /\ moved' = moved
        BY <3>3 DEF StoreSize
      <4> QED
        BY <1>1, <3>1, <4>1, <4>2 DEF OtherKept
    <3> QED
      BY <2>3, <3>2, <3>3
  <2> QED
    BY <2>1, <2>2, <2>3 DEF Handling
<1>2. /\ raced \subseteq raced' /\ stale \subseteq stale' /\ done'[k] = done[k]
      /\ \A op \in Ops : moved'[k][op] = moved[k][op]
      /\ k \in Present' <=> k \in Present
      /\ k \notin stale' => Value(k)' = Value(k)
      /\ \A d \in Using(k) : ~cpu[d].gone => ~cpu'[d].gone
  BY <1>p DEF OtherKept
<1>3. k \notin raced
  BY <1>2
<1>4. Alone(k)
  BY <1>3, AloneFacts
<1>5. \A d \in Using(k) : cpu'[d].gone = cpu[d].gone
  <2>1. ASSUME NEW d \in Using(k) PROVE cpu'[d].gone = cpu[d].gone
    <3>1. d \in Cpus /\ cpu[d].gone \in BOOLEAN /\ ~cpu[d].gone /\ ~cpu'[d].gone
      BY <1>1, <1>2, <1>4, HandlerFacts DEF Alone
    <3>2. cpu'[d] \in Handler
      BY <3>1, HandlingCpu
    <3>3. cpu'[d].gone \in BOOLEAN
      BY <3>2 DEF Handler
    <3> QED
      BY <3>1, <3>3
  <2> QED
    BY <2>1
<1>6. Alone(k)'
  BY <1>1, <1>2, <1>4, <1>5, AloneSame
<1>7. ASSUME k \notin stale' PROVE Exact(k)'
  <2>1. Exact(k) /\ Value(k)' = Value(k)
    BY <1>2, <1>3, <1>7, AloneFacts
  <2> QED
    BY <1>1, <1>2, <2>1, ExactSame
<1> QED
  BY <1>6, <1>7

\* The handler of c, alone at key x.
LEMMA AloneOwner ==
    ASSUME IInv, NEW c \in Cpus, NEW x \in Key \ raced, cpu[c].key = x
    PROVE  Using(x) = {c} /\ ~cpu[c].gone /\ (cpu[c].pc = "insert" => x \notin Present)
<1>1. Alone(x) /\ c \in Using(x)
  BY AloneFacts DEF Using
<1> QED
  BY <1>1 DEF Alone

\* The sum modulo 2^64 of what a handler adds to what is there without it.
LEMMA AddExact ==
    ASSUME NEW m \in Nat, NEW n \in Nat, n <= m, NEW s \in Nat, s = (m - n) % Wrap
    PROVE  AddSize(s, n) = m % Wrap
<1>1. PICK y \in Int : y = m - n
  OBVIOUS
<1>2. ((y % Wrap) + n) % Wrap = (y + n) % Wrap
  <2>1. PICK w \in Nat : w = Wrap /\ w > 0
    BY WrapType
  <2>2. PICK i \in Int : i = n
    OBVIOUS
  <2>3. ((y % w) + i) % w = (y + i) % w
    BY <2>1, ModSum
  <2> QED
    BY <2>1, <2>2, <2>3
<1>3. y + n = m /\ s = y % Wrap
  BY <1>1
<1>4. (s + n) % Wrap = m % Wrap
  BY <1>2, <1>3
<1> QED
  BY <1>4, AddSizeType

LEMMA AloneHook ==
    ASSUME IInv, NEW c \in Cpus, NEW a \in Accesses, VfsHook(c, a), NEW x \in Key \ raced', cpu'[c].key = x
    PROVE  Alone(x)' /\ (x \notin stale' => Exact(x)')
<1>1. /\ x = [pid |-> a.pid, file |-> a.file]
      /\ cpu[c].key = Free /\ cpu'[c].op = a.op /\ cpu'[c].count = ToInt(a.count) /\ ~cpu'[c].gone
      /\ cpu'[c].pc \in {"loadSize", "insert"} /\ (cpu'[c].pc = "insert" => x \notin Present)
      /\ \A d \in Cpus \ {c} : cpu'[d] = cpu[d]
  BY HookStep
<1>2. /\ moved'[x][a.op] = moved[x][a.op] + a.count
      /\ \A op \in Ops : op # a.op => moved'[x][op] = moved[x][op]
  BY HookStep
<1>3. raced' = IF Using(x) # {} THEN raced \cup {x} ELSE raced
  BY <1>1 DEF VfsHook
<1>4. Using(x) = {} /\ x \notin raced
  BY <1>3
<1>5. Using(x)' = {c}
  BY <1>1, <1>4, UsingJoin
<1>6. key' = key /\ info' = info /\ done' = done /\ stale' = stale
  BY DEF VfsHook
<1>7. Value(x)' = Value(x) /\ Present' = Present
  BY <1>6 DEF Value, SlotOf, Present
<1>8. Alone(x)'
  BY <1>1, <1>5, <1>7 DEF Alone
<1>9. ASSUME x \notin stale' PROVE Exact(x)'
  <2>1. Exact(x)
    BY <1>4, <1>6, <1>9, AloneFacts
  <2>2. ExactCount(x)'
    BY <1>1, <1>5, <1>6, <1>7, <2>1 DEF Exact, ExactCount
  <2>3. ASSUME Small(x), NEW op \in Ops PROVE ExactSize(x, op)'
    <3>1. Value(x).size[op] = moved[x][op] % Wrap
      BY <1>4, <2>1, <2>3 DEF Exact, ExactSize
    <3>2. moved[x][op] \in Nat
      BY SizeTypes
    <3>3. a.count \in Nat /\ a.count < Half /\ ToInt(a.count) = a.count
      BY <1>1, <2>3, Consts, ToIntType DEF Small
    <3>4. Due(x, op)'[c] <= moved'[x][op] /\ moved'[x][op] - Due(x, op)'[c] = moved[x][op]
      <4>1. CASE op = a.op
        <5>1. Due(x, op)'[c] = a.count
          BY <1>1, <3>3, <4>1, DueAt
        <5> QED
          BY <1>2, <3>2, <3>3, <4>1, <5>1
      <4>2. CASE op # a.op
        <5>1. Due(x, op)'[c] = 0
          BY <1>1, <4>2, DueAt
        <5> QED
          BY <1>2, <3>2, <4>2, <5>1
      <4> QED
        BY <4>1, <4>2
    <3> QED
      BY <1>1, <1>5, <1>7, <3>1, <3>4 DEF ExactSize
  <2> QED
    BY <2>2, <2>3 DEF Exact, Small
<1> QED
  BY <1>8, <1>9

\* The key of a handler that ends has no handler any more.
LEMMA AloneEnds ==
    ASSUME IInv, NEW c \in Cpus, NEW x \in Key \ raced, x = cpu[c].key,
           InsertNew(c) \/ InsertOver(c) \/ StoreCnt(c)
    PROVE  Using(x)' = {} /\ Alone(x)'
<1>1. Using(x) = {c}
  BY AloneOwner
<1>2. cpu'[c] = Idle /\ \A d \in Cpus \ {c} : Kept(d)
  BY EndCount
<1>3. Using(x)' = Using(x) \ {c}
  BY <1>2, UsingLeave DEF Kept
<1>4. Using(x)' = {}
  BY <1>1, <1>3
<1> QED
  BY <1>4 DEF Alone

LEMMA AloneInsert ==
    ASSUME IInv, NEW c \in Cpus, InsertNew(c) \/ InsertOver(c), NEW x \in Key \ raced', x = cpu[c].key
    PROVE  Alone(x)' /\ (x \notin stale' => Exact(x)')
<1>1. raced \subseteq raced' /\ stale' = stale /\ moved' = moved
  <2>1. CASE InsertNew(c)
    BY <2>1 DEF InsertNew
  <2>2. CASE InsertOver(c)
    BY <2>2 DEF InsertOver
  <2> QED
    BY <2>1, <2>2
<1>2. x \notin raced
  BY <1>1
<1>3. cpu[c].pc = "insert" /\ x \notin Present
  BY <1>2, AloneOwner DEF InsertNew, InsertOver
<1>4. InsertNew(c)
  BY <1>3 DEF InsertOver
<1>5. Value(x)' = FirstInfo(c)
  BY <1>4, InsertNewStep
<1>6. Using(x)' = {} /\ Alone(x)'
  BY <1>2, AloneEnds
<1>7. Using(x) = {c}
  BY <1>2, AloneOwner
<1>8. ASSUME x \notin stale' PROVE Exact(x)'
  <2>1. Exact(x)
    BY <1>1, <1>2, <1>8, AloneFacts
  <2>2. Value(x) = NoInfo
    BY <1>3, ValueFacts
  <2>3. done'[x] = 1
    <3>1. done[x] = 0
      BY <2>1, <2>2 DEF Exact, ExactCount, NoInfo
    <3> QED
      BY <3>1, EndCount
  <2>4. ExactCount(x)'
    BY <1>5, <1>6, <2>3, FirstInfoType DEF ExactCount
  <2>5. ASSUME Small(x), NEW op \in Ops PROVE ExactSize(x, op)'
    <3>1. /\ Due(x, op)[c] <= moved[x][op] /\ Value(x).size[op] = (moved[x][op] - Due(x, op)[c]) % Wrap
      BY <1>7, <2>1, <2>5 DEF Exact, ExactSize
    <3>2. PICK n \in Nat : n = Due(x, op)[c]
      BY <2>5, DueType
    <3>3. PICK z \in Nat : z = 0
      OBVIOUS
    <3>4. z = Value(x).size[op]
      BY <2>2, <3>3 DEF NoInfo
    <3>5. PICK m \in Nat : m = moved[x][op]
      BY SizeTypes
    <3>6. AddSize(z, n) = m % Wrap
      BY <3>1, <3>2, <3>4, <3>5, AddExact
    <3>7. Value(x)'.size[op] = moved'[x][op] % Wrap
      <4>1. CASE op = cpu[c].op
        <5>1. n = cpu[c].count
          BY <1>3, <3>2, <4>1, DueAt
        <5>2. FirstInfo(c).size[op] = AddSize(z, n)
          BY <3>3, <4>1, <5>1, FirstInfoType
        <5> QED
          BY <1>1, <1>5, <3>5, <3>6, <5>2
      <4>2. CASE op # cpu[c].op
        <5>1. Due(x, op)[c] = 0
          BY <4>2, DueAt
        <5>2. moved[x][op] - Due(x, op)[c] = moved[x][op]
          BY <3>5, <5>1
        <5>3. Value(x).size[op] = moved[x][op] % Wrap
          BY <3>1, <5>2
        <5>4. FirstInfo(c).size[op] = 0
          BY <4>2, FirstInfoType
        <5> QED
          BY <1>1, <1>5, <3>3, <3>4, <5>3, <5>4
      <4> QED
        BY <4>1, <4>2
    <3> QED
      BY <1>6, <3>7 DEF ExactSize
  <2> QED
    BY <2>4, <2>5 DEF Exact, Small
<1> QED
  BY <1>6, <1>8

LEMMA AloneLoad ==
    ASSUME IInv, NEW c \in Cpus, LoadSize(c), NEW x \in Key \ raced', x = cpu[c].key
    PROVE  Alone(x)' /\ (x \notin stale' => Exact(x)')
<1>1. /\ cpu[c].pc = "loadSize" /\ cpu'[c].pc = "storeSize" /\ cpu'[c].op = cpu[c].op /\ cpu'[c].key = x
      /\ cpu'[c].count = cpu[c].count /\ cpu'[c].gone = cpu[c].gone
      /\ ~cpu[c].gone => cpu'[c].seen = Value(x).size[cpu[c].op]
      /\ \A d \in Cpus \ {c} : cpu'[d] = cpu[d]
  BY LoadSizeStep
<1>2. key' = key /\ info' = info /\ stale' = stale /\ raced' = raced /\ done' = done /\ moved' = moved
  BY DEF LoadSize, truth
<1>3. Value(x)' = Value(x) /\ Present' = Present
  BY <1>2 DEF Value, SlotOf, Present
<1>4. Using(x) = {c} /\ ~cpu[c].gone
  BY <1>2, AloneOwner
<1>5. Using(x)' = {c}
  <2>1. \A d \in Cpus : cpu'[d].key = cpu[d].key
    BY <1>1
  <2> QED
    BY <1>4, <2>1, UsingKept
<1>6. Alone(x)'
  BY <1>1, <1>4, <1>5 DEF Alone
<1>7. ASSUME x \notin stale' PROVE Exact(x)'
  <2>1. Exact(x)
    BY <1>2, <1>7, AloneFacts
  <2>2. ExactCount(x)'
    BY <1>1, <1>2, <1>3, <1>5, <2>1 DEF Exact, ExactCount
  <2>3. ASSUME Small(x), NEW op \in Ops PROVE ExactSize(x, op)'
    <3>1. Due(x, op)[c] <= moved[x][op] /\ Value(x).size[op] = (moved[x][op] - Due(x, op)[c]) % Wrap
      BY <1>4, <2>1, <2>3 DEF Exact, ExactSize
    <3>2. Due(x, op)'[c] = Due(x, op)[c]
      BY <1>1, DueAt
    <3>3. cpu'[c].op = op => cpu'[c].seen = Value(x)'.size[op]
      BY <1>1, <1>3, <1>4
    <3>4. /\ Due(x, op)'[c] <= moved'[x][op]
          /\ Value(x)'.size[op] = (moved'[x][op] - Due(x, op)'[c]) % Wrap
      BY <1>2, <1>3, <3>1, <3>2
    <3> QED
      BY <1>5, <3>3, <3>4 DEF ExactSize
  <2> QED
    BY <2>2, <2>3 DEF Exact, Small
<1> QED
  BY <1>6, <1>7

LEMMA AloneStoreSize ==
    ASSUME IInv, NEW c \in Cpus, StoreSize(c), NEW x \in Key \ raced', x = cpu[c].key
    PROVE  Alone(x)' /\ (x \notin stale' => Exact(x)')
<1>2. raced' = raced /\ done' = done /\ moved' = moved
  BY DEF StoreSize
<1>4. Using(x) = {c} /\ ~cpu[c].gone
  BY <1>2, AloneOwner
<1>1. /\ cpu[c].pc = "storeSize" /\ cpu'[c].pc = "storeCnt" /\ cpu'[c].key = x
      /\ cpu'[c].gone = cpu[c].gone /\ \A d \in Cpus \ {c} : cpu'[d] = cpu[d]
      /\ stale' = stale /\ cpu'[c].seen = Value(x).cnt /\ Value(x)'.cnt = Value(x).cnt
      /\ Value(x)'.size[cpu[c].op] = AddSize(cpu[c].seen, cpu[c].count)
      /\ \A op \in Ops : op # cpu[c].op => Value(x)'.size[op] = Value(x).size[op]
  BY <1>4, StoreSizeStep
<1>5. Using(x)' = {c}
  <2>1. \A d \in Cpus : cpu'[d].key = cpu[d].key
    BY <1>1
  <2> QED
    BY <1>4, <2>1, UsingKept
<1>6. Alone(x)'
  BY <1>1, <1>4, <1>5 DEF Alone
<1>7. ASSUME x \notin stale' PROVE Exact(x)'
  <2>1. Exact(x)
    BY <1>1, <1>2, <1>7, AloneFacts
  <2>2. ExactCount(x)'
    BY <1>1, <1>2, <1>5, <2>1 DEF Exact, ExactCount
  <2>3. ASSUME Small(x), NEW op \in Ops PROVE ExactSize(x, op)'
    <3>1. /\ Due(x, op)[c] <= moved[x][op] /\ Value(x).size[op] = (moved[x][op] - Due(x, op)[c]) % Wrap
          /\ cpu[c].op = op => cpu[c].seen = Value(x).size[op]
      BY <1>1, <1>4, <2>1, <2>3 DEF Exact, ExactSize
    <3>2. Due(x, op)'[c] = 0
      BY <1>1, DueAt
    <3>3. PICK m \in Nat : m = moved[x][op]
      BY SizeTypes
    <3>4. PICK n \in Nat : n = Due(x, op)[c]
      BY <2>3, DueType
    <3>5. Value(x)'.size[op] = m % Wrap
      <4>1. CASE op = cpu[c].op
        <5>1. n = cpu[c].count /\ cpu[c].seen \in Nat
          BY <1>1, <3>4, <4>1, DueAt, HandlerFacts
        <5>2. PICK s \in Nat : s = cpu[c].seen
          BY <5>1
        <5>3. AddSize(s, n) = m % Wrap
          BY <3>1, <3>3, <3>4, <4>1, <5>2, AddExact
        <5> QED
          BY <1>1, <4>1, <5>1, <5>2, <5>3
      <4>2. CASE op # cpu[c].op
        <5>1. Due(x, op)[c] = 0
          BY <4>2, DueAt
        <5>2. moved[x][op] - Due(x, op)[c] = m
          BY <3>3, <5>1
        <5> QED
          BY <1>1, <3>1, <4>2, <5>2
      <4> QED
        BY <4>1, <4>2
    <3>6. moved'[x][op] - Due(x, op)'[c] = m /\ Due(x, op)'[c] <= moved'[x][op]
      BY <1>2, <3>2, <3>3
    <3> QED
      BY <1>1, <1>5, <3>5, <3>6 DEF ExactSize
  <2> QED
    BY <2>2, <2>3 DEF Exact, Small
<1> QED
  BY <1>6, <1>7

LEMMA AloneStoreCnt ==
    ASSUME IInv, NEW c \in Cpus, StoreCnt(c), NEW x \in Key \ raced', x = cpu[c].key
    PROVE  Alone(x)' /\ (x \notin stale' => Exact(x)')
<1>2. raced' = raced /\ moved' = moved
  BY DEF StoreCnt
<1>4. Using(x) = {c} /\ ~cpu[c].gone
  BY <1>2, AloneOwner
<1>1. cpu[c].pc = "storeCnt" /\ stale' = stale /\ Value(x)'.cnt = cpu[c].seen + 1 /\ Value(x)'.size = Value(x).size
  BY <1>4, StoreCntStep
<1>5. Using(x)' = {} /\ Alone(x)'
  BY <1>2, AloneEnds
<1>6. done'[x] = done[x] + 1
  BY EndCount
<1>7. ASSUME x \notin stale' PROVE Exact(x)'
  <2>1. Exact(x)
    BY <1>1, <1>2, <1>7, AloneFacts
  <2>2. ExactCount(x)'
    <3>1. cpu[c].seen = done[x]
      BY <1>1, <1>4, <2>1 DEF Exact, ExactCount
    <3> QED
      BY <1>1, <1>5, <1>6, <3>1 DEF ExactCount
  <2>3. ASSUME Small(x), NEW op \in Ops PROVE ExactSize(x, op)'
    <3>1. Value(x).size[op] = (moved[x][op] - Due(x, op)[c]) % Wrap
      BY <1>4, <2>1, <2>3 DEF Exact, ExactSize
    <3>2. Due(x, op)[c] = 0 /\ moved[x][op] \in Nat
      BY <1>1, DueAt, SizeTypes
    <3>3. moved[x][op] - Due(x, op)[c] = moved[x][op]
      BY <3>2
    <3>4. Value(x)'.size[op] = moved'[x][op] % Wrap
      BY <1>1, <1>2, <3>1, <3>3
    <3> QED
      BY <1>5, <3>4 DEF ExactSize
  <2> QED
    BY <2>2, <2>3 DEF Exact, Small
<1> QED
  BY <1>5, <1>7

LEMMA AloneHandling ==
    ASSUME IInv, NEW c \in Cpus, Handling(c)
    PROVE  AloneInv'
<1>1. ASSUME NEW k \in Key \ raced' PROVE Alone(k)' /\ (k \notin stale' => Exact(k)')
  <2>1. CASE cpu[c].key # k /\ cpu'[c].key # k
    BY <2>1, AloneOther
  <2>2. ASSUME cpu[c].key = k, InsertNew(c) \/ InsertOver(c) \/ LoadSize(c) \/ StoreSize(c) \/ StoreCnt(c)
        PROVE  Alone(k)' /\ (k \notin stale' => Exact(k)')
    BY <2>2, AloneInsert, AloneLoad, AloneStoreSize, AloneStoreCnt
  <2>3. ASSUME cpu'[c].key = k, NEW a \in Accesses, VfsHook(c, a)
        PROVE  Alone(k)' /\ (k \notin stale' => Exact(k)')
    BY <2>3, AloneHook
  <2>4. ASSUME cpu[c].key = k, NEW a \in Accesses, VfsHook(c, a) PROVE FALSE
    BY <2>4, HookStep, Consts
  <2>5. ASSUME cpu'[c].key = k, InsertNew(c) \/ InsertOver(c) \/ LoadSize(c) \/ StoreSize(c) \/ StoreCnt(c)
        PROVE  cpu[c].key = k
    <3>1. PICK x \in Key : x = cpu[c].key
      BY <2>5, KeyOfHandler
    <3>2. CASE InsertNew(c) \/ InsertOver(c) \/ StoreCnt(c)
      <4>1. cpu'[c].key = Free
        BY <3>1, <3>2, EndCount, IdleType
      <4> QED
        BY <2>5, <4>1, Consts
    <3>3. CASE LoadSize(c) \/ StoreSize(c)
      BY <2>5, <3>1, <3>3, LoadSizeStep, StoreSizeStep
    <3> QED
      BY <2>5, <3>2, <3>3
  <2> QED
    BY <2>1, <2>2, <2>3, <2>4, <2>5 DEF Handling
<1> QED
  BY <1>1 DEF AloneInv, Exact, Small

----------------------------------------------------------------------------
(***************************************************************************)
(* The option --cpu, and the rounds.                                       *)
(***************************************************************************)
LEMMA OneCpuHandling ==
    ASSUME IInv, NEW c \in Cpus, Handling(c)
    PROVE  OneCpuInv'
<1>0. args_map' = args_map
  BY HandlingFrame
<1>1. SUFFICES ASSUME args_map.cpu # Every
               PROVE  /\ \A d \in Cpus : cpu'[d].pc # "idle" => d = args_map.cpu
                      /\ raced' # {} => Cardinality(Present') >= MapSize
                      /\ raced' \cap Present' = {}
  BY <1>0 DEF OneCpuInv
<1>2. /\ \A d \in Cpus : cpu[d].pc # "idle" => d = args_map.cpu
      /\ raced # {} => Cardinality(Present) >= MapSize
      /\ raced \cap Present = {}
  BY <1>1 DEF IInv, OneCpuInv
<1>3. \A d \in Cpus \ {c} : cpu'[d].pc = cpu[d].pc
  BY HandlingCpu DEF Kept
<1>4. c = args_map.cpu
  <2>1. ASSUME NEW a \in Accesses, VfsHook(c, a) PROVE c = args_map.cpu
    BY <1>1, <2>1 DEF VfsHook, Targeted
  <2>2. CASE InsertNew(c) \/ InsertOver(c) \/ LoadSize(c) \/ StoreSize(c) \/ StoreCnt(c)
    BY <1>2, <2>2, KeyOfHandler
  <2> QED
    BY <2>1, <2>2 DEF Handling
<1>5. \A d \in Cpus : cpu'[d].pc # "idle" => d = args_map.cpu
  BY <1>2, <1>3, <1>4
<1>6. /\ raced' # {} => Cardinality(Present') >= MapSize
      /\ raced' \cap Present' = {}
  <2>1. ASSUME NEW a \in Accesses, VfsHook(c, a) PROVE raced' = raced /\ Present' = Present
    <3>1. PICK x \in Key : x = [pid |-> a.pid, file |-> a.file] /\ cpu[c].pc = "idle"
      BY <2>1, HookStep
    <3>2. raced' = IF Using(x) # {} THEN raced \cup {x} ELSE raced
      BY <2>1, <3>1 DEF VfsHook
    <3>3. Using(x) = {}
      <4>1. ASSUME NEW d \in Using(x) PROVE FALSE
        <5>1. d \in Cpus /\ cpu[d].key = x
          BY DEF Using
        <5>2. cpu[d].pc # "idle"
          BY <5>1, HandlerFacts, Consts
        <5> QED
          BY <1>2, <1>4, <3>1, <5>1, <5>2
      <4> QED
        BY <4>1
    <3>4. key' = key
      BY <2>1 DEF VfsHook
    <3> QED
      BY <3>2, <3>3, <3>4 DEF Present
  <2>2. CASE InsertNew(c)
    <3>1. PICK x \in Key : x = cpu[c].key
      BY <2>2, KeyOfHandler
    <3>2. /\ x \notin Present
          /\ \/ Cardinality(Present) < MapSize /\ raced' = raced
             \/ Cardinality(Present) >= MapSize /\ raced' = raced \cup {x} /\ Present' = Present
      BY <2>2, <3>1, InsertNewStep
    <3>3. Cardinality(Present) \in Nat
      BY PresentFinite DEF IInv, Types, MapTypes
    <3>4. CASE Cardinality(Present) < MapSize /\ raced' = raced
      BY <1>2, <3>3, <3>4, Consts
    <3>5. CASE Cardinality(Present) >= MapSize /\ raced' = raced \cup {x} /\ Present' = Present
      <4>1. Cardinality(Present') >= MapSize
        BY <3>5
      <4>2. raced' \cap Present' = {}
        BY <1>2, <3>2, <3>5
      <4> QED
        BY <4>1, <4>2
    <3> QED
      BY <3>2, <3>4, <3>5
  <2>3. ASSUME InsertOver(c) \/ LoadSize(c) \/ StoreSize(c) \/ StoreCnt(c)
        PROVE  raced' = raced /\ Present' = Present
    <3>1. PICK x \in Key : x = cpu[c].key
      BY <2>3, KeyOfHandler
    <3>2. CASE InsertOver(c)
      <4>1. Present' = Present
        BY <3>1, <3>2, InsertOverStep
      <4> QED
        BY <3>2, <4>1 DEF InsertOver
    <3>3. CASE LoadSize(c) \/ StoreSize(c) \/ StoreCnt(c)
      <4>1. key' = key /\ raced' = raced
        BY <3>3 DEF LoadSize, StoreSize, StoreCnt, truth
      <4> QED
        BY <4>1 DEF Present
    <3> QED
      BY <2>3, <3>2, <3>3
  <2>4. ASSUME raced' = raced, Present' = Present
        PROVE  (raced' # {} => Cardinality(Present') >= MapSize) /\ raced' \cap Present' = {}
    BY <1>2, <2>4
  <2> QED
    BY <2>1, <2>2, <2>3, <2>4 DEF Handling
<1> QED
  BY <1>5, <1>6

\* The histories only grow.
LEMMA Grows ==
    ASSUME IInv, NEW c \in Cpus, Handling(c)
    PROVE  /\ raced \subseteq raced' /\ stale \subseteq stale'
           /\ \A k \in Key : done[k] <= done'[k] /\ begun[k] <= begun'[k]
<1>0. \A k \in Key : done[k] \in Nat /\ begun[k] \in Nat
  BY ValueCount
<1>1. ASSUME NEW a \in Accesses, VfsHook(c, a)
      PROVE  /\ raced \subseteq raced' /\ stale \subseteq stale'
             /\ \A k \in Key : done[k] <= done'[k] /\ begun[k] <= begun'[k]
  <2>1. PICK x \in Key : /\ x = [pid |-> a.pid, file |-> a.file]
                         /\ begun'[x] = begun[x] + 1 /\ \A j \in Key \ {x} : begun'[j] = begun[j]
    BY <1>1, HookStep
  <2>2. raced \subseteq raced' /\ done' = done /\ stale' = stale
    BY <1>1 DEF VfsHook
  <2> QED
    BY <1>0, <2>1, <2>2
<1>2. ASSUME InsertNew(c) \/ InsertOver(c) \/ StoreCnt(c)
      PROVE  /\ raced \subseteq raced' /\ stale \subseteq stale'
             /\ \A k \in Key : done[k] <= done'[k] /\ begun[k] <= begun'[k]
  <2>1. PICK x \in Key : x = cpu[c].key
    BY <1>2, KeyOfHandler
  <2>2. /\ done'[x] = done[x] + 1 /\ \A k \in Key \ {x} : done'[k] = done[k]
        /\ begun' = begun /\ stale \subseteq stale'
    BY <1>2, <2>1, EndCount
  <2>3. raced \subseteq raced'
    BY <1>2 DEF InsertNew, InsertOver, StoreCnt
  <2> QED
    BY <1>0, <2>2, <2>3
<1>3. ASSUME LoadSize(c) \/ StoreSize(c)
      PROVE  /\ raced \subseteq raced' /\ stale \subseteq stale'
             /\ \A k \in Key : done[k] <= done'[k] /\ begun[k] <= begun'[k]
  <2>1. done' = done /\ begun' = begun /\ raced' = raced /\ stale \subseteq stale'
    BY <1>3 DEF LoadSize, StoreSize, Stored, truth
  <2> QED
    BY <1>0, <2>1
<1> QED
  BY <1>1, <1>2, <1>3 DEF Handling

LEMMA RoundFacts ==
    ASSUME IInv, NEW k \in Key \ (raced \cup stale)
    PROVE  /\ owed[k] <= done[k] /\ owed[k] \in Nat /\ done[k] \in Nat /\ begun[k] \in Nat
           /\ done[k] <= begun[k] /\ Value(k).cnt = done[k]
           /\ k \notin must => owed[k] = 0
           /\ k \in DOMAIN rows => rows[k] \in owed[k]..begun[k]
<1>1. /\ owed[k] <= done[k] /\ (k \notin must => owed[k] = 0)
      /\ k \in DOMAIN rows => rows[k] \in owed[k]..begun[k]
  BY DEF IInv, RoundInv
<1>2. owed[k] \in Nat
  BY DEF IInv, Types, TruthTypes
<1>3. done[k] \in Nat /\ begun[k] \in Nat /\ done[k] <= begun[k]
  BY ValueCount
<1>4. Value(k).cnt = done[k]
  BY AloneFacts DEF Exact, ExactCount
<1> QED
  BY <1>1, <1>2, <1>3, <1>4

LEMMA RoundHandling ==
    ASSUME IInv, NEW c \in Cpus, Handling(c)
    PROVE  RoundInv'
<1>1. reading' = reading /\ must' = must /\ rows' = rows /\ owed' = owed
  BY HandlingFrame
<1>2. /\ raced \subseteq raced' /\ stale \subseteq stale'
      /\ \A k \in Key : done[k] <= done'[k] /\ begun[k] <= begun'[k]
  BY Grows
<1>3. done' \in [Key -> Nat] /\ begun' \in [Key -> Nat]
  BY TruthTypesStep DEF TruthTypes
<1>4. ASSUME NEW k \in Key \ (raced' \cup stale')
      PROVE  /\ owed[k] <= done'[k] /\ (k \notin must => owed[k] = 0)
             /\ k \in DOMAIN rows => rows[k] \in owed[k]..begun'[k]
  <2>1. k \in Key \ (raced \cup stale)
    BY <1>2
  <2>2. /\ owed[k] <= done[k] /\ owed[k] \in Nat /\ done[k] \in Nat /\ begun[k] \in Nat
        /\ k \notin must => owed[k] = 0
        /\ k \in DOMAIN rows => rows[k] \in owed[k]..begun[k]
    BY <2>1, RoundFacts
  <2>3. done'[k] \in Nat /\ begun'[k] \in Nat
    BY <1>3
  <2> QED
    BY <1>2, <2>2, <2>3
<1>5. ~reading => must \subseteq DOMAIN rows
  BY DEF IInv, RoundInv
<1> QED
  BY <1>1, <1>4, <1>5 DEF RoundInv

LEMMA RoundReading ==
    ASSUME IInv, Reading
    PROVE  RoundInv'
<1>0. /\ key' = key /\ info' = info /\ raced' = raced /\ stale' = stale /\ done' = done /\ begun' = begun
  BY ReadingFrame
<1>1. CASE Tick
  <2>1. reading' = TRUE /\ must' = Present /\ owed' = done /\ rows' = [k \in {} |-> 0]
    BY <1>1 DEF Tick
  <2>2. ASSUME NEW k \in Key \ (raced \cup stale)
        PROVE  done[k] <= done[k] /\ (k \notin Present => done[k] = 0)
    <3>1. done[k] \in Nat /\ Value(k).cnt = done[k]
      BY RoundFacts
    <3>2. k \notin Present => Value(k) = NoInfo
      BY ValueFacts
    <3> QED
      BY <3>1, <3>2 DEF NoInfo
  <2> QED
    BY <1>0, <2>1, <2>2 DEF RoundInv
<1>2. ASSUME NEW j \in Key, ReadValue(j) PROVE RoundInv'
  <2>1. reading = TRUE /\ reading' = reading /\ must' = must /\ owed' = owed /\ j \in Present
    BY <1>2 DEF ReadValue, IInv, Types, RoundTypes
  <2>2. PICK n : n = info[SlotOf(j)].cnt
    OBVIOUS
  <2>3. rows' = [k \in DOMAIN rows \cup {j} |-> IF k = j THEN n ELSE rows[k]]
    BY <1>2, <2>2 DEF ReadValue
  <2>4. n = Value(j).cnt
    BY <2>1, <2>2, ValueFacts
  <2>5. ASSUME NEW k \in Key \ (raced \cup stale)
        PROVE  /\ owed[k] <= done[k] /\ (k \notin must => owed[k] = 0)
               /\ k \in DOMAIN rows' => rows'[k] \in owed[k]..begun[k]
    <3>1. /\ owed[k] <= done[k] /\ owed[k] \in Nat /\ done[k] \in Nat /\ begun[k] \in Nat
          /\ done[k] <= begun[k] /\ Value(k).cnt = done[k]
          /\ k \notin must => owed[k] = 0
          /\ k \in DOMAIN rows => rows[k] \in owed[k]..begun[k]
      BY RoundFacts
    <3>2. CASE k = j
      <4>1. rows'[k] = done[k]
        BY <2>3, <2>4, <3>1, <3>2
      <4> QED
        BY <3>1, <4>1
    <3>3. CASE k # j
      BY <2>3, <3>1, <3>3
    <3> QED
      BY <3>2, <3>3
  <2> QED
    BY <1>0, <2>1, <2>5 DEF RoundInv
<1>3. CASE EndReset
  <2>1. must \subseteq DOMAIN rows /\ must' = must /\ rows' = rows /\ owed' = owed
    BY <1>3 DEF EndReset
  <2> QED
    BY <1>0, <2>1 DEF IInv, RoundInv
<1>4. CASE UNCHANGED vars
  BY <1>0, <1>4 DEF vars, IInv, RoundInv
<1> QED
  BY <1>1, <1>2, <1>3, <1>4 DEF Reading

----------------------------------------------------------------------------
(***************************************************************************)
(* The invariant.                                                          *)
(***************************************************************************)
LEMMA RestReading ==
    ASSUME IInv, Reading
    PROVE  PointerInv' /\ Bounded' /\ CountInv' /\ SizeInv' /\ AloneInv' /\ OneCpuInv'
<1>0. /\ args_map' = args_map /\ cpu' = cpu /\ key' = key /\ info' = info /\ spare' = spare
      /\ accesses' = accesses /\ begun' = begun /\ done' = done /\ moved' = moved
      /\ raced' = raced /\ stale' = stale
  BY ReadingFrame
<1>1. PointerInv /\ Bounded /\ CountInv /\ SizeInv /\ AloneInv /\ OneCpuInv
  BY DEF IInv
<1>2. Present' = Present
  BY <1>0 DEF Present
<1>3. ASSUME NEW k
      PROVE  /\ Value(k)' = Value(k) /\ Using(k)' = Using(k)
             /\ \A op : Due(k, op)' = Due(k, op)
             /\ \A c, pc : Stores(c, k, pc)' <=> Stores(c, k, pc)
  BY <1>0 DEF Value, SlotOf, Present, Using, Due, Stores
<1>4. PointerInv'
  BY <1>0, <1>1, <1>2 DEF PointerInv, Pointing
<1>5. Bounded'
  <2>1. Finished' = Finished
    BY <1>0, FinishedKept
  <2> QED
    BY <1>0, <1>1, <2>1 DEF Bounded
<1>6. CountInv'
  BY <1>0, <1>1, <1>3 DEF CountInv
<1>7. SizeInv'
  <2>1. ASSUME NEW k \in Key, NEW op \in Ops, NEW total, AtMost(k, op, total) PROVE AtMost(k, op, total)'
    BY <1>0, <1>3, <2>1 DEF AtMost
  <2> QED
    BY <1>0, <1>1, <2>1 DEF SizeInv, Small
<1>8. AloneInv'
  <2>1. \A k \in Key : Alone(k) => Alone(k)'
    BY <1>0, <1>2, <1>3 DEF Alone
  <2>2. \A k \in Key : ExactCount(k) => ExactCount(k)'
    BY <1>0, <1>3 DEF ExactCount
  <2>3. ASSUME NEW k \in Key, NEW op \in Ops, ExactSize(k, op) PROVE ExactSize(k, op)'
    BY <1>0, <1>3, <2>3 DEF ExactSize
  <2> QED
    BY <1>0, <1>1, <2>1, <2>2, <2>3 DEF AloneInv, Small
<1>9. OneCpuInv'
  BY <1>0, <1>1, <1>2 DEF OneCpuInv
<1> QED
  BY <1>4, <1>5, <1>6, <1>7, <1>8, <1>9

LEMMA InitIInv == Init => IInv
<1> SUFFICES ASSUME Init PROVE IInv
  OBVIOUS
<1>1. /\ args_map \in Options /\ cpu = [c \in Cpus |-> Idle] /\ key = [i \in Slots |-> Free]
      /\ info = [i \in Slots |-> NoInfo] /\ spare = [c \in Cpus |-> c]
      /\ reading = FALSE /\ must = {} /\ rows = [k \in {} |-> 0] /\ accesses = 0 /\ rounds = 0
      /\ begun = [k \in Key |-> 0] /\ done = [k \in Key |-> 0] /\ owed = [k \in Key |-> 0]
      /\ moved = [k \in Key |-> [op \in Ops |-> 0]] /\ raced = {} /\ stale = {}
  BY DEF Init
<1>2. \A c \in Cpus : cpu[c] = Idle /\ cpu[c].pc = "idle" /\ cpu[c].key = Free /\ cpu[c].ptr = 0 /\ ~cpu[c].gone
  BY <1>1 DEF Idle
<1>3. Present = {} /\ \A k : Value(k) = NoInfo
  BY <1>1 DEF Present, Value
<1>4. \A k \in Key : Using(k) = {}
  BY <1>2, Consts DEF Using
<1>5. Types
  <2>1. HandlerTypes
    BY <1>1, <1>2, IdleType DEF HandlerTypes
  <2>2. MapTypes
    BY <1>1, IdleType, Consts DEF MapTypes
  <2>3. RoundTypes
    <3>1. DOMAIN rows = {} /\ rows \in [DOMAIN rows -> Nat]
      BY <1>1
    <3>2. accesses \in 0..MaxAccesses /\ rounds \in Nat
      BY <1>1, Consts
    <3>3. reading \in BOOLEAN
      BY <1>1
    <3>4. must \subseteq Key
      BY <1>1
    <3> QED
      BY <3>1, <3>2, <3>3, <3>4 DEF RoundTypes
  <2>4. TruthTypes
    BY <1>1 DEF TruthTypes
  <2> QED
    BY <2>1, <2>2, <2>3, <2>4 DEF Types
<1>6. PointerInv
  <2>1. Cardinality(Present) <= MapSize
    BY <1>3, FS_EmptySet, Consts
  <2>2. \A c \in Cpus : key[spare[c]] = Free
    BY <1>1, Consts
  <2> QED
    BY <1>1, <1>2, <2>1, <2>2 DEF PointerInv, Pointing
<1>7. Bounded
  <2>1. Active = {}
    BY <1>2 DEF Active
  <2>2. Finished = 0
    BY <1>1, <2>1, FS_EmptySet DEF Finished
  <2> QED
    BY <1>1, <1>2, <2>2 DEF Bounded, NoInfo
<1>8. CountInv
  <2>1. \A k \in Key : Cardinality(Using(k)) = 0
    BY <1>4, FS_EmptySet
  <2>2. \A k : Value(k).cnt = 0
    BY <1>3 DEF NoInfo
  <2>3. \A k \in Key, c \in Cpus : ~Stores(c, k, "storeCnt")
    BY <1>2 DEF Stores
  <2> QED
    BY <1>1, <2>1, <2>2, <2>3 DEF CountInv
<1>9. SizeInv
  <2>1. ASSUME NEW k \in Key, NEW op \in Ops PROVE \E total : AtMost(k, op, total)
    <3>1. \A c \in Cpus : Due(k, op)[c] = 0
      BY <1>2, DueAt, Consts
    <3>2. Sums([S \in SUBSET Cpus |-> 0], Due(k, op))
      BY <3>1 DEF Sums
    <3>3. Value(k).size[op] = 0 /\ moved[k][op] = 0
      BY <1>1, <1>3 DEF NoInfo
    <3>4. \A c \in Cpus : ~Stores(c, k, "storeSize")
      BY <1>2 DEF Stores
    <3>5. [S \in SUBSET Cpus |-> 0][Cpus] = 0
      OBVIOUS
    <3>6. AtMost(k, op, [S \in SUBSET Cpus |-> 0])
      BY <3>2, <3>3, <3>4, <3>5 DEF AtMost
    <3> QED
      BY <3>6
  <2> QED
    BY <1>2, <2>1 DEF SizeInv
<1>10. AloneInv
  <2>1. 0 % Wrap = 0
    <3>1. PICK z \in Nat : z = 0
      OBVIOUS
    <3>2. z % Wrap \in Nat /\ z % Wrap <= z
      BY WrapType, ModBounds
    <3> QED
      BY <3>1, <3>2
  <2>2. ASSUME NEW k \in Key PROVE Alone(k) /\ ExactCount(k) /\ \A op \in Ops : ExactSize(k, op)
    <3>1. Alone(k)
      BY <1>4 DEF Alone
    <3>2. ExactCount(k)
      BY <1>1, <1>3, <1>4 DEF ExactCount, NoInfo
    <3>3. ASSUME NEW op \in Ops PROVE ExactSize(k, op)
      <4>1. Value(k).size[op] = 0 /\ moved[k][op] = 0
        BY <1>1, <1>3 DEF NoInfo
      <4> QED
        BY <1>4, <2>1, <4>1 DEF ExactSize
    <3> QED
      BY <3>1, <3>2, <3>3
  <2> QED
    BY <2>2 DEF AloneInv
<1>11. OneCpuInv
  BY <1>1, <1>2 DEF OneCpuInv
<1>12. RoundInv
  BY <1>1 DEF RoundInv
<1> QED
  BY <1>5, <1>6, <1>7, <1>8, <1>9, <1>10, <1>11, <1>12 DEF IInv

LEMMA NextIInv == IInv /\ [Next]_vars => IInv'
<1> SUFFICES ASSUME IInv, [Next]_vars PROVE IInv'
  OBVIOUS
<1>1. (\E c \in Cpus : Handling(c)) \/ Reading
  BY DEF Next, Handling, Reading, Quiet
<1>2. ASSUME NEW c \in Cpus, Handling(c) PROVE IInv'
  <2>1. Types' /\ PointerInv' /\ Bounded' /\ CountInv'
    BY <1>2, TypesHandling, PointerHandling, BoundedHandling, CountHandling
  <2>2. SizeInv' /\ AloneInv' /\ OneCpuInv' /\ RoundInv'
    BY <1>2, SizeHandling, AloneHandling, OneCpuHandling, RoundHandling
  <2> QED
    BY <2>1, <2>2 DEF IInv
<1>3. CASE Reading
  BY <1>3, TypesReading, RestReading, RoundReading DEF IInv
<1> QED
  BY <1>1, <1>2, <1>3

LEMMA Invariance == Spec => []IInv
  BY InitIInv, NextIInv, PTL DEF Spec

----------------------------------------------------------------------------
(***************************************************************************)
(* The theorems.                                                           *)
(***************************************************************************)
\* Every element of cachestat_map has a key, its count and its 64-bit sizes
\* are in range, the map never holds more than CACHESTAT_MAP_SIZE keys, and a
\* handler that uses the element it has looked up has a pointer to a slot.
THEOREM TypeCorrect == Spec => []TypeOK
<1>1. IInv => TypeOK
  <2> SUFFICES ASSUME IInv PROVE TypeOK
    OBVIOUS
  <2>1. /\ args_map \in Options /\ key \in [Slots -> Key \cup {Free}] /\ spare \in [Cpus -> Slots]
        /\ must \subseteq Key /\ DOMAIN rows \subseteq Key /\ info \in [Slots -> Info]
        /\ accesses \in 0..MaxAccesses
    BY DEF IInv, Types, HandlerTypes, MapTypes, RoundTypes
  <2>2. Cardinality(Present) <= MapSize /\ \A c \in Cpus : key[spare[c]] = Free
    BY DEF IInv, PointerInv
  <2>3. ASSUME NEW c \in Cpus
        PROVE  /\ cpu[c].pc \in {"idle", "insert", "loadSize", "storeSize", "storeCnt"}
               /\ cpu[c].pc # "idle" => cpu[c].key \in Key /\ cpu[c].count \in (-Half)..(Half - 1)
               /\ cpu[c].ptr \in Slots \cup {0}
    BY HandlerFacts
  <2>4. ASSUME NEW i \in Slots
        PROVE  info[i].cnt \in 0..MaxAccesses /\ info[i].size \in [Ops -> 0..(4 * Half * Half - 1)]
    <3>1. info[i].cnt \in Nat /\ info[i].size \in [Ops -> 0..(Wrap - 1)]
      BY <2>1 DEF Info
    <3>2. info[i].cnt <= Finished /\ Finished \in Nat /\ Finished <= accesses
      BY FinishedType DEF IInv, Bounded
    <3>3. info[i].cnt \in 0..MaxAccesses
      BY <2>1, <3>1, <3>2, Consts
    <3> QED
      BY <3>1, <3>3 DEF Wrap
  <2> QED
    BY <2>1, <2>2, <2>3, <2>4 DEF TypeOK
<1> QED
  BY <1>1, Invariance, PTL

\* The count and the sizes that vfs_read_hook and vfs_write_hook keep of a key
\* never exceed what was accessed, however their lookups, inserts, loads and
\* stores interleave, unless a store went through a pointer to an element that
\* another hook has replaced and whose slot holds another key by then.
THEOREM NoAccessTwice == Spec => []NoOvercount
<1>1. IInv => NoOvercount
  <2> SUFFICES ASSUME IInv, NEW k \in Key \ stale
               PROVE  /\ Value(k).cnt <= begun[k]
                      /\ Small(k) => \A op \in Ops : Value(k).size[op] <= moved[k][op]
    BY DEF NoOvercount
  <2>1. Value(k).cnt <= begun[k]
    <3>1. Value(k).cnt <= done[k]
      BY DEF IInv, CountInv
    <3> QED
      BY <3>1, ValueCount
  <2>2. ASSUME Small(k), NEW op \in Ops PROVE Value(k).size[op] <= moved[k][op]
    <3>1. PICK total : AtMost(k, op, total)
      BY <2>2 DEF IInv, SizeInv
    <3>2. Value(k).size[op] + total[Cpus] <= moved[k][op] /\ total[Cpus] \in Nat
      BY <3>1 DEF AtMost, Sums
    <3> QED
      BY <3>2, SizeTypes
  <2> QED
    BY <2>1, <2>2
<1> QED
  BY <1>1, Invariance, PTL

\* A key that the hooks of two CPUs never used at once, and that found room in
\* the map, has its exact count and sizes whenever no hook is at it; with the
\* option --cpu a key in the map was never used by two CPUs at once.
THEOREM UndisturbedExact == Spec => []Undisturbed
<1>1. IInv => Undisturbed
  <2> SUFFICES ASSUME IInv PROVE Undisturbed
    OBVIOUS
  <2>1. ASSUME NEW k \in Key \ (raced \cup stale), Using(k) = {}
        PROVE  /\ Value(k).cnt = begun[k]
               /\ Small(k) => \A op \in Ops : Value(k).size[op] = moved[k][op] % (4 * Half * Half)
    <3>1. Exact(k)
      BY AloneFacts
    <3>2. Cardinality(Using(k)) = 0
      BY <2>1, FS_EmptySet
    <3>3. Value(k).cnt = begun[k]
      BY <3>1, <3>2, ValueCount DEF Exact, ExactCount
    <3>4. Small(k) => \A op \in Ops : Value(k).size[op] = moved[k][op] % Wrap
      BY <2>1, <3>1 DEF Exact, ExactSize
    <3> QED
      BY <3>3, <3>4 DEF Wrap
  <2>2. args_map.cpu # Every => \A k \in raced : k \notin Present
    BY DEF IInv, OneCpuInv
  <2> QED
    BY <2>1, <2>2 DEF Undisturbed
<1> QED
  BY <1>1, Invariance, PTL

\* Reset of the session reports, in each of its rounds, every key that was not
\* disturbed with at least the accesses that were over when the round began.
THEOREM RoundsReport == Spec => []RoundComplete
<1>1. IInv => RoundComplete
  <2> SUFFICES ASSUME IInv, ~reading, NEW k \in Key \ (raced \cup stale)
               PROVE  IF k \in DOMAIN rows THEN rows[k] \in owed[k]..begun[k] ELSE owed[k] = 0
    BY DEF RoundComplete
  <2>1. must \subseteq DOMAIN rows
    BY DEF IInv, RoundInv
  <2>2. /\ k \notin must => owed[k] = 0
        /\ k \in DOMAIN rows => rows[k] \in owed[k]..begun[k]
    BY RoundFacts
  <2> QED
    BY <2>1, <2>2
<1> QED
  BY <1>1, Invariance, PTL

=============================================================================
