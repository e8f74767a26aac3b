------------------------- MODULE OnCpuSamplerProofs -------------------------
(***************************************************************************)
(* Proofs about OnCpuSampler, for every number of CPUs, every set of tasks *)
(* and stacks, all sizes of the maps and every bound.                      *)
(*                                                                         *)
(* The argument follows a handler's pointer.  As long as its slot was not  *)
(* deleted (gone) the slot holds the handler's key, so a store hits that   *)
(* key; a store through an outdated pointer makes the key it hits stale.   *)
(* What the map holds of a key is then bounded by the handlers that have   *)
(* ended, from above for all samples and from below for the undisturbed.   *)
(***************************************************************************)
EXTENDS OnCpuSampler, FiniteSetTheorems, SequenceTheorems, TLAPS

Handler == [pc : {"idle", "user", "lookup", "insert", "load", "store"}, task : Tasks \cup {NoStack},
            kern : Ids, user : Ids, ptr : 0..CountsSize, seen : Nat, alone : BOOLEAN, gone : BOOLEAN]
AnyRow  == [count : Nat, claim : Seq(Tasks), done : BOOLEAN,
            kern : Stacks \cup {NoStack}, user : Stacks \cup {NoStack}]

Types ==
    /\ cpu \in [Cpus -> Handler] /\ \A c \in Cpus : cpu[c].pc # "idle" => cpu[c].task \in Tasks
    /\ counts \in [Slots -> Key \cup {Free}] /\ val \in [Slots -> Nat]
    /\ stacks \in [Buckets -> Stacks \cup {NoStack}] /\ born \in [Buckets -> Nat]
    /\ session \in {"idle", "batch", "iterate", "resolve", "clearCounts", "clearStacks"}
    /\ batchOk \in BOOLEAN /\ batch \in BOOLEAN
    /\ must \subseteq Key /\ DOMAIN rows \subseteq Key /\ rows \in [DOMAIN rows -> AnyRow]
    /\ todo \subseteq (IF session = "clearStacks" THEN Buckets ELSE Key)
    /\ RoundNumber \in 0..MaxRounds /\ samples \in 0..MaxSamples
    /\ taken \in [Key -> Nat] /\ reported \in [Key -> Nat]
    /\ clean \in [Key -> Seq(Tasks)] /\ stale \subseteq Key

\* The samples whose handler has ended; no count exceeds their number.
Active   == {c \in Cpus : cpu[c].pc # "idle"}
Finished == samples - Cardinality(Active)
Bounded ==
    /\ \A i \in Slots : val[i] <= Finished
    /\ \A c \in Cpus : cpu[c].seen <= Finished
    /\ \A k \in DOMAIN rows : rows[k].count <= Finished

\* A handler is past its lookup, and counts under key k.
Counting(c) == cpu[c].pc \in {"insert", "load", "store"}
Pointing(c) == cpu[c].pc \in {"load", "store"}

\* A key has one slot; a pointer that is not outdated is to the slot of the
\* handler's key.
PointerInv ==
    /\ \A i, j \in Slots : counts[i] = counts[j] /\ counts[i] # Free => i = j
    /\ \A c \in Cpus :
          /\ Pointing(c) => cpu[c].ptr \in Slots
          /\ Pointing(c) /\ ~cpu[c].gone => counts[cpu[c].ptr] = KeyOf(cpu[c])
          /\ ~Pointing(c) => cpu[c].ptr = 0 /\ ~cpu[c].gone

\* In the stack map st, the stack in bucket id is s.
Holds(st, id, s) == id # Error => st[id] = s /\ s # NoStack

\* A handler that nothing has disturbed: no Reset has run since it began, its
\* ids are those of its own stacks, and no other handler is at its key.
AloneInv ==
    /\ \A c \in Cpus : cpu[c].alone =>
          /\ session = "idle" /\ ~cpu[c].gone
          /\ Holds(stacks, cpu[c].kern, cpu[c].task.kern)
          /\ cpu[c].pc # "user" => Holds(stacks, cpu[c].user, cpu[c].task.user)
    /\ \A c, d \in Cpus :
          cpu[c].alone /\ Counting(c) /\ Counting(d) /\ KeyOf(cpu[d]) = KeyOf(cpu[c]) => d = c

\* The keys that were read and are still to be deleted.
Pending ==
    IF session = "iterate" \/ (session = "resolve" /\ ~batch) THEN DOMAIN rows
    ELSE IF session = "clearCounts" THEN todo ELSE {}

\* The round: the keys it deletes are there, and those of undisturbed samples
\* are read and resolved.
RoundInv ==
    /\ Pending \subseteq Present
    /\ \A k \in Key : clean[k] # <<>> =>
          /\ k \in Present
          /\ session \in {"batch", "iterate"} => k \in must \ DOMAIN rows
          /\ session \in {"idle", "batch", "iterate"}
    /\ session \in {"clearCounts", "clearStacks"} => \A k \in DOMAIN rows : rows[k].done
    /\ session = "idle" => DOMAIN rows = {}
    /\ session = "clearCounts" => todo \subseteq DOMAIN rows

\* The samples counted under k whose handler has ended.
Ended(k) == taken[k] - Cardinality(Updating(k))

\* What was reported of k before its present slot was read.
Prior(k) == IF k \in Pending THEN reported[k] - rows[k].count ELSE reported[k]

\* No sample is counted twice.
AtMost(k) ==
    /\ reported[k] <= Ended(k)
    /\ Prior(k) + Live(k) <= Ended(k)
    /\ \A c \in Cpus : cpu[c].pc = "store" /\ ~cpu[c].gone /\ KeyOf(cpu[c]) = k
                           => Prior(k) + cpu[c].seen <= Ended(k)
AtMostInv == \A k \in Key \ stale : AtMost(k)

\* No undisturbed sample is lost.
AtLeast(k) ==
    /\ Live(k) >= Len(clean[k])
    /\ \A c \in Cpus : cpu[c].pc = "store" /\ ~cpu[c].gone /\ KeyOf(cpu[c]) = k
                           => cpu[c].seen >= Len(clean[k])
AtLeastInv ==
    /\ \A k \in Key \ stale : AtLeast(k)
    /\ \A k \in DOMAIN rows \ stale : rows[k].count >= Len(rows[k].claim)

\* The stack of a sample counted under id s of one of its modes.
StackInv ==
    /\ \A k \in Key : \A i \in DOMAIN clean[k] :
          Holds(stacks, k.kern, clean[k][i].kern) /\ Holds(stacks, k.user, clean[k][i].user)
    /\ \A k \in DOMAIN rows : \A i \in DOMAIN rows[k].claim :
          /\ session \in {"batch", "iterate", "resolve"} =>
                Holds(stacks, k.kern, rows[k].claim[i].kern) /\ Holds(stacks, k.user, rows[k].claim[i].user)
          /\ rows[k].done =>
                /\ k.kern # Error => rows[k].kern = rows[k].claim[i].kern
                /\ k.user # Error => rows[k].user = rows[k].claim[i].user

\* Every full clearing that is over has emptied the buckets filled before it.
\* Of the one of this round, only the buckets visited are known to be.
ReclaimInv ==
    \A b \in Buckets : stacks[b] # NoStack =>
        /\ born[b] <= RoundNumber
        /\ \A m \in 0..RoundNumber : m % FullEvery = 0 =>
              \/ born[b] >= m
              \/ m = RoundNumber /\ session # "idle" /\ (session = "clearStacks" => b \in todo)

IInv ==
    /\ Types /\ Bounded /\ PointerInv /\ AloneInv /\ RoundInv
    /\ AtMostInv /\ AtLeastInv /\ StackInv /\ ReclaimInv

----------------------------------------------------------------------------
(***************************************************************************)
(* Constants, records, and what the map holds of a key.                    *)
(***************************************************************************)
LEMMA Consts ==
    /\ IsFiniteSet(Cpus) /\ NoStack \notin Stacks /\ Error \notin Buckets /\ Buckets \subseteq Nat
    /\ CountsSize \in Nat /\ CountsSize >= 1 /\ 0 \notin Slots /\ Slots \subseteq 0..CountsSize
    /\ FullEvery \in Nat /\ FullEvery >= 1 /\ MaxSamples \in Nat /\ MaxRounds \in Nat
    /\ Free \notin Key /\ Buckets \subseteq Ids /\ Error \in Ids
    /\ \A s \in Stacks : Bucket[s] \in Buckets
    /\ \A t \in Tasks : t.kern \in Stacks \cup {NoStack} /\ t.user \in Stacks \cup {NoStack}
    /\ \A k \in Key : k.kern \in Ids /\ k.user \in Ids
  BY SamplerAssumption, FreeAssumption DEF Error, Buckets, Slots, Ids, Key

\* The key of a handler is that of its task and its two ids.
LEMMA KeyType ==
    ASSUME NEW h \in Handler, h.task \in Tasks
    PROVE  KeyOf(h) \in Key /\ KeyOf(h).kern = h.kern /\ KeyOf(h).user = h.user
  BY DEF KeyOf, Key, Handler

LEMMA IdleType == Idle \in Handler
  BY Consts DEF Idle, Handler

\* The count of k in a map with keys cs and values v.
LiveIn(cs, v, k) ==
    IF k \in {cs[i] : i \in Slots} \ {Free} THEN v[CHOOSE i \in Slots : cs[i] = k] ELSE 0

LEMMA LiveIs ==
    ASSUME NEW cs \in [Slots -> Key \cup {Free}], NEW v \in [Slots -> Nat], NEW k \in Key,
           \A i, j \in Slots : cs[i] = cs[j] /\ cs[i] # Free => i = j
    PROVE  /\ \A i \in Slots : cs[i] = k => LiveIn(cs, v, k) = v[i]
           /\ (\A i \in Slots : cs[i] # k) => LiveIn(cs, v, k) = 0
           /\ LiveIn(cs, v, k) \in Nat
  <1>1. ASSUME NEW i \in Slots, cs[i] = k PROVE LiveIn(cs, v, k) = v[i]
    <2>1. k \in {cs[j] : j \in Slots} \ {Free}
      BY <1>1, Consts
    <2>2. (CHOOSE j \in Slots : cs[j] = k) \in Slots /\ cs[CHOOSE j \in Slots : cs[j] = k] = k
      BY <1>1
    <2>3. (CHOOSE j \in Slots : cs[j] = k) = i
      BY <1>1, <2>2, Consts
    <2> QED BY <2>1, <2>3 DEF LiveIn
  <1>2. ASSUME \A i \in Slots : cs[i] # k PROVE LiveIn(cs, v, k) = 0
    BY <1>2 DEF LiveIn
  <1> QED BY <1>1, <1>2

\* The map of the present state.
LEMMA LiveFacts ==
    ASSUME Types, PointerInv, NEW k \in Key
    PROVE  /\ \A i \in Slots : counts[i] = k => Live(k) = val[i] /\ SlotOf(k) = i /\ k \in Present
           /\ k \notin Present => Live(k) = 0 /\ \A i \in Slots : counts[i] # k
           /\ k \in Present => SlotOf(k) \in Slots /\ counts[SlotOf(k)] = k /\ Live(k) = val[SlotOf(k)]
           /\ Live(k) \in Nat
  <1>1. Live(k) = LiveIn(counts, val, k)
    BY DEF Live, LiveIn, Present, SlotOf
  <1>2. /\ counts \in [Slots -> Key \cup {Free}] /\ val \in [Slots -> Nat]
        /\ \A i, j \in Slots : counts[i] = counts[j] /\ counts[i] # Free => i = j
    BY DEF Types, PointerInv
  <1>3. k \in Present <=> \E i \in Slots : counts[i] = k
    BY Consts DEF Present
  <1>4. k \in Present => SlotOf(k) \in Slots /\ counts[SlotOf(k)] = k
    BY <1>3 DEF SlotOf
  <1>5. ASSUME NEW i \in Slots, counts[i] = k PROVE SlotOf(k) = i
    BY <1>2, <1>3, <1>4, <1>5, Consts
  <1>6. /\ \A i \in Slots : counts[i] = k => LiveIn(counts, val, k) = val[i]
        /\ (\A i \in Slots : counts[i] # k) => LiveIn(counts, val, k) = 0
        /\ LiveIn(counts, val, k) \in Nat
    BY <1>2, LiveIs
  <1> QED BY <1>1, <1>3, <1>4, <1>5, <1>6

\* A map after a step, with the keys and values that changed.
LEMMA LiveNext ==
    ASSUME Types, PointerInv, NEW k \in Key,
           counts' \in [Slots -> Key \cup {Free}], val' \in [Slots -> Nat],
           \A i, j \in Slots : counts'[i] = counts'[j] /\ counts'[i] # Free => i = j
    PROVE  /\ \A i \in Slots : counts'[i] = k => Live(k)' = val'[i] /\ k \in Present'
           /\ (\A i \in Slots : counts'[i] # k) => Live(k)' = 0 /\ k \notin Present'
           /\ (\A i \in Slots : (counts[i] = k <=> counts'[i] = k) /\ (counts[i] = k => val'[i] = val[i]))
                 => Live(k)' = Live(k) /\ (k \in Present' <=> k \in Present)
  <1>1. Live(k)' = LiveIn(counts', val', k)
    BY DEF Live, LiveIn, Present, SlotOf
  <1>2. k \in Present' <=> \E i \in Slots : counts'[i] = k
    BY Consts DEF Present
  <1>3. /\ \A i \in Slots : counts'[i] = k => Live(k)' = val'[i] /\ k \in Present'
        /\ (\A i \in Slots : counts'[i] # k) => Live(k)' = 0 /\ k \notin Present'
    BY <1>1, <1>2, LiveIs
  <1>4. ASSUME \A i \in Slots : (counts[i] = k <=> counts'[i] = k) /\ (counts[i] = k => val'[i] = val[i])
        PROVE  Live(k)' = Live(k) /\ (k \in Present' <=> k \in Present)
    <2>1. CASE k \in Present
      <3>1. PICK i \in Slots : counts[i] = k
        BY <2>1 DEF Present
      <3>2. Live(k) = val[i]
        BY <3>1, LiveFacts
      <3> QED BY <1>3, <1>4, <2>1, <3>1, <3>2
    <2>2. CASE k \notin Present
      <3>1. Live(k) = 0 /\ \A i \in Slots : counts[i] # k
        BY <2>2, LiveFacts
      <3> QED BY <1>3, <1>4, <2>2, <3>1
    <2> QED BY <2>1, <2>2
  <1> QED BY <1>3, <1>4

----------------------------------------------------------------------------
(***************************************************************************)
(* What each action does to the handlers.                                  *)
(***************************************************************************)
\* Handler d keeps its stage, its task, its key and its locals.
Kept(d) ==
    /\ cpu'[d].pc = cpu[d].pc /\ cpu'[d].task = cpu[d].task
    /\ cpu'[d].kern = cpu[d].kern /\ cpu'[d].user = cpu[d].user
    /\ cpu'[d].ptr = cpu[d].ptr /\ cpu'[d].seen = cpu[d].seen

LEMMA KeptKey == ASSUME NEW d, Kept(d) PROVE KeyOf(cpu'[d]) = KeyOf(cpu[d])
  BY DEF Kept, KeyOf

\* The stack that a handler asks for is in the bucket of the id it gets.
LEMMA StackStep ==
    ASSUME Types, NEW s \in Stacks \cup {NoStack}, StoreStack(s)
    PROVE  /\ GetStackId(s) \in Ids
           /\ stacks' \in [Buckets -> Stacks \cup {NoStack}] /\ born' \in [Buckets -> Nat]
           /\ \A b \in Buckets : \/ stacks'[b] = stacks[b] /\ born'[b] = born[b]
                                 \/ stacks[b] = NoStack /\ born'[b] = RoundNumber
           /\ GetStackId(s) # Error => stacks'[GetStackId(s)] = s /\ s # NoStack
  <1>1. CASE s = NoStack \/ stacks[Bucket[s]] # NoStack
    BY <1>1, Consts DEF Types, StoreStack, GetStackId
  <1>2. CASE ~(s = NoStack \/ stacks[Bucket[s]] # NoStack)
    <2>1. s \in Stacks /\ Bucket[s] \in Buckets /\ GetStackId(s) = Bucket[s]
      BY <1>2, Consts DEF GetStackId
    <2>2. stacks' = [stacks EXCEPT ![Bucket[s]] = s] /\ born' = [born EXCEPT ![Bucket[s]] = RoundNumber]
      BY <1>2 DEF StoreStack
    <2> QED BY <1>2, <2>1, <2>2, Consts DEF Types
  <1> QED BY <1>1, <1>2

LEMMA CpuSample ==
    ASSUME IInv, NEW c \in Cpus, NEW t \in Tasks, Sample(c, t)
    PROVE  /\ cpu' \in [Cpus -> Handler] /\ cpu[c].pc = "idle"
           /\ cpu'[c].pc = "user" /\ cpu'[c].task = t /\ cpu'[c].kern = GetStackId(t.kern)
           /\ cpu'[c].ptr = 0 /\ cpu'[c].seen = 0 /\ ~cpu'[c].gone
           /\ cpu'[c].alone => session = "idle"
           /\ \A d \in Cpus \ {c} : cpu'[d] = cpu[d]
  <1>1. GetStackId(t.kern) \in Ids
    BY Consts, StackStep DEF IInv, Sample
  <1>a. PICK a \in BOOLEAN : a = (session = "idle")
    OBVIOUS
  <1>g. PICK id \in Ids : id = GetStackId(t.kern)
    BY <1>1
  <1>2. PICK h : h = [Idle EXCEPT !.pc = "user", !.task = t, !.kern = id, !.alone = a]
    OBVIOUS
  <1>3. /\ h \in Handler /\ h.pc = "user" /\ h.task = t /\ h.kern = id /\ h.ptr = 0
        /\ h.seen = 0 /\ ~h.gone /\ h.alone = a
    BY <1>2, IdleType, Consts DEF Handler, Idle
  <1>4. cpu' = [cpu EXCEPT ![c] = h] /\ cpu \in [Cpus -> Handler] /\ cpu[c].pc = "idle"
    BY <1>a, <1>g, <1>2 DEF Sample, IInv, Types
  <1> QED BY <1>a, <1>g, <1>3, <1>4

LEMMA CpuUser ==
    ASSUME IInv, NEW c \in Cpus, UserStack(c)
    PROVE  /\ cpu' \in [Cpus -> Handler] /\ cpu[c].pc = "user" /\ cpu[c].task \in Tasks
           /\ cpu'[c].pc = "lookup" /\ cpu'[c].task = cpu[c].task /\ cpu'[c].kern = cpu[c].kern
           /\ cpu'[c].user = GetStackId(cpu[c].task.user)
           /\ cpu'[c].ptr = cpu[c].ptr /\ cpu'[c].seen = cpu[c].seen
           /\ cpu'[c].gone = cpu[c].gone /\ cpu'[c].alone = cpu[c].alone
           /\ \A d \in Cpus \ {c} : cpu'[d] = cpu[d]
  <1>0. cpu \in [Cpus -> Handler] /\ cpu[c].pc = "user" /\ cpu[c].task \in Tasks
    BY DEF UserStack, IInv, Types
  <1>1. PICK id \in Ids : id = GetStackId(cpu[c].task.user)
    BY <1>0, Consts, StackStep DEF IInv, UserStack
  <1>2. cpu' = [cpu EXCEPT ![c] = [cpu[c] EXCEPT !.pc = "lookup", !.user = id]]
    BY <1>0, <1>1 DEF UserStack
  <1>3. [cpu[c] EXCEPT !.pc = "lookup", !.user = id] \in Handler
    BY <1>0 DEF Handler
  <1> QED BY <1>0, <1>1, <1>2, <1>3 DEF Handler

LEMMA CpuLookup ==
    ASSUME IInv, NEW c \in Cpus, Lookup(c)
    PROVE  /\ cpu' \in [Cpus -> Handler] /\ cpu[c].pc = "lookup" /\ cpu[c].task \in Tasks
           /\ KeyOf(cpu[c]) \in Key /\ KeyOf(cpu'[c]) = KeyOf(cpu[c])
           /\ cpu'[c].pc = (IF KeyOf(cpu[c]) \in Present THEN "load" ELSE "insert")
           /\ cpu'[c].ptr = (IF KeyOf(cpu[c]) \in Present THEN SlotOf(KeyOf(cpu[c])) ELSE 0)
           /\ cpu'[c].task = cpu[c].task /\ cpu'[c].kern = cpu[c].kern /\ cpu'[c].user = cpu[c].user
           /\ cpu'[c].seen = cpu[c].seen /\ cpu'[c].gone = cpu[c].gone
           /\ cpu'[c].alone => cpu[c].alone /\ Updating(KeyOf(cpu[c])) = {}
           /\ \A d \in Cpus \ {c} : /\ Kept(d) /\ cpu'[d].gone = cpu[d].gone
                                    /\ cpu'[d].alone => cpu[d].alone /\ d \notin Updating(KeyOf(cpu[c]))
  <1>0. cpu \in [Cpus -> Handler] /\ cpu[c].pc = "lookup" /\ cpu[c].task \in Tasks
    BY DEF Lookup, IInv, Types
  <1>1. PICK k \in Key : k = KeyOf(cpu[c])
    BY <1>0, KeyType
  <1>2. PICK p \in 0..CountsSize, q \in {"load", "insert"} :
            /\ k \in Present => p = SlotOf(k) /\ q = "load"
            /\ k \notin Present => p = 0 /\ q = "insert"
    <2>1. CASE k \in Present
      <3>1. SlotOf(k) \in 0..CountsSize
        BY <2>1, LiveFacts, Consts DEF IInv
      <3> QED BY <2>1, <3>1
    <2>2. CASE k \notin Present
      BY <2>2, Consts
    <2> QED BY <2>1, <2>2
  <1>4. PICK U : U = Updating(k)
    OBVIOUS
  <1>6. PICK h : h = [cpu[c] EXCEPT !.pc = q, !.ptr = p, !.alone = @ /\ U = {}]
    OBVIOUS
  <1>5. /\ cpu' = [d \in Cpus |-> cpu'[d]] /\ cpu'[c] = h
        /\ \A d \in Cpus \ {c} : cpu'[d] = IF d \in U THEN [cpu[d] EXCEPT !.alone = FALSE] ELSE cpu[d]
    <2> DEFINE kk == KeyOf(cpu[c])
               hh == [cpu[c] EXCEPT !.pc = IF kk \in Present THEN "load" ELSE "insert",
                                    !.ptr = IF kk \in Present THEN SlotOf(kk) ELSE 0,
                                    !.alone = @ /\ Updating(kk) = {}]
               oo(d) == [cpu[d] EXCEPT !.alone = FALSE]
               ff(d) == CASE d = c -> hh [] d \in Updating(kk) -> oo(d) [] OTHER -> cpu[d]
    <2>1. cpu' = [d \in Cpus |-> ff(d)]
      BY DEF Lookup
    <2>2. hh = h
      <3>1. (IF kk \in Present THEN "load" ELSE "insert") = q /\ (IF kk \in Present THEN SlotOf(kk) ELSE 0) = p
        BY <1>1, <1>2
      <3>2. Updating(kk) = U
        BY <1>1, <1>4
      <3> HIDE DEF kk
      <3> QED BY <3>1, <3>2, <1>6
    <2>3. kk = k
      BY <1>1
    <2> HIDE DEF kk, hh, oo
    <2>4. ff(c) = hh
      <3>1. c \notin Updating(kk)
        BY <1>0 DEF Updating
      <3> QED BY <3>1
    <2>5. ASSUME NEW d \in Cpus \ {c} PROVE ff(d) = IF d \in Updating(kk) THEN oo(d) ELSE cpu[d]
      OBVIOUS
    <2> HIDE DEF ff
    <2>7. cpu' = [d \in Cpus |-> cpu'[d]] /\ \A d \in Cpus : cpu'[d] = ff(d)
      BY <2>1
    <2>6. Updating(kk) = U
      BY <2>3, <1>4
    <2> QED BY <2>2, <2>4, <2>5, <2>6, <2>7 DEF oo
  <1>7. /\ h \in Handler /\ h.pc = q /\ h.ptr = p /\ h.task = cpu[c].task /\ h.kern = cpu[c].kern
        /\ h.user = cpu[c].user /\ h.seen = cpu[c].seen /\ h.gone = cpu[c].gone
        /\ h.alone => cpu[c].alone /\ U = {}
    BY <1>0, <1>6 DEF Handler
  <1>8. ASSUME NEW d \in Cpus \ {c}
        PROVE  /\ cpu'[d] \in Handler /\ Kept(d) /\ cpu'[d].gone = cpu[d].gone
               /\ cpu'[d].alone => cpu[d].alone /\ d \notin U
    <2>1. cpu'[d] = IF d \in U THEN [cpu[d] EXCEPT !.alone = FALSE] ELSE cpu[d]
      BY <1>5
    <2>2. cpu[d] \in Handler
      BY <1>0
    <2> QED BY <2>1, <2>2 DEF Kept, Handler
  <1>9. cpu'[c] = h /\ cpu' \in [Cpus -> Handler]
    <2>1. \A d \in Cpus : cpu'[d] \in Handler
      BY <1>5, <1>7, <1>8
    <2> QED BY <1>5, <2>1
  <1>10. KeyOf(cpu'[c]) = KeyOf(cpu[c])
    BY <1>7, <1>9 DEF KeyOf
  <1> QED BY <1>0, <1>1, <1>2, <1>4, <1>7, <1>8, <1>9, <1>10

LEMMA CpuLoad ==
    ASSUME IInv, NEW c \in Cpus, Load(c)
    PROVE  /\ cpu' \in [Cpus -> Handler] /\ cpu[c].pc = "load" /\ cpu[c].ptr \in Slots
           /\ cpu'[c].pc = "store" /\ cpu'[c].seen = val[cpu[c].ptr]
           /\ cpu'[c].task = cpu[c].task /\ cpu'[c].kern = cpu[c].kern /\ cpu'[c].user = cpu[c].user
           /\ KeyOf(cpu'[c]) = KeyOf(cpu[c]) /\ KeyOf(cpu[c]) \in Key
           /\ cpu'[c].ptr = cpu[c].ptr /\ cpu'[c].gone = cpu[c].gone /\ cpu'[c].alone = cpu[c].alone
           /\ \A d \in Cpus \ {c} : cpu'[d] = cpu[d]
  <1>0. cpu \in [Cpus -> Handler] /\ cpu[c].pc = "load" /\ cpu[c].task \in Tasks /\ val \in [Slots -> Nat]
    BY DEF Load, IInv, Types
  <1>1. cpu[c].ptr \in Slots
    BY <1>0 DEF IInv, PointerInv, Pointing
  <1>2. PICK v \in Nat : v = val[cpu[c].ptr]
    BY <1>0, <1>1
  <1>3. cpu' = [cpu EXCEPT ![c] = [cpu[c] EXCEPT !.pc = "store", !.seen = v]]
    BY <1>0, <1>2 DEF Load
  <1>4. PICK h : h = [cpu[c] EXCEPT !.pc = "store", !.seen = v]
    OBVIOUS
  <1>5. /\ h \in Handler /\ h.pc = "store" /\ h.seen = v /\ h.task = cpu[c].task /\ h.kern = cpu[c].kern
        /\ h.user = cpu[c].user /\ h.ptr = cpu[c].ptr /\ h.gone = cpu[c].gone /\ h.alone = cpu[c].alone
    BY <1>0, <1>4 DEF Handler
  <1>6. cpu'[c] = h /\ cpu' \in [Cpus -> Handler] /\ \A d \in Cpus \ {c} : cpu'[d] = cpu[d]
    BY <1>0, <1>3, <1>4, <1>5
  <1>7. KeyOf(cpu'[c]) = KeyOf(cpu[c])
    BY <1>5, <1>6 DEF KeyOf
  <1>8. KeyOf(cpu[c]) \in Key
    BY <1>0, KeyType
  <1> QED BY <1>0, <1>1, <1>2, <1>5, <1>6, <1>7, <1>8

LEMMA CpuDone ==
    ASSUME IInv, NEW c \in Cpus, NEW b \in BOOLEAN, Done(c, b), cpu[c].pc # "idle"
    PROVE  /\ cpu' \in [Cpus -> Handler] /\ KeyOf(cpu[c]) \in Key /\ cpu[c].task \in Tasks
           /\ KeyOf(cpu[c]).kern = cpu[c].kern /\ KeyOf(cpu[c]).user = cpu[c].user
           /\ cpu'[c] = Idle /\ \A d \in Cpus \ {c} : cpu'[d] = cpu[d]
           /\ clean' \in [Key -> Seq(Tasks)]
           /\ clean'[KeyOf(cpu[c])] = IF b /\ cpu[c].alone THEN Append(clean[KeyOf(cpu[c])], cpu[c].task)
                                                            ELSE clean[KeyOf(cpu[c])]
           /\ \A k \in Key \ {KeyOf(cpu[c])} : clean'[k] = clean[k]
  <1>0. cpu \in [Cpus -> Handler] /\ cpu[c].task \in Tasks /\ clean \in [Key -> Seq(Tasks)]
    BY DEF IInv, Types
  <1>1. KeyOf(cpu[c]) \in Key /\ KeyOf(cpu[c]).kern = cpu[c].kern /\ KeyOf(cpu[c]).user = cpu[c].user
    BY <1>0, KeyType
  <1>2. Append(clean[KeyOf(cpu[c])], cpu[c].task) \in Seq(Tasks)
    BY <1>0, <1>1
  <1> QED BY <1>0, <1>1, <1>2, IdleType DEF Done

LEMMA CpuTick ==
    ASSUME IInv, Tick
    PROVE  /\ cpu' \in [Cpus -> Handler]
           /\ \A d \in Cpus : Kept(d) /\ cpu'[d].gone = cpu[d].gone /\ ~cpu'[d].alone
  <1>0. cpu \in [Cpus -> Handler]
    BY DEF IInv, Types
  <1>1. cpu' = [c \in Cpus |-> [cpu[c] EXCEPT !.alone = FALSE]]
    BY DEF Tick
  <1>2. ASSUME NEW d \in Cpus
        PROVE  cpu'[d] \in Handler /\ Kept(d) /\ cpu'[d].gone = cpu[d].gone /\ ~cpu'[d].alone
    <2>1. cpu'[d] = [cpu[d] EXCEPT !.alone = FALSE] /\ cpu[d] \in Handler
      BY <1>0, <1>1
    <2> QED BY <2>1 DEF Handler, Kept
  <1> QED BY <1>1, <1>2

LEMMA CpuDelete ==
    ASSUME IInv, NEW i \in Slots, Delete(i)
    PROVE  /\ cpu' \in [Cpus -> Handler]
           /\ counts' = [counts EXCEPT ![i] = Free] /\ counts' \in [Slots -> Key \cup {Free}]
           /\ \A d \in Cpus : /\ Kept(d) /\ cpu'[d].alone = cpu[d].alone
                              /\ cpu'[d].gone = (cpu[d].gone \/ cpu[d].ptr = i)
  <1>0. cpu \in [Cpus -> Handler] /\ counts \in [Slots -> Key \cup {Free}]
    BY DEF IInv, Types
  <1>1. cpu' = [c \in Cpus |-> [cpu[c] EXCEPT !.gone = @ \/ cpu[c].ptr = i]]
        /\ counts' = [counts EXCEPT ![i] = Free]
    BY DEF Delete
  <1>2. ASSUME NEW d \in Cpus
        PROVE  /\ cpu'[d] \in Handler /\ Kept(d) /\ cpu'[d].alone = cpu[d].alone
               /\ cpu'[d].gone = (cpu[d].gone \/ cpu[d].ptr = i)
    <2>1. cpu'[d] = [cpu[d] EXCEPT !.gone = @ \/ cpu[d].ptr = i] /\ cpu[d] \in Handler
      BY <1>0, <1>1
    <2> QED BY <2>1 DEF Handler, Kept
  <1> QED BY <1>0, <1>1, <1>2

----------------------------------------------------------------------------
(***************************************************************************)
(* The types.                                                              *)
(***************************************************************************)
LEMMA NoRows == DOMAIN <<>> = {} /\ <<>> \in [DOMAIN <<>> -> AnyRow]
  OBVIOUS

LEMMA TakenStep ==
    ASSUME IInv, NEW c \in Cpus, Lookup(c)
    PROVE  /\ taken' \in [Key -> Nat] /\ taken'[KeyOf(cpu[c])] = taken[KeyOf(cpu[c])] + 1
           /\ \A k \in Key \ {KeyOf(cpu[c])} : taken'[k] = taken[k]
  <1>1. KeyOf(cpu[c]) \in Key /\ taken \in [Key -> Nat]
    BY CpuLookup DEF IInv, Types
  <1>2. taken' = [taken EXCEPT ![KeyOf(cpu[c])] = @ + 1]
    BY DEF Lookup
  <1> QED BY <1>1, <1>2

LEMMA InsertStep ==
    ASSUME IInv, NEW c \in Cpus, Insert(c)
    PROVE  /\ cpu[c].pc = "insert" /\ KeyOf(cpu[c]) \in Key
           /\ counts' \in [Slots -> Key \cup {Free}] /\ val' \in [Slots -> Nat]
           /\ \/ /\ KeyOf(cpu[c]) \notin Present /\ Done(c, TRUE)
                 /\ \E i \in Slots : /\ counts[i] = Free
                                     /\ counts' = [counts EXCEPT ![i] = KeyOf(cpu[c])]
                                     /\ val' = [val EXCEPT ![i] = 1]
              \/ UNCHANGED <<counts, val>> /\ Done(c, FALSE)
  <1>0. cpu[c].pc = "insert" /\ KeyOf(cpu[c]) \in Key
    BY KeyType DEF Insert, IInv, Types
  <1> DEFINE room == KeyOf(cpu[c]) \notin Present /\ \E i \in Slots : counts[i] = Free
  <1>1. CASE room
    <2>1. PICK i \in {j \in Slots : counts[j] = Free} :
              counts' = [counts EXCEPT ![i] = KeyOf(cpu[c])] /\ val' = [val EXCEPT ![i] = 1]
      BY <1>1 DEF Insert
    <2>2. Done(c, TRUE)
      <3>1. Done(c, room) /\ room = TRUE
        BY <1>1 DEF Insert
      <3> HIDE DEF room
      <3> QED BY <3>1
    <2> QED BY <1>0, <1>1, <2>1, <2>2 DEF IInv, Types
  <1>2. CASE ~room
    <2>1. UNCHANGED <<counts, val>>
      BY <1>2 DEF Insert
    <2>2. Done(c, FALSE)
      <3>1. Done(c, room) /\ room = FALSE
        BY <1>2 DEF Insert
      <3> HIDE DEF room
      <3> QED BY <3>1
    <2> QED BY <1>0, <2>1, <2>2 DEF IInv, Types
  <1> QED BY <1>1, <1>2

LEMMA StoreStep ==
    ASSUME IInv, NEW c \in Cpus, Store(c)
    PROVE  /\ cpu[c].pc = "store" /\ KeyOf(cpu[c]) \in Key /\ cpu[c].ptr \in Slots /\ cpu[c].seen \in Nat
           /\ val' = [val EXCEPT ![cpu[c].ptr] = cpu[c].seen + 1] /\ val' \in [Slots -> Nat]
           /\ stale' \subseteq Key /\ stale \subseteq stale'
           /\ cpu[c].gone => \A k \in Key : counts[cpu[c].ptr] = k => k \in stale'
           /\ ~cpu[c].gone => counts[cpu[c].ptr] = KeyOf(cpu[c])
           /\ Done(c, TRUE)
  <1>0. cpu[c].pc = "store" /\ cpu \in [Cpus -> Handler] /\ cpu[c].task \in Tasks
    BY DEF Store, IInv, Types
  <1>1. KeyOf(cpu[c]) \in Key /\ cpu[c].seen \in Nat
    BY <1>0, KeyType DEF Handler
  <1>2. cpu[c].ptr \in Slots /\ (~cpu[c].gone => counts[cpu[c].ptr] = KeyOf(cpu[c]))
    BY <1>0 DEF IInv, PointerInv, Pointing
  <1>3. counts[cpu[c].ptr] \in Key \cup {Free} /\ val \in [Slots -> Nat] /\ stale \subseteq Key
    BY <1>2 DEF IInv, Types
  <1>4. /\ val' = [val EXCEPT ![cpu[c].ptr] = cpu[c].seen + 1] /\ Done(c, TRUE)
        /\ stale' = IF cpu[c].gone THEN stale \cup ({counts[cpu[c].ptr]} \ {Free}) ELSE stale
    BY DEF Store
  <1>5. val' \in [Slots -> Nat]
    BY <1>1, <1>2, <1>3, <1>4
  <1>6. /\ stale' \subseteq Key /\ stale \subseteq stale'
        /\ cpu[c].gone => \A k \in Key : counts[cpu[c].ptr] = k => k \in stale'
    BY <1>3, <1>4, Consts
  <1> QED BY <1>0, <1>1, <1>2, <1>4, <1>5, <1>6

LEMMA ReadStep ==
    ASSUME IInv, NEW k \in Key, ReadRow(k)
    PROVE  /\ k \in Present /\ k \notin DOMAIN rows
           /\ SlotOf(k) \in Slots /\ counts[SlotOf(k)] = k /\ Live(k) = val[SlotOf(k)]
           /\ DOMAIN rows' = DOMAIN rows \cup {k} /\ rows' \in [DOMAIN rows' -> AnyRow]
           /\ rows'[k].count = Live(k) /\ rows'[k].claim = clean[k] /\ rows'[k].done = FALSE
           /\ \A j \in DOMAIN rows : rows'[j] = rows[j] /\ j # k
           /\ reported' \in [Key -> Nat] /\ reported'[k] = reported[k] + Live(k)
           /\ clean' \in [Key -> Seq(Tasks)] /\ clean'[k] = <<>>
           /\ \A j \in Key \ {k} : reported'[j] = reported[j] /\ clean'[j] = clean[j]
  <1>1. k \in Present /\ k \notin DOMAIN rows
    BY DEF ReadRow
  <1>2. SlotOf(k) \in Slots /\ counts[SlotOf(k)] = k /\ Live(k) = val[SlotOf(k)] /\ Live(k) \in Nat
    BY <1>1, LiveFacts DEF IInv
  <1>3. PICK r : r = [count |-> val[SlotOf(k)], claim |-> clean[k], done |-> FALSE,
                      kern |-> NoStack, user |-> NoStack]
    OBVIOUS
  <1>4. clean[k] \in Seq(Tasks) /\ rows \in [DOMAIN rows -> AnyRow]
    BY DEF IInv, Types
  <1>5. r \in AnyRow /\ r.count = Live(k) /\ r.claim = clean[k] /\ r.done = FALSE
    BY <1>2, <1>3, <1>4 DEF AnyRow
  <1>6. rows' = [j \in DOMAIN rows \cup {k} |-> IF j = k THEN r ELSE rows[j]]
    BY <1>3 DEF ReadRow
  <1>7. /\ DOMAIN rows' = DOMAIN rows \cup {k} /\ rows' \in [DOMAIN rows' -> AnyRow] /\ rows'[k] = r
        /\ \A j \in DOMAIN rows : rows'[j] = rows[j] /\ j # k
    BY <1>1, <1>4, <1>5, <1>6
  <1>8. /\ reported' = [reported EXCEPT ![k] = @ + Live(k)] /\ clean' = [clean EXCEPT ![k] = <<>>]
        /\ reported \in [Key -> Nat] /\ clean \in [Key -> Seq(Tasks)]
    BY <1>2 DEF ReadRow, IInv, Types
  <1>9. <<>> \in Seq(Tasks)
    OBVIOUS
  <1> QED BY <1>1, <1>2, <1>5, <1>7, <1>8, <1>9

LEMMA ResolveStep ==
    ASSUME IInv, NEW k \in Key, Resolve(k)
    PROVE  /\ session = "resolve" /\ k \in DOMAIN rows
           /\ DOMAIN rows' = DOMAIN rows /\ rows' \in [DOMAIN rows' -> AnyRow]
           /\ rows'[k].done = TRUE /\ rows'[k].kern = GetStack(k.kern) /\ rows'[k].user = GetStack(k.user)
           /\ \A j \in DOMAIN rows : /\ rows'[j].count = rows[j].count /\ rows'[j].claim = rows[j].claim
                                     /\ j # k => rows'[j] = rows[j]
  <1>1. session = "resolve" /\ k \in DOMAIN rows /\ rows \in [DOMAIN rows -> AnyRow]
    BY DEF Resolve, IInv, Types
  <1>2. GetStack(k.kern) \in Stacks \cup {NoStack} /\ GetStack(k.user) \in Stacks \cup {NoStack}
    BY Consts DEF GetStack, IInv, Types, Ids
  <1>3. PICK a \in Stacks \cup {NoStack}, b \in Stacks \cup {NoStack} :
            a = GetStack(k.kern) /\ b = GetStack(k.user)
    BY <1>2
  <1>4. PICK r : r = [rows[k] EXCEPT !.done = TRUE, !.kern = a, !.user = b]
    OBVIOUS
  <1>5. rows' = [rows EXCEPT ![k] = r]
    BY <1>1, <1>3, <1>4 DEF Resolve
  <1>6. /\ r \in AnyRow /\ r.done = TRUE /\ r.kern = a /\ r.user = b
        /\ r.count = rows[k].count /\ r.claim = rows[k].claim
    BY <1>1, <1>4 DEF AnyRow
  <1> QED BY <1>1, <1>3, <1>5, <1>6

\* The variables that a step does not name keep their types.
LEMMA TypesHandlers ==
    ASSUME IInv, NEW c \in Cpus,
           (\E t \in Tasks : Sample(c, t)) \/ UserStack(c) \/ Lookup(c) \/ Insert(c) \/ Load(c) \/ Store(c)
    PROVE  Types'
  <1>0. Types
    BY DEF IInv
  <1>t. \A d \in Cpus : cpu[d].pc # "idle" => cpu[d].task \in Tasks
    BY DEF IInv, Types
  <1>1. ASSUME NEW t \in Tasks, Sample(c, t) PROVE Types'
    <2>1. /\ cpu' \in [Cpus -> Handler] /\ \A d \in Cpus : cpu'[d].pc # "idle" => cpu'[d].task \in Tasks
      <3>1. /\ cpu' \in [Cpus -> Handler] /\ cpu'[c].task = t
            /\ \A d \in Cpus \ {c} : cpu'[d] = cpu[d]
        BY <1>1, CpuSample
      <3> QED BY <1>t, <3>1
    <2>2. stacks' \in [Buckets -> Stacks \cup {NoStack}] /\ born' \in [Buckets -> Nat]
      BY <1>0, <1>1, Consts, StackStep DEF Sample
    <2>3. samples' \in 0..MaxSamples
      <3>1. samples \in 0..MaxSamples /\ samples < MaxSamples /\ samples' = samples + 1
        BY <1>0, <1>1 DEF Sample, Types
      <3> QED BY <3>1, Consts
    <2> QED BY <1>0, <1>1, <2>1, <2>2, <2>3 DEF Types, Sample, reader
  <1>2. ASSUME UserStack(c) PROVE Types'
    <2>1. /\ cpu' \in [Cpus -> Handler] /\ \A d \in Cpus : cpu'[d].pc # "idle" => cpu'[d].task \in Tasks
      <3>1. /\ cpu' \in [Cpus -> Handler] /\ cpu'[c].task = cpu[c].task /\ cpu[c].task \in Tasks
            /\ \A d \in Cpus \ {c} : cpu'[d] = cpu[d]
        BY <1>2, CpuUser
      <3> QED BY <1>t, <3>1
    <2>2. stacks' \in [Buckets -> Stacks \cup {NoStack}] /\ born' \in [Buckets -> Nat]
      BY <1>0, <1>2, Consts, CpuUser, StackStep DEF UserStack
    <2> QED BY <1>0, <1>2, <2>1, <2>2 DEF Types, UserStack, reader
  <1>3. ASSUME Lookup(c) PROVE Types'
    <2>1. /\ cpu' \in [Cpus -> Handler] /\ \A d \in Cpus : cpu'[d].pc # "idle" => cpu'[d].task \in Tasks
      <3>1. /\ cpu' \in [Cpus -> Handler] /\ cpu'[c].task = cpu[c].task /\ cpu[c].task \in Tasks
            /\ \A d \in Cpus \ {c} : Kept(d)
        BY <1>3, CpuLookup
      <3> QED BY <1>t, <3>1 DEF Kept
    <2>2. taken' \in [Key -> Nat]
      BY <1>3, TakenStep
    <2> QED BY <1>0, <1>3, <2>1, <2>2 DEF Types, Lookup, reader
  <1>4. ASSUME Insert(c) PROVE Types'
    <2>0. /\ counts' \in [Slots -> Key \cup {Free}] /\ val' \in [Slots -> Nat] /\ cpu[c].pc = "insert"
          /\ \E b \in BOOLEAN : Done(c, b)
      BY <1>4, InsertStep
    <2>1. /\ cpu' \in [Cpus -> Handler] /\ \A d \in Cpus : cpu'[d].pc # "idle" => cpu'[d].task \in Tasks
          /\ clean' \in [Key -> Seq(Tasks)]
      <3>1. PICK b \in BOOLEAN : Done(c, b)
        BY <2>0
      <3>2. /\ cpu' \in [Cpus -> Handler] /\ cpu'[c] = Idle /\ clean' \in [Key -> Seq(Tasks)]
            /\ \A d \in Cpus \ {c} : cpu'[d] = cpu[d]
        BY <2>0, <3>1, CpuDone
      <3> QED BY <1>t, <3>2 DEF Idle
    <2> QED BY <1>0, <1>4, <2>0, <2>1 DEF Types, Insert, reader
  <1>5. ASSUME Load(c) PROVE Types'
    <2>1. /\ cpu' \in [Cpus -> Handler] /\ \A d \in Cpus : cpu'[d].pc # "idle" => cpu'[d].task \in Tasks
      <3>1. /\ cpu' \in [Cpus -> Handler] /\ cpu'[c].task = cpu[c].task /\ cpu[c].pc = "load"
            /\ \A d \in Cpus \ {c} : cpu'[d] = cpu[d]
        BY <1>5, CpuLoad
      <3> QED BY <1>t, <3>1
    <2> QED BY <1>0, <1>5, <2>1 DEF Types, Load, reader
  <1>6. ASSUME Store(c) PROVE Types'
    <2>0. val' \in [Slots -> Nat] /\ stale' \subseteq Key /\ cpu[c].pc = "store" /\ Done(c, TRUE)
      BY <1>6, StoreStep
    <2>1. /\ cpu' \in [Cpus -> Handler] /\ \A d \in Cpus : cpu'[d].pc # "idle" => cpu'[d].task \in Tasks
          /\ clean' \in [Key -> Seq(Tasks)]
      <3>1. PICK b \in BOOLEAN : Done(c, b)
        BY <2>0
      <3>2. /\ cpu' \in [Cpus -> Handler] /\ cpu'[c] = Idle /\ clean' \in [Key -> Seq(Tasks)]
            /\ \A d \in Cpus \ {c} : cpu'[d] = cpu[d]
        BY <2>0, <3>1, CpuDone
      <3> QED BY <1>t, <3>2 DEF Idle
    <2> QED BY <1>0, <1>6, <2>0, <2>1 DEF Types, Store, reader
  <1> QED BY <1>1, <1>2, <1>3, <1>4, <1>5, <1>6

LEMMA TypesReset ==
    ASSUME IInv,
           \/ Tick \/ EndBatch \/ EndIterate \/ SendEvents \/ ClearStacksMap \/ EndReset
           \/ \E k \in Key : ReadBatch(k) \/ ReadNext(k) \/ Resolve(k) \/ ClearCount(k)
           \/ \E b \in Buckets : ClearStack(b)
    PROVE  Types'
  <1>0. Types
    BY DEF IInv
  <1>t. \A d \in Cpus : cpu[d].pc # "idle" => cpu[d].task \in Tasks
    BY DEF IInv, Types
  <1>p. Present \subseteq Key
    BY <1>0 DEF Types, Present
  <1>1. CASE Tick
    <2>1. /\ cpu' \in [Cpus -> Handler] /\ \A d \in Cpus : cpu'[d].pc # "idle" => cpu'[d].task \in Tasks
      <3>1. cpu' \in [Cpus -> Handler] /\ \A d \in Cpus : Kept(d)
        BY <1>1, CpuTick
      <3> QED BY <1>t, <3>1 DEF Kept
    <2>2. RoundNumber' \in 0..MaxRounds
      <3>1. RoundNumber \in 0..MaxRounds /\ RoundNumber < MaxRounds /\ RoundNumber' = RoundNumber + 1
        BY <1>0, <1>1 DEF Tick, Types
      <3> QED BY <3>1, Consts
    <2>3. DOMAIN rows' \subseteq Key /\ rows' \in [DOMAIN rows' -> AnyRow] /\ must' \subseteq Key
      BY <1>1, <1>p, NoRows DEF Tick
    <2>4. todo' \subseteq Key /\ session' \in {"batch", "iterate"}
      BY <1>0, <1>1 DEF Tick, Types
    <2> QED BY <1>0, <1>1, <2>1, <2>2, <2>3, <2>4 DEF Types, Tick
  <1>2. CASE EndBatch
    BY <1>0, <1>2, <1>p DEF Types, EndBatch, progs
  <1>3. CASE EndIterate
    BY <1>0, <1>3 DEF Types, EndIterate, progs
  <1>4. CASE SendEvents
    BY <1>0, <1>4 DEF Types, SendEvents, progs
  <1>5. CASE ClearStacksMap
    <2>1. KnownStacks \ {Error} \subseteq Buckets
      BY <1>0, Consts DEF Types, KnownStacks, Ids
    <2> QED BY <1>0, <1>5, <2>1 DEF Types, ClearStacksMap, progs
  <1>6. CASE EndReset
    <2>1. DOMAIN rows' \subseteq Key /\ rows' \in [DOMAIN rows' -> AnyRow]
      BY <1>6, NoRows DEF EndReset
    <2>2. todo' \subseteq Key /\ session' = "idle"
      BY <1>6 DEF EndReset
    <2> QED BY <1>0, <1>6, <2>1, <2>2 DEF Types, EndReset, progs
  <1>7. ASSUME NEW k \in Key, ReadBatch(k) PROVE Types'
    <2>1. /\ DOMAIN rows' \subseteq Key /\ rows' \in [DOMAIN rows' -> AnyRow] /\ reported' \in [Key -> Nat]
          /\ clean' \in [Key -> Seq(Tasks)] /\ SlotOf(k) \in Slots
      <3>1. /\ DOMAIN rows' = DOMAIN rows \cup {k} /\ rows' \in [DOMAIN rows' -> AnyRow]
            /\ reported' \in [Key -> Nat] /\ clean' \in [Key -> Seq(Tasks)] /\ SlotOf(k) \in Slots
        BY <1>7, ReadStep DEF ReadBatch
      <3> QED BY <1>0, <3>1 DEF Types
    <2>2. /\ cpu' \in [Cpus -> Handler] /\ \A d \in Cpus : cpu'[d].pc # "idle" => cpu'[d].task \in Tasks
          /\ counts' \in [Slots -> Key \cup {Free}]
      <3>1. cpu' \in [Cpus -> Handler] /\ counts' \in [Slots -> Key \cup {Free}] /\ \A d \in Cpus : Kept(d)
        BY <1>7, <2>1, CpuDelete DEF ReadBatch
      <3> QED BY <1>t, <3>1 DEF Kept
    <2> QED BY <1>0, <1>7, <2>1, <2>2 DEF Types, ReadBatch
  <1>8. ASSUME NEW k \in Key, ReadNext(k) PROVE Types'
    <2>1. /\ DOMAIN rows' \subseteq Key /\ rows' \in [DOMAIN rows' -> AnyRow] /\ reported' \in [Key -> Nat]
          /\ clean' \in [Key -> Seq(Tasks)]
      <3>1. /\ DOMAIN rows' = DOMAIN rows \cup {k} /\ rows' \in [DOMAIN rows' -> AnyRow]
            /\ reported' \in [Key -> Nat] /\ clean' \in [Key -> Seq(Tasks)]
        BY <1>8, ReadStep DEF ReadNext
      <3> QED BY <1>0, <3>1 DEF Types
    <2> QED BY <1>0, <1>8, <2>1 DEF Types, ReadNext
  <1>9. ASSUME NEW k \in Key, Resolve(k) PROVE Types'
    <2>1. DOMAIN rows' = DOMAIN rows /\ rows' \in [DOMAIN rows' -> AnyRow]
      BY <1>9, ResolveStep
    <2> QED BY <1>0, <1>9, <2>1 DEF Types, Resolve, progs
  <1>10. ASSUME NEW k \in Key, ClearCount(k) PROVE Types'
    <2>1. SlotOf(k) \in Slots
      BY <1>10, LiveFacts DEF ClearCount, IInv
    <2>2. /\ cpu' \in [Cpus -> Handler] /\ \A d \in Cpus : cpu'[d].pc # "idle" => cpu'[d].task \in Tasks
          /\ counts' \in [Slots -> Key \cup {Free}]
      <3>1. cpu' \in [Cpus -> Handler] /\ counts' \in [Slots -> Key \cup {Free}] /\ \A d \in Cpus : Kept(d)
        BY <1>10, <2>1, CpuDelete DEF ClearCount
      <3> QED BY <1>t, <3>1 DEF Kept
    <2> QED BY <1>0, <1>10, <2>2 DEF Types, ClearCount
  <1>11. ASSUME NEW b \in Buckets, ClearStack(b) PROVE Types'
    BY <1>0, <1>11 DEF Types, ClearStack, progs
  <1> QED BY <1>1, <1>2, <1>3, <1>4, <1>5, <1>6, <1>7, <1>8, <1>9, <1>10, <1>11

----------------------------------------------------------------------------
(***************************************************************************)
(* The bound on the counts.                                                *)
(***************************************************************************)
LEMMA CpuSets ==
    ASSUME NEW S, S \subseteq Cpus
    PROVE  /\ IsFiniteSet(S) /\ Cardinality(S) \in Nat
           /\ \A c \in Cpus \ S : Cardinality(S \cup {c}) = Cardinality(S) + 1
           /\ \A c \in S : Cardinality(S \ {c}) = Cardinality(S) - 1
  <1>1. IsFiniteSet(S) /\ Cardinality(S) \in Nat
    BY Consts, FS_Subset, FS_CardinalityType
  <1> QED BY <1>1, FS_AddElement, FS_RemoveElement

\* The number of samples whose handler has ended grows when one ends.
LEMMA FinishedKept ==
    ASSUME samples' = samples, \A d \in Cpus : cpu'[d].pc # "idle" <=> cpu[d].pc # "idle"
    PROVE  Finished' = Finished
  <1>1. Active' = Active
    BY DEF Active
  <1> QED BY <1>1 DEF Finished

LEMMA FinishedGrows ==
    ASSUME Types, NEW c \in Cpus, cpu[c].pc # "idle", cpu'[c] = Idle, samples' = samples,
           \A d \in Cpus \ {c} : cpu'[d] = cpu[d]
    PROVE  Finished' = Finished + 1 /\ Finished \in Int
  <1>1. Active' = Active \ {c} /\ c \in Active /\ Active \subseteq Cpus
    BY DEF Active, Idle
  <1>2. Cardinality(Active \ {c}) = Cardinality(Active) - 1 /\ Cardinality(Active) \in Nat
    BY <1>1, CpuSets
  <1>3. samples \in Int
    BY DEF Types
  <1> QED BY <1>1, <1>2, <1>3 DEF Finished

LEMMA BoundedKept ==
    ASSUME IInv, Finished' = Finished, val' = val,
           \A d \in Cpus : cpu'[d].seen = cpu[d].seen \/ cpu'[d].seen <= Finished,
           \A k \in DOMAIN rows' : rows'[k].count <= Finished
    PROVE  Bounded'
  <1>1. Bounded
    BY DEF IInv
  <1> QED BY <1>1 DEF Bounded

LEMMA FinishedType == ASSUME IInv PROVE Finished \in Nat /\ Finished <= samples
  <1>1. 1 \in Slots /\ val \in [Slots -> Nat] /\ samples \in Nat
    BY Consts DEF Slots, IInv, Types
  <1>2. val[1] <= Finished /\ val[1] \in Nat
    BY <1>1 DEF IInv, Bounded
  <1>3. Active \subseteq Cpus
    BY DEF Active
  <1>4. Cardinality(Active) \in Nat
    BY <1>3, CpuSets
  <1> QED BY <1>1, <1>2, <1>4 DEF Finished

LEMMA BoundedHandlers ==
    ASSUME IInv, NEW c \in Cpus,
           (\E t \in Tasks : Sample(c, t)) \/ UserStack(c) \/ Lookup(c) \/ Insert(c) \/ Load(c) \/ Store(c)
    PROVE  Bounded'
  <1>b. /\ \A i \in Slots : val[i] <= Finished /\ val[i] \in Nat
        /\ \A d \in Cpus : cpu[d].seen <= Finished /\ cpu[d].seen \in Nat
        /\ \A k \in DOMAIN rows : rows[k].count <= Finished /\ rows[k].count \in Nat
    BY DEF IInv, Bounded, Types, Handler, AnyRow
  <1>f. Finished \in Nat
    BY FinishedType
  <1>1. ASSUME NEW t \in Tasks, Sample(c, t) PROVE Bounded'
    <2>1. /\ cpu[c].pc = "idle" /\ cpu'[c].pc = "user" /\ cpu'[c].seen = 0
          /\ \A d \in Cpus \ {c} : cpu'[d] = cpu[d]
      BY <1>1, CpuSample
    <2>2. Finished' = Finished
      <3>1. Active' = Active \cup {c} /\ c \in Cpus \ Active /\ Active \subseteq Cpus
        BY <2>1 DEF Active
      <3>2. Cardinality(Active') = Cardinality(Active) + 1 /\ Cardinality(Active) \in Nat
        BY <3>1, CpuSets
      <3>3. samples' = samples + 1 /\ samples \in Nat
        <4>1. samples \in Nat
          BY DEF IInv, Types
        <4> QED BY <1>1, <4>1 DEF Sample
      <3> QED BY <3>2, <3>3 DEF Finished
    <2>3. val' = val /\ rows' = rows
      BY <1>1 DEF Sample, reader
    <2> QED BY <1>b, <1>f, <2>1, <2>2, <2>3, BoundedKept
  <1>2. ASSUME UserStack(c) PROVE Bounded'
    <2>1. /\ cpu[c].pc = "user" /\ cpu'[c].pc = "lookup" /\ cpu'[c].seen = cpu[c].seen
          /\ \A d \in Cpus \ {c} : cpu'[d] = cpu[d]
      BY <1>2, CpuUser
    <2>2. val' = val /\ rows' = rows /\ samples' = samples
      BY <1>2 DEF UserStack, reader
    <2>3. Finished' = Finished
      BY <2>1, <2>2, FinishedKept
    <2> QED BY <1>b, <2>1, <2>2, <2>3, BoundedKept
  <1>3. ASSUME Lookup(c) PROVE Bounded'
    <2>1. /\ cpu[c].pc = "lookup" /\ cpu'[c].pc \in {"load", "insert"} /\ cpu'[c].seen = cpu[c].seen
          /\ \A d \in Cpus \ {c} : Kept(d)
      BY <1>3, CpuLookup
    <2>2. val' = val /\ rows' = rows /\ samples' = samples
      BY <1>3 DEF Lookup, reader
    <2>3. Finished' = Finished
      BY <2>1, <2>2, FinishedKept DEF Kept
    <2>4. \A d \in Cpus : cpu'[d].seen = cpu[d].seen
      BY <2>1 DEF Kept
    <2> QED BY <1>b, <2>2, <2>3, <2>4, BoundedKept
  <1>4. ASSUME Insert(c) \/ Store(c) PROVE Bounded'
    <2>1. /\ cpu[c].pc # "idle" /\ (\E b \in BOOLEAN : Done(c, b))
          /\ \A i \in Slots : val'[i] \in {val[i], 1, cpu[c].seen + 1}
      <3>1. CASE Insert(c)
        BY <3>1, InsertStep DEF IInv, Types
      <3>2. CASE Store(c)
        BY <3>2, StoreStep DEF IInv, Types
      <3> QED BY <1>4, <3>1, <3>2
    <2>2. cpu'[c] = Idle /\ \A d \in Cpus \ {c} : cpu'[d] = cpu[d]
      BY <2>1, CpuDone
    <2>3. rows' = rows /\ samples' = samples
      BY <1>4 DEF Insert, Store, reader
    <2>4. Finished' = Finished + 1
      BY <2>1, <2>2, <2>3, FinishedGrows DEF IInv
    <2>5. \A i \in Slots : val'[i] <= Finished + 1
      BY <1>b, <1>f, <2>1
    <2>6. \A d \in Cpus : cpu'[d].seen <= Finished + 1
      BY <1>b, <1>f, <2>2 DEF Idle
    <2>7. \A k \in DOMAIN rows : rows[k].count <= Finished + 1
      BY <1>b, <1>f
    <2> QED BY <2>3, <2>4, <2>5, <2>6, <2>7 DEF Bounded
  <1>5. ASSUME Load(c) PROVE Bounded'
    <2>1. /\ cpu[c].pc = "load" /\ cpu'[c].pc = "store" /\ cpu[c].ptr \in Slots
          /\ cpu'[c].seen = val[cpu[c].ptr] /\ \A d \in Cpus \ {c} : cpu'[d] = cpu[d]
      BY <1>5, CpuLoad
    <2>2. val' = val /\ rows' = rows /\ samples' = samples
      BY <1>5 DEF Load, reader
    <2>3. Finished' = Finished
      BY <2>1, <2>2, FinishedKept
    <2> QED BY <1>b, <2>1, <2>2, <2>3, BoundedKept
  <1> QED BY <1>1, <1>2, <1>3, <1>4, <1>5

LEMMA BoundedReset ==
    ASSUME IInv,
           \/ Tick \/ EndBatch \/ EndIterate \/ SendEvents \/ ClearStacksMap \/ EndReset
           \/ \E k \in Key : ReadBatch(k) \/ ReadNext(k) \/ Resolve(k) \/ ClearCount(k)
           \/ \E b \in Buckets : ClearStack(b)
    PROVE  Bounded'
  <1>b. /\ \A i \in Slots : val[i] <= Finished
        /\ \A k \in DOMAIN rows : rows[k].count <= Finished
    BY DEF IInv, Bounded
  <1>1. val' = val /\ samples' = samples
    BY DEF Tick, EndBatch, EndIterate, SendEvents, ClearStacksMap, EndReset, ReadBatch, ReadNext, Resolve,
           ClearCount, ClearStack, progs
  <1>2. \A d \in Cpus : cpu'[d].pc = cpu[d].pc /\ cpu'[d].seen = cpu[d].seen
    <2>1. CASE Tick
      BY <2>1, CpuTick DEF Kept
    <2>2. ASSUME NEW k \in Key, ReadBatch(k) \/ ClearCount(k)
          PROVE  \A d \in Cpus : cpu'[d].pc = cpu[d].pc /\ cpu'[d].seen = cpu[d].seen
      <3>1. k \in Present /\ Delete(SlotOf(k))
        BY <2>2 DEF ReadBatch, ReadRow, ClearCount
      <3>2. SlotOf(k) \in Slots
        BY <3>1, LiveFacts DEF IInv
      <3> QED BY <3>1, <3>2, CpuDelete DEF Kept
    <2>3. CASE cpu' = cpu
      BY <2>3
    <2> QED BY <2>1, <2>2, <2>3 DEF EndBatch, EndIterate, SendEvents, ClearStacksMap, EndReset, ReadNext,
            Resolve, ClearStack, progs
  <1>3. Finished' = Finished
    BY <1>1, <1>2, FinishedKept
  <1>4. \A k \in DOMAIN rows' : rows'[k].count <= Finished
    <2>1. CASE Tick \/ EndReset
      BY <2>1, NoRows DEF Tick, EndReset
    <2>2. ASSUME NEW k \in Key, ReadBatch(k) \/ ReadNext(k)
          PROVE  \A j \in DOMAIN rows' : rows'[j].count <= Finished
      <3>0. ReadRow(k)
        BY <2>2 DEF ReadBatch, ReadNext
      <3>1. DOMAIN rows' = DOMAIN rows \cup {k} /\ \A j \in DOMAIN rows : rows'[j] = rows[j]
        BY <3>0, ReadStep
      <3>l. rows'[k].count = Live(k) /\ Live(k) = val[SlotOf(k)] /\ SlotOf(k) \in Slots
        BY <3>0, ReadStep
      <3>2. rows'[k].count <= Finished
        BY <1>b, <3>l
      <3>3. \A j \in DOMAIN rows : rows'[j].count <= Finished
        BY <1>b, <3>1
      <3> QED BY <3>1, <3>2, <3>3
    <2>3. ASSUME NEW k \in Key, Resolve(k) PROVE \A j \in DOMAIN rows' : rows'[j].count <= Finished
      <3>1. DOMAIN rows' = DOMAIN rows /\ \A j \in DOMAIN rows : rows'[j].count = rows[j].count
        BY <2>3, ResolveStep
      <3> QED BY <1>b, <3>1
    <2>4. CASE rows' = rows
      BY <2>4, <1>b
    <2> QED BY <2>1, <2>2, <2>3, <2>4 DEF EndBatch, EndIterate, SendEvents, ClearStacksMap,
            ClearCount, ClearStack, progs
  <1> QED BY <1>1, <1>2, <1>3, <1>4, BoundedKept

----------------------------------------------------------------------------
(***************************************************************************)
(* Pointers, undisturbed handlers, and the round.                          *)
(***************************************************************************)
LEMMA PointerKept ==
    ASSUME IInv, counts' = counts, NEW c \in Cpus,
           \A d \in Cpus \ {c} : Kept(d) /\ cpu'[d].gone = cpu[d].gone,
           /\ Pointing(c)' => cpu'[c].ptr \in Slots
           /\ Pointing(c)' /\ ~cpu'[c].gone => counts[cpu'[c].ptr] = KeyOf(cpu'[c])
           /\ ~Pointing(c)' => cpu'[c].ptr = 0 /\ ~cpu'[c].gone
    PROVE  PointerInv'
  <1>1. \A d \in Cpus \ {c} : KeyOf(cpu'[d]) = KeyOf(cpu[d])
    BY KeptKey
  <1>2. ASSUME NEW d \in Cpus
        PROVE  /\ Pointing(d)' => cpu'[d].ptr \in Slots
               /\ Pointing(d)' /\ ~cpu'[d].gone => counts[cpu'[d].ptr] = KeyOf(cpu'[d])
               /\ ~Pointing(d)' => cpu'[d].ptr = 0 /\ ~cpu'[d].gone
    <2>1. CASE d = c
      BY <2>1
    <2>2. CASE d # c
      <3>1. /\ Pointing(d) => cpu[d].ptr \in Slots
            /\ Pointing(d) /\ ~cpu[d].gone => counts[cpu[d].ptr] = KeyOf(cpu[d])
            /\ ~Pointing(d) => cpu[d].ptr = 0 /\ ~cpu[d].gone
        BY DEF IInv, PointerInv
      <3>2. Kept(d) /\ cpu'[d].gone = cpu[d].gone /\ KeyOf(cpu'[d]) = KeyOf(cpu[d])
        BY <2>2, <1>1
      <3> QED BY <3>1, <3>2 DEF Kept, Pointing
    <2> QED BY <2>1, <2>2
  <1>3. \A i, j \in Slots : counts[i] = counts[j] /\ counts[i] # Free => i = j
    BY DEF IInv, PointerInv
  <1> QED BY <1>2, <1>3 DEF PointerInv

LEMMA KeptSame == ASSUME NEW d, cpu'[d] = cpu[d] PROVE Kept(d) /\ cpu'[d].gone = cpu[d].gone
  BY DEF Kept

\* The handler of c ends; the map may have gained its key.
LEMMA PointerDone ==
    ASSUME IInv, NEW c \in Cpus, cpu'[c] = Idle, \A d \in Cpus \ {c} : cpu'[d] = cpu[d],
           \/ counts' = counts
           \/ \E k \in Key \ Present : \E i \in Slots :
                   counts[i] = Free /\ counts' = [counts EXCEPT ![i] = k]
    PROVE  PointerInv'
  <1>0. /\ counts \in [Slots -> Key \cup {Free}]
        /\ \A i, j \in Slots : counts[i] = counts[j] /\ counts[i] # Free => i = j
    BY DEF IInv, Types, PointerInv
  <1>1. CASE counts' = counts
    <2>1. ~Pointing(c)' /\ cpu'[c].ptr = 0 /\ ~cpu'[c].gone
      BY DEF Pointing, Idle
    <2> QED BY <1>1, <2>1, KeptSame, PointerKept
  <1>2. ASSUME NEW k \in Key \ Present, NEW i \in Slots, counts[i] = Free,
               counts' = [counts EXCEPT ![i] = k]
        PROVE  PointerInv'
    <2>1. \A j \in Slots : counts[j] # k
      BY Consts DEF Present
    <2>2. \A p, j \in Slots : counts'[p] = counts'[j] /\ counts'[p] # Free => p = j
      BY <1>0, <1>2, <2>1
    <2>3. ASSUME NEW d \in Cpus
          PROVE  /\ Pointing(d)' => cpu'[d].ptr \in Slots
                 /\ Pointing(d)' /\ ~cpu'[d].gone => counts'[cpu'[d].ptr] = KeyOf(cpu'[d])
                 /\ ~Pointing(d)' => cpu'[d].ptr = 0 /\ ~cpu'[d].gone
      <3>1. CASE d = c
        BY <3>1 DEF Pointing, Idle
      <3>2. CASE d # c
        <4>1. /\ Pointing(d) => cpu[d].ptr \in Slots
              /\ Pointing(d) /\ ~cpu[d].gone => counts[cpu[d].ptr] = KeyOf(cpu[d])
              /\ ~Pointing(d) => cpu[d].ptr = 0 /\ ~cpu[d].gone
          BY DEF IInv, PointerInv
        <4>2. Pointing(d) => KeyOf(cpu[d]) # Free
          BY KeyType, Consts DEF IInv, Types, Pointing
        <4>3. cpu'[d] = cpu[d] /\ Pointing(d)' = Pointing(d)
          BY <3>2 DEF Pointing
        <4> QED BY <4>1, <4>2, <4>3, <1>0, <1>2
      <3> QED BY <3>1, <3>2
    <2> QED BY <2>2, <2>3 DEF PointerInv
  <1> QED BY <1>1, <1>2

LEMMA PointerDelete ==
    ASSUME IInv, NEW i \in Slots, Delete(i)
    PROVE  PointerInv'
  <1>0. /\ counts \in [Slots -> Key \cup {Free}]
        /\ \A p, j \in Slots : counts[p] = counts[j] /\ counts[p] # Free => p = j
    BY DEF IInv, Types, PointerInv
  <1>1. /\ counts' = [counts EXCEPT ![i] = Free]
        /\ \A d \in Cpus : Kept(d) /\ cpu'[d].gone = (cpu[d].gone \/ cpu[d].ptr = i)
    BY CpuDelete
  <1>2. \A p, j \in Slots : counts'[p] = counts'[j] /\ counts'[p] # Free => p = j
    BY <1>0, <1>1
  <1>3. ASSUME NEW d \in Cpus
        PROVE  /\ Pointing(d)' => cpu'[d].ptr \in Slots
               /\ Pointing(d)' /\ ~cpu'[d].gone => counts'[cpu'[d].ptr] = KeyOf(cpu'[d])
               /\ ~Pointing(d)' => cpu'[d].ptr = 0 /\ ~cpu'[d].gone
    <2>1. /\ Pointing(d) => cpu[d].ptr \in Slots
          /\ Pointing(d) /\ ~cpu[d].gone => counts[cpu[d].ptr] = KeyOf(cpu[d])
          /\ ~Pointing(d) => cpu[d].ptr = 0 /\ ~cpu[d].gone
      BY DEF IInv, PointerInv
    <2>2. /\ cpu'[d].ptr = cpu[d].ptr /\ KeyOf(cpu'[d]) = KeyOf(cpu[d]) /\ Pointing(d)' = Pointing(d)
          /\ cpu'[d].gone = (cpu[d].gone \/ cpu[d].ptr = i)
      BY <1>1, KeptKey DEF Kept, Pointing
    <2> QED BY <2>1, <2>2, <1>0, <1>1, Consts
  <1> QED BY <1>2, <1>3 DEF PointerInv

LEMMA PointerHandlers ==
    ASSUME IInv, NEW c \in Cpus,
           (\E t \in Tasks : Sample(c, t)) \/ UserStack(c) \/ Lookup(c) \/ Insert(c) \/ Load(c) \/ Store(c)
    PROVE  PointerInv'
  <1>p. /\ Pointing(c) => cpu[c].ptr \in Slots
        /\ Pointing(c) /\ ~cpu[c].gone => counts[cpu[c].ptr] = KeyOf(cpu[c])
        /\ ~Pointing(c) => cpu[c].ptr = 0 /\ ~cpu[c].gone
    BY DEF IInv, PointerInv
  <1>1. ASSUME NEW t \in Tasks, Sample(c, t) PROVE PointerInv'
    <2>1. /\ cpu'[c].pc = "user" /\ cpu'[c].ptr = 0 /\ ~cpu'[c].gone
          /\ \A d \in Cpus \ {c} : cpu'[d] = cpu[d]
      BY <1>1, CpuSample
    <2>2. counts' = counts
      BY <1>1 DEF Sample
    <2>3. ~Pointing(c)'
      BY <2>1 DEF Pointing
    <2> QED BY <2>1, <2>2, <2>3, KeptSame, PointerKept
  <1>2. ASSUME UserStack(c) PROVE PointerInv'
    <2>1. /\ cpu'[c].pc = "lookup" /\ cpu[c].pc = "user" /\ cpu'[c].ptr = cpu[c].ptr
          /\ cpu'[c].gone = cpu[c].gone /\ \A d \in Cpus \ {c} : cpu'[d] = cpu[d]
      BY <1>2, CpuUser
    <2>2. counts' = counts
      BY <1>2 DEF UserStack
    <2>3. ~Pointing(c)' /\ ~Pointing(c)
      BY <2>1 DEF Pointing
    <2> QED BY <1>p, <2>1, <2>2, <2>3, KeptSame, PointerKept
  <1>3. ASSUME Lookup(c) PROVE PointerInv'
    <2> DEFINE k == KeyOf(cpu[c])
    <2>1. /\ cpu[c].pc = "lookup" /\ k \in Key /\ KeyOf(cpu'[c]) = k /\ cpu'[c].gone = cpu[c].gone
          /\ cpu'[c].pc = (IF k \in Present THEN "load" ELSE "insert")
          /\ cpu'[c].ptr = (IF k \in Present THEN SlotOf(k) ELSE 0)
          /\ \A d \in Cpus \ {c} : Kept(d) /\ cpu'[d].gone = cpu[d].gone
      BY <1>3, CpuLookup
    <2>2. counts' = counts
      BY <1>3 DEF Lookup
    <2>3. ~Pointing(c) /\ (Pointing(c)' <=> k \in Present)
      BY <2>1 DEF Pointing
    <2>4. k \in Present => SlotOf(k) \in Slots /\ counts[SlotOf(k)] = k
      BY <2>1, LiveFacts DEF IInv
    <2> HIDE DEF k
    <2> QED BY <1>p, <2>1, <2>2, <2>3, <2>4, PointerKept
  <1>4. ASSUME Insert(c) PROVE PointerInv'
    <2>1. /\ cpu[c].pc = "insert" /\ (\E b \in BOOLEAN : Done(c, b))
          /\ \/ counts' = counts
             \/ \E k \in Key \ Present : \E i \in Slots :
                     counts[i] = Free /\ counts' = [counts EXCEPT ![i] = k]
      BY <1>4, InsertStep
    <2>2. cpu'[c] = Idle /\ \A d \in Cpus \ {c} : cpu'[d] = cpu[d]
      BY <2>1, CpuDone
    <2> QED BY <2>1, <2>2, PointerDone
  <1>5. ASSUME Load(c) PROVE PointerInv'
    <2>1. /\ cpu[c].pc = "load" /\ cpu'[c].pc = "store" /\ cpu'[c].ptr = cpu[c].ptr
          /\ cpu'[c].gone = cpu[c].gone /\ KeyOf(cpu'[c]) = KeyOf(cpu[c])
          /\ \A d \in Cpus \ {c} : cpu'[d] = cpu[d]
      BY <1>5, CpuLoad
    <2>2. counts' = counts
      BY <1>5 DEF Load
    <2>3. Pointing(c)' /\ Pointing(c)
      BY <2>1 DEF Pointing
    <2> QED BY <1>p, <2>1, <2>2, <2>3, KeptSame, PointerKept
  <1>6. ASSUME Store(c) PROVE PointerInv'
    <2>1. cpu[c].pc = "store" /\ Done(c, TRUE) /\ counts' = counts
      BY <1>6, StoreStep DEF Store
    <2>2. cpu'[c] = Idle /\ \A d \in Cpus \ {c} : cpu'[d] = cpu[d]
      BY <2>1, CpuDone
    <2> QED BY <2>1, <2>2, PointerDone
  <1> QED BY <1>1, <1>2, <1>3, <1>4, <1>5, <1>6

\* The handlers as Reset finds them: no step of it moves one.
LEMMA ResetCpu ==
    ASSUME IInv,
           \/ Tick \/ EndBatch \/ EndIterate \/ SendEvents \/ ClearStacksMap \/ EndReset
           \/ \E k \in Key : ReadBatch(k) \/ ReadNext(k) \/ Resolve(k) \/ ClearCount(k)
           \/ \E b \in Buckets : ClearStack(b)
    PROVE  /\ PointerInv'
           /\ \A d \in Cpus : Kept(d) /\ KeyOf(cpu'[d]) = KeyOf(cpu[d]) /\ (cpu[d].gone => cpu'[d].gone)
           /\ (\A d \in Cpus : ~cpu[d].alone) => \A d \in Cpus : ~cpu'[d].alone
           /\ stale' = stale /\ val' = val /\ taken' = taken /\ born' = born
  <1> DEFINE Goal == /\ PointerInv'
                     /\ \A d \in Cpus : Kept(d) /\ (cpu[d].gone => cpu'[d].gone)
                     /\ (\A d \in Cpus : ~cpu[d].alone) => \A d \in Cpus : ~cpu'[d].alone
  <1>0. stale' = stale /\ val' = val /\ taken' = taken /\ born' = born
    BY DEF Tick, EndBatch, EndIterate, SendEvents, ClearStacksMap, EndReset, ReadBatch, ReadNext, Resolve,
           ClearCount, ClearStack, progs
  <1>1. ASSUME cpu' = cpu, counts' = counts PROVE Goal
    <2>1. PointerInv'
      BY <1>1 DEF IInv, PointerInv, Pointing
    <2> QED BY <1>1, <2>1, KeptSame
  <1>2. ASSUME Tick PROVE Goal
    <2>1. \A d \in Cpus : Kept(d) /\ cpu'[d].gone = cpu[d].gone /\ ~cpu'[d].alone
      BY <1>2, CpuTick
    <2>2. counts' = counts
      BY <1>2 DEF Tick
    <2>3. PointerInv'
      <3>1. \A d \in Cpus : KeyOf(cpu'[d]) = KeyOf(cpu[d])
        BY <2>1, KeptKey
      <3> QED BY <2>1, <2>2, <3>1 DEF IInv, PointerInv, Pointing, Kept
    <2> QED BY <2>1, <2>3
  <1>3. ASSUME NEW k \in Key, ReadBatch(k) \/ ClearCount(k) PROVE Goal
    <2>1. k \in Present /\ Delete(SlotOf(k))
      BY <1>3 DEF ReadBatch, ReadRow, ClearCount
    <2>2. PICK i \in Slots : Delete(i)
      BY <2>1, LiveFacts DEF IInv
    <2>3. \A d \in Cpus : Kept(d) /\ cpu'[d].alone = cpu[d].alone /\ (cpu[d].gone => cpu'[d].gone)
      BY <2>2, CpuDelete
    <2> QED BY <2>2, <2>3, PointerDelete
  <1>4. Goal
    BY <1>1, <1>2, <1>3 DEF EndBatch, EndIterate, SendEvents, ClearStacksMap, EndReset, ReadNext,
       Resolve, ClearStack, progs
  <1>5. \A d \in Cpus : KeyOf(cpu'[d]) = KeyOf(cpu[d])
    BY <1>4, KeptKey
  <1> QED BY <1>0, <1>4, <1>5

\* A bucket in use keeps its stack while handlers run.
LEMMA HoldsKept ==
    ASSUME NEW id \in Ids, NEW s, Holds(stacks, id, s),
           \A b \in Buckets : stacks'[b] = stacks[b] \/ stacks[b] = NoStack
    PROVE  Holds(stacks', id, s)
  BY DEF Holds, Ids

LEMMA AloneKept ==
    ASSUME IInv, session' = session, \A b \in Buckets : stacks'[b] = stacks[b] \/ stacks[b] = NoStack,
           NEW d \in Cpus, cpu'[d].alone, cpu'[d].gone = cpu[d].gone, cpu[d].alone, Kept(d)
    PROVE  /\ session' = "idle" /\ ~cpu'[d].gone
           /\ Holds(stacks', cpu'[d].kern, cpu'[d].task.kern)
           /\ cpu'[d].pc # "user" => Holds(stacks', cpu'[d].user, cpu'[d].task.user)
  <1>1. /\ session = "idle" /\ ~cpu[d].gone /\ Holds(stacks, cpu[d].kern, cpu[d].task.kern)
        /\ cpu[d].pc # "user" => Holds(stacks, cpu[d].user, cpu[d].task.user)
    BY DEF IInv, AloneInv
  <1>2. cpu[d].kern \in Ids /\ cpu[d].user \in Ids
    BY DEF IInv, Types, Handler
  <1>3. /\ Holds(stacks', cpu[d].kern, cpu[d].task.kern)
        /\ cpu[d].pc # "user" => Holds(stacks', cpu[d].user, cpu[d].task.user)
    BY <1>1, <1>2, HoldsKept
  <1> QED BY <1>1, <1>3 DEF Kept

LEMMA AloneHandlers ==
    ASSUME IInv, NEW c \in Cpus,
           (\E t \in Tasks : Sample(c, t)) \/ UserStack(c) \/ Lookup(c) \/ Insert(c) \/ Load(c) \/ Store(c)
    PROVE  AloneInv'
  <1>a. /\ \A d \in Cpus : cpu[d].alone =>
              /\ session = "idle" /\ ~cpu[d].gone
              /\ Holds(stacks, cpu[d].kern, cpu[d].task.kern)
              /\ cpu[d].pc # "user" => Holds(stacks, cpu[d].user, cpu[d].task.user)
        /\ \A d, e \in Cpus :
              cpu[d].alone /\ Counting(d) /\ Counting(e) /\ KeyOf(cpu[e]) = KeyOf(cpu[d]) => e = d
    BY DEF IInv, AloneInv
  <1>s. session' = session
    BY DEF Sample, UserStack, Lookup, Insert, Load, Store, reader
  <1>1. ASSUME NEW t \in Tasks, Sample(c, t) PROVE AloneInv'
    <2>1. /\ cpu'[c].pc = "user" /\ cpu'[c].task = t /\ cpu'[c].kern = GetStackId(t.kern) /\ ~cpu'[c].gone
          /\ cpu'[c].alone => session = "idle"
          /\ \A d \in Cpus \ {c} : cpu'[d] = cpu[d]
      BY <1>1, CpuSample
    <2>2. /\ \A b \in Buckets : stacks'[b] = stacks[b] \/ stacks[b] = NoStack
          /\ Holds(stacks', GetStackId(t.kern), t.kern)
      BY <1>1, Consts, StackStep DEF Sample, IInv, Holds
    <2>3. ASSUME NEW d \in Cpus, cpu'[d].alone
          PROVE  /\ session' = "idle" /\ ~cpu'[d].gone
                 /\ Holds(stacks', cpu'[d].kern, cpu'[d].task.kern)
                 /\ cpu'[d].pc # "user" => Holds(stacks', cpu'[d].user, cpu'[d].task.user)
      <3>1. CASE d = c
        BY <1>s, <2>1, <2>2, <2>3, <3>1
      <3>2. CASE d # c
        BY <1>s, <2>1, <2>2, <2>3, <3>2, KeptSame, AloneKept
      <3> QED BY <3>1, <3>2
    <2>4. ~Counting(c)' /\ \A d \in Cpus \ {c} : Counting(d)' = Counting(d)
      BY <2>1 DEF Counting
    <2>5. ASSUME NEW d \in Cpus, NEW e \in Cpus, cpu'[d].alone, Counting(d)', Counting(e)',
                 KeyOf(cpu'[e]) = KeyOf(cpu'[d])
          PROVE  e = d
      BY <1>a, <2>1, <2>4, <2>5
    <2> QED BY <2>3, <2>5 DEF AloneInv
  <1>2. ASSUME UserStack(c) PROVE AloneInv'
    <2>1. /\ cpu[c].pc = "user" /\ cpu'[c].pc = "lookup" /\ cpu'[c].task = cpu[c].task /\ cpu[c].task \in Tasks
          /\ cpu'[c].kern = cpu[c].kern /\ cpu'[c].user = GetStackId(cpu[c].task.user)
          /\ cpu'[c].gone = cpu[c].gone /\ cpu'[c].alone = cpu[c].alone
          /\ \A d \in Cpus \ {c} : cpu'[d] = cpu[d]
      BY <1>2, CpuUser
    <2>2. /\ \A b \in Buckets : stacks'[b] = stacks[b] \/ stacks[b] = NoStack
          /\ Holds(stacks', GetStackId(cpu[c].task.user), cpu[c].task.user)
      BY <1>2, <2>1, Consts, StackStep DEF UserStack, IInv, Holds
    <2>3. ASSUME NEW d \in Cpus, cpu'[d].alone
          PROVE  /\ session' = "idle" /\ ~cpu'[d].gone
                 /\ Holds(stacks', cpu'[d].kern, cpu'[d].task.kern)
                 /\ cpu'[d].pc # "user" => Holds(stacks', cpu'[d].user, cpu'[d].task.user)
      <3>1. CASE d = c
        <4>1. cpu[c].kern \in Ids
          BY DEF IInv, Types, Handler
        <4>2. Holds(stacks', cpu[c].kern, cpu[c].task.kern)
          BY <1>a, <2>1, <2>2, <2>3, <3>1, <4>1, HoldsKept
        <4> QED BY <1>s, <1>a, <2>1, <2>2, <2>3, <3>1, <4>2
      <3>2. CASE d # c
        BY <1>s, <2>1, <2>2, <2>3, <3>2, KeptSame, AloneKept
      <3> QED BY <3>1, <3>2
    <2>4. ~Counting(c)' /\ \A d \in Cpus \ {c} : Counting(d)' = Counting(d)
      BY <2>1 DEF Counting
    <2>5. ASSUME NEW d \in Cpus, NEW e \in Cpus, cpu'[d].alone, Counting(d)', Counting(e)',
                 KeyOf(cpu'[e]) = KeyOf(cpu'[d])
          PROVE  e = d
      BY <1>a, <2>1, <2>4, <2>5
    <2> QED BY <2>3, <2>5 DEF AloneInv
  <1>3. ASSUME Lookup(c) PROVE AloneInv'
    <2> DEFINE k == KeyOf(cpu[c])
    <2>1. /\ cpu[c].pc = "lookup" /\ cpu'[c].pc # "user" /\ cpu'[c].task = cpu[c].task
          /\ cpu'[c].kern = cpu[c].kern /\ cpu'[c].user = cpu[c].user /\ KeyOf(cpu'[c]) = k
          /\ cpu'[c].gone = cpu[c].gone
          /\ cpu'[c].alone => cpu[c].alone /\ Updating(k) = {}
          /\ \A d \in Cpus \ {c} : /\ Kept(d) /\ cpu'[d].gone = cpu[d].gone
                                   /\ cpu'[d].alone => cpu[d].alone /\ d \notin Updating(k)
      BY <1>3, CpuLookup
    <2>2. stacks' = stacks
      BY <1>3 DEF Lookup
    <2>3. ASSUME NEW d \in Cpus, cpu'[d].alone
          PROVE  /\ session' = "idle" /\ ~cpu'[d].gone
                 /\ Holds(stacks', cpu'[d].kern, cpu'[d].task.kern)
                 /\ cpu'[d].pc # "user" => Holds(stacks', cpu'[d].user, cpu'[d].task.user)
      <3>1. CASE d = c
        BY <1>s, <1>a, <2>1, <2>2, <2>3, <3>1
      <3>2. CASE d # c
        BY <1>s, <2>1, <2>2, <2>3, <3>2, AloneKept
      <3> QED BY <3>1, <3>2
    <2>4. \A d \in Cpus \ {c} : Counting(d)' = Counting(d) /\ KeyOf(cpu'[d]) = KeyOf(cpu[d])
      BY <2>1, KeptKey DEF Counting, Kept
    <2>5. \A d \in Cpus : d \in Updating(k) <=> Counting(d) /\ KeyOf(cpu[d]) = k
      BY DEF Updating, Counting
    <2> HIDE DEF k
    <2>6. ASSUME NEW d \in Cpus, NEW e \in Cpus, cpu'[d].alone, Counting(d)', Counting(e)',
                 KeyOf(cpu'[e]) = KeyOf(cpu'[d])
          PROVE  e = d
      <3>1. CASE d = c
        BY <2>1, <2>4, <2>5, <2>6, <3>1
      <3>2. CASE d # c /\ e = c
        BY <2>1, <2>4, <2>5, <2>6, <3>2
      <3>3. CASE d # c /\ e # c
        BY <1>a, <2>1, <2>4, <2>6, <3>3
      <3> QED BY <3>1, <3>2, <3>3
    <2> QED BY <2>3, <2>6 DEF AloneInv
  <1>4. ASSUME Insert(c) \/ Store(c) PROVE AloneInv'
    <2>1. cpu[c].pc # "idle" /\ \E b \in BOOLEAN : Done(c, b)
      BY <1>4, InsertStep, StoreStep
    <2>2. cpu'[c] = Idle /\ \A d \in Cpus \ {c} : cpu'[d] = cpu[d]
      BY <2>1, CpuDone
    <2>3. stacks' = stacks /\ ~Counting(c)' /\ ~cpu'[c].alone
      <3>1. stacks' = stacks
        BY <1>4 DEF Insert, Store
      <3>2. cpu'[c].pc = "idle" /\ ~cpu'[c].alone
        BY <2>2 DEF Idle
      <3> QED BY <3>1, <3>2 DEF Counting
    <2>4. \A d \in Cpus \ {c} : Counting(d)' = Counting(d)
      BY <2>2 DEF Counting
    <2> QED BY <1>s, <1>a, <2>2, <2>3, <2>4 DEF AloneInv
  <1>5. ASSUME Load(c) PROVE AloneInv'
    <2>1. /\ cpu[c].pc = "load" /\ cpu'[c].pc = "store" /\ cpu'[c].task = cpu[c].task
          /\ cpu'[c].kern = cpu[c].kern /\ cpu'[c].user = cpu[c].user
          /\ cpu'[c].gone = cpu[c].gone /\ cpu'[c].alone = cpu[c].alone /\ KeyOf(cpu'[c]) = KeyOf(cpu[c])
          /\ \A d \in Cpus \ {c} : cpu'[d] = cpu[d]
      BY <1>5, CpuLoad
    <2>2. stacks' = stacks
      BY <1>5 DEF Load
    <2>3. \A d \in Cpus : Counting(d)' = Counting(d) /\ KeyOf(cpu'[d]) = KeyOf(cpu[d])
                            /\ cpu'[d].alone = cpu[d].alone
      BY <2>1 DEF Counting
    <2>4. ASSUME NEW d \in Cpus, cpu'[d].alone
          PROVE  /\ session' = "idle" /\ ~cpu'[d].gone
                 /\ Holds(stacks', cpu'[d].kern, cpu'[d].task.kern)
                 /\ cpu'[d].pc # "user" => Holds(stacks', cpu'[d].user, cpu'[d].task.user)
      <3>1. CASE d = c
        BY <1>s, <1>a, <2>1, <2>2, <2>4, <3>1
      <3>2. CASE d # c
        BY <1>s, <1>a, <2>1, <2>2, <2>4, <3>2
      <3> QED BY <3>1, <3>2
    <2> QED BY <1>a, <2>3, <2>4 DEF AloneInv
  <1> QED BY <1>1, <1>2, <1>3, <1>4, <1>5

\* Reset runs with no undisturbed handler about.
LEMMA AloneReset ==
    ASSUME IInv,
           \/ Tick \/ EndBatch \/ EndIterate \/ SendEvents \/ ClearStacksMap \/ EndReset
           \/ \E k \in Key : ReadBatch(k) \/ ReadNext(k) \/ Resolve(k) \/ ClearCount(k)
           \/ \E b \in Buckets : ClearStack(b)
    PROVE  AloneInv'
  <1>1. CASE Tick
    BY <1>1, CpuTick DEF AloneInv
  <1>2. CASE session # "idle"
    <2>1. \A d \in Cpus : ~cpu[d].alone
      BY <1>2 DEF IInv, AloneInv
    <2>2. \A d \in Cpus : ~cpu'[d].alone
      BY <2>1, ResetCpu
    <2> QED BY <2>2 DEF AloneInv
  <1> QED BY <1>1, <1>2 DEF EndBatch, EndIterate, SendEvents, ClearStacksMap, EndReset, ReadBatch, ReadNext,
          Resolve, ClearCount, ClearStack

\* Reset's own variables are left alone by the handlers.
LEMMA HandlersFrame ==
    ASSUME NEW c \in Cpus,
           (\E t \in Tasks : Sample(c, t)) \/ UserStack(c) \/ Lookup(c) \/ Insert(c) \/ Load(c) \/ Store(c)
    PROVE  /\ session' = session /\ batch' = batch /\ must' = must /\ rows' = rows /\ todo' = todo
           /\ RoundNumber' = RoundNumber /\ reported' = reported /\ Pending' = Pending
  <1>1. /\ session' = session /\ batch' = batch /\ must' = must /\ rows' = rows /\ todo' = todo
        /\ RoundNumber' = RoundNumber /\ reported' = reported
    BY DEF Sample, UserStack, Lookup, Insert, Load, Store, reader
  <1> QED BY <1>1 DEF Pending

\* No handler removes a key.  One that remembers its sample as undisturbed
\* leaves its key in the map.
LEMMA CleanStep ==
    ASSUME IInv, NEW c \in Cpus,
           (\E t \in Tasks : Sample(c, t)) \/ UserStack(c) \/ Lookup(c) \/ Insert(c) \/ Load(c) \/ Store(c)
    PROVE  /\ \A k \in Key : k \in Present => k \in Present'
           /\ \A k \in Key :
                 \/ clean'[k] = clean[k]
                 \/ /\ cpu[c].alone /\ Counting(c) /\ k = KeyOf(cpu[c]) /\ k \in Present'
                    /\ cpu[c].task \in Tasks /\ clean'[k] = Append(clean[k], cpu[c].task)
  <1> DEFINE Goal == /\ \A k \in Key : k \in Present => k \in Present'
                     /\ \A k \in Key :
                           \/ clean'[k] = clean[k]
                           \/ /\ cpu[c].alone /\ Counting(c) /\ k = KeyOf(cpu[c]) /\ k \in Present'
                              /\ cpu[c].task \in Tasks /\ clean'[k] = Append(clean[k], cpu[c].task)
  <1>0. counts \in [Slots -> Key \cup {Free}]
    BY DEF IInv, Types
  <1>1. ASSUME (\E t \in Tasks : Sample(c, t)) \/ UserStack(c) \/ Lookup(c) \/ Load(c) PROVE Goal
    <2>1. clean' = clean /\ counts' = counts
      BY <1>1 DEF Sample, UserStack, Lookup, Load
    <2>2. Present' = Present
      BY <2>1 DEF Present
    <2> QED BY <2>1, <2>2
  <1>2. ASSUME Insert(c) PROVE Goal
    <2>0. cpu[c].pc = "insert" /\ KeyOf(cpu[c]) \in Key /\ Counting(c)
      BY <1>2, InsertStep DEF Counting
    <2>1. ASSUME Done(c, TRUE), NEW i \in Slots, counts[i] = Free,
                 counts' = [counts EXCEPT ![i] = KeyOf(cpu[c])]
          PROVE  Goal
      <3>1. KeyOf(cpu[c]) \in Present'
        <4>1. counts'[i] = KeyOf(cpu[c])
          BY <1>0, <2>1
        <4> QED BY <2>0, <4>1, Consts DEF Present
      <3>2. ASSUME NEW k \in Key, k \in Present PROVE k \in Present'
        <4>1. PICK j \in Slots : counts[j] = k
          BY <3>2 DEF Present
        <4>2. counts'[j] = k
          BY <1>0, <2>1, <4>1, Consts
        <4> QED BY <4>2, Consts DEF Present
      <3>3. /\ cpu[c].task \in Tasks
            /\ clean'[KeyOf(cpu[c])] = IF cpu[c].alone THEN Append(clean[KeyOf(cpu[c])], cpu[c].task)
                                                       ELSE clean[KeyOf(cpu[c])]
            /\ \A k \in Key \ {KeyOf(cpu[c])} : clean'[k] = clean[k]
        BY <2>0, <2>1, CpuDone
      <3> QED BY <2>0, <3>1, <3>2, <3>3
    <2>2. ASSUME Done(c, FALSE), counts' = counts PROVE Goal
      <3>1. Present' = Present
        BY <2>2 DEF Present
      <3>2. clean' = clean
        BY <2>2 DEF Done
      <3> QED BY <3>1, <3>2
    <2> QED BY <1>2, <2>1, <2>2, InsertStep
  <1>3. ASSUME Store(c) PROVE Goal
    <2>0. /\ cpu[c].pc = "store" /\ KeyOf(cpu[c]) \in Key /\ cpu[c].ptr \in Slots /\ Done(c, TRUE)
          /\ ~cpu[c].gone => counts[cpu[c].ptr] = KeyOf(cpu[c])
      BY <1>3, StoreStep
    <2>1. Present' = Present /\ Counting(c)
      BY <1>3, <2>0 DEF Present, Store, Counting
    <2>2. cpu[c].alone => KeyOf(cpu[c]) \in Present
      <3>1. cpu[c].alone => ~cpu[c].gone
        BY DEF IInv, AloneInv
      <3> QED BY <2>0, <3>1, Consts DEF Present
    <2>3. /\ cpu[c].task \in Tasks
          /\ clean'[KeyOf(cpu[c])] = IF cpu[c].alone THEN Append(clean[KeyOf(cpu[c])], cpu[c].task)
                                                     ELSE clean[KeyOf(cpu[c])]
          /\ \A k \in Key \ {KeyOf(cpu[c])} : clean'[k] = clean[k]
      BY <2>0, CpuDone
    <2> QED BY <2>0, <2>1, <2>2, <2>3
  <1> QED BY <1>1, <1>2, <1>3

LEMMA RoundHandlers ==
    ASSUME IInv, NEW c \in Cpus,
           (\E t \in Tasks : Sample(c, t)) \/ UserStack(c) \/ Lookup(c) \/ Insert(c) \/ Load(c) \/ Store(c)
    PROVE  RoundInv'
  <1>r. /\ Pending \subseteq Present
        /\ \A k \in Key : clean[k] # <<>> =>
              /\ k \in Present
              /\ session \in {"batch", "iterate"} => k \in must \ DOMAIN rows
              /\ session \in {"idle", "batch", "iterate"}
        /\ session \in {"clearCounts", "clearStacks"} => \A k \in DOMAIN rows : rows[k].done
        /\ session = "idle" => DOMAIN rows = {}
        /\ session = "clearCounts" => todo \subseteq DOMAIN rows
    BY DEF IInv, RoundInv
  <1>f. session' = session /\ must' = must /\ rows' = rows /\ todo' = todo /\ Pending' = Pending
    BY HandlersFrame
  <1>c. /\ \A k \in Key : k \in Present => k \in Present'
        /\ \A k \in Key : clean'[k] = clean[k] \/ (cpu[c].alone /\ k \in Present')
    BY CleanStep
  <1>1. cpu[c].alone => session = "idle"
    BY DEF IInv, AloneInv
  <1>2. Present \subseteq Key
    BY DEF IInv, Types, Present
  <1>3. Pending' \subseteq Present'
    BY <1>r, <1>f, <1>c, <1>2
  <1>4. ASSUME NEW k \in Key, clean'[k] # <<>>
        PROVE  /\ k \in Present'
               /\ session' \in {"batch", "iterate"} => k \in must' \ DOMAIN rows'
               /\ session' \in {"idle", "batch", "iterate"}
    <2>1. CASE clean'[k] = clean[k]
      BY <1>r, <1>f, <1>c, <1>4, <2>1
    <2>2. CASE cpu[c].alone /\ k \in Present'
      BY <1>f, <1>1, <2>2
    <2> QED BY <1>c, <2>1, <2>2
  <1> QED BY <1>r, <1>f, <1>3, <1>4 DEF RoundInv

\* A deleted key is no more in the map, and the others are as before.
LEMMA DeleteLive ==
    ASSUME IInv, NEW k \in Key, k \in Present, Delete(SlotOf(k)), val' = val
    PROVE  /\ k \notin Present' /\ Live(k)' = 0
           /\ \A j \in Key \ {k} : (j \in Present' <=> j \in Present) /\ Live(j)' = Live(j)
  <1>1. SlotOf(k) \in Slots /\ counts[SlotOf(k)] = k
    BY LiveFacts DEF IInv
  <1>2. counts' = [counts EXCEPT ![SlotOf(k)] = Free] /\ counts' \in [Slots -> Key \cup {Free}]
    BY <1>1, CpuDelete
  <1>3. /\ counts \in [Slots -> Key \cup {Free}] /\ val \in [Slots -> Nat]
        /\ \A i, j \in Slots : counts[i] = counts[j] /\ counts[i] # Free => i = j
    BY DEF IInv, Types, PointerInv
  <1>4. \A i, j \in Slots : counts'[i] = counts'[j] /\ counts'[i] # Free => i = j
    BY <1>1, <1>2, <1>3
  <1>5. \A i \in Slots : counts'[i] # k
    BY <1>1, <1>2, <1>3, Consts
  <1>6. Live(k)' = 0 /\ k \notin Present'
    BY <1>2, <1>3, <1>4, <1>5, LiveNext DEF IInv
  <1>7. ASSUME NEW j \in Key \ {k} PROVE (j \in Present' <=> j \in Present) /\ Live(j)' = Live(j)
    <2>1. \A i \in Slots : (counts[i] = j <=> counts'[i] = j) /\ (counts[i] = j => val'[i] = val[i])
      BY <1>1, <1>2, <1>3, Consts
    <2> QED BY <1>2, <1>3, <1>4, <2>1, LiveNext DEF IInv
  <1> QED BY <1>6, <1>7

LEMMA RoundReset ==
    ASSUME IInv,
           \/ Tick \/ EndBatch \/ EndIterate \/ SendEvents \/ ClearStacksMap \/ EndReset
           \/ \E k \in Key : ReadBatch(k) \/ ReadNext(k) \/ Resolve(k) \/ ClearCount(k)
           \/ \E b \in Buckets : ClearStack(b)
    PROVE  RoundInv'
  <1>r. /\ Pending \subseteq Present
        /\ \A k \in Key : clean[k] # <<>> =>
              /\ k \in Present
              /\ session \in {"batch", "iterate"} => k \in must \ DOMAIN rows
              /\ session \in {"idle", "batch", "iterate"}
        /\ session \in {"clearCounts", "clearStacks"} => \A k \in DOMAIN rows : rows[k].done
        /\ session = "idle" => DOMAIN rows = {}
        /\ session = "clearCounts" => todo \subseteq DOMAIN rows
    BY DEF IInv, RoundInv
  <1>p. DOMAIN rows \subseteq Key /\ (session # "clearStacks" => todo \subseteq Key)
    BY DEF IInv, Types
  <1>q. counts' = counts => Present' = Present
    BY DEF Present
  <1>1. ASSUME Tick PROVE RoundInv'
    <2>1. /\ session' \in {"batch", "iterate"} /\ DOMAIN rows' = {} /\ must' = Present /\ clean' = clean
          /\ Present' = Present
      BY <1>1, <1>q, NoRows DEF Tick
    <2>2. Pending' = {}
      BY <2>1 DEF Pending
    <2> QED BY <1>r, <2>1, <2>2 DEF RoundInv
  <1>2. ASSUME EndBatch PROVE RoundInv'
    <2>1. /\ session = "batch" /\ rows' = rows /\ clean' = clean /\ must \subseteq DOMAIN rows
          /\ \/ session' = "iterate" /\ DOMAIN rows = {}
             \/ session' = "resolve" /\ batch' = TRUE
      BY <1>2, NoRows DEF EndBatch, progs
    <2>2. Pending' = {}
      BY <2>1 DEF Pending
    <2>3. \A k \in Key : clean[k] = <<>>
      BY <1>r, <2>1
    <2> QED BY <2>1, <2>2, <2>3 DEF RoundInv
  <1>3. ASSUME EndIterate PROVE RoundInv'
    <2>1. /\ session = "iterate" /\ rows' = rows /\ clean' = clean /\ must \subseteq DOMAIN rows
          /\ session' = "resolve" /\ batch' = FALSE /\ Present' = Present
      BY <1>3, <1>q DEF EndIterate, progs
    <2>2. Pending' = DOMAIN rows /\ Pending = DOMAIN rows
      BY <2>1 DEF Pending
    <2>3. \A k \in Key : clean[k] = <<>>
      BY <1>r, <2>1
    <2> QED BY <1>r, <2>1, <2>2, <2>3 DEF RoundInv
  <1>4. ASSUME SendEvents PROVE RoundInv'
    <2>1. /\ session = "resolve" /\ rows' = rows /\ clean' = clean /\ session' = "clearCounts"
          /\ Present' = Present /\ todo' = (IF batch THEN {} ELSE DOMAIN rows)
          /\ \A k \in DOMAIN rows : rows[k].done
      BY <1>4, <1>q DEF SendEvents, progs
    <2>2. Pending' = todo' /\ (~batch => Pending = DOMAIN rows)
      BY <2>1 DEF Pending
    <2>3. \A k \in Key : clean[k] = <<>>
      BY <1>r, <2>1
    <2>4. todo' \subseteq Present
      BY <1>r, <2>1, <2>2
    <2> QED BY <2>1, <2>2, <2>3, <2>4 DEF RoundInv
  <1>5. ASSUME ClearStacksMap PROVE RoundInv'
    <2>1. session = "clearCounts" /\ rows' = rows /\ clean' = clean /\ session' = "clearStacks"
      BY <1>5 DEF ClearStacksMap, progs
    <2>2. Pending' = {}
      BY <2>1 DEF Pending
    <2>3. \A k \in Key : clean[k] = <<>>
      BY <1>r, <2>1
    <2> QED BY <1>r, <2>1, <2>2, <2>3 DEF RoundInv
  <1>6. ASSUME EndReset PROVE RoundInv'
    <2>1. session = "clearStacks" /\ DOMAIN rows' = {} /\ clean' = clean /\ session' = "idle"
      BY <1>6, NoRows DEF EndReset, progs
    <2>2. Pending' = {}
      BY <2>1 DEF Pending
    <2>3. \A k \in Key : clean[k] = <<>>
      BY <1>r, <2>1
    <2> QED BY <2>1, <2>2, <2>3 DEF RoundInv
  <1>7. ASSUME NEW k \in Key, ReadBatch(k) PROVE RoundInv'
    <2>1. session = "batch" /\ session' = "batch" /\ must' = must
      BY <1>7 DEF ReadBatch
    <2>2. /\ DOMAIN rows' = DOMAIN rows \cup {k} /\ clean'[k] = <<>>
          /\ \A j \in Key \ {k} : clean'[j] = clean[j]
      BY ZenonT(60), <1>7, ReadStep DEF ReadBatch
    <2>3. \A j \in Key \ {k} : j \in Present' <=> j \in Present
      BY <1>7, DeleteLive DEF ReadBatch, ReadRow
    <2>4. Pending' = {}
      BY <2>1 DEF Pending
    <2>5. ASSUME NEW j \in Key, clean'[j] # <<>> PROVE j \in Present' /\ j \in must' \ DOMAIN rows'
      BY <1>r, <2>1, <2>2, <2>3, <2>5
    <2> QED BY <2>1, <2>4, <2>5 DEF RoundInv
  <1>8. ASSUME NEW k \in Key, ReadNext(k) PROVE RoundInv'
    <2>1. session = "iterate" /\ session' = "iterate" /\ must' = must /\ Present' = Present
      BY <1>8, <1>q DEF ReadNext
    <2>2. /\ DOMAIN rows' = DOMAIN rows \cup {k} /\ clean'[k] = <<>> /\ k \in Present
          /\ \A j \in Key \ {k} : clean'[j] = clean[j]
      BY ZenonT(60), <1>8, ReadStep DEF ReadNext
    <2>4. Pending' = DOMAIN rows' /\ Pending = DOMAIN rows
      BY <2>1 DEF Pending
    <2>5. ASSUME NEW j \in Key, clean'[j] # <<>> PROVE j \in Present' /\ j \in must' \ DOMAIN rows'
      BY <1>r, <2>1, <2>2, <2>5
    <2>6. Pending' \subseteq Present'
      BY <1>r, <2>1, <2>2, <2>4
    <2> QED BY <2>1, <2>5, <2>6 DEF RoundInv
  <1>9. ASSUME NEW k \in Key, Resolve(k) PROVE RoundInv'
    <2>1. session = "resolve" /\ DOMAIN rows' = DOMAIN rows
      BY <1>9, ResolveStep
    <2>2. session' = "resolve" /\ batch' = batch /\ clean' = clean /\ Present' = Present
      BY <1>9, <2>1, <1>q DEF Resolve, progs
    <2>3. Pending' = Pending
      BY <2>1, <2>2 DEF Pending
    <2>4. \A j \in Key : clean[j] = <<>>
      BY <1>r, <2>1
    <2> QED BY <1>r, <2>2, <2>3, <2>4 DEF RoundInv
  <1>10. ASSUME NEW k \in Key, ClearCount(k) PROVE RoundInv'
    <2>1. /\ session = "clearCounts" /\ session' = "clearCounts" /\ rows' = rows /\ clean' = clean
          /\ todo' = todo \ {k}
      BY <1>10 DEF ClearCount
    <2>2. Pending' = todo \ {k} /\ Pending = todo
      BY <2>1 DEF Pending
    <2>3. \A j \in Key \ {k} : j \in Present' <=> j \in Present
      BY <1>10, DeleteLive DEF ClearCount
    <2>4. \A j \in Key : clean[j] = <<>>
      BY <1>r, <2>1
    <2>5. Pending' \subseteq Present'
      BY <1>r, <1>p, <2>1, <2>2, <2>3
    <2> QED BY <1>r, <2>1, <2>4, <2>5 DEF RoundInv
  <1>11. ASSUME NEW b \in Buckets, ClearStack(b) PROVE RoundInv'
    <2>1. session = "clearStacks" /\ session' = "clearStacks" /\ rows' = rows /\ clean' = clean
      BY <1>11 DEF ClearStack, progs
    <2>2. Pending' = {}
      BY <2>1 DEF Pending
    <2>3. \A k \in Key : clean[k] = <<>>
      BY <1>r, <2>1
    <2> QED BY <1>r, <2>1, <2>2, <2>3 DEF RoundInv
  <1> QED BY <1>1, <1>2, <1>3, <1>4, <1>5, <1>6, <1>7, <1>8, <1>9, <1>10, <1>11

----------------------------------------------------------------------------
(***************************************************************************)
(* The stacks of undisturbed samples, and the age of the stacks.           *)
(***************************************************************************)
LEMMA BucketStep ==
    ASSUME IInv, NEW c \in Cpus,
           (\E t \in Tasks : Sample(c, t)) \/ UserStack(c) \/ Lookup(c) \/ Insert(c) \/ Load(c) \/ Store(c)
    PROVE  \A b \in Buckets : \/ stacks'[b] = stacks[b] /\ born'[b] = born[b]
                              \/ stacks[b] = NoStack /\ born'[b] = RoundNumber
  <1> DEFINE Goal == \A b \in Buckets : \/ stacks'[b] = stacks[b] /\ born'[b] = born[b]
                                        \/ stacks[b] = NoStack /\ born'[b] = RoundNumber
  <1>1. ASSUME NEW s \in Stacks \cup {NoStack}, StoreStack(s) PROVE Goal
    BY <1>1, StackStep DEF IInv
  <1>2. ASSUME NEW t \in Tasks, Sample(c, t) PROVE Goal
    BY <1>1, <1>2, Consts DEF Sample
  <1>3. ASSUME UserStack(c) PROVE Goal
    <2>1. cpu[c].task \in Tasks
      BY <1>3, CpuUser
    <2> QED BY <1>1, <1>3, <2>1, Consts DEF UserStack
  <1>4. ASSUME Lookup(c) \/ Insert(c) \/ Load(c) \/ Store(c) PROVE Goal
    BY <1>4 DEF Lookup, Insert, Load, Store
  <1> QED BY <1>2, <1>3, <1>4

LEMMA StackHandlers ==
    ASSUME IInv, NEW c \in Cpus,
           (\E t \in Tasks : Sample(c, t)) \/ UserStack(c) \/ Lookup(c) \/ Insert(c) \/ Load(c) \/ Store(c)
    PROVE  StackInv'
  <1>s. /\ \A k \in Key : \A i \in DOMAIN clean[k] :
              Holds(stacks, k.kern, clean[k][i].kern) /\ Holds(stacks, k.user, clean[k][i].user)
        /\ \A k \in DOMAIN rows : \A i \in DOMAIN rows[k].claim :
              /\ session \in {"batch", "iterate", "resolve"} =>
                    Holds(stacks, k.kern, rows[k].claim[i].kern) /\ Holds(stacks, k.user, rows[k].claim[i].user)
              /\ rows[k].done =>
                    /\ k.kern # Error => rows[k].kern = rows[k].claim[i].kern
                    /\ k.user # Error => rows[k].user = rows[k].claim[i].user
    BY DEF IInv, StackInv
  <1>b. \A b \in Buckets : stacks'[b] = stacks[b] \/ stacks[b] = NoStack
    BY BucketStep
  <1>h. \A id \in Ids : \A s : Holds(stacks, id, s) => Holds(stacks', id, s)
    BY <1>b, HoldsKept
  <1>k. \A k \in Key : k.kern \in Ids /\ k.user \in Ids
    BY Consts
  <1>1. ASSUME NEW k \in Key, NEW i \in DOMAIN clean'[k]
        PROVE  Holds(stacks', k.kern, clean'[k][i].kern) /\ Holds(stacks', k.user, clean'[k][i].user)
    <2>1. CASE clean'[k] = clean[k]
      BY <1>s, <1>h, <1>k, <1>1, <2>1
    <2>2. ASSUME cpu[c].alone, Counting(c), k = KeyOf(cpu[c]), cpu[c].task \in Tasks,
                 clean'[k] = Append(clean[k], cpu[c].task)
          PROVE  Holds(stacks', k.kern, clean'[k][i].kern) /\ Holds(stacks', k.user, clean'[k][i].user)
      <3>1. /\ Holds(stacks, cpu[c].kern, cpu[c].task.kern)
            /\ Holds(stacks, cpu[c].user, cpu[c].task.user)
        BY <2>2 DEF IInv, AloneInv, Counting
      <3>2. cpu[c].kern = k.kern /\ cpu[c].user = k.user
        BY <2>2, KeyType DEF IInv, Types
      <3>3. clean[k] \in Seq(Tasks)
        BY DEF IInv, Types
      <3>4. \/ i \in DOMAIN clean[k] /\ clean'[k][i] = clean[k][i]
            \/ clean'[k][i] = cpu[c].task
        BY <1>1, <2>2, <3>3
      <3>5. CASE i \in DOMAIN clean[k] /\ clean'[k][i] = clean[k][i]
        BY <1>s, <1>h, <1>k, <3>5
      <3>6. CASE clean'[k][i] = cpu[c].task
        BY <1>h, <1>k, <3>1, <3>2, <3>6
      <3> QED BY <3>4, <3>5, <3>6
    <2> QED BY <2>1, <2>2, CleanStep
  <1>2. rows' = rows /\ session' = session /\ DOMAIN rows \subseteq Key
    BY HandlersFrame DEF IInv, Types
  <1>3. ASSUME NEW k \in DOMAIN rows, NEW i \in DOMAIN rows[k].claim, session \in {"batch", "iterate", "resolve"}
        PROVE  Holds(stacks', k.kern, rows[k].claim[i].kern) /\ Holds(stacks', k.user, rows[k].claim[i].user)
    <2>1. Holds(stacks, k.kern, rows[k].claim[i].kern) /\ Holds(stacks, k.user, rows[k].claim[i].user)
      BY <1>s, <1>3
    <2>2. k.kern \in Ids /\ k.user \in Ids
      BY <1>2, <1>k
    <2> QED BY <1>h, <2>1, <2>2
  <1> QED BY <1>s, <1>1, <1>2, <1>3 DEF StackInv

LEMMA StackReset ==
    ASSUME IInv,
           \/ Tick \/ EndBatch \/ EndIterate \/ SendEvents \/ ClearStacksMap \/ EndReset
           \/ \E k \in Key : ReadBatch(k) \/ ReadNext(k) \/ Resolve(k) \/ ClearCount(k)
           \/ \E b \in Buckets : ClearStack(b)
    PROVE  StackInv'
  <1>s. /\ \A k \in Key : \A i \in DOMAIN clean[k] :
              Holds(stacks, k.kern, clean[k][i].kern) /\ Holds(stacks, k.user, clean[k][i].user)
        /\ \A k \in DOMAIN rows : \A i \in DOMAIN rows[k].claim :
              /\ session \in {"batch", "iterate", "resolve"} =>
                    Holds(stacks, k.kern, rows[k].claim[i].kern) /\ Holds(stacks, k.user, rows[k].claim[i].user)
              /\ rows[k].done =>
                    /\ k.kern # Error => rows[k].kern = rows[k].claim[i].kern
                    /\ k.user # Error => rows[k].user = rows[k].claim[i].user
    BY DEF IInv, StackInv
  <1>1. ASSUME DOMAIN rows' = {}, clean' = clean, stacks' = stacks PROVE StackInv'
    BY <1>s, <1>1 DEF StackInv
  <1>2. ASSUME rows' = rows, clean' = clean, stacks' = stacks,
               session \in {"batch", "iterate", "resolve"} \/ session' \notin {"batch", "iterate", "resolve"}
        PROVE  StackInv'
    BY <1>s, <1>2 DEF StackInv
  <1>3. ASSUME NEW k \in Key, ReadBatch(k) \/ ReadNext(k) PROVE StackInv'
    <2>1. ReadRow(k) /\ stacks' = stacks /\ session' = session /\ session \in {"batch", "iterate"}
      BY <1>3 DEF ReadBatch, ReadNext
    <2>2. /\ DOMAIN rows' = DOMAIN rows \cup {k} /\ clean'[k] = <<>>
          /\ rows'[k].claim = clean[k] /\ rows'[k].done = FALSE
          /\ \A j \in DOMAIN rows : rows'[j] = rows[j] /\ j # k
          /\ \A j \in Key \ {k} : clean'[j] = clean[j]
      BY ZenonT(60), <2>1, ReadStep
    <2>3. ASSUME NEW j \in Key, NEW i \in DOMAIN clean'[j]
          PROVE  Holds(stacks, j.kern, clean'[j][i].kern) /\ Holds(stacks, j.user, clean'[j][i].user)
      <3>1. j # k
        BY <2>2, <2>3, NoRows
      <3> QED BY <1>s, <2>2, <2>3, <3>1
    <2>4. ASSUME NEW j \in DOMAIN rows', NEW i \in DOMAIN rows'[j].claim
          PROVE  /\ Holds(stacks, j.kern, rows'[j].claim[i].kern) /\ Holds(stacks, j.user, rows'[j].claim[i].user)
                 /\ rows'[j].done =>
                    /\ j.kern # Error => rows'[j].kern = rows'[j].claim[i].kern
                    /\ j.user # Error => rows'[j].user = rows'[j].claim[i].user
      <3>1. CASE j = k
        BY <1>s, <2>2, <2>4, <3>1
      <3>2. CASE j # k
        <4>1. j \in DOMAIN rows /\ rows'[j] = rows[j]
          BY <2>2, <3>2
        <4> QED BY <1>s, <2>1, <2>4, <4>1
      <3> QED BY <3>1, <3>2
    <2> QED BY <2>1, <2>3, <2>4 DEF StackInv
  <1>4. ASSUME NEW k \in Key, Resolve(k) PROVE StackInv'
    <2>1. clean' = clean /\ stacks' = stacks /\ session' = session
      BY <1>4 DEF Resolve, progs
    <2>2. /\ session = "resolve" /\ DOMAIN rows' = DOMAIN rows
          /\ rows'[k].kern = GetStack(k.kern) /\ rows'[k].user = GetStack(k.user)
          /\ \A j \in DOMAIN rows : rows'[j].claim = rows[j].claim /\ (j # k => rows'[j] = rows[j])
      BY <1>4, ResolveStep
    <2>3. ASSUME NEW j \in DOMAIN rows', NEW i \in DOMAIN rows'[j].claim
          PROVE  /\ Holds(stacks, j.kern, rows'[j].claim[i].kern) /\ Holds(stacks, j.user, rows'[j].claim[i].user)
                 /\ rows'[j].done =>
                    /\ j.kern # Error => rows'[j].kern = rows'[j].claim[i].kern
                    /\ j.user # Error => rows'[j].user = rows'[j].claim[i].user
      <3>0. j \in DOMAIN rows /\ rows'[j].claim = rows[j].claim
        BY <2>2
      <3>1. Holds(stacks, j.kern, rows'[j].claim[i].kern) /\ Holds(stacks, j.user, rows'[j].claim[i].user)
        BY <1>s, <2>2, <2>3, <3>0
      <3>2. CASE j = k
        BY <2>2, <3>1, <3>2 DEF Holds, GetStack
      <3>3. CASE j # k
        BY <1>s, <2>2, <2>3, <3>0, <3>1, <3>3
      <3> QED BY <3>2, <3>3
    <2> QED BY <1>s, <2>1, <2>3 DEF StackInv
  <1>5. ASSUME NEW b \in Buckets, ClearStack(b) PROVE StackInv'
    <2>1. /\ session = "clearStacks" /\ session' = "clearStacks" /\ rows' = rows /\ clean' = clean
      BY <1>5 DEF ClearStack, progs
    <2>2. \A k \in Key : clean[k] = <<>>
      BY <2>1 DEF IInv, RoundInv
    <2>3. \A k \in Key : DOMAIN clean[k] = {}
      BY <2>2, NoRows
    <2> QED BY <1>s, <2>1, <2>3 DEF StackInv
  <1>6. ASSUME Tick \/ EndReset PROVE StackInv'
    <2>1. DOMAIN rows' = {} /\ clean' = clean /\ stacks' = stacks
      BY <1>6, NoRows DEF Tick, EndReset, progs
    <2> QED BY <1>1, <2>1
  <1>7. ASSUME EndBatch \/ EndIterate \/ SendEvents \/ ClearStacksMap \/ (\E k \in Key : ClearCount(k))
        PROVE  StackInv'
    <2>1. /\ rows' = rows /\ clean' = clean /\ stacks' = stacks
          /\ session \in {"batch", "iterate", "resolve"} \/ session' \notin {"batch", "iterate", "resolve"}
      BY <1>7 DEF EndBatch, EndIterate, SendEvents, ClearStacksMap, ClearCount, progs
    <2> QED BY <1>2, <2>1
  <1> QED BY <1>3, <1>4, <1>5, <1>6, <1>7

LEMMA ReclaimHandlers ==
    ASSUME IInv, NEW c \in Cpus,
           (\E t \in Tasks : Sample(c, t)) \/ UserStack(c) \/ Lookup(c) \/ Insert(c) \/ Load(c) \/ Store(c)
    PROVE  ReclaimInv'
  <1>1. session' = session /\ todo' = todo /\ RoundNumber' = RoundNumber /\ RoundNumber \in Nat
    BY HandlersFrame DEF IInv, Types
  <1>2. ASSUME NEW b \in Buckets, stacks'[b] # NoStack
        PROVE  /\ born'[b] <= RoundNumber
               /\ \A m \in 0..RoundNumber : m % FullEvery = 0 =>
                    \/ born'[b] >= m
                    \/ m = RoundNumber /\ session # "idle" /\ (session = "clearStacks" => b \in todo)
    <2>1. CASE stacks'[b] = stacks[b] /\ born'[b] = born[b]
      BY <1>2, <2>1 DEF IInv, ReclaimInv
    <2>2. CASE born'[b] = RoundNumber
      BY <1>1, <2>2
    <2> QED BY <2>1, <2>2, BucketStep
  <1> QED BY <1>1, <1>2 DEF ReclaimInv

LEMMA ReclaimReset ==
    ASSUME IInv,
           \/ Tick \/ EndBatch \/ EndIterate \/ SendEvents \/ ClearStacksMap \/ EndReset
           \/ \E k \in Key : ReadBatch(k) \/ ReadNext(k) \/ Resolve(k) \/ ClearCount(k)
           \/ \E b \in Buckets : ClearStack(b)
    PROVE  ReclaimInv'
  <1>r. \A b \in Buckets : stacks[b] # NoStack =>
            /\ born[b] <= RoundNumber
            /\ \A m \in 0..RoundNumber : m % FullEvery = 0 =>
                  \/ born[b] >= m
                  \/ m = RoundNumber /\ session # "idle" /\ (session = "clearStacks" => b \in todo)
    BY DEF IInv, ReclaimInv
  <1>t. RoundNumber \in Nat /\ born \in [Buckets -> Nat] /\ stacks \in [Buckets -> Stacks \cup {NoStack}]
    BY DEF IInv, Types
  <1>1. ASSUME Tick PROVE ReclaimInv'
    <2>1. /\ session = "idle" /\ session' \in {"batch", "iterate"} /\ RoundNumber' = RoundNumber + 1
          /\ stacks' = stacks /\ born' = born
      BY <1>1 DEF Tick
    <2>2. ASSUME NEW b \in Buckets, stacks[b] # NoStack PROVE born[b] <= RoundNumber + 1
      BY <1>r, <1>t, <2>2
    <2>3. ASSUME NEW b \in Buckets, stacks[b] # NoStack,
                 NEW m \in 0..(RoundNumber + 1), m % FullEvery = 0, m # RoundNumber + 1
          PROVE  born[b] >= m
      <3>1. m \in 0..RoundNumber
        BY <1>t, <2>3
      <3> QED BY <1>r, <2>1, <2>3, <3>1
    <2> QED BY <2>1, <2>2, <2>3 DEF ReclaimInv
  <1>2. ASSUME EndBatch \/ EndIterate \/ SendEvents \/ \E k \in Key : ReadBatch(k) \/ ReadNext(k) \/ Resolve(k) \/ ClearCount(k)
        PROVE  ReclaimInv'
    <2>1. /\ session # "idle" /\ session' \notin {"idle", "clearStacks"} /\ session # "clearStacks"
          /\ RoundNumber' = RoundNumber /\ stacks' = stacks /\ born' = born
      BY <1>2 DEF EndBatch, EndIterate, SendEvents, ReadBatch, ReadNext, Resolve, ClearCount
    <2> QED BY <1>r, <2>1 DEF ReclaimInv
  <1>3. ASSUME ClearStacksMap PROVE ReclaimInv'
    <2>1. /\ session' = "clearStacks" /\ RoundNumber' = RoundNumber /\ stacks' = stacks /\ born' = born
          /\ RoundNumber % FullEvery = 0 => todo' = Buckets
      BY <1>3 DEF ClearStacksMap
    <2> QED BY <1>r, <2>1 DEF ReclaimInv
  <1>4. ASSUME NEW c \in Buckets, ClearStack(c) PROVE ReclaimInv'
    <2>1. /\ session = "clearStacks" /\ session' = "clearStacks" /\ RoundNumber' = RoundNumber /\ born' = born
          /\ todo' = todo \ {c} /\ stacks' = [stacks EXCEPT ![c] = NoStack]
      BY <1>4 DEF ClearStack
    <2>2. ASSUME NEW b \in Buckets, stacks'[b] # NoStack
          PROVE  b # c /\ stacks[b] # NoStack
      BY <1>t, <2>1, <2>2
    <2> QED BY <1>r, <2>1, <2>2 DEF ReclaimInv
  <1>5. ASSUME EndReset PROVE ReclaimInv'
    <2>1. /\ session = "clearStacks" /\ todo = {} /\ RoundNumber' = RoundNumber /\ stacks' = stacks /\ born' = born
      BY <1>5 DEF EndReset
    <2> QED BY <1>r, <2>1 DEF ReclaimInv
  <1> QED BY <1>1, <1>2, <1>3, <1>4, <1>5

----------------------------------------------------------------------------
(***************************************************************************)
(* The count of a key against the handlers that have ended.                *)
(***************************************************************************)
LEMMA CountTypes ==
    ASSUME IInv, NEW k \in Key
    PROVE  /\ Ended(k) \in Int /\ Prior(k) \in Int /\ Live(k) \in Nat /\ reported[k] \in Nat
           /\ Len(clean[k]) \in Nat /\ \A d \in Cpus : cpu[d].seen \in Nat
  <1>1. /\ taken[k] \in Nat /\ reported[k] \in Nat /\ clean[k] \in Seq(Tasks)
        /\ rows \in [DOMAIN rows -> AnyRow]
    BY DEF IInv, Types
  <1>2. \A d \in Cpus : cpu[d].seen \in Nat
    BY DEF IInv, Types, Handler
  <1>3. Updating(k) \subseteq Cpus
    BY DEF Updating
  <1>4. Cardinality(Updating(k)) \in Nat
    BY <1>3, CpuSets
  <1>5. Pending \subseteq DOMAIN rows
    BY DEF Pending, IInv, RoundInv
  <1>6. k \in Pending => rows[k].count \in Nat
    BY <1>1, <1>5 DEF AnyRow
  <1>7. Live(k) \in Nat
    BY LiveFacts DEF IInv
  <1> QED BY <1>1, <1>2, <1>4, <1>6, <1>7 DEF Ended, Prior

LEMMA EndedKept ==
    ASSUME NEW k \in Key, taken'[k] = taken[k],
           \A d \in Cpus : Counting(d)' /\ KeyOf(cpu'[d]) = k <=> Counting(d) /\ KeyOf(cpu[d]) = k
    PROVE  Ended(k)' = Ended(k)
  <1>1. Updating(k)' = Updating(k)
    BY DEF Updating, Counting
  <1> QED BY <1>1 DEF Ended

\* A handler that ends is one more of its key.
LEMMA EndedDone ==
    ASSUME IInv, NEW c \in Cpus, Counting(c), cpu'[c] = Idle, \A d \in Cpus \ {c} : cpu'[d] = cpu[d],
           taken' = taken, NEW k \in Key
    PROVE  Ended(k)' = IF KeyOf(cpu[c]) = k THEN Ended(k) + 1 ELSE Ended(k)
  <1>1. ~Counting(c)' /\ \A d \in Cpus \ {c} : Counting(d)' = Counting(d)
    BY DEF Counting, Idle
  <1>2. CASE KeyOf(cpu[c]) = k
    <2>1. Updating(k)' = Updating(k) \ {c} /\ c \in Updating(k) /\ Updating(k) \subseteq Cpus
      <3>1. \A d \in Cpus : d \in Updating(k)' <=> Counting(d)' /\ KeyOf(cpu'[d]) = k
        BY DEF Updating, Counting
      <3>2. \A d \in Cpus : d \in Updating(k) <=> Counting(d) /\ KeyOf(cpu[d]) = k
        BY DEF Updating, Counting
      <3>3. Updating(k)' \subseteq Cpus /\ Updating(k) \subseteq Cpus
        BY DEF Updating
      <3>4. \A d \in Cpus : d \in Updating(k)' <=> d \in Updating(k) \ {c}
        BY <1>1, <3>1, <3>2
      <3> QED BY <1>2, <3>2, <3>3, <3>4
    <2>2. Cardinality(Updating(k)') = Cardinality(Updating(k)) - 1 /\ Cardinality(Updating(k)) \in Nat
      BY <2>1, CpuSets
    <2>3. taken[k] \in Nat
      BY DEF IInv, Types
    <2> QED BY <1>2, <2>2, <2>3 DEF Ended
  <1>3. CASE KeyOf(cpu[c]) # k
    <2>1. \A d \in Cpus : Counting(d)' /\ KeyOf(cpu'[d]) = k <=> Counting(d) /\ KeyOf(cpu[d]) = k
      BY <1>1, <1>3
    <2>2. Ended(k)' = Ended(k)
      BY <2>1, EndedKept
    <2> QED BY <1>3, <2>2
  <1> QED BY <1>2, <1>3

LEMMA EndedStep ==
    ASSUME IInv, NEW c \in Cpus, NEW k \in Key,
           (\E t \in Tasks : Sample(c, t)) \/ UserStack(c) \/ Lookup(c) \/ Insert(c) \/ Load(c) \/ Store(c)
    PROVE  /\ Ended(k)' = Ended(k) \/ Ended(k)' = Ended(k) + 1
           /\ cpu[c].pc \in {"insert", "store"} /\ KeyOf(cpu[c]) = k => Ended(k)' = Ended(k) + 1
  <1> DEFINE Goal == /\ Ended(k)' = Ended(k) \/ Ended(k)' = Ended(k) + 1
                     /\ cpu[c].pc \in {"insert", "store"} /\ KeyOf(cpu[c]) = k => Ended(k)' = Ended(k) + 1
  <1>1. ASSUME NEW t \in Tasks, Sample(c, t) PROVE Goal
    <2>1. cpu[c].pc = "idle" /\ cpu'[c].pc = "user" /\ \A d \in Cpus \ {c} : cpu'[d] = cpu[d]
      BY <1>1, CpuSample
    <2>2. \A d \in Cpus : Counting(d)' /\ KeyOf(cpu'[d]) = k <=> Counting(d) /\ KeyOf(cpu[d]) = k
      BY <2>1 DEF Counting
    <2>3. taken' = taken
      BY <1>1 DEF Sample
    <2>4. Ended(k)' = Ended(k)
      BY <2>2, <2>3, EndedKept
    <2> QED BY <2>1, <2>4
  <1>2. ASSUME UserStack(c) PROVE Goal
    <2>1. cpu[c].pc = "user" /\ cpu'[c].pc = "lookup" /\ \A d \in Cpus \ {c} : cpu'[d] = cpu[d]
      BY <1>2, CpuUser
    <2>2. \A d \in Cpus : Counting(d)' /\ KeyOf(cpu'[d]) = k <=> Counting(d) /\ KeyOf(cpu[d]) = k
      BY <2>1 DEF Counting
    <2>3. taken' = taken
      BY <1>2 DEF UserStack
    <2>4. Ended(k)' = Ended(k)
      BY <2>2, <2>3, EndedKept
    <2> QED BY <2>1, <2>4
  <1>3. ASSUME Lookup(c) PROVE Goal
    <2>1. /\ cpu[c].pc = "lookup" /\ cpu'[c].pc \in {"load", "insert"} /\ KeyOf(cpu'[c]) = KeyOf(cpu[c])
          /\ \A d \in Cpus \ {c} : Kept(d)
      BY <1>3, CpuLookup
    <2>2. ~Counting(c) /\ Counting(c)'
      BY <2>1 DEF Counting
    <2>3. \A d \in Cpus \ {c} : Counting(d)' = Counting(d) /\ KeyOf(cpu'[d]) = KeyOf(cpu[d])
      BY <2>1, KeptKey DEF Counting, Kept
    <2>4. Ended(k)' = Ended(k)
      <3>1. CASE KeyOf(cpu[c]) = k
        <4>1. /\ \A d \in Cpus : d \in Updating(k)' <=> Counting(d)' /\ KeyOf(cpu'[d]) = k
              /\ \A d \in Cpus : d \in Updating(k) <=> Counting(d) /\ KeyOf(cpu[d]) = k
              /\ Updating(k)' \subseteq Cpus /\ Updating(k) \subseteq Cpus
          BY DEF Updating, Counting
        <4>2. \A d \in Cpus : d \in Updating(k)' <=> d \in Updating(k) \cup {c}
          BY <2>1, <2>2, <2>3, <3>1, <4>1
        <4>3. Updating(k)' = Updating(k) \cup {c} /\ c \notin Updating(k)
          BY <2>2, <4>1, <4>2
        <4>4. Cardinality(Updating(k)') = Cardinality(Updating(k)) + 1 /\ Cardinality(Updating(k)) \in Nat
          BY <4>1, <4>3, CpuSets
        <4>5. taken'[k] = taken[k] + 1 /\ taken[k] \in Nat
          BY <1>3, <3>1, TakenStep DEF IInv, Types
        <4> QED BY <4>4, <4>5 DEF Ended
      <3>2. CASE KeyOf(cpu[c]) # k
        <4>1. taken'[k] = taken[k]
          BY <1>3, <3>2, TakenStep
        <4>2. \A d \in Cpus : Counting(d)' /\ KeyOf(cpu'[d]) = k <=> Counting(d) /\ KeyOf(cpu[d]) = k
          BY <2>1, <2>3, <3>2
        <4> QED BY <4>1, <4>2, EndedKept
      <3> QED BY <3>1, <3>2
    <2> QED BY <2>1, <2>4
  <1>4. ASSUME Insert(c) \/ Store(c) PROVE Goal
    <2>1. cpu[c].pc \in {"insert", "store"} /\ \E b \in BOOLEAN : Done(c, b)
      BY <1>4, InsertStep, StoreStep
    <2>2. cpu'[c] = Idle /\ \A d \in Cpus \ {c} : cpu'[d] = cpu[d]
      BY <2>1, CpuDone
    <2>3. taken' = taken
      BY <1>4 DEF Insert, Store
    <2>4. Counting(c)
      BY <2>1 DEF Counting
    <2>5. Ended(k)' = IF KeyOf(cpu[c]) = k THEN Ended(k) + 1 ELSE Ended(k)
      BY <2>2, <2>3, <2>4, EndedDone
    <2> QED BY <2>5
  <1>5. ASSUME Load(c) PROVE Goal
    <2>1. /\ cpu[c].pc = "load" /\ cpu'[c].pc = "store" /\ KeyOf(cpu'[c]) = KeyOf(cpu[c])
          /\ \A d \in Cpus \ {c} : cpu'[d] = cpu[d]
      BY <1>5, CpuLoad
    <2>2. \A d \in Cpus : Counting(d)' /\ KeyOf(cpu'[d]) = k <=> Counting(d) /\ KeyOf(cpu[d]) = k
      BY <2>1 DEF Counting
    <2>3. taken' = taken
      BY <1>5 DEF Load
    <2>4. Ended(k)' = Ended(k)
      BY <2>2, <2>3, EndedKept
    <2> QED BY <2>1, <2>4
  <1> QED BY <1>1, <1>2, <1>3, <1>4, <1>5

\* A handler about to store through a good pointer was there before, or has
\* just loaded the count of its key.
LEMMA StoresStep ==
    ASSUME IInv, NEW c \in Cpus,
           (\E t \in Tasks : Sample(c, t)) \/ UserStack(c) \/ Lookup(c) \/ Insert(c) \/ Load(c) \/ Store(c),
           NEW d \in Cpus, cpu'[d].pc = "store", ~cpu'[d].gone
    PROVE  /\ KeyOf(cpu'[d]) = KeyOf(cpu[d]) /\ Counting(d)
           /\ \/ d # c /\ cpu[d].pc = "store" /\ ~cpu[d].gone /\ cpu'[d].seen = cpu[d].seen
              \/ clean' = clean /\ cpu'[d].seen = Live(KeyOf(cpu[d]))
  <1> DEFINE Goal == /\ KeyOf(cpu'[d]) = KeyOf(cpu[d]) /\ Counting(d)
                     /\ \/ d # c /\ cpu[d].pc = "store" /\ ~cpu[d].gone /\ cpu'[d].seen = cpu[d].seen
                        \/ clean' = clean /\ cpu'[d].seen = Live(KeyOf(cpu[d]))
  <1>1. ASSUME d # c, Kept(d), cpu'[d].gone = cpu[d].gone PROVE Goal
    BY <1>1, KeptKey DEF Kept, Counting
  <1>2. ASSUME NEW t \in Tasks, Sample(c, t) PROVE Goal
    <2>1. cpu'[c].pc = "user" /\ \A e \in Cpus \ {c} : cpu'[e] = cpu[e]
      BY <1>2, CpuSample
    <2> QED BY <1>1, <2>1, KeptSame
  <1>3. ASSUME UserStack(c) PROVE Goal
    <2>1. cpu'[c].pc = "lookup" /\ \A e \in Cpus \ {c} : cpu'[e] = cpu[e]
      BY <1>3, CpuUser
    <2> QED BY <1>1, <2>1, KeptSame
  <1>4. ASSUME Lookup(c) PROVE Goal
    <2>1. cpu'[c].pc \in {"load", "insert"} /\ \A e \in Cpus \ {c} : Kept(e) /\ cpu'[e].gone = cpu[e].gone
      BY <1>4, CpuLookup
    <2> QED BY <1>1, <2>1
  <1>5. ASSUME Insert(c) \/ Store(c) PROVE Goal
    <2>1. cpu[c].pc # "idle" /\ \E b \in BOOLEAN : Done(c, b)
      BY <1>5, InsertStep, StoreStep
    <2>2. cpu'[c] = Idle /\ \A e \in Cpus \ {c} : cpu'[e] = cpu[e]
      BY <2>1, CpuDone
    <2>3. d # c
      BY <2>2 DEF Idle
    <2> QED BY <1>1, <2>2, <2>3, KeptSame
  <1>6. ASSUME Load(c) PROVE Goal
    <2>1. /\ cpu[c].pc = "load" /\ cpu[c].ptr \in Slots /\ cpu'[c].seen = val[cpu[c].ptr]
          /\ KeyOf(cpu'[c]) = KeyOf(cpu[c]) /\ KeyOf(cpu[c]) \in Key /\ cpu'[c].gone = cpu[c].gone
          /\ \A e \in Cpus \ {c} : cpu'[e] = cpu[e]
      BY <1>6, CpuLoad
    <2>2. CASE d # c
      BY <1>1, <2>1, <2>2, KeptSame
    <2>3. CASE d = c
      <3>1. counts[cpu[c].ptr] = KeyOf(cpu[c])
        BY <2>1, <2>3 DEF IInv, PointerInv, Pointing
      <3>2. Live(KeyOf(cpu[c])) = val[cpu[c].ptr]
        BY <2>1, <3>1, LiveFacts DEF IInv
      <3>3. clean' = clean /\ Counting(c)
        BY <1>6, <2>1 DEF Load, Counting
      <3> QED BY <2>1, <2>3, <3>2, <3>3
    <2> QED BY <2>2, <2>3
  <1> QED BY <1>2, <1>3, <1>4, <1>5, <1>6

\* What a handler does to the count of a key: nothing, the first sample of it,
\* or the value it loaded and one more.
LEMMA LiveStep ==
    ASSUME IInv, NEW c \in Cpus,
           (\E t \in Tasks : Sample(c, t)) \/ UserStack(c) \/ Lookup(c) \/ Insert(c) \/ Load(c) \/ Store(c),
           NEW k \in Key, k \notin stale'
    PROVE  /\ k \notin stale
           /\ \/ Live(k)' = Live(k) /\ clean'[k] = clean[k]
              \/ /\ k = KeyOf(cpu[c]) /\ cpu[c].pc = "insert" /\ Live(k) = 0 /\ Live(k)' = 1
                 /\ Len(clean'[k]) <= Len(clean[k]) + 1
              \/ /\ k = KeyOf(cpu[c]) /\ cpu[c].pc = "store" /\ ~cpu[c].gone /\ Live(k)' = cpu[c].seen + 1
                 /\ Len(clean'[k]) <= Len(clean[k]) + 1
  <1> DEFINE Goal == /\ k \notin stale
                     /\ \/ Live(k)' = Live(k) /\ clean'[k] = clean[k]
                        \/ /\ k = KeyOf(cpu[c]) /\ cpu[c].pc = "insert" /\ Live(k) = 0 /\ Live(k)' = 1
                           /\ Len(clean'[k]) <= Len(clean[k]) + 1
                        \/ /\ k = KeyOf(cpu[c]) /\ cpu[c].pc = "store" /\ ~cpu[c].gone /\ Live(k)' = cpu[c].seen + 1
                           /\ Len(clean'[k]) <= Len(clean[k]) + 1
  <1>t. /\ counts \in [Slots -> Key \cup {Free}] /\ val \in [Slots -> Nat] /\ clean[k] \in Seq(Tasks)
    BY DEF IInv, Types
  <1>n. /\ counts' \in [Slots -> Key \cup {Free}] /\ val' \in [Slots -> Nat]
        /\ \A i, j \in Slots : counts'[i] = counts'[j] /\ counts'[i] # Free => i = j
    BY TypesHandlers, PointerHandlers DEF Types, PointerInv
  <1>l. /\ \A i \in Slots : counts'[i] = k => Live(k)' = val'[i]
        /\ (\A i \in Slots : (counts[i] = k <=> counts'[i] = k) /\ (counts[i] = k => val'[i] = val[i]))
                 => Live(k)' = Live(k)
    BY <1>n, LiveNext DEF IInv
  <1>a. Len(clean'[k]) <= Len(clean[k]) + 1
    <2>1. \/ clean'[k] = clean[k]
          \/ cpu[c].task \in Tasks /\ clean'[k] = Append(clean[k], cpu[c].task)
      BY CleanStep
    <2>2. Len(clean[k]) \in Nat
      BY <1>t
    <2>3. CASE clean'[k] = clean[k]
      BY <2>2, <2>3
    <2>4. CASE cpu[c].task \in Tasks /\ clean'[k] = Append(clean[k], cpu[c].task)
      BY <1>t, <2>2, <2>4
    <2> QED BY <2>1, <2>3, <2>4
  <1>1. ASSUME (\E t \in Tasks : Sample(c, t)) \/ UserStack(c) \/ Lookup(c) \/ Load(c) PROVE Goal
    <2>1. clean' = clean /\ counts' = counts /\ val' = val /\ stale' = stale
      BY <1>1 DEF Sample, UserStack, Lookup, Load
    <2> QED BY <1>l, <2>1
  <1>2. ASSUME Insert(c) PROVE Goal
    <2>0. cpu[c].pc = "insert" /\ stale' = stale /\ KeyOf(cpu[c]) \in Key
      BY <1>2, InsertStep DEF Insert
    <2>1. ASSUME KeyOf(cpu[c]) \notin Present, Done(c, TRUE), NEW i \in Slots, counts[i] = Free,
                 counts' = [counts EXCEPT ![i] = KeyOf(cpu[c])], val' = [val EXCEPT ![i] = 1]
          PROVE  Goal
      <3>1. CASE k = KeyOf(cpu[c])
        <4>1. Live(k) = 0
          BY <2>1, <3>1, LiveFacts DEF IInv
        <4>2. counts'[i] = k /\ val'[i] = 1
          BY <1>t, <2>1, <3>1
        <4> QED BY <1>a, <1>l, <2>0, <3>1, <4>1, <4>2
      <3>2. CASE k # KeyOf(cpu[c])
        <4>1. \A j \in Slots : (counts[j] = k <=> counts'[j] = k) /\ (counts[j] = k => val'[j] = val[j])
          BY <1>t, <2>1, <3>2, Consts
        <4>2. clean'[k] = clean[k]
          BY ZenonT(60), <2>0, <2>1, <3>2, CpuDone
        <4> QED BY <1>l, <2>0, <4>1, <4>2
      <3> QED BY <3>1, <3>2
    <2>2. ASSUME UNCHANGED <<counts, val>>, Done(c, FALSE) PROVE Goal
      <3>1. clean' = clean
        BY <2>2 DEF Done
      <3> QED BY <1>l, <2>0, <2>2, <3>1
    <2> QED BY <1>2, <2>1, <2>2, InsertStep
  <1>3. ASSUME Store(c) PROVE Goal
    <2>0. /\ cpu[c].pc = "store" /\ KeyOf(cpu[c]) \in Key /\ cpu[c].ptr \in Slots /\ cpu[c].seen \in Nat
          /\ val' = [val EXCEPT ![cpu[c].ptr] = cpu[c].seen + 1] /\ stale \subseteq stale'
          /\ cpu[c].gone => \A j \in Key : counts[cpu[c].ptr] = j => j \in stale'
          /\ ~cpu[c].gone => counts[cpu[c].ptr] = KeyOf(cpu[c])
          /\ Done(c, TRUE) /\ counts' = counts
      BY <1>3, StoreStep DEF Store
    <2>1. CASE counts[cpu[c].ptr] = k
      <3>1. ~cpu[c].gone /\ k = KeyOf(cpu[c])
        BY <2>0, <2>1
      <3>2. Live(k)' = cpu[c].seen + 1
        <4>1. counts'[cpu[c].ptr] = k /\ val'[cpu[c].ptr] = cpu[c].seen + 1
          BY <1>t, <2>0, <2>1
        <4> QED BY <1>l, <2>0, <4>1
      <3> QED BY <1>a, <2>0, <3>1, <3>2
    <2>2. CASE counts[cpu[c].ptr] # k
      <3>1. \A j \in Slots : (counts[j] = k <=> counts'[j] = k) /\ (counts[j] = k => val'[j] = val[j])
        BY <1>t, <2>0, <2>2
      <3>2. clean'[k] = clean[k]
        <4>1. CASE k = KeyOf(cpu[c])
          <5>1. cpu[c].gone
            BY <2>0, <2>2, <4>1
          <5>2. ~cpu[c].alone
            BY <5>1 DEF IInv, AloneInv
          <5> QED BY <2>0, <5>2 DEF Done
        <4>2. CASE k # KeyOf(cpu[c])
          <5>1. cpu[c].pc # "idle" /\ Done(c, TRUE)
            BY <2>0
          <5>2. \A j \in Key \ {KeyOf(cpu[c])} : clean'[j] = clean[j]
            BY <5>1, CpuDone
          <5> QED BY <4>2, <5>2
        <4> QED BY <4>1, <4>2
      <3> QED BY <1>l, <2>0, <3>1, <3>2
    <2> QED BY <2>1, <2>2
  <1> QED BY <1>1, <1>2, <1>3

LEMMA AtMostHandlers ==
    ASSUME IInv, NEW c \in Cpus,
           (\E t \in Tasks : Sample(c, t)) \/ UserStack(c) \/ Lookup(c) \/ Insert(c) \/ Load(c) \/ Store(c)
    PROVE  AtMostInv'
  <1>1. ASSUME NEW k \in Key, k \notin stale' PROVE AtMost(k)'
    <2>f. Prior(k)' = Prior(k) /\ reported' = reported
      BY HandlersFrame DEF Prior
    <2>t. Ended(k) \in Int /\ Prior(k) \in Int /\ Live(k) \in Nat /\ reported[k] \in Nat
          /\ \A d \in Cpus : cpu[d].seen \in Nat
      BY CountTypes
    <2>l. /\ k \notin stale
          /\ \/ Live(k)' = Live(k)
             \/ k = KeyOf(cpu[c]) /\ cpu[c].pc = "insert" /\ Live(k) = 0 /\ Live(k)' = 1
             \/ k = KeyOf(cpu[c]) /\ cpu[c].pc = "store" /\ ~cpu[c].gone /\ Live(k)' = cpu[c].seen + 1
      BY <1>1, LiveStep
    <2>e. /\ Ended(k)' = Ended(k) \/ Ended(k)' = Ended(k) + 1
          /\ cpu[c].pc \in {"insert", "store"} /\ KeyOf(cpu[c]) = k => Ended(k)' = Ended(k) + 1
      BY EndedStep
    <2>m. /\ reported[k] <= Ended(k) /\ Prior(k) + Live(k) <= Ended(k)
          /\ \A d \in Cpus : cpu[d].pc = "store" /\ ~cpu[d].gone /\ KeyOf(cpu[d]) = k
                                 => Prior(k) + cpu[d].seen <= Ended(k)
      BY <2>l DEF IInv, AtMostInv, AtMost
    <2>1. reported'[k] <= Ended(k)'
      BY <2>f, <2>t, <2>e, <2>m
    <2>2. Prior(k)' + Live(k)' <= Ended(k)'
      <3>1. CASE Live(k)' = Live(k)
        BY <2>f, <2>t, <2>e, <2>m, <3>1
      <3>2. CASE k = KeyOf(cpu[c]) /\ cpu[c].pc = "insert" /\ Live(k) = 0 /\ Live(k)' = 1
        BY <2>f, <2>t, <2>e, <2>m, <3>2
      <3>3. CASE k = KeyOf(cpu[c]) /\ cpu[c].pc = "store" /\ ~cpu[c].gone /\ Live(k)' = cpu[c].seen + 1
        BY <2>f, <2>t, <2>e, <2>m, <3>3
      <3> QED BY <2>l, <3>1, <3>2, <3>3
    <2>3. ASSUME NEW d \in Cpus, cpu'[d].pc = "store", ~cpu'[d].gone, KeyOf(cpu'[d]) = k
          PROVE  Prior(k)' + cpu'[d].seen <= Ended(k)'
      <3>1. /\ KeyOf(cpu[d]) = k
            /\ \/ cpu[d].pc = "store" /\ ~cpu[d].gone /\ cpu'[d].seen = cpu[d].seen
               \/ cpu'[d].seen = Live(k)
        BY <2>3, StoresStep
      <3>2. Prior(k) + cpu'[d].seen <= Ended(k) /\ cpu'[d].seen \in Nat
        BY <2>m, <2>t, <3>1
      <3> QED BY <2>f, <2>t, <2>e, <3>2
    <2> QED BY <2>1, <2>2, <2>3 DEF AtMost
  <1> QED BY <1>1 DEF AtMostInv

LEMMA AtLeastHandlers ==
    ASSUME IInv, NEW c \in Cpus,
           (\E t \in Tasks : Sample(c, t)) \/ UserStack(c) \/ Lookup(c) \/ Insert(c) \/ Load(c) \/ Store(c)
    PROVE  AtLeastInv'
  <1>1. ASSUME NEW k \in Key, k \notin stale' PROVE AtLeast(k)'
    <2>t. Live(k) \in Nat /\ Len(clean[k]) \in Nat /\ \A d \in Cpus : cpu[d].seen \in Nat
      BY CountTypes
    <2>n. Len(clean'[k]) \in Nat
      BY TypesHandlers DEF Types
    <2>l. /\ k \notin stale
          /\ \/ Live(k)' = Live(k) /\ clean'[k] = clean[k]
             \/ /\ k = KeyOf(cpu[c]) /\ cpu[c].pc = "insert" /\ Live(k) = 0 /\ Live(k)' = 1
                /\ Len(clean'[k]) <= Len(clean[k]) + 1
             \/ /\ k = KeyOf(cpu[c]) /\ cpu[c].pc = "store" /\ ~cpu[c].gone /\ Live(k)' = cpu[c].seen + 1
                /\ Len(clean'[k]) <= Len(clean[k]) + 1
      BY <1>1, LiveStep
    <2>m. /\ Live(k) >= Len(clean[k])
          /\ \A d \in Cpus : cpu[d].pc = "store" /\ ~cpu[d].gone /\ KeyOf(cpu[d]) = k
                                 => cpu[d].seen >= Len(clean[k])
      BY <2>l DEF IInv, AtLeastInv, AtLeast
    <2>1. Live(k)' >= Len(clean'[k])
      <3>1. CASE Live(k)' = Live(k) /\ clean'[k] = clean[k]
        BY <2>m, <3>1
      <3>2. CASE Live(k) = 0 /\ Live(k)' = 1 /\ Len(clean'[k]) <= Len(clean[k]) + 1
        BY <2>t, <2>n, <2>m, <3>2
      <3>3. CASE /\ k = KeyOf(cpu[c]) /\ cpu[c].pc = "store" /\ ~cpu[c].gone /\ Live(k)' = cpu[c].seen + 1
                 /\ Len(clean'[k]) <= Len(clean[k]) + 1
        BY <2>t, <2>n, <2>m, <3>3
      <3> QED BY <2>l, <3>1, <3>2, <3>3
    <2>2. ASSUME NEW d \in Cpus, cpu'[d].pc = "store", ~cpu'[d].gone, KeyOf(cpu'[d]) = k
          PROVE  cpu'[d].seen >= Len(clean'[k])
      <3>1. /\ KeyOf(cpu[d]) = k /\ Counting(d)
            /\ \/ d # c /\ cpu[d].pc = "store" /\ ~cpu[d].gone /\ cpu'[d].seen = cpu[d].seen
               \/ clean' = clean /\ cpu'[d].seen = Live(k)
        BY <2>2, StoresStep
      <3>2. CASE clean'[k] = clean[k]
        BY <2>m, <3>1, <3>2
      <3>3. CASE clean'[k] # clean[k]
        <4>1. cpu[c].alone /\ Counting(c) /\ KeyOf(cpu[c]) = k
          BY <3>3, CleanStep
        <4>2. d = c
          BY <3>1, <4>1 DEF IInv, AloneInv
        <4> QED BY <3>1, <3>3, <4>2
      <3> QED BY <3>2, <3>3
    <2> QED BY <2>1, <2>2 DEF AtLeast
  <1>2. stale \subseteq stale' /\ rows' = rows
    <2>1. CASE Store(c)
      BY <2>1, StoreStep, HandlersFrame
    <2>2. CASE stale' = stale
      BY <2>2, HandlersFrame
    <2> QED BY <2>1, <2>2 DEF Sample, UserStack, Lookup, Insert, Load
  <1>3. \A k \in DOMAIN rows \ stale : rows[k].count >= Len(rows[k].claim)
    BY DEF IInv, AtLeastInv
  <1> QED BY <1>1, <1>2, <1>3 DEF AtLeastInv

\* Nothing counts under a key that has just been deleted.
LEMMA DeletedPointers ==
    ASSUME IInv, NEW k \in Key, k \in Present, Delete(SlotOf(k)),
           NEW d \in Cpus, cpu'[d].pc = "store", ~cpu'[d].gone
    PROVE  KeyOf(cpu'[d]) # k
  <1>1. SlotOf(k) \in Slots
    BY LiveFacts DEF IInv
  <1>2. Kept(d) /\ cpu'[d].gone = (cpu[d].gone \/ cpu[d].ptr = SlotOf(k))
    BY <1>1, CpuDelete
  <1>3. /\ cpu[d].pc = "store" /\ ~cpu[d].gone /\ cpu[d].ptr # SlotOf(k)
        /\ KeyOf(cpu'[d]) = KeyOf(cpu[d])
    BY <1>2, KeptKey DEF Kept
  <1>4. cpu[d].ptr \in Slots /\ counts[cpu[d].ptr] = KeyOf(cpu[d])
    BY <1>3 DEF IInv, PointerInv, Pointing
  <1>5. counts[cpu[d].ptr] = k => SlotOf(k) = cpu[d].ptr
    BY <1>4, LiveFacts DEF IInv
  <1> QED BY <1>3, <1>4, <1>5

\* No step of Reset ends a handler or makes it store something else.
LEMMA ResetKeeps ==
    ASSUME IInv, NEW k \in Key,
           \/ Tick \/ EndBatch \/ EndIterate \/ SendEvents \/ ClearStacksMap \/ EndReset
           \/ \E j \in Key : ReadBatch(j) \/ ReadNext(j) \/ Resolve(j) \/ ClearCount(j)
           \/ \E b \in Buckets : ClearStack(b)
    PROVE  /\ Ended(k)' = Ended(k) /\ stale' = stale
           /\ \A d \in Cpus : cpu'[d].pc = "store" /\ ~cpu'[d].gone /\ KeyOf(cpu'[d]) = k
                 => cpu[d].pc = "store" /\ ~cpu[d].gone /\ KeyOf(cpu[d]) = k /\ cpu'[d].seen = cpu[d].seen
  <1>1. /\ \A d \in Cpus : Kept(d) /\ KeyOf(cpu'[d]) = KeyOf(cpu[d]) /\ (cpu[d].gone => cpu'[d].gone)
        /\ stale' = stale /\ taken' = taken
    BY ResetCpu
  <1>2. \A d \in Cpus : Counting(d)' /\ KeyOf(cpu'[d]) = k <=> Counting(d) /\ KeyOf(cpu[d]) = k
    BY <1>1 DEF Kept, Counting
  <1>3. Ended(k)' = Ended(k)
    BY <1>1, <1>2, EndedKept
  <1> QED BY <1>1, <1>3 DEF Kept

LEMMA SameLive == ASSUME counts' = counts, val' = val, NEW k PROVE Live(k)' = Live(k)
  BY DEF Live, Present, SlotOf

LEMMA AtMostReset ==
    ASSUME IInv,
           \/ Tick \/ EndBatch \/ EndIterate \/ SendEvents \/ ClearStacksMap \/ EndReset
           \/ \E k \in Key : ReadBatch(k) \/ ReadNext(k) \/ Resolve(k) \/ ClearCount(k)
           \/ \E b \in Buckets : ClearStack(b)
    PROVE  AtMostInv'
  <1>v. val' = val
    BY ResetCpu
  <1>k. ASSUME NEW k \in Key, k \notin stale'
        PROVE  /\ reported[k] <= Ended(k) /\ Prior(k) + Live(k) <= Ended(k) /\ Ended(k)' = Ended(k)
               /\ Ended(k) \in Int /\ Prior(k) \in Int /\ Live(k) \in Nat /\ reported[k] \in Nat
               /\ \A d \in Cpus : cpu'[d].pc = "store" /\ ~cpu'[d].gone /\ KeyOf(cpu'[d]) = k
                                      => Prior(k) + cpu'[d].seen <= Ended(k)
    <2>1. /\ Ended(k)' = Ended(k) /\ k \notin stale
          /\ \A d \in Cpus : cpu'[d].pc = "store" /\ ~cpu'[d].gone /\ KeyOf(cpu'[d]) = k
                => cpu[d].pc = "store" /\ ~cpu[d].gone /\ KeyOf(cpu[d]) = k /\ cpu'[d].seen = cpu[d].seen
      BY <1>k, ResetKeeps
    <2>2. AtMost(k)
      BY <2>1 DEF IInv, AtMostInv
    <2>3. Ended(k) \in Int /\ Prior(k) \in Int /\ Live(k) \in Nat /\ reported[k] \in Nat
      BY CountTypes
    <2> QED BY <2>1, <2>2, <2>3 DEF AtMost
  <1>s. ASSUME NEW k \in Key, k \notin stale', reported'[k] = reported[k], Prior(k)' = Prior(k), Live(k)' = Live(k)
        PROVE  AtMost(k)'
    BY <1>k, <1>s DEF AtMost
  <1>1. ASSUME reported' = reported, counts' = counts, Pending' = Pending,
               \A k \in Pending : rows'[k].count = rows[k].count
        PROVE  AtMostInv'
    <2>1. ASSUME NEW k \in Key, k \notin stale' PROVE AtMost(k)'
      <3>1. Prior(k)' = Prior(k)
        BY <1>1 DEF Prior
      <3>2. Live(k)' = Live(k)
        BY <1>1, <1>v, SameLive
      <3> QED BY <1>1, <1>s, <2>1, <3>1, <3>2
    <2> QED BY <2>1 DEF AtMostInv
  <1>2. ASSUME Tick \/ EndBatch PROVE AtMostInv'
    <2>1. reported' = reported /\ counts' = counts
      BY <1>2 DEF Tick, EndBatch
    <2>2. Pending = {}
      BY <1>2 DEF Pending, Tick, EndBatch
    <2>3. \/ session' \in {"batch", "iterate"} /\ DOMAIN rows' = {}
          \/ session' = "resolve" /\ batch' = TRUE
          \/ session' = "batch"
      BY <1>2, NoRows DEF Tick, EndBatch
    <2>4. Pending' = {}
      BY <2>3 DEF Pending
    <2> QED BY <1>1, <2>1, <2>2, <2>4
  <1>3. ASSUME EndIterate PROVE AtMostInv'
    <2>1. /\ reported' = reported /\ counts' = counts /\ rows' = rows /\ session = "iterate"
          /\ session' = "resolve" /\ batch' = FALSE
      BY <1>3 DEF EndIterate
    <2>2. Pending' = Pending
      BY <2>1 DEF Pending
    <2> QED BY <1>1, <2>1, <2>2
  <1>4. ASSUME SendEvents PROVE AtMostInv'
    <2>1. /\ reported' = reported /\ counts' = counts /\ rows' = rows /\ session = "resolve"
          /\ session' = "clearCounts" /\ todo' = (IF batch THEN {} ELSE DOMAIN rows)
      BY <1>4 DEF SendEvents
    <2>2. Pending' = Pending
      BY <2>1 DEF Pending
    <2> QED BY <1>1, <2>1, <2>2
  <1>5. ASSUME ClearStacksMap \/ EndReset \/ (\E b \in Buckets : ClearStack(b)) PROVE AtMostInv'
    <2>1. /\ reported' = reported /\ counts' = counts /\ session' \in {"clearStacks", "idle"}
          /\ session = "clearStacks" \/ (session = "clearCounts" /\ todo = {})
      BY <1>5 DEF ClearStacksMap, EndReset, ClearStack
    <2>2. Pending' = {} /\ Pending = {}
      BY <2>1 DEF Pending
    <2> QED BY <1>1, <2>1, <2>2
  <1>6. ASSUME NEW k \in Key, Resolve(k) PROVE AtMostInv'
    <2>1. /\ reported' = reported /\ counts' = counts /\ session' = session /\ batch' = batch
      BY <1>6 DEF Resolve
    <2>2. /\ session = "resolve" /\ DOMAIN rows' = DOMAIN rows
          /\ \A j \in DOMAIN rows : rows'[j].count = rows[j].count
      BY <1>6, ResolveStep
    <2>3. Pending' = Pending /\ Pending \subseteq DOMAIN rows
      BY <2>1, <2>2 DEF Pending
    <2> QED BY <1>1, <2>1, <2>2, <2>3
  <1>7. ASSUME NEW k \in Key, ReadNext(k) PROVE AtMostInv'
    <2>1. counts' = counts /\ session = "iterate" /\ session' = "iterate"
      BY <1>7 DEF ReadNext
    <2>2. /\ DOMAIN rows' = DOMAIN rows \cup {k} /\ rows'[k].count = Live(k) /\ k \notin DOMAIN rows
          /\ \A j \in DOMAIN rows : rows'[j] = rows[j]
          /\ reported'[k] = reported[k] + Live(k) /\ \A j \in Key \ {k} : reported'[j] = reported[j]
      BY <1>7, ReadStep DEF ReadNext
    <2>3. Pending' = DOMAIN rows' /\ Pending = DOMAIN rows
      BY <2>1 DEF Pending
    <2>4. ASSUME NEW j \in Key, j \notin stale' PROVE AtMost(j)'
      <3>1. Live(j)' = Live(j)
        BY <1>v, <2>1, SameLive
      <3>2. CASE j # k
        <4>1. (j \in Pending' <=> j \in Pending) /\ reported'[j] = reported[j]
          BY <2>2, <2>3, <3>2
        <4>2. j \in Pending => rows'[j] = rows[j]
          BY <2>2, <2>3
        <4>3. Prior(j)' = Prior(j)
          BY <4>1, <4>2 DEF Prior
        <4> QED BY <1>s, <2>4, <3>1, <4>1, <4>3
      <3>3. CASE j = k
        <4>1. Live(k) \in Nat /\ reported[k] \in Nat
          BY CountTypes
        <4>2. Prior(k)' = reported[k] + Live(k) - Live(k) /\ Prior(k) = reported[k]
          <5>1. k \in Pending' /\ k \notin Pending
            BY <2>2, <2>3
          <5>2. Prior(k)' = reported'[k] - rows'[k].count /\ Prior(k) = reported[k]
            BY <5>1 DEF Prior
          <5>3. reported'[k] = reported[k] + Live(k) /\ rows'[k].count = Live(k)
            BY <2>2
          <5> QED BY <4>1, <5>2, <5>3
        <4>3. Prior(k)' = Prior(k)
          BY <4>1, <4>2
        <4> QED BY <1>k, <2>2, <2>4, <3>1, <3>3, <4>2, <4>3 DEF AtMost
      <3> QED BY <3>2, <3>3
    <2> QED BY <2>4 DEF AtMostInv
  <1>8. ASSUME NEW k \in Key, ReadBatch(k) PROVE AtMostInv'
    <2>1. session = "batch" /\ session' = "batch" /\ Delete(SlotOf(k))
      BY <1>8 DEF ReadBatch
    <2>2. /\ k \in Present
          /\ reported'[k] = reported[k] + Live(k) /\ \A j \in Key \ {k} : reported'[j] = reported[j]
      BY <1>8, ReadStep DEF ReadBatch
    <2>3. Pending' = {} /\ Pending = {}
      BY <2>1 DEF Pending
    <2>5. Live(k)' = 0 /\ \A j \in Key \ {k} : Live(j)' = Live(j)
      BY <1>v, <2>1, <2>2, DeleteLive
    <2>4. ASSUME NEW j \in Key, j \notin stale' PROVE AtMost(j)'
      <3>2. CASE j # k
        <4>1. Prior(j)' = Prior(j)
          BY <2>2, <2>3, <3>2 DEF Prior
        <4> QED BY <1>s, <2>2, <2>4, <2>5, <3>2, <4>1
      <3>3. CASE j = k
        <4>1. Prior(k)' = reported[k] + Live(k) /\ Prior(k) = reported[k]
          BY <2>2, <2>3 DEF Prior
        <4>2. \A d \in Cpus : cpu'[d].pc = "store" /\ ~cpu'[d].gone => KeyOf(cpu'[d]) # k
          BY <2>1, <2>2, DeletedPointers
        <4>3. /\ Prior(k) + Live(k) <= Ended(k) /\ Ended(k)' = Ended(k)
              /\ Ended(k) \in Int /\ Live(k) \in Nat /\ reported[k] \in Nat
          BY <1>k, <2>4, <3>3
        <4>4. reported'[k] <= Ended(k)' /\ Prior(k)' + Live(k)' <= Ended(k)'
          BY <2>2, <2>5, <4>1, <4>3
        <4> QED BY <3>3, <4>2, <4>4 DEF AtMost
      <3> QED BY <3>2, <3>3
    <2> QED BY <2>4 DEF AtMostInv
  <1>9. ASSUME NEW k \in Key, ClearCount(k) PROVE AtMostInv'
    <2>1. /\ session = "clearCounts" /\ session' = "clearCounts" /\ Delete(SlotOf(k)) /\ k \in Present
          /\ reported' = reported /\ rows' = rows /\ todo' = todo \ {k}
      BY <1>9 DEF ClearCount
    <2>3. Pending' = todo \ {k} /\ Pending = todo
      BY <2>1 DEF Pending
    <2>5. Live(k)' = 0 /\ \A j \in Key \ {k} : Live(j)' = Live(j)
      BY <1>v, <2>1, DeleteLive
    <2>4. ASSUME NEW j \in Key, j \notin stale' PROVE AtMost(j)'
      <3>2. CASE j # k
        <4>1. Prior(j)' = Prior(j)
          BY <2>1, <2>3, <3>2 DEF Prior
        <4> QED BY <1>s, <2>1, <2>4, <2>5, <3>2, <4>1
      <3>3. CASE j = k
        <4>1. Prior(k)' = reported[k]
          BY <2>1, <2>3 DEF Prior
        <4>2. \A d \in Cpus : cpu'[d].pc = "store" /\ ~cpu'[d].gone => KeyOf(cpu'[d]) # k
          BY <2>1, DeletedPointers
        <4>3. reported[k] <= Ended(k) /\ Ended(k)' = Ended(k) /\ Ended(k) \in Int /\ reported[k] \in Nat
          BY <1>k, <2>4, <3>3
        <4>4. reported'[k] <= Ended(k)' /\ Prior(k)' + Live(k)' <= Ended(k)'
          BY <2>1, <2>5, <4>1, <4>3
        <4> QED BY <3>3, <4>2, <4>4 DEF AtMost
      <3> QED BY <3>2, <3>3
    <2> QED BY <2>4 DEF AtMostInv
  <1> QED BY <1>2, <1>3, <1>4, <1>5, <1>6, <1>7, <1>8, <1>9

LEMMA AtLeastReset ==
    ASSUME IInv,
           \/ Tick \/ EndBatch \/ EndIterate \/ SendEvents \/ ClearStacksMap \/ EndReset
           \/ \E k \in Key : ReadBatch(k) \/ ReadNext(k) \/ Resolve(k) \/ ClearCount(k)
           \/ \E b \in Buckets : ClearStack(b)
    PROVE  AtLeastInv'
  <1>v. val' = val /\ stale' = stale
    BY ResetCpu
  <1>r. \A k \in DOMAIN rows \ stale : rows[k].count >= Len(rows[k].claim)
    BY DEF IInv, AtLeastInv
  <1>s. ASSUME NEW k \in Key, k \notin stale', clean'[k] = clean[k], Live(k)' = Live(k)
        PROVE  AtLeast(k)'
    <2>1. \A d \in Cpus : cpu'[d].pc = "store" /\ ~cpu'[d].gone /\ KeyOf(cpu'[d]) = k
              => cpu[d].pc = "store" /\ ~cpu[d].gone /\ KeyOf(cpu[d]) = k /\ cpu'[d].seen = cpu[d].seen
      BY ResetKeeps
    <2>2. AtLeast(k)
      BY <1>v, <1>s DEF IInv, AtLeastInv
    <2> QED BY <1>s, <2>1, <2>2 DEF AtLeast
  <1>e. ASSUME NEW k \in Key, clean'[k] = <<>> PROVE AtLeast(k)'
    <2>1. Live(k)' \in Nat
      <3>1. /\ counts' \in [Slots -> Key \cup {Free}] /\ val' \in [Slots -> Nat]
            /\ \A i, j \in Slots : counts'[i] = counts'[j] /\ counts'[i] # Free => i = j
        BY TypesReset, ResetCpu DEF Types, PointerInv
      <3>2. /\ \A i \in Slots : counts'[i] = k => Live(k)' = val'[i]
            /\ (\A i \in Slots : counts'[i] # k) => Live(k)' = 0
        BY <3>1, LiveNext DEF IInv
      <3> QED BY <3>1, <3>2
    <2>2. \A d \in Cpus : cpu'[d].seen \in Nat
      BY TypesReset DEF Types, Handler
    <2> QED BY <1>e, <2>1, <2>2 DEF AtLeast
  <1>1. ASSUME clean' = clean, counts' = counts PROVE \A k \in Key \ stale' : AtLeast(k)'
    <2>1. \A k \in Key : Live(k)' = Live(k)
      BY <1>v, <1>1, SameLive
    <2> QED BY <1>s, <1>1, <2>1
  <1>2. ASSUME Tick \/ EndReset PROVE AtLeastInv'
    <2>1. clean' = clean /\ counts' = counts /\ DOMAIN rows' = {}
      BY <1>2, NoRows DEF Tick, EndReset, progs
    <2> QED BY <1>1, <2>1 DEF AtLeastInv
  <1>3. ASSUME EndBatch \/ EndIterate \/ SendEvents \/ ClearStacksMap \/ (\E b \in Buckets : ClearStack(b))
        PROVE  AtLeastInv'
    <2>1. clean' = clean /\ counts' = counts /\ rows' = rows
      BY <1>3 DEF EndBatch, EndIterate, SendEvents, ClearStacksMap, ClearStack, progs
    <2> QED BY <1>v, <1>r, <1>1, <2>1 DEF AtLeastInv
  <1>4. ASSUME NEW k \in Key, Resolve(k) PROVE AtLeastInv'
    <2>1. clean' = clean /\ counts' = counts
      BY <1>4 DEF Resolve, progs
    <2>2. /\ DOMAIN rows' = DOMAIN rows
          /\ \A j \in DOMAIN rows : rows'[j].count = rows[j].count /\ rows'[j].claim = rows[j].claim
      BY <1>4, ResolveStep
    <2> QED BY <1>v, <1>r, <1>1, <2>1, <2>2 DEF AtLeastInv
  <1>5. ASSUME NEW k \in Key, ReadRow(k), \A j \in Key \ {k} : Live(j)' = Live(j) PROVE AtLeastInv'
    <2>1. /\ DOMAIN rows' = DOMAIN rows \cup {k} /\ rows'[k].count = Live(k) /\ rows'[k].claim = clean[k]
          /\ \A j \in DOMAIN rows : rows'[j] = rows[j]
          /\ clean'[k] = <<>> /\ \A j \in Key \ {k} : clean'[j] = clean[j]
      BY ZenonT(60), <1>5, ReadStep
    <2>2. \A j \in Key \ stale' : AtLeast(j)'
      BY <1>s, <1>e, <1>5, <2>1
    <2>3. k \notin stale => Live(k) >= Len(clean[k])
      BY DEF IInv, AtLeastInv, AtLeast
    <2>4. \A j \in DOMAIN rows' \ stale' : rows'[j].count >= Len(rows'[j].claim)
      BY <1>v, <1>r, <2>1, <2>3
    <2> QED BY <2>2, <2>4 DEF AtLeastInv
  <1>6. ASSUME NEW k \in Key, ReadNext(k) PROVE AtLeastInv'
    <2>1. ReadRow(k) /\ counts' = counts
      BY <1>6 DEF ReadNext
    <2>2. \A j \in Key \ {k} : Live(j)' = Live(j)
      BY <1>v, <2>1, SameLive
    <2> QED BY <1>5, <2>1, <2>2
  <1>7. ASSUME NEW k \in Key, ReadBatch(k) PROVE AtLeastInv'
    <2>1. ReadRow(k) /\ k \in Present /\ Delete(SlotOf(k))
      BY <1>7 DEF ReadBatch, ReadRow
    <2>2. \A j \in Key \ {k} : Live(j)' = Live(j)
      BY <1>v, <2>1, DeleteLive
    <2> QED BY <1>5, <2>1, <2>2
  <1>8. ASSUME NEW k \in Key, ClearCount(k) PROVE AtLeastInv'
    <2>1. session = "clearCounts" /\ clean' = clean /\ rows' = rows
      BY <1>8 DEF ClearCount
    <2>2. \A j \in Key : clean[j] = <<>>
      BY <2>1 DEF IInv, RoundInv
    <2>3. \A j \in Key : AtLeast(j)'
      BY <1>e, <2>1, <2>2
    <2> QED BY <1>v, <1>r, <2>1, <2>3 DEF AtLeastInv
  <1> QED BY <1>2, <1>3, <1>4, <1>6, <1>7, <1>8

----------------------------------------------------------------------------
(***************************************************************************)
(* The invariant, and what follows from it.                                *)
(***************************************************************************)
LEMMA InitIInv == Init => IInv
  <1> SUFFICES ASSUME Init PROVE IInv
    OBVIOUS
  <1>0. /\ cpu = [c \in Cpus |-> Idle] /\ counts = [i \in Slots |-> Free] /\ val = [i \in Slots |-> 0]
        /\ stacks = [b \in Buckets |-> NoStack] /\ session = "idle" /\ DOMAIN rows = {} /\ todo = {}
        /\ clean = [k \in Key |-> <<>>] /\ stale = {} /\ samples = 0
        /\ taken = [k \in Key |-> 0] /\ reported = [k \in Key |-> 0]
    BY NoRows DEF Init
  <1>i. /\ Idle.pc = "idle" /\ Idle.ptr = 0 /\ Idle.seen = 0 /\ ~Idle.alone /\ ~Idle.gone
    BY DEF Idle
  <1>c. \A c \in Cpus : cpu[c] = Idle
    BY <1>0
  <1>e. Cardinality({}) = 0
    BY FS_EmptySet
  <1>1. Types
    <2>1. cpu \in [Cpus -> Handler] /\ \A c \in Cpus : cpu[c].pc = "idle"
      BY <1>0, <1>i, IdleType
    <2>2. rows \in [DOMAIN rows -> AnyRow] /\ clean \in [Key -> Seq(Tasks)]
      BY <1>0, NoRows DEF Init
    <2>3. RoundNumber \in 0..MaxRounds /\ samples \in 0..MaxSamples
      BY Consts DEF Init
    <2>4. /\ counts \in [Slots -> Key \cup {Free}] /\ val \in [Slots -> Nat]
          /\ stacks \in [Buckets -> Stacks \cup {NoStack}] /\ taken \in [Key -> Nat] /\ reported \in [Key -> Nat]
      BY <1>0
    <2>5. born \in [Buckets -> Nat] /\ batchOk \in BOOLEAN /\ batch \in BOOLEAN /\ must = {}
      BY DEF Init
    <2> QED BY <1>0, <2>1, <2>2, <2>3, <2>4, <2>5 DEF Types
  <1>2. Bounded
    <2>1. Active = {}
      BY <1>c, <1>i DEF Active
    <2>2. Finished = 0
      BY <1>0, <1>e, <2>1 DEF Finished
    <2> QED BY <1>0, <1>c, <1>i, <2>2 DEF Bounded
  <1>3. PointerInv
    BY <1>0, <1>c, <1>i DEF PointerInv, Pointing
  <1>4. AloneInv
    BY <1>c, <1>i DEF AloneInv
  <1>5. RoundInv
    <2>1. Pending = {}
      BY <1>0 DEF Pending
    <2> QED BY <1>0, <2>1 DEF RoundInv
  <1>l. ASSUME NEW k \in Key PROVE Live(k) = 0 /\ clean[k] = <<>> /\ ~\E c \in Cpus : cpu[c].pc = "store"
    <2>1. k \notin Present
      BY <1>0 DEF Present
    <2> QED BY <1>0, <1>c, <1>i, <2>1 DEF Live
  <1>6. AtMostInv
    <2>1. ASSUME NEW k \in Key PROVE AtMost(k)
      <3>1. Updating(k) = {}
        BY <1>c, <1>i DEF Updating
      <3>2. Ended(k) = 0
        BY <1>0, <1>e, <3>1 DEF Ended
      <3>3. Prior(k) = 0 /\ reported[k] = 0
        BY <1>0 DEF Prior, Pending
      <3> QED BY <1>l, <3>2, <3>3 DEF AtMost
    <2> QED BY <2>1 DEF AtMostInv
  <1>7. AtLeastInv
    BY <1>0, <1>l DEF AtLeastInv, AtLeast
  <1>8. StackInv
    <2>1. \A k \in Key : DOMAIN clean[k] = {}
      BY <1>l, NoRows
    <2> QED BY <1>0, <2>1 DEF StackInv
  <1>9. ReclaimInv
    BY <1>0 DEF ReclaimInv
  <1> QED BY <1>1, <1>2, <1>3, <1>4, <1>5, <1>6, <1>7, <1>8, <1>9 DEF IInv

LEMMA StutterIInv == ASSUME IInv, UNCHANGED vars PROVE IInv'
  <1>1. /\ UNCHANGED <<cpu, samples, taken, clean, stale>>
        /\ UNCHANGED <<session, batchOk, batch, must, rows, todo, RoundNumber, reported>>
        /\ UNCHANGED <<counts, val, stacks, born>>
    BY DEF vars, progs, reader
  <1>2. Types'
    BY <1>1 DEF IInv, Types
  <1>3. Bounded'
    BY <1>1 DEF IInv, Bounded, Finished, Active
  <1>4. PointerInv'
    BY <1>1 DEF IInv, PointerInv, Pointing
  <1>5. AloneInv'
    BY <1>1 DEF IInv, AloneInv, Counting
  <1>6. RoundInv'
    BY <1>1 DEF IInv, RoundInv, Pending, Present
  <1>7. AtMostInv'
    <2>1. ASSUME NEW k \in Key PROVE AtMost(k)' = AtMost(k)
      <3>1. Live(k)' = Live(k) /\ Ended(k)' = Ended(k)
        BY <1>1, SameLive DEF Ended, Updating
      <3>2. Prior(k)' = Prior(k)
        BY <1>1 DEF Prior, Pending
      <3> QED BY <1>1, <3>1, <3>2 DEF AtMost
    <2> QED BY <1>1, <2>1 DEF IInv, AtMostInv
  <1>8. AtLeastInv'
    <2>1. ASSUME NEW k \in Key PROVE AtLeast(k)' = AtLeast(k)
      <3>1. Live(k)' = Live(k)
        BY <1>1, SameLive
      <3> QED BY <1>1, <3>1 DEF AtLeast
    <2> QED BY <1>1, <2>1 DEF IInv, AtLeastInv
  <1>9. StackInv'
    BY <1>1 DEF IInv, StackInv
  <1>10. ReclaimInv'
    BY <1>1 DEF IInv, ReclaimInv
  <1> QED BY <1>2, <1>3, <1>4, <1>5, <1>6, <1>7, <1>8, <1>9, <1>10 DEF IInv

LEMMA NextIInv == IInv /\ [Next]_vars => IInv'
  <1> SUFFICES ASSUME IInv, [Next]_vars PROVE IInv'
    OBVIOUS
  <1>1. ASSUME NEW c \in Cpus,
               (\E t \in Tasks : Sample(c, t)) \/ UserStack(c) \/ Lookup(c) \/ Insert(c) \/ Load(c) \/ Store(c)
        PROVE  IInv'
    BY <1>1, TypesHandlers, BoundedHandlers, PointerHandlers, AloneHandlers, RoundHandlers,
       AtMostHandlers, AtLeastHandlers, StackHandlers, ReclaimHandlers DEF IInv
  <1>2. ASSUME \/ Tick \/ EndBatch \/ EndIterate \/ SendEvents \/ ClearStacksMap \/ EndReset
               \/ \E k \in Key : ReadBatch(k) \/ ReadNext(k) \/ Resolve(k) \/ ClearCount(k)
               \/ \E b \in Buckets : ClearStack(b)
        PROVE  IInv'
    <2>1. PointerInv'
      BY <1>2, ResetCpu
    <2>2. Types' /\ Bounded' /\ AloneInv' /\ RoundInv'
      BY <1>2, TypesReset, BoundedReset, AloneReset, RoundReset
    <2>3. AtMostInv' /\ AtLeastInv' /\ StackInv' /\ ReclaimInv'
      BY <1>2, AtMostReset, AtLeastReset, StackReset, ReclaimReset
    <2> QED BY <2>1, <2>2, <2>3 DEF IInv
  <1>3. CASE UNCHANGED vars
    BY <1>3, StutterIInv
  <1> QED BY <1>1, <1>2, <1>3 DEF Next, Quiet

LEMMA Invariance == Spec => []IInv
  BY InitIInv, NextIInv, PTL DEF Spec

\* The variables of the oncpu program and of Reset keep their types.  In
\* particular no count in the map, none that a handler has loaded and none
\* that was read exceeds the number of samples, races and reused slots
\* included.
THEOREM TypeCorrect == Spec => []TypeOK
  <1>1. IInv => TypeOK
    <2> SUFFICES ASSUME IInv PROVE TypeOK
      OBVIOUS
    <2>f. Finished \in Nat /\ Finished <= samples /\ samples \in 0..MaxSamples /\ MaxSamples \in Nat
      BY FinishedType, Consts DEF IInv, Types
    <2>1. ASSUME NEW c \in Cpus, cpu[c].pc # "idle"
          PROVE  /\ cpu[c].pc \in {"user", "lookup", "insert", "load", "store"}
                 /\ cpu[c].task \in Tasks /\ KeyOf(cpu[c]) \in Key
                 /\ cpu[c].ptr \in 0..CountsSize /\ cpu[c].seen \in 0..MaxSamples
      <3>1. cpu[c] \in Handler /\ cpu[c].task \in Tasks
        BY <2>1 DEF IInv, Types
      <3>2. KeyOf(cpu[c]) \in Key
        BY <3>1, KeyType
      <3>3. cpu[c].seen \in Nat /\ cpu[c].seen <= Finished
        BY <3>1 DEF IInv, Bounded, Handler
      <3>4. cpu[c].seen \in 0..MaxSamples
        BY <2>f, <3>3
      <3> QED BY <2>1, <3>1, <3>2, <3>4 DEF Handler
    <2>2. val \in [Slots -> 0..MaxSamples]
      <3>1. val \in [Slots -> Nat] /\ \A i \in Slots : val[i] <= Finished
        BY DEF IInv, Types, Bounded
      <3>2. \A i \in Slots : val[i] \in 0..MaxSamples
        BY <2>f, <3>1
      <3> QED BY <3>1, <3>2
    <2>3. Range(rows) \subseteq Row
      <3>1. rows \in [DOMAIN rows -> AnyRow] /\ \A k \in DOMAIN rows : rows[k].count <= Finished
        BY DEF IInv, Types, Bounded
      <3>2. ASSUME NEW k \in DOMAIN rows PROVE rows[k] \in Row
        <4>1. rows[k] \in AnyRow /\ rows[k].count <= Finished
          BY <3>1
        <4>2. rows[k].count \in 0..MaxSamples
          BY <2>f, <4>1 DEF AnyRow
        <4> QED BY <4>1, <4>2 DEF AnyRow, Row
      <3> QED BY <3>2 DEF Range
    <2>4. Types
      BY DEF IInv
    <2> QED BY <2>1, <2>2, <2>3, <2>4 DEF TypeOK, Types
  <1> QED BY <1>1, Invariance, PTL

\* Unlocked increments, racing insertions and the deletions of Reset count no
\* sample twice: between two rounds, what was reported for a key and what the
\* map still holds is at most the samples taken under it.
THEOREM NoSampleTwice == Spec => []NoOvercount
  <1>1. IInv => NoOvercount
    <2> SUFFICES ASSUME IInv, session = "idle", NEW k \in Key \ stale
                 PROVE  reported[k] + Live(k) <= taken[k]
      BY DEF NoOvercount
    <2>1. Prior(k) + Live(k) <= Ended(k)
      BY DEF IInv, AtMostInv, AtMost
    <2>2. Prior(k) = reported[k]
      BY DEF Prior, Pending
    <2>3. Updating(k) \subseteq Cpus
      BY DEF Updating
    <2>4. Cardinality(Updating(k)) \in Nat
      BY <2>3, CpuSets
    <2>5. taken[k] \in Nat /\ reported[k] \in Nat /\ Live(k) \in Nat
      BY CountTypes DEF IInv, Types
    <2> QED BY <2>1, <2>2, <2>4, <2>5 DEF Ended
  <1> QED BY <1>1, Invariance, PTL

\* A sample that neither Reset nor another handler of its key disturbed is
\* counted until a round reads it, is read by the next round, and is reported
\* with its own stacks.
THEOREM UndisturbedSamplesReported == Spec => []UndisturbedReported
  <1>1. IInv => UndisturbedReported
    <2> SUFFICES ASSUME IInv PROVE UndisturbedReported
      OBVIOUS
    <2>1. \A k \in Key \ stale : Live(k) >= Len(clean[k])
      BY DEF IInv, AtLeastInv, AtLeast
    <2>2. \A k \in DOMAIN rows : k \notin stale => rows[k].count >= Len(rows[k].claim)
      BY DEF IInv, AtLeastInv
    <2>3. ASSUME NEW k \in DOMAIN rows, rows[k].done, NEW t \in ToSet(rows[k].claim)
          PROVE  /\ k.kern # Error => rows[k].kern = t.kern
                 /\ k.user # Error => rows[k].user = t.user
      <3>1. PICK i \in DOMAIN rows[k].claim : t = rows[k].claim[i]
        BY <2>3 DEF ToSet
      <3> QED BY <2>3, <3>1 DEF IInv, StackInv
    <2>4. session \in {"resolve", "clearCounts", "clearStacks"} => \A k \in Key : clean[k] = <<>>
      BY DEF IInv, RoundInv
    <2> QED BY <2>1, <2>2, <2>3, <2>4 DEF UndisturbedReported
  <1> QED BY <1>1, Invariance, PTL

LEMMA LastMultiple ==
    ASSUME NEW n \in Nat, NEW m \in Nat, m >= 1
    PROVE  n - (n % m) \in 0..n /\ (n - (n % m)) % m = 0
  <1>1. n - (n % m) \in 0..n
    OBVIOUS
  <1>2. n = (m * (n \div m)) + (n % m)
    OBVIOUS
  <1>3. PICK q \in Nat, r \in Nat : q = n \div m /\ r = n % m
    OBVIOUS
  <1>4. n = (m * q) + r
    BY <1>2, <1>3
  <1>5. n - r = m * q
    BY <1>4
  <1>6. (m * q) % m = 0
    OBVIOUS
  <1>7. (n - r) % m = 0
    BY <1>5, <1>6
  <1> QED BY <1>1, <1>3, <1>7

\* After a full clearing of the stack map, no stack that was stored in an
\* earlier round is left, not even one that no counted key names.
THEOREM OldStacksCleared == Spec => []StacksReclaimed
  <1>1. IInv => StacksReclaimed
    <2> SUFFICES ASSUME IInv, session = "idle", NEW b \in Buckets, stacks[b] # NoStack
                 PROVE  born[b] >= RoundNumber - (RoundNumber % FullEvery)
      BY DEF StacksReclaimed
    <2>1. RoundNumber \in Nat /\ FullEvery \in Nat /\ FullEvery >= 1
      BY Consts DEF IInv, Types
    <2>a. PICK r \in Nat, f \in Nat : r = RoundNumber /\ f = FullEvery /\ f >= 1
      BY <2>1
    <2>b. PICK m : m = r - (r % f)
      OBVIOUS
    <2>c. m \in 0..r /\ m % f = 0
      <3>1. r - (r % f) \in 0..r /\ (r - (r % f)) % f = 0
        BY <2>a, LastMultiple
      <3> QED BY <2>b, <3>1, Zenon
    <2>2. m = RoundNumber - (RoundNumber % FullEvery) /\ m \in 0..RoundNumber /\ m % FullEvery = 0
      <3>1. r = RoundNumber /\ f = FullEvery
        BY <2>a
      <3>2. r - (r % f) = RoundNumber - (RoundNumber % FullEvery)
        BY <3>1, Zenon
      <3>3. m \in 0..RoundNumber
        BY <2>c, <3>1
      <3>4. m % FullEvery = 0
        BY <2>c, <3>1
      <3> QED BY <2>b, <3>2, <3>3, <3>4, Zenon
    <2>3. born[b] >= m
      BY <2>2 DEF IInv, ReclaimInv
    <2> QED BY <2>2, <2>3
  <1> QED BY <1>1, Invariance, PTL

\* Every key that Reset deletes after sending the events is still in the map,
\* so its DeleteKey finds it and Reset does not end half-way.
THEOREM ResetNeverFails == Spec => []ResetCompletes
  <1>1. IInv => ResetCompletes
    BY DEF IInv, RoundInv, Pending, ResetCompletes
  <1> QED BY <1>1, Invariance, PTL

=============================================================================
