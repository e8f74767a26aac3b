---------------------------- MODULE OnCpuSampler ----------------------------
(***************************************************************************)
(* The oncpu tool: do_perf_event counts a sample on every CPU in the hash  *)
(* map counts, under a key that holds the ids of its two stacks in the     *)
(* stack map, while Reset of the session reads and empties both maps.      *)
(* Nothing is locked.                                                      *)
(*                                                                         *)
(* counts is preallocated: a deleted element is free at once and may serve *)
(* another key while a handler still points to it.  An element is a slot,  *)
(* its key and its value.  Only the id of a stack is in a key, so clearing *)
(* the stack map changes what older keys mean.                             *)
(***************************************************************************)
EXTENDS Integers, Sequences, FiniteSets, SequencesExt

CONSTANTS
    Cpus,
    Tasks,         \* what a sample can find: [pid, kern, user]
    Stacks,        \* the stacks, NoStack excluded
    NoStack,       \* no stack: of the other mode, or none in the map
    Free,          \* the key of an unused slot of counts
    Bucket,        \* Bucket[s]: the bucket of the stack map that s hashes to
    CountsSize,    \* PROFILE_MAPS_SIZE of counts, 16384 in the code
    FullEvery,     \* rounds between two full clearings of stacks, 10 in the code
    MaxSamples,    \* bound on the samples
    MaxRounds      \* bound on the rounds of the session

ASSUME SamplerAssumption ==
    /\ IsFiniteSet(Cpus) /\ IsFiniteSet(Stacks) /\ NoStack \notin Stacks
    /\ Bucket \in [Stacks -> Nat]
    /\ Tasks \subseteq [pid : Nat, kern : Stacks \cup {NoStack}, user : Stacks \cup {NoStack}]
    /\ CountsSize \in Nat \ {0} /\ FullEvery \in Nat \ {0}
    /\ MaxSamples \in Nat /\ MaxRounds \in Nat

Slots   == 1..CountsSize
Buckets == {Bucket[s] : s \in Stacks}
Error   == -1                           \* a negative stack id
Ids     == Buckets \cup {Error}
Key     == [pid : {t.pid : t \in Tasks}, kern : Ids, user : Ids]

ASSUME FreeAssumption == Free \notin Key

VARIABLES
    cpu,          \* cpu[c]: the handler running on c, see Idle
    counts,       \* counts[i]: the key of slot i, or Free
    val,          \* val[i]: the count in slot i
    stacks,       \* stacks[b]: the stack in bucket b, or NoStack
    session,      \* where Reset is
    batchOk,      \* whether the kernel has lookup_and_delete_batch
    batch,        \* whether this round read counts that way
    must,         \* keys that were in counts when the reading began
    rows,         \* rows[k]: what this round has read for key k
    todo,         \* keys, then buckets, still to be deleted
    RoundNumber,
    samples,      \* number of samples taken
    taken,        \* history: taken[k], samples that were to be counted under k
    reported,     \* history: reported[k], sum of the counts read for k
    clean,        \* history: clean[k], undisturbed samples not yet read
    stale,        \* history: keys hit by a store through an outdated pointer
    born          \* history: born[b], the round in which bucket b was filled

progs   == <<cpu, samples, taken, clean, stale>>
reader  == <<session, batchOk, batch, must, rows, todo, RoundNumber, reported>>
vars    == <<progs, reader, counts, val, stacks, born>>

\* alone: nothing has disturbed the handler; gone: its slot was deleted.
Idle == [pc |-> "idle", task |-> NoStack, kern |-> Error, user |-> Error,
         ptr |-> 0, seen |-> 0, alone |-> FALSE, gone |-> FALSE]

Present   == {counts[i] : i \in Slots} \ {Free}
SlotOf(k) == CHOOSE i \in Slots : counts[i] = k
KeyOf(h)  == [pid |-> h.task.pid, kern |-> h.kern, user |-> h.user]

\* The args map is never written by the session: profile everything but the
\* idle tasks.
args == [tgid_filter |-> 0, space_filter |-> 0]

Init ==
    /\ cpu = [c \in Cpus |-> Idle]
    /\ counts = [i \in Slots |-> Free] /\ val = [i \in Slots |-> 0]
    /\ stacks = [b \in Buckets |-> NoStack] /\ born = [b \in Buckets |-> 0]
    /\ session = "idle" /\ batchOk \in BOOLEAN /\ batch = FALSE
    /\ must = {} /\ rows = <<>> /\ todo = {}
    /\ RoundNumber = 0 /\ samples = 0
    /\ taken = [k \in Key |-> 0] /\ reported = [k \in Key |-> 0]
    /\ clean = [k \in Key |-> <<>>] /\ stale = {}

----------------------------------------------------------------------------
Targeted(t) ==
    /\ args.tgid_filter # 0 => t.pid = args.tgid_filter
    /\ args.space_filter = 0 => t.pid # 0

\* Faulty: the error is taken for an unsigned id.
GetStackIdUnsigned(s) ==
    IF s # NoStack /\ stacks[Bucket[s]] \in {s, NoStack} THEN Bucket[s] ELSE Cardinality(Stacks)

\* bpf_get_stackid without BPF_F_REUSE_STACKID: another stack in the bucket,
\* or no stack of this mode, is an error.
GetStackId(s) ==
    IF s # NoStack /\ stacks[Bucket[s]] \in {s, NoStack} THEN Bucket[s] ELSE Error

\* What it leaves in the map.
StoreStack(s) ==
    IF s = NoStack \/ stacks[Bucket[s]] # NoStack
    THEN UNCHANGED <<stacks, born>>
    ELSE /\ stacks' = [stacks EXCEPT ![Bucket[s]] = s]
         /\ born' = [born EXCEPT ![Bucket[s]] = RoundNumber]

\* do_perf_event up to the kernel stack.
Sample(c, t) ==
    /\ cpu[c].pc = "idle" /\ samples < MaxSamples
    /\ Targeted(t)
    /\ samples' = samples + 1
    /\ StoreStack(t.kern)
    /\ cpu' = [cpu EXCEPT ![c] = [Idle EXCEPT !.pc = "user", !.task = t,
                                              !.kern = GetStackId(t.kern),
                                              !.alone = (session = "idle")]]
    /\ UNCHANGED <<reader, counts, val, taken, clean, stale>>

UserStack(c) ==
    /\ cpu[c].pc = "user"
    /\ StoreStack(cpu[c].task.user)
    /\ cpu' = [cpu EXCEPT ![c].pc = "lookup", ![c].user = GetStackId(cpu[c].task.user)]
    /\ UNCHANGED <<samples, reader, counts, val, taken, clean, stale>>

\* The handlers between their lookup of k and the end of their update.
Updating(k) == {c \in Cpus : cpu[c].pc \in {"insert", "load", "store"} /\ KeyOf(cpu[c]) = k}

\* The lookup in counts.
Lookup(c) ==
    /\ cpu[c].pc = "lookup"
    /\ LET k      == KeyOf(cpu[c])
           others == Updating(k)
           found  == k \in Present
       IN  /\ taken' = [taken EXCEPT ![k] = @ + 1]
           /\ cpu' = [d \in Cpus |->
                CASE d = c         -> [cpu[c] EXCEPT !.pc = IF found THEN "load" ELSE "insert",
                                                     !.ptr = IF found THEN SlotOf(k) ELSE 0,
                                                     !.alone = @ /\ others = {}]
                  [] d \in others  -> [cpu[d] EXCEPT !.alone = FALSE]
                  [] OTHER         -> cpu[d]]
    /\ UNCHANGED <<samples, reader, counts, val, stacks, clean, stale, born>>

\* The end of a handler; a sample that was counted undisturbed is remembered.
Done(c, counted) ==
    /\ cpu' = [cpu EXCEPT ![c] = Idle]
    /\ clean' = IF counted /\ cpu[c].alone
                THEN [clean EXCEPT ![KeyOf(cpu[c])] = Append(@, cpu[c].task)] ELSE clean

\* Faulty: the value inserted is zero.
InsertZero(c) ==
    /\ cpu[c].pc = "insert"
    /\ LET k == KeyOf(cpu[c])
           room == k \notin Present /\ \E i \in Slots : counts[i] = Free
       IN  /\ IF room
              THEN \E i \in {j \in Slots : counts[j] = Free} :
                       counts' = [counts EXCEPT ![i] = k] /\ val' = [val EXCEPT ![i] = 0]
              ELSE UNCHANGED <<counts, val>>
           /\ Done(c, room)
    /\ UNCHANGED <<samples, reader, stacks, taken, stale, born>>

\* The lookup found nothing: the key is inserted with BPF_NOEXIST.  The
\* sample is lost when another CPU was faster or the map is full.
Insert(c) ==
    /\ cpu[c].pc = "insert"
    /\ LET k == KeyOf(cpu[c])
           room == k \notin Present /\ \E i \in Slots : counts[i] = Free
       IN  /\ IF room
              THEN \E i \in {j \in Slots : counts[j] = Free} :
                       counts' = [counts EXCEPT ![i] = k] /\ val' = [val EXCEPT ![i] = 1]
              ELSE UNCHANGED <<counts, val>>
           /\ Done(c, room)
    /\ UNCHANGED <<samples, reader, stacks, taken, stale, born>>

\* The two halves of (*val)++.
Load(c) ==
    /\ cpu[c].pc = "load"
    /\ cpu' = [cpu EXCEPT ![c].pc = "store", ![c].seen = val[cpu[c].ptr]]
    /\ UNCHANGED <<samples, reader, counts, val, stacks, taken, clean, stale, born>>

Store(c) ==
    /\ cpu[c].pc = "store"
    /\ val' = [val EXCEPT ![cpu[c].ptr] = cpu[c].seen + 1]
    /\ stale' = IF cpu[c].gone THEN stale \cup ({counts[cpu[c].ptr]} \ {Free}) ELSE stale
    /\ Done(c, TRUE)
    /\ UNCHANGED <<samples, reader, counts, stacks, taken, born>>

----------------------------------------------------------------------------
\* The ticker: Reset begins to read counts.
Tick ==
    /\ session = "idle" /\ RoundNumber < MaxRounds
    /\ RoundNumber' = RoundNumber + 1
    /\ session' = IF batchOk THEN "batch" ELSE "iterate"
    /\ must' = Present /\ rows' = <<>>
    /\ cpu' = [c \in Cpus |-> [cpu[c] EXCEPT !.alone = FALSE]]
    /\ UNCHANGED <<batchOk, batch, todo, reported, samples, taken, clean, stale,
                   counts, val, stacks, born>>

\* Slot i leaves the map; pointers to it are outdated.
Delete(i) ==
    /\ counts' = [counts EXCEPT ![i] = Free]
    /\ cpu' = [c \in Cpus |-> [cpu[c] EXCEPT !.gone = @ \/ cpu[c].ptr = i]]

\* Key k and its value are read.  claim: the undisturbed samples that the
\* value must hold.
ReadRow(k) ==
    /\ k \in Present \ DOMAIN rows
    /\ rows' = [j \in DOMAIN rows \cup {k} |->
                   IF j = k THEN [count |-> val[SlotOf(k)], claim |-> clean[k], done |-> FALSE,
                                  kern |-> NoStack, user |-> NoStack]
                   ELSE rows[j]]
    /\ reported' = [reported EXCEPT ![k] = @ + val[SlotOf(k)]]
    /\ clean' = [clean EXCEPT ![k] = <<>>]

\* Faulty: the batch is read and not deleted.
ReadBatchKeeping(k) ==
    /\ session = "batch"
    /\ ReadRow(k)
    /\ UNCHANGED <<cpu, counts, session, batchOk, batch, must, todo, RoundNumber,
                   samples, taken, stale, val, stacks, born>>

\* GetValueAndDeleteBatch at key k.
ReadBatch(k) ==
    /\ session = "batch"
    /\ ReadRow(k)
    /\ Delete(SlotOf(k))
    /\ UNCHANGED <<session, batchOk, batch, must, todo, RoundNumber,
                   samples, taken, stale, val, stacks, born>>

\* Faulty: the keys of the batch are deleted once more.
EndBatchUnmarked ==
    /\ session = "batch" /\ must \subseteq DOMAIN rows
    /\ batch' = FALSE
    /\ session' = IF rows = <<>> THEN "iterate" ELSE "resolve"
    /\ must' = IF rows = <<>> THEN Present ELSE {}
    /\ UNCHANGED <<progs, batchOk, rows, todo, RoundNumber, reported, counts, val, stacks, born>>

\* The batch ends once every key that was there has been read; one that came
\* in between may have been.  An empty batch is tried again by iterating.
EndBatch ==
    /\ session = "batch" /\ must \subseteq DOMAIN rows
    /\ batch' = (rows # <<>>)
    /\ session' = IF rows = <<>> THEN "iterate" ELSE "resolve"
    /\ must' = IF rows = <<>> THEN Present ELSE {}
    /\ UNCHANGED <<progs, batchOk, rows, todo, RoundNumber, reported, counts, val, stacks, born>>

\* The iterator at key k, and GetValue.
ReadNext(k) ==
    /\ session = "iterate"
    /\ ReadRow(k)
    /\ UNCHANGED <<cpu, counts, session, batchOk, batch, must, todo, RoundNumber,
                   samples, taken, stale, val, stacks, born>>

EndIterate ==
    /\ session = "iterate" /\ must \subseteq DOMAIN rows
    /\ session' = "resolve" /\ batch' = FALSE /\ must' = {}
    /\ UNCHANGED <<progs, batchOk, rows, todo, RoundNumber, reported, counts, val, stacks, born>>

\* getStack
GetStack(id) == IF id = Error THEN NoStack ELSE stacks[id]

\* The two stacks of key k are fetched.
Resolve(k) ==
    /\ session = "resolve" /\ k \in DOMAIN rows /\ ~rows[k].done
    /\ rows' = [rows EXCEPT ![k].done = TRUE,
                            ![k].kern = GetStack(k.kern), ![k].user = GetStack(k.user)]
    /\ UNCHANGED <<progs, session, batchOk, batch, must, todo, RoundNumber, reported,
                   counts, val, stacks, born>>

\* The events have been sent: clearCountsMap begins.
SendEvents ==
    /\ session = "resolve" /\ \A k \in DOMAIN rows : rows[k].done
    /\ session' = "clearCounts"
    /\ todo' = IF batch THEN {} ELSE DOMAIN rows
    /\ UNCHANGED <<progs, batchOk, batch, must, rows, RoundNumber, reported,
                   counts, val, stacks, born>>

\* DeleteKey; a key that is not found would end Reset here, see ResetCompletes.
ClearCount(k) ==
    /\ session = "clearCounts" /\ k \in todo \cap Present
    /\ todo' = todo \ {k}
    /\ Delete(SlotOf(k))
    /\ UNCHANGED <<session, batchOk, batch, must, rows, RoundNumber, reported,
                   samples, taken, clean, stale, val, stacks, born>>

KnownStacks == {k.kern : k \in DOMAIN rows} \cup {k.user : k \in DOMAIN rows}

\* Faulty: the stacks of no key read are never cleared.
ClearStacksMapKnownOnly ==
    /\ session = "clearCounts" /\ todo = {}
    /\ session' = "clearStacks"
    /\ todo' = KnownStacks \ {Error}
    /\ UNCHANGED <<progs, batchOk, batch, must, rows, RoundNumber, reported,
                   counts, val, stacks, born>>

\* clearStacksMap: the stacks of the keys read, once in a while all of them.
ClearStacksMap ==
    /\ session = "clearCounts" /\ todo = {}
    /\ session' = "clearStacks"
    /\ todo' = IF RoundNumber % FullEvery = 0 THEN Buckets ELSE KnownStacks \ {Error}
    /\ UNCHANGED <<progs, batchOk, batch, must, rows, RoundNumber, reported,
                   counts, val, stacks, born>>

\* One bucket; a missing stack is no error.  The full clearing collects the
\* buckets before it deletes them: one found empty is as if visited then.
ClearStack(b) ==
    /\ session = "clearStacks" /\ b \in todo
    /\ todo' = todo \ {b}
    /\ stacks' = [stacks EXCEPT ![b] = NoStack]
    /\ UNCHANGED <<progs, session, batchOk, batch, must, rows, RoundNumber, reported,
                   counts, val, born>>

EndReset ==
    /\ session = "clearStacks" /\ todo = {}
    /\ session' = "idle" /\ rows' = <<>> /\ batch' = FALSE
    /\ UNCHANGED <<progs, batchOk, must, todo, RoundNumber, reported, counts, val, stacks, born>>

\* No more samples and no more rounds.
Quiet ==
    /\ samples = MaxSamples /\ RoundNumber = MaxRounds
    /\ session = "idle" /\ \A c \in Cpus : cpu[c].pc = "idle"
    /\ UNCHANGED vars

Next ==
    \/ \E c \in Cpus :
        \/ \E t \in Tasks : Sample(c, t)
        \/ UserStack(c) \/ Lookup(c) \/ Insert(c) \/ Load(c) \/ Store(c)
    \/ Tick
    \/ \E k \in Key : ReadBatch(k) \/ ReadNext(k) \/ Resolve(k) \/ ClearCount(k)
    \/ EndBatch \/ EndIterate \/ SendEvents \/ ClearStacksMap
    \/ \E b \in Buckets : ClearStack(b)
    \/ EndReset
    \/ Quiet

Spec == Init /\ [][Next]_vars

----------------------------------------------------------------------------
Row == [count : 0..MaxSamples, claim : Seq(Tasks), done : BOOLEAN,
        kern : Stacks \cup {NoStack}, user : Stacks \cup {NoStack}]

TypeOK ==
    /\ \A c \in Cpus : cpu[c].pc # "idle" =>
          /\ cpu[c].pc \in {"user", "lookup", "insert", "load", "store"}
          /\ cpu[c].task \in Tasks /\ KeyOf(cpu[c]) \in Key
          /\ cpu[c].ptr \in 0..CountsSize /\ cpu[c].seen \in 0..MaxSamples
    /\ counts \in [Slots -> Key \cup {Free}] /\ val \in [Slots -> 0..MaxSamples]
    /\ stacks \in [Buckets -> Stacks \cup {NoStack}]
    /\ session \in {"idle", "batch", "iterate", "resolve", "clearCounts", "clearStacks"}
    /\ {batchOk, batch} \subseteq BOOLEAN
    /\ must \subseteq Key /\ DOMAIN rows \subseteq Key /\ Range(rows) \subseteq Row
    /\ todo \subseteq (IF session = "clearStacks" THEN Buckets ELSE Key)
    /\ RoundNumber \in 0..MaxRounds /\ samples \in 0..MaxSamples

Live(k) == IF k \in Present THEN val[SlotOf(k)] ELSE 0

\* Between two rounds, what the session has reported for a key and what is
\* still in counts is never more than the samples taken: unlocked increments,
\* racing insertions and the deletions of Reset lose samples but count none
\* twice, unless a store went through a pointer to a deleted slot that holds
\* a key again (stale).
NoOvercount ==
    session = "idle" => \A k \in Key \ stale : reported[k] + Live(k) <= taken[k]

\* A sample whose handler ran while no Reset was under way and no other
\* handler updated its key is reported: it stays counted until the next
\* round, that round reads it, and the event carries the sample's own stacks
\* (as far as they got an id).
UndisturbedReported ==
    /\ \A k \in Key \ stale : Live(k) >= Len(clean[k])
    /\ \A k \in DOMAIN rows :
          /\ k \notin stale => rows[k].count >= Len(rows[k].claim)
          /\ rows[k].done => \A t \in ToSet(rows[k].claim) :
                /\ k.kern # Error => rows[k].kern = t.kern
                /\ k.user # Error => rows[k].user = t.user
    /\ session \in {"resolve", "clearCounts", "clearStacks"} => \A k \in Key : clean[k] = <<>>

\* No stack outlives a full clearing: one that was stored for a sample that
\* was then lost, and is thus in no key, blocks its bucket at most until the
\* next round whose number is a multiple of FullEvery.
StacksReclaimed ==
    session = "idle" => \A b \in Buckets :
        stacks[b] # NoStack => born[b] >= RoundNumber - (RoundNumber % FullEvery)

\* Reset never fails half-way: the keys it has still to delete are in counts,
\* whatever was sampled since they were read.
ResetCompletes == session = "clearCounts" => todo \subseteq Present
=============================================================================
