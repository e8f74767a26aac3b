# spycat: a verification project

spycat runs eBPF tools (offcpu, oncpu, futexsnoop, syscall, cachestat) and carries
what they see through a pipeline of Go channels to an exporter (Loki, sqlite, file,
terminal) or to a pyroscope server. This project models the parts of it where
concurrency, failure and limits matter, checks them with TLC, and proves with TLAPS
every safety invariant of the passing runs for all values of the constants. Every
definition is translated from the source lines that `PROJECT.json` names under `map`.

## The system

| Component | State it keeps | Operations |
|---|---|---|
| eBPF programs (`pkg/ebpf/**/*.bpf.c`) | kernel hash maps shared by all CPUs | one handler per tracepoint, kprobe or sample |
| sessions (`pkg/ebpf/cpu`, `pkg/ebpf/mem`) | perf buffer or ticker | `HandleEvent`, `Reset`: turn samples into events, send them to the receiver |
| receiver (`pkg/component/receiver`) | `eventCh`, 2e5 events | `consumeEvents`, `sendToConsumers` |
| detector manager and detectors (`pkg/component/detector`) | `eventChan` of each detector; tries of the cpu detector | `ConsumeEvent`, `ConsumeChanEvents`, `ProcessEvent` |
| processor (`pkg/component/processor`) | aggregator (unused) | `Consume`, `runTicker` |
| exporters (`pkg/component/exporter`) | channel of 5000 entries, batch, timer | `Consume`, `Run`, `Flush`, `ShutDown` |
| pyroscope client (`.../upstream/remote`) | `jobs`, 100 tries | `Upload`, `handleJobs`, `safeUpload` |
| symbol tables, trie, aggregator | caches and trees | pure algorithms |
| `internal/app`, `pkg/config`, `pkg/app` | one AppSpy per process | build the pipeline, start the tools |

A session sends to the receiver's channel; the receiver looks the event's tool up in
the lists the detectors own and sends to that detector's channel; the detector makes a
data block and calls the processor, which calls the exporter's `Consume`, which sends
to the exporter's channel. All sends block. With a YAML file one AppSpy serves all the
tools and `Start` is called once for each of them, so there are as many goroutines on
each channel as there are tools. On a signal the process exits at once; no `Stop` or
`ShutDown` runs in the program as it is (a test of the Loki exporter calls its `ShutDown`).

What makes each part correct:

- pipeline: an event is neither lost, duplicated nor misrouted; channels stay within
  their size; a full channel only delays; one tool's events stay in order;
- exporters: a batch is complete, is posted once, and does not wait for ever; a failure
  of one write does not spread; `ShutDown` flushes and returns;
- uploader: a stack put in the trie is uploaded;
- eBPF programs: counts over shared maps agree with what the threads did, or are off
  only in the direction and in the races one can name; an exit is matched with its own
  enter and a switch-in with its own switch-out; options select what they say;
- sessions that read a map while it changes: nothing is reported twice, nothing that
  was complete before a round is left out of it, and a stack id is resolved to the
  stack it was given for.

The hazards behind these, each with its line, are listed in `PROJECT.json`.

## Modules

| Module | Models | Checked by |
|---|---|---|
| `EventDelivery` | what the pipeline promises: every event of a session is settled once, at the exporter or in the trie | refinement target |
| `SpyPipeline` | receiver, detectors, processor, exporter channel, goroutines per tool | `SpyPipeline.cfg`, `SpyPipelineProofs` |
| `SpyPipelineProofs` | theorems and proofs | tlapm |
| `LokiExporter` | `lokiexporter.go` | `LokiExporter.cfg`, `LokiExporterProofs` |
| `LokiExporterProofs` | theorems and proofs | tlapm |
| `SqliteExporter` | `sqlite.go` | `SqliteExporter.cfg`, `SqliteShutDown.cfg`, `SqliteExporterProofs` |
| `SqliteExporterProofs` | theorems and proofs | tlapm |
| `OnCpuUpload` | oncpu branch of the cpu detector, `UploadTries`, `Remote` | `OnCpuUpload.cfg` |
| `FutexSnoop` | `futexsnoop.bpf.c` and `initArgsMap` | `FutexSnoop.cfg`, `FutexCount.cfg`, `FutexPid.cfg`, `FutexSnoopProofs` |
| `FutexSnoopProofs` | theorems and proofs | tlapm |
| `OnCpuSampler` | `oncpu.bpf.c` and `Reset` of `oncpu.go` | `OnCpuSampler.cfg`, `OnCpuSamplerProofs` |
| `OnCpuSamplerProofs` | theorems and proofs | tlapm |
| `OffCpu` | `offcpu.bpf.c` and the dump of the schedule cache in `offcpu.go` | `OffCpu.cfg`, `OffCpuProofs` |
| `OffCpuProofs` | theorems and proofs | tlapm |
| `SyscallSnoop` | `syscall.bpf.c` and the options of `syscall.go` | `SyscallSnoop.cfg`, `SyscallSnoopProofs` |
| `SyscallSnoopProofs` | theorems and proofs | tlapm |
| `CacheStat` | `cachestat.bpf.c` and `Reset` of `cachestat.go` | `CacheStat.cfg`, `CacheStatProofs` |
| `CacheStatProofs` | theorems and proofs | tlapm |

Each `MC...` module instantiates its module for TLC. Definitions introduced by a
comment `Faulty:` are plausible mistakes in the definition that follows them; no
specification uses them. Replacing a definition by its faulty variant makes the
property named with it in `PROJECT.json` fail, which shows that the property looks at
that code.

**SpyPipeline.** `held[p]` is the queue of events at place `p`: a channel, or the hands
of a goroutine between its receive and its next send. Every step but a session's is
`Move(p, q)`: take the head of one queue, wait for room, append to the next. Routing is
the product of four hard-coded lists (`OwnedEvents`, `GetDetectors`, `Blocks`/`Stored`
for `ProcessEvent`, `Forwarded` for the processor). `HandleEvent(t, k)` is a session
that builds `k` events from a sample or a tick and sends them all before it looks at
the next sample. An event is its tool and its number; the labels it carries are left
out. The stack of an oncpu event is never empty (it starts with the command name), so
the test for an empty stack before the insertion in the trie is not modelled.

**LokiExporter, SqliteExporter.** `Run` as a state machine: one action per case of its
`select`, the end of a post or of a table's write as an action of its own, with success
or failure chosen freely. `armed` and `tick` are the timer: `Reset` does not take back
a tick that already waits in the channel (go.mod says 1.20). `CreateInBatches` is one
transaction, so a table's rows are written or lost together. `RowsOf` is the loop of
`Flush` that sorts a batch by table.

**OnCpuUpload.** The steps that hold `trieLock` are atomic; jobs are dropped when the
channel is full; a failed post is not retried.

**FutexSnoop.** A handler is cut where another CPU can interfere: after the lookup in
`lock_map`, after the atomic addition, after the load and before the store of
`max_user_cnt`, and in `futex_exit` between the lookup and the atomic subtraction. A
lookup returns a pointer, so entries are numbered and a handler keeps using the entry
it found even after `BPF_ANY` has replaced it. The kernel may later reuse a replaced
entry for another replacement on the same CPU; that is left out. The maps refuse new
keys when full. The `#else` branch of the `#ifdef __TARGET_ARCH_amd64` is modelled,
because the Makefile defines `__TARGET_ARCH_x86` or `__TARGET_ARCH_arm64` and never
that name. `durs`, `raced`, `leaked` and `peak` are history variables.

**OnCpuSampler.** `do_perf_event` is cut before each access to a shared map: kernel
stack, user stack, lookup, then insertion or the load and the store of `(*val)++`.
`Reset` is cut into every key read, every key's stacks fetched, every key and every
bucket deleted. Elements of `counts` are slots: the map is preallocated, a deleted slot
is free at once and may serve another key while a handler still points to it, which the
history variable `stale` marks. A key holds ids of stacks, an id is a bucket, and a
bucket whose stack was cleared can be filled by another. `batchOk` chooses both ways of
reading; a batch that is empty is tried again by iterating, as in the code. `args` is a
definition because nothing writes that map. Of a round the model follows the keys that
were in the map when it began and allows those that came later.

**OffCpu.** `Switch` and `TryToWakeUp` start a handler on a CPU; the following steps are
its accesses to `start`. `WakeIgnored` is the wake-up of a task the filter excludes,
`WakeUnseen` one from an interrupt that came during another handler of that CPU, for
which the kernel does not run the hook.
Preemption is off in a handler and none lasts a millisecond, so `Advance` waits for
them; handlers on different CPUs interleave freely. A task cannot be switched in before
the handler of its switch-out has ended (the kernel waits for `on_cpu`), but it can be
woken. The idle tasks of all CPUs have pid 0 and share an entry; the properties say
nothing of them. As in `FutexSnoop`, reuse of a replaced entry is left out. The record a
CPU fills for its event is a per-CPU array element: `is_sched_cache_dump` and `cpu` stay
set in it after the first slow task, so every later event of that CPU asks the session
for a dump, although `offcpu.h` says "1: dump, 0: no dump". The dump it then finds is
the old one; `DumpReady` states what does hold.

**SyscallSnoop.** Both handlers of one tid run in that thread and never overlap, so each
is one step; what matters is which calls meet which entries, because `sys_exit` never
deletes one. The environment produces all the ways an exit can come without its enter
or an enter without its exit: calls under way at the start, `fork`, `execve` by a thread
that is not the leader, `rt_sigreturn` (the exit's number is -1), `exit`, and reuse of a
tid. An unknown name for `--syscall` is no filter, as in `SyscallNameToId`. `PerMs` ticks
make a millisecond, so the division in `sys_exit` is there.

**CacheStat.** A hook is cut at the lookup, the insertion, the load of the size, its
store together with the load of the count, and the store of the count. The map is never
emptied, so slots change hands only when a racing insertion replaces an element: the
kernel puts the new one in the spare slot of the CPU and keeps the old slot as the next
spare, to which a handler may still point (`stale`). The size is cast to `int` and added
to an unsigned field, both with their width (`Half` for 2^31). A file is the address of
its name, as in the key.

## Runs

| Run | Bounds | Shows |
|---|---|---|
| `pipeline` | two tools of two detectors, channels of 1 and 2, bursts of up to 2, 2 events each | all channels fill and all goroutines compete; one tool's events go to the exporter, the other's to the trie; safety, refinement and liveness |
| `loki` | channel 2, batches past 2, 5 entries | flush by size, by time and at shutdown, with failures in between |
| `sqlite` | two tables, channel 2, batches past 1, 4 items | two tables in one batch, each write failing or not |
| `sqlite_shutdown` | one table | `ShutDown` never returns: `Run` ignores `quit` |
| `oncpu_upload` | another server than the default | the trie is filled exactly when nothing uploads it |
| `futex` | three threads, two locks, start map of 2, lock map of 1, hists of 2, 4 calls, counters of 4 values | every map fills, first users race, calls fail, the counter wraps |
| `futex_count` | two threads, one lock | two first users: one is not counted |
| `futex_pid` | `--pid 11` | thread 12 of process 11 is not traced |
| `oncpu` | 2 CPUs, counts of 2, 2 stacks in one bucket and a third, full clearing every 2 rounds, 3 samples, 2 rounds, with and without batches | no sample is reported twice, an undisturbed one is reported with its own stacks, `Reset` never stops half-way, no stack blocks a bucket for ever |
| `offcpu` | 2 CPUs, 2 tasks and idle, start of 2, cache of 2, 4 switches, 2 wake-ups, 3 ms, `--pid` of each task or none | times and waker of an event are those of the task's last time off CPU; none in the range is missed; the dump is there when the event is |
| `syscall` | 2 tids, start of 1, milliseconds of 2 ticks, 1 to 2 ms, 5 ticks, 4 calls, each filter | a call that was seen to begin is never measured from another one, and is sent when in range |
| `cachestat` | 3 CPUs, map of 2, 3 keys, 5 accesses, 1 round, `int` of 4 values, each option | racing updates lose accesses and invent none; a key used on one CPU at a time is exact; a round is complete |

Sizes in the code (5000, 10000, 2e5, 10240) only matter where they are reached; the
runs reach them with small values. `Word` replaces 2^32 and is larger than the number
of threads, so the counter wraps only where the real one does. Locks are symmetric in
`futex`, CPUs in `oncpu`, `offcpu` and `cachestat`, tasks in `offcpu`. A map is always
smaller than the number of keys that want a place in it, two handlers can be at every
point of their code at once, and `cachestat` has the third CPU without which no outdated
store can hit another element.
`LokiExporter.cfg` turns the deadlock check off because an exporter that has been shut
down really stops; in the other models the idle state is an explicit step.

The five properties of the `futex` run hold with two exceptions that the model
makes visible and that the properties name: a lock whose entry two first users
inserted (`raced`), and a lock counted for a thread the map `start` had no room for
(`leaked`). The other tools have such exceptions too, each a history variable that a
property names, and each needed (without it TLC finds a counterexample):

- `oncpu`, `cachestat`: `stale`, a key hit by a store through a pointer to an element
  that was deleted or replaced, and has been reused;
- `offcpu`: `raced`, a task whose entry was replaced by a wake-up that had found none,
  or refused because `start` was full;
- `syscall`: `began = 0`, the first exit of a forked or moved thread, which may be
  measured from the entry of an earlier thread with its tid; `refused`, a call that
  began while `start` was full of other tids;
- `cachestat`: `raced`, a key two CPUs used at once or that found no room.

**Fairness.** Pipeline: weak fairness of every goroutine's step. The Go scheduler runs
a goroutine that can run, and blocked senders of a channel are served in turn. Nothing
is assumed of new samples. Exporters: strong fairness of each case of the `select`
(Go picks among the ready ones at random), weak fairness of the timer and of the end
of a post or write. The last is an assumption about the peer: the Loki client sets no
timeout, so a server that accepts and never answers stops the exporter. Upload: weak
fairness of the ticker and the upload threads, whose client has a timeout.

## Findings

1. `sqlite.go:166`: the quit case is empty; `ShutDown` waits for ever (run
   `sqlite_shutdown`).
2. `cpudetector.go:90` and `:406`: the uploader runs only for the default server, the
   trie is filled only for the others (run `oncpu_upload`).
3. `futexsnoop.bpf.c:139`: two first users of a lock, one is lost (run `futex_count`).
4. `futexsnoop.go:51`: `Tid`, `Pid` written over `targ_pid`, `targ_tid` (run
   `futex_pid`).

## Proofs

`SpyPipelineProofs` proves, for every subset of the tools, every server, every capacity
greater than zero and every bound (`ToolsAssumption`, `SizeAssumption`):

| Theorem | States |
|---|---|
| `TypeCorrect` | `Safety => []TypeOK` |
| `NothingDropped` | `Safety => []NoSilentDrop` |
| `CapacityRespected` | `Safety => []WithinCapacity` |
| `Conserved` | `Safety => []Conservation` |
| `Implements` | `Safety => DeliverySafety`, the refinement of `EventDelivery` |
| `OrderKept` | `Safety => []OrderWithOneTool` |

The argument: `StepKinds` reduces every step to a start, a burst of a session, a
*proper* move or a stutter. A move is proper when it leaves no sink, goes to no
detector that does not handle the event, and reaches the trie only with an event meant
for it. That every move is proper needs the invariant `IInv == TypeOK /\ NoSilentDrop
/\ EntriesRight`: an event waiting at a detector is one its detector handles, and one
in the exporter's channel is none the trie was meant for. `NoSilentDrop` alone says
nothing about the exporter's channel, so it does not give the refinement; `TypeOK`
is what makes the routing tables apply. `Conserved` then follows from where each event
after a move was before it (`MoveOrigin`) and from the fresh numbers of a burst;
`Implements` from `IInv` and `Conservation`, which make the event at the head of a
queue one that `EventDelivery` has produced and not settled. `OrderKept` looks at the one
path a tool's events take (`Stage`): read from its end back to the session, the queues
hold the tool's events numbered without a gap (`Numbered`, with the number of events
before each stage as a witness), all other places are empty, and with one tool every
move is from a stage to the one before it (`OneToolStep`).

`SyscallSnoopProofs` proves, for every finite set of tids, every set of system calls,
all options, every size of `start` and every bound (`SyscallAssumption`):

| Theorem | States |
|---|---|
| `TypeCorrect` | `Spec => []TypeOK`, with `start` within its size |
| `EventsTrue` | `Spec => []EventTrue` |
| `AllSent` | `Spec => []NothingMissed` |

`EventTrue` and `NothingMissed` speak of the moment of an exit and are not inductive:
what they rest on is `Own`, a fact about every call under way that passed the filters in
`sys_enter`. If the map refused it, its tid has no entry (a tid with an entry is never
refused, because the update replaces it); if not, its entry holds the time and the
process of this very call. Only a thread's own `sys_enter` writes its entry (`EnterOwn`),
and every other step leaves a thread's call alone or ends it (`OwnKept`). `ExitTrue` then
gives both properties at an exit; the second also needs `RangeOfTicks`, that a duration
between the limits passes a test that divides first. The bound on `start` comes from
`EnterWithinSize`.

`LokiExporterProofs` proves, for every capacity, batch size and number of entries
(`LokiAssumption`):

| Theorem | States |
|---|---|
| `TypeCorrect` | `Spec => []TypeOK` |
| `InOrder` | `Spec => []PendingInOrder` |
| `WholeBatches` | `Spec => []PostsAreBatches` |
| `TimerStaysAlive` | `Spec => []TimerAlive` |
| `FlushedAtShutDown` | `Spec => []ShutDownFlushes` |

`PendingInOrder` speaks of one concatenated sequence. `Numbered` says the same of post,
batch and channel one by one, each at its offset from the number of settled entries, so
that every step changes one end of one of them. `Returned` (a `Run` that has returned has
no batch, and `ShutDown` returns after it) is what `ShutDownFlushes` needs besides.

`SqliteExporterProofs` proves, for every set of tables the exporter has, every capacity
and batch size (`SqliteAssumption`):

| Theorem | States |
|---|---|
| `TypeCorrect` | `Spec => []TypeOK` |
| `EveryRowAccounted` | `Spec => []RowsAccounted` |
| `RowsInOrder` | `Spec => []TablesInOrder` |

In the middle of a flush the rows of some tables are written or lost and those of the
others still wait in `posting`. The invariant says which (`Behind`, `Written`: a row is
in a table or lost exactly when it is older than the flush or its table has been
visited), that the rows under way are numbered without a gap (`Numbered`), and that each
table's rows rise. What the sorting loop returns, the rows of one table in the order of
the batch (`RowsOfSlice`), is proved by induction on the length of the batch.

`FutexSnoopProofs` proves, for every finite set of threads, every set of locks, all sizes
and a counter wider than the number of threads (`FutexAssumption`, `NoneAssumption`):

| Theorem | States |
|---|---|
| `TypeCorrect` | `Spec => []TypeOK` |
| `CounterExact` | `Spec => []CountExact` |
| `NoFalseReport` | `Spec => []NoFalseAlarm` |
| `StartOfThisCall` | `Spec => []StartPaired` |
| `HistogramsExact` | `Spec => []HistsExact` |

The counter is exact because a handler's pointer is to the entry of its own lock, the
current one unless two first users raced (`PtrInv`, `MapInv`), and because `futex_exit`
finds in `start` the lock that `futex_enter` counted (`ThreadInv`). `FullInv` covers a
lock with users and without an entry: the map was full and stays so, for no entry is
ever deleted. `PeakInv` bounds what the handlers can see by the highest number of users
there really was, which is why the racy update of the maximum raises no false alarm. For
the histograms, `HistsInv` ties each one to the list of waits recorded in it; that
`FoldLeft` adds a new wait, and that a wait above the average is above one of the waits,
are proved by induction on the list.

`OnCpuSamplerProofs` proves, for every finite set of CPUs and stacks, every assignment of
stacks to buckets and all sizes (`SamplerAssumption`, `FreeAssumption`):

| Theorem | States |
|---|---|
| `TypeCorrect` | `Spec => []TypeOK` |
| `NoSampleTwice` | `Spec => []NoOvercount` |
| `UndisturbedSamplesReported` | `Spec => []UndisturbedReported` |
| `OldStacksCleared` | `Spec => []StacksReclaimed` |
| `ResetNeverFails` | `Spec => []ResetCompletes` |

A pointer that has not outlived its slot is to the slot of the handler's key
(`PointerInv`), so a store hits that key; any other store makes the key it hits `stale`.
`AtMostInv` bounds, for a key that is not stale, what was reported before plus what the
map, or a handler about to store, holds by the samples whose handlers have ended; during a
round what is read and not yet deleted counts once (`Prior`, `Pending`). `AtLeastInv` is
the bound from below by the undisturbed samples, which `AloneInv` keeps free of other
handlers and of `Reset`, and `StackInv` keeps their stacks where their ids point.
`RoundInv` says that the keys to delete are present, which gives `ResetCompletes`;
`ReclaimInv` says which buckets of a clearing under way have been visited.

`OffCpuProofs` proves, for every set of CPUs, every finite set of tasks and all options
and sizes (`OffCpuAssumption`):

| Theorem | States |
|---|---|
| `TypeCorrect` | `Spec => []TypeOK` |
| `SentTimes` | `Spec => []TimesTrue` |
| `SentWaker` | `Spec => []WakerTrue` |
| `AllSent` | `Spec => []NothingMissed` |
| `DumpThere` | `Spec => []DumpReady` |

The invariant follows a task through its time off CPU: leaving, until the handler of its
switch-out has written its entry; then off; then coming, until the handler of its
switch-in has ended. `SchedInv` has the scheduler's part (one CPU per task, a task that
leaves is not back before its handler has ended), `OwnerInv` that an entry belongs to one
task even after it was replaced. `EntryInv` says that while the task is off or coming its
entry has the time and the run delay of this very switch-out, or the task is `raced`:
wake-ups that find the entry write other fields. `WakerInv` does the same for the waker,
and `CacheInv` for the ring of switches of each CPU.

`CacheStatProofs` proves, for every finite set of CPUs, every set of accesses and all
options and sizes (`CacheStatAssumption`, `FreeAssumption`):

| Theorem | States |
|---|---|
| `TypeCorrect` | `Spec => []TypeOK` |
| `NoAccessTwice` | `Spec => []NoOvercount` |
| `UndisturbedExact` | `Spec => []Undisturbed` |
| `RoundsReport` | `Spec => []RoundComplete` |

The pointers are treated as in `OnCpuSamplerProofs`. The bound on the sizes needs what
each handler has still to add: `SizeInv` states it as a sum over the CPUs, given as a
function on the sets of CPUs so that no recursion is needed. `AloneInv` is the exact form
for a key one handler at a time uses; the size is exact modulo 2^64, as the field is. That
an insertion into a map that is not full always finds a slot is a pigeonhole argument on
slots, spares and keys (`RoomLeft`). `RoundInv` compares what a round has read with what
was over when it began.

**Induction.** The library's induction theorems have a predicate as a parameter, which the
installed provers cannot instantiate. Where induction is needed (the sorting loop of
sqlite, the folds of futexsnoop) the proofs use that a nonempty set of naturals has a
least element (`NatLeast`, from `WFMin` and `NatLessThanWellFounded`) and derive a
contradiction from the least counterexample.

**Only model-checked.** Liveness (`EventuallySettled`, `EventuallyPosted`,
`ShutDownEnds`, `EventuallyWritten`), because the provers do not handle fairness; and
the runs that expect a violation, each of which is one behaviour.

## Not modelled

The label formatting of the detectors and the columns of the sqlite rows (data only),
flag and YAML parsing, logging, the perf buffers of libbpf and the decoding of events
from them (a copy of a C structure into a Go one), the stack ids that offcpu, futexsnoop
and syscall attach to an event, the file and terminal exporters (no state), the kprobe
and uprobe examples (no command starts them), and `Stop` of the pipeline's parts (nothing
in the program reaches it). The trie, the aggregator, which no code path calls, and the
symbol tables are sequential algorithms on data and are not modelled yet.

## Plan

1. `Trie` and the aggregator as pure algorithms against a reference map; symbol search
   and the table cache (`symtab`, `genericlru`).
2. Proofs: every safety invariant of the passing runs has its theorem. New modules are
   to be proved about in the same way where they need no recursive operator.
