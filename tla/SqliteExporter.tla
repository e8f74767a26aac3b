---------------------------- MODULE SqliteExporter ----------------------------
(***************************************************************************)
(* The sqlite exporter: the same batching goroutine as the Loki exporter's *)
(* around a database with one table per tool.  Flush sorts the batch by    *)
(* table and writes table after table; each write succeeds or fails as a   *)
(* whole (gorm wraps CreateInBatches in a transaction), and a failure is   *)
(* logged and does not stop the next table.                                *)
(*                                                                         *)
(* A row is a pair <<table, i>>: the i-th item that entered the channel.   *)
(***************************************************************************)
EXTENDS Naturals, Sequences, SequencesExt

CONSTANTS
    Tables,            \* the tables used, a subset of TableOrder's
    DatasSize,         \* capacity of datas, 5000 in the code
    BatchEntriesNum,   \* 1000 in the code
    MaxItems           \* bound on the items consumed

\* The order in which Flush writes the tables.
TableOrder == <<"OFFCPU", "ONCPU", "SYSCALL", "CACHESTAT", "FUTEXSNOOP">>

ASSUME SqliteAssumption ==
    /\ Tables \subseteq ToSet(TableOrder)
    /\ DatasSize \in Nat \ {0}
    /\ BatchEntriesNum \in Nat
    /\ MaxItems \in Nat

VARIABLES
    sent,      \* number of items that entered the channel
    datas,     \* the channel, oldest first
    batch,     \* Run's batch (size is its length)
    posting,   \* the batch Flush is writing, <<>> when none
    next,      \* index in TableOrder of the table Flush writes next
    armed,     \* the timer maxWait is running
    tick,      \* a tick waits in maxWait.C
    quit,      \* the quit channel is closed
    shut,      \* ShutDown: "no", "waiting" in waitGroup.Wait, "returned"
    stored,    \* stored[t]: the rows of table t, in order
    lost       \* the rows of failed writes

vars == <<sent, datas, batch, posting, next, armed, tick, quit, shut, stored, lost>>
timer == <<armed, tick>>
ends == <<quit, shut>>

Idle == next = 0            \* Run is in its select
Row == Tables \X (1..MaxItems)

\* The loop of Flush over the batch s, which appends the items of table t to
\* that table's slice.
RowsOf(s, t) ==
    LET rows[i \in 0..Len(s)] ==
          IF i = 0 THEN <<>>
          ELSE IF s[i][1] = t THEN Append(rows[i - 1], s[i])
          ELSE rows[i - 1]
    IN  rows[Len(s)]

Init ==
    /\ sent = 0
    /\ datas = <<>> /\ batch = <<>> /\ posting = <<>>
    /\ next = 0
    /\ armed = TRUE /\ tick = FALSE
    /\ quit = FALSE /\ shut = "no"
    /\ stored = [t \in Tables |-> <<>>]
    /\ lost = {}

----------------------------------------------------------------------------
\* Consume makes the row of the data block's table; the send blocks while the
\* channel is full.
Consume(t) ==
    /\ sent < MaxItems
    /\ Len(datas) < DatasSize
    /\ sent' = sent + 1
    /\ datas' = Append(datas, <<t, sent + 1>>)
    /\ UNCHANGED <<batch, posting, next, timer, ends, stored, lost>>

TimerFires ==
    /\ armed
    /\ armed' = FALSE
    /\ tick' = TRUE
    /\ UNCHANGED <<sent, datas, batch, posting, next, ends, stored, lost>>

StartFlush(b) ==
    /\ posting' = b
    /\ batch' = <<>>
    /\ next' = 1

\* Faulty: the batch is dropped when it is full, not flushed.
RunDataDropping ==
    /\ Idle
    /\ datas # <<>>
    /\ datas' = Tail(datas)
    /\ batch' = IF Len(batch) >= BatchEntriesNum THEN <<>> ELSE Append(batch, Head(datas))
    /\ UNCHANGED <<sent, posting, next, timer, ends, stored, lost>>

\* Faulty: the size is compared before the item is counted.
RunDataLate ==
    /\ Idle
    /\ datas # <<>>
    /\ datas' = Tail(datas)
    /\ LET b == Append(batch, Head(datas))
       IN  IF Len(batch) > BatchEntriesNum
           THEN StartFlush(b)
           ELSE batch' = b /\ UNCHANGED <<posting, next>>
    /\ UNCHANGED <<sent, timer, ends, stored, lost>>

RunData ==
    /\ Idle
    /\ datas # <<>>
    /\ datas' = Tail(datas)
    /\ LET b == Append(batch, Head(datas))
       IN  IF Len(b) > BatchEntriesNum
           THEN StartFlush(b)
           ELSE batch' = b /\ UNCHANGED <<posting, next>>
    /\ UNCHANGED <<sent, timer, ends, stored, lost>>

RunTimer ==
    /\ Idle
    /\ tick
    /\ tick' = FALSE
    /\ IF batch = <<>>
       THEN armed' = TRUE /\ UNCHANGED <<posting, batch, next>>
       ELSE StartFlush(batch) /\ UNCHANGED armed
    /\ UNCHANGED <<sent, datas, ends, stored, lost>>

\* The case of quit is empty: the loop goes round again.
RunQuit ==
    /\ Idle
    /\ quit
    /\ UNCHANGED vars

\* Faulty: the rows of all tables go to the table being written.
FlushTableUnsorted(ok) ==
    /\ next \in 1..Len(TableOrder)
    /\ LET t    == TableOrder[next]
           rows == posting
       IN  /\ stored' = IF ok /\ t \in Tables THEN [stored EXCEPT ![t] = @ \o rows] ELSE stored
           /\ lost' = IF ok THEN lost ELSE lost \cup ToSet(RowsOf(posting, t))
    /\ next' = next + 1
    /\ UNCHANGED <<sent, datas, batch, posting, timer, ends>>

\* Flush writes the rows of one table, when there are any.
FlushTable(ok) ==
    /\ next \in 1..Len(TableOrder)
    /\ LET t    == TableOrder[next]
           rows == RowsOf(posting, t)
       IN  IF rows = <<>>
           THEN ok /\ UNCHANGED <<stored, lost>>
           ELSE IF ok
           THEN stored' = [stored EXCEPT ![t] = @ \o rows] /\ UNCHANGED lost
           ELSE lost' = lost \cup ToSet(rows) /\ UNCHANGED stored
    /\ next' = next + 1
    /\ UNCHANGED <<sent, datas, batch, posting, timer, ends>>

\* Faulty: the timer is not reset after a flush.
FlushEndsWithoutReset ==
    /\ next = Len(TableOrder) + 1
    /\ next' = 0
    /\ posting' = <<>>
    /\ UNCHANGED <<sent, datas, batch, timer, ends, stored, lost>>

\* Back in Run: the timer is re-armed.
FlushEnds ==
    /\ next = Len(TableOrder) + 1
    /\ next' = 0
    /\ posting' = <<>>
    /\ armed' = TRUE
    /\ UNCHANGED <<sent, datas, batch, tick, ends, stored, lost>>

\* ShutDown closes quit, then waits for Run's Done, which only the return
\* from Run's loop would call.
ShutDown ==
    /\ shut = "no"
    /\ quit' = TRUE
    /\ shut' = "waiting"
    /\ UNCHANGED <<sent, datas, batch, posting, next, timer, stored, lost>>

Next ==
    \/ \E t \in Tables : Consume(t)
    \/ TimerFires
    \/ RunData \/ RunTimer \/ RunQuit
    \/ \E ok \in BOOLEAN : FlushTable(ok)
    \/ FlushEnds
    \/ ShutDown

\* As for the Loki exporter: a ready case of select is taken in the end, the
\* timer fires, a write to the database ends.
Fairness ==
    /\ SF_vars(RunData) /\ SF_vars(RunTimer)
    /\ WF_vars(TimerFires)
    /\ WF_vars(FlushEnds \/ \E ok \in BOOLEAN : FlushTable(ok))

Spec == Init /\ [][Next]_vars /\ Fairness

----------------------------------------------------------------------------
TypeOK ==
    /\ sent \in 0..MaxItems
    /\ datas \in Seq(Row) /\ Len(datas) <= DatasSize
    /\ batch \in Seq(Row) /\ Len(batch) <= BatchEntriesNum
    /\ posting \in Seq(Row)
    /\ next \in 0..(Len(TableOrder) + 1)
    /\ armed \in BOOLEAN /\ tick \in BOOLEAN /\ quit \in BOOLEAN
    /\ shut \in {"no", "waiting", "returned"}
    /\ stored \in [Tables -> Seq(Row)]
    /\ lost \subseteq Row

\* The rows Flush has still to write.
Unwritten == {r \in ToSet(posting) : \A k \in 1..(next - 1) : TableOrder[k] # r[1]}

\* Every item consumed is in one place: the channel, the batch, the unwritten
\* part of the flush, its own table, or lost in a failed write of that table.
\* A failure of one table takes no row of another with it, and no row is
\* written twice (Flush, lines 63-148).
RowsAccounted ==
    LET pending == ToSet(datas) \cup ToSet(batch) \cup Unwritten
        rows(t) == ToSet(stored[t])
        all     == pending \cup lost \cup UNION {rows(t) : t \in Tables}
    IN  /\ {r[2] : r \in all} = 1..sent
        /\ \A r, s \in all : r[2] = s[2] => r = s
        /\ pending \cap lost = {}
        /\ \A t \in Tables : rows(t) \cap (pending \cup lost) = {}

\* The rows of a table are all its own and in the order they were consumed.
TablesInOrder ==
    \A t \in Tables : \A i, j \in DOMAIN stored[t] :
        /\ stored[t][i][1] = t
        /\ i < j => stored[t][i][2] < stored[t][j][2]

\* Every item consumed is eventually written or lost in a failed write.
EventuallyWritten ==
    \A i \in 1..MaxItems :
        (sent >= i) ~> \E t \in Tables : <<t, i>> \in lost \cup ToSet(stored[t])

\* "notify Run grountine quit" / "wait until Run() grountine quit"
\* (sqlite.go:53,55): ShutDown, once called, returns.
ShutDownEnds == (shut = "waiting") ~> (shut = "returned")
=============================================================================
