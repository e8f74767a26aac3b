---------------------------- MODULE LokiExporter ----------------------------
(***************************************************************************)
(* The Loki exporter: writers (the detectors' goroutines, through the      *)
(* processor) put entries in a bounded channel; the goroutine Run collects *)
(* them in a batch and posts the batch to Loki when it has grown past      *)
(* BatchEntriesNum, when the batch timer fires, or when the exporter is    *)
(* shut down.                                                              *)
(*                                                                         *)
(* Entries are numbered in the order they enter the channel.  An entry is  *)
(* settled when the post that carries it has ended: stored, or lost with   *)
(* its whole batch, since Flush only logs an error and nothing is retried. *)
(***************************************************************************)
EXTENDS Naturals, Sequences, Functions

CONSTANTS
    EntriesSize,       \* capacity of entries, 5000 in the code
    BatchEntriesNum,   \* 10000 in the code
    MaxEntries         \* bound on the entries written

ASSUME LokiAssumption ==
    /\ EntriesSize \in Nat \ {0}
    /\ BatchEntriesNum \in Nat
    /\ MaxEntries \in Nat

VARIABLES
    sent,      \* number of entries that entered the channel
    entries,   \* the channel, oldest first
    batch,     \* Run's batch (batchSize is its length)
    posting,   \* the batch of the post under way, <<>> when none is
    armed,     \* the timer maxWait is running
    tick,      \* a tick waits in maxWait.C
    run,       \* where Run is: "select", "flush", "last" (deferred Flush), "done"
    quit,      \* the quit channel is closed
    shut,      \* ShutDown: "no", "waiting" in waitGroup.Wait, "returned"
    stored,    \* the entries Loki has stored, in order
    lost       \* the entries of failed posts, in order

vars == <<sent, entries, batch, posting, armed, tick, run, quit, shut, stored, lost>>
timer == <<armed, tick>>
ends == <<quit, shut>>
results == <<stored, lost>>

Settled == Range(stored) \cup Range(lost)

Init ==
    /\ sent = 0
    /\ entries = <<>> /\ batch = <<>> /\ posting = <<>>
    /\ armed = TRUE /\ tick = FALSE
    /\ run = "select"
    /\ quit = FALSE /\ shut = "no"
    /\ stored = <<>> /\ lost = <<>>

----------------------------------------------------------------------------
\* Consume: write blocks while the channel is full.
Consume ==
    /\ sent < MaxEntries
    /\ Len(entries) < EntriesSize
    /\ sent' = sent + 1
    /\ entries' = Append(entries, sent + 1)
    /\ UNCHANGED <<batch, posting, run, timer, ends, results>>

\* The runtime fires the timer; a tick nobody has received yet stays the only
\* one (maxWait.C has room for one).
TimerFires ==
    /\ armed
    /\ armed' = FALSE
    /\ tick' = TRUE
    /\ UNCHANGED <<sent, entries, batch, posting, run, ends, results>>

\* Faulty: the batch is not started afresh.
StartFlushKeepingBatch(b, state) ==
    /\ posting' = b
    /\ batch' = b
    /\ run' = state

\* Flush(batch) begins; the batch is started afresh and the timer re-armed
\* when it has ended.
StartFlush(b, state) ==
    /\ posting' = b
    /\ batch' = <<>>
    /\ run' = state

\* Faulty: the size test is off by one.
RunEntryLate ==
    /\ run = "select"
    /\ entries # <<>>
    /\ entries' = Tail(entries)
    /\ LET b == Append(batch, Head(entries))
       IN  IF Len(b) > BatchEntriesNum + 1
           THEN StartFlush(b, "flush")
           ELSE batch' = b /\ UNCHANGED <<posting, run>>
    /\ UNCHANGED <<sent, timer, ends, results>>

\* Run receives an entry: the batch is flushed once it holds more than
\* BatchEntriesNum entries.
RunEntry ==
    /\ run = "select"
    /\ entries # <<>>
    /\ entries' = Tail(entries)
    /\ LET b == Append(batch, Head(entries))
       IN  IF Len(b) > BatchEntriesNum
           THEN StartFlush(b, "flush")
           ELSE batch' = b /\ UNCHANGED <<posting, run>>
    /\ UNCHANGED <<sent, timer, ends, results>>

\* Faulty: an empty batch is posted too.
RunTimerUnguarded ==
    /\ run = "select"
    /\ tick
    /\ tick' = FALSE
    /\ StartFlush(batch, "flush") /\ UNCHANGED armed
    /\ UNCHANGED <<sent, entries, ends, results>>

\* Faulty: the timer is re-armed only after a flush.
RunTimerOnce ==
    /\ run = "select"
    /\ tick
    /\ tick' = FALSE
    /\ IF batch = <<>>
       THEN UNCHANGED <<armed, posting, batch, run>>
       ELSE StartFlush(batch, "flush") /\ UNCHANGED armed
    /\ UNCHANGED <<sent, entries, ends, results>>

\* Run receives the tick: it flushes what there is and re-arms the timer, at
\* once when there is nothing.
RunTimer ==
    /\ run = "select"
    /\ tick
    /\ tick' = FALSE
    /\ IF batch = <<>>
       THEN armed' = TRUE /\ UNCHANGED <<posting, batch, run>>
       ELSE StartFlush(batch, "flush") /\ UNCHANGED armed
    /\ UNCHANGED <<sent, entries, ends, results>>

\* Faulty: no deferred flush.
RunQuitAtOnce ==
    /\ run = "select"
    /\ quit
    /\ run' = "done" /\ armed' = FALSE
    /\ UNCHANGED <<sent, entries, batch, posting, tick, ends, results>>

\* Faulty: the case of quit does not return.
RunQuitIgnored ==
    /\ run = "select"
    /\ quit
    /\ UNCHANGED vars

\* Run sees quit closed and returns; its deferred function flushes the rest,
\* calls Done and stops the timer.
RunQuit ==
    /\ run = "select"
    /\ quit
    /\ IF batch = <<>>
       THEN run' = "done" /\ armed' = FALSE /\ UNCHANGED <<posting, batch>>
       ELSE StartFlush(batch, "last") /\ UNCHANGED armed
    /\ UNCHANGED <<sent, entries, tick, ends, results>>

\* Faulty: the timer is not reset after a flush.
FlushEndsWithoutReset(ok) ==
    /\ run \in {"flush", "last"}
    /\ IF ok THEN stored' = stored \o posting /\ UNCHANGED lost
             ELSE lost' = lost \o posting /\ UNCHANGED stored
    /\ posting' = <<>>
    /\ run' = IF run = "flush" THEN "select" ELSE "done"
    /\ UNCHANGED <<sent, entries, batch, timer, ends>>

\* The post ends: Loki has the batch, or an error is logged and the batch is
\* gone.  An answer that is lost on its way back also counts as stored.
FlushEnds(ok) ==
    /\ run \in {"flush", "last"}
    /\ IF ok THEN stored' = stored \o posting /\ UNCHANGED lost
             ELSE lost' = lost \o posting /\ UNCHANGED stored
    /\ posting' = <<>>
    /\ run' = IF run = "flush" THEN "select" ELSE "done"
    /\ armed' = (run = "flush")
    /\ UNCHANGED <<sent, entries, batch, tick, ends>>

\* ShutDown closes quit, then waits for Done.
ShutDown ==
    /\ shut = "no"
    /\ quit' = TRUE
    /\ shut' = "waiting"
    /\ UNCHANGED <<sent, entries, batch, posting, run, timer, results>>

ShutDownReturns ==
    /\ shut = "waiting"
    /\ run = "done"
    /\ shut' = "returned"
    /\ UNCHANGED <<sent, entries, batch, posting, run, timer, quit, results>>

Next ==
    \/ Consume
    \/ TimerFires
    \/ RunEntry \/ RunTimer \/ RunQuit
    \/ \E ok \in BOOLEAN : FlushEnds(ok)
    \/ ShutDown
    \/ ShutDownReturns

\* select picks among its ready cases at random, so a case that is ready again
\* and again is taken; the timer of the runtime fires; a post ends (the peer
\* answers or the connection breaks: http.Client has no timeout of its own).
\* Nothing obliges the program to write or to shut down.
Fairness ==
    /\ SF_vars(RunEntry) /\ SF_vars(RunTimer) /\ SF_vars(RunQuit)
    /\ WF_vars(TimerFires)
    /\ WF_vars(\E ok \in BOOLEAN : FlushEnds(ok))
    /\ WF_vars(ShutDownReturns)

Spec == Init /\ [][Next]_vars /\ Fairness

----------------------------------------------------------------------------
TypeOK ==
    /\ sent \in 0..MaxEntries
    /\ entries \in Seq(1..MaxEntries) /\ Len(entries) <= EntriesSize
    /\ batch \in Seq(1..MaxEntries) /\ Len(batch) <= BatchEntriesNum
    /\ posting \in Seq(1..MaxEntries)
    /\ armed \in BOOLEAN /\ tick \in BOOLEAN
    /\ run \in {"select", "flush", "last", "done"}
    /\ quit \in BOOLEAN
    /\ shut \in {"no", "waiting", "returned"}
    /\ stored \in Seq(1..MaxEntries) /\ lost \in Seq(1..MaxEntries)

\* What is not settled yet is, in order, the post under way, the batch and
\* the channel, and it is exactly the youngest entries: none is skipped,
\* repeated or overtaken between the channel and the post (Run, lines 88-124).
PendingInOrder ==
    LET pending == posting \o batch \o entries
        done    == sent - Len(pending)
    IN  /\ Len(pending) <= sent
        /\ pending = [i \in 1..Len(pending) |-> done + i]
        /\ Settled = 1..done
        /\ Len(stored) + Len(lost) = done

\* A post is under way exactly while Run is in Flush, it is never empty and
\* never larger than BatchEntriesNum + 1.
PostsAreBatches ==
    IF run \in {"flush", "last"}
    THEN Len(posting) \in 1..(BatchEntriesNum + 1) /\ batch = <<>>
    ELSE posting = <<>>

\* While Run serves the channel a flush by time is still to come: the timer
\* runs, or its tick waits, or a post is under way after which it is re-armed.
\* (A missing Reset would strand a batch until it is full.)
TimerAlive == run = "select" => armed \/ tick

\* Once ShutDown has returned, Run is gone and every entry it took from the
\* channel has been posted; only entries still in the channel are stranded.
ShutDownFlushes ==
    shut = "returned" => Settled = 1..(sent - Len(entries))

\* Every entry written is eventually posted, with a full batch or by time,
\* unless the exporter is shut down first.
EventuallyPosted ==
    \A i \in 1..MaxEntries : (sent >= i) ~> (i \in Settled \/ quit)

\* ShutDown returns: Run leaves its loop even while entries keep coming.
ShutDownEnds == (shut = "waiting") ~> (shut = "returned")
=============================================================================
