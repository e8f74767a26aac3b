------------------------- MODULE LokiExporterProofs -------------------------
(***************************************************************************)
(* Proofs about LokiExporter, for every capacity of the channel, every     *)
(* size of a batch and every number of entries.                            *)
(*                                                                         *)
(* PendingInOrder speaks of one concatenated sequence; the invariant       *)
(* Numbered says the same of the post, the batch and the channel one by    *)
(* one, which every step changes at one end only.                          *)
(***************************************************************************)
EXTENDS LokiExporter, SequenceTheorems, TLAPS

\* Entries that have been settled.
Done == sent - Len(posting) - Len(batch) - Len(entries)

\* The entries of the post, of the batch and of the channel follow each other
\* without a gap after the settled ones.
Numbered ==
    /\ Done >= 0
    /\ \A i \in 1..Len(posting) : posting[i] = Done + i
    /\ \A i \in 1..Len(batch)   : batch[i] = Done + Len(posting) + i
    /\ \A i \in 1..Len(entries) : entries[i] = Done + Len(posting) + Len(batch) + i
    /\ Settled = 1..Done
    /\ Len(stored) + Len(lost) = Done

\* Nothing is left with Run when it has returned, and ShutDown returns after.
Returned ==
    /\ run = "done" => batch = <<>>
    /\ shut = "returned" => run = "done"

IInv == TypeOK /\ PostsAreBatches /\ TimerAlive /\ Numbered /\ Returned

Entry == 1..MaxEntries

----------------------------------------------------------------------------
LEMMA InitIInv == Init => IInv
  <1> SUFFICES ASSUME Init PROVE IInv
      OBVIOUS
  <1>1. TypeOK
    <2>1. <<>> \in Seq(1..MaxEntries) /\ Len(<<>>) = 0
      OBVIOUS
    <2>2. 0 \in 0..MaxEntries /\ 0 <= EntriesSize /\ 0 <= BatchEntriesNum
      BY LokiAssumption
    <2> QED BY <2>1, <2>2 DEF Init, TypeOK
  <1>2. PostsAreBatches /\ TimerAlive /\ Returned
    BY DEF Init, PostsAreBatches, TimerAlive, Returned
  <1>3. Done = 0
    <2>1. Len(posting) = 0 /\ Len(batch) = 0 /\ Len(entries) = 0 /\ sent = 0
      BY DEF Init
    <2> QED BY <2>1 DEF Done
  <1>4. Settled = {}
    BY DEF Init, Settled, Range
  <1>5. Numbered
    BY <1>3, <1>4 DEF Init, Numbered
  <1> QED BY <1>1, <1>2, <1>5 DEF IInv

\* The sequences and their lengths.
LEMMA Lengths ==
    ASSUME TypeOK
    PROVE  /\ sent \in Nat
           /\ Len(entries) \in Nat /\ Len(batch) \in Nat /\ Len(posting) \in Nat
           /\ Len(stored) \in Nat /\ Len(lost) \in Nat
           /\ Done \in Int
  <1>1. sent \in Nat
    BY DEF TypeOK
  <1>2. Len(entries) \in Nat /\ Len(batch) \in Nat /\ Len(posting) \in Nat
    BY DEF TypeOK
  <1>3. Len(stored) \in Nat /\ Len(lost) \in Nat
    BY DEF TypeOK
  <1> QED BY <1>1, <1>2, <1>3 DEF Done

\* Consume puts the next number at the end of the channel.
LEMMA ConsumeStep ==
    ASSUME IInv, Consume
    PROVE  IInv'
  <1>1. TypeOK /\ Numbered
    BY DEF IInv
  <1>2. /\ sent + 1 \in Entry /\ entries' = Append(entries, sent + 1) /\ sent' = sent + 1
        /\ Len(entries) < EntriesSize
        /\ UNCHANGED <<batch, posting, run, armed, tick, quit, shut, stored, lost>>
    <2>1. sent + 1 \in Entry
      BY <1>1, LokiAssumption DEF Consume, TypeOK, Entry
    <2> QED BY <2>1 DEF Consume, timer, ends, results
  <1>3. /\ entries' \in Seq(Entry) /\ Len(entries') = Len(entries) + 1
        /\ \A i \in 1..Len(entries) : entries'[i] = entries[i]
        /\ entries'[Len(entries) + 1] = sent + 1
    BY <1>1, <1>2, AppendProperties DEF TypeOK, Entry
  <1>4. TypeOK'
    BY <1>1, <1>2, <1>3, LokiAssumption DEF TypeOK, Entry
  <1>len. /\ sent \in Nat /\ Len(entries) \in Nat /\ Len(batch) \in Nat /\ Len(posting) \in Nat
          /\ Len(batch') = Len(batch) /\ Len(posting') = Len(posting)
    BY <1>1, <1>2, Lengths
  <1>5. Done' = Done
    BY <1>len, <1>2, <1>3 DEF Done
  <1>6. Settled' = Settled
    BY <1>2 DEF Settled
  <1>7. \A i \in 1..Len(entries') : entries'[i] = Done + Len(posting) + Len(batch) + i
    <2> SUFFICES ASSUME NEW i \in 1..Len(entries')
                 PROVE  entries'[i] = Done + Len(posting) + Len(batch) + i
        OBVIOUS
    <2>1. CASE i \in 1..Len(entries)
      BY <1>1, <1>3, <2>1 DEF Numbered
    <2>2. CASE i = Len(entries) + 1
      BY SMTT(30), <1>1, <1>3, <2>2, Lengths DEF Done
    <2> QED BY <1>1, <1>3, <2>1, <2>2, Lengths
  <1>8. Numbered'
    BY <1>1, <1>2, <1>5, <1>6, <1>7 DEF Numbered
  <1>9. PostsAreBatches' /\ TimerAlive' /\ Returned'
    BY <1>2 DEF IInv, PostsAreBatches, TimerAlive, Returned
  <1> QED BY <1>4, <1>8, <1>9 DEF IInv

\* Run moves the head of the channel to the end of the batch.
LEMMA RunEntryStep ==
    ASSUME IInv, RunEntry
    PROVE  IInv'
  <1> DEFINE b == Append(batch, Head(entries))
  <1>1. TypeOK /\ Numbered /\ PostsAreBatches
    BY DEF IInv
  <1>2. /\ entries # <<>> /\ run = "select" /\ entries' = Tail(entries)
        /\ UNCHANGED <<sent, armed, tick, quit, shut, stored, lost>>
    BY DEF RunEntry, timer, ends, results
  <1>3. posting = <<>> /\ Len(posting) = 0
    BY <1>1, <1>2 DEF PostsAreBatches
  <1>4. /\ Head(entries) \in Entry /\ Tail(entries) \in Seq(Entry)
        /\ Len(Tail(entries)) = Len(entries) - 1 /\ Len(entries) >= 1
        /\ Head(entries) = entries[1]
        /\ \A i \in 1..(Len(entries) - 1) : Tail(entries)[i] = entries[i + 1]
    <2>1. entries \in Seq(Entry)
      BY <1>1 DEF TypeOK, Entry
    <2>2. /\ Head(entries) \in Entry /\ Tail(entries) \in Seq(Entry)
          /\ Len(Tail(entries)) = Len(entries) - 1
          /\ \A i \in 1..Len(Tail(entries)) : Tail(entries)[i] = entries[i + 1]
      BY <1>2, <2>1, HeadTailProperties
    <2>3. Len(entries) >= 1 /\ Head(entries) = entries[1]
      BY <1>2, <2>1
    <2> QED BY <2>2, <2>3
  <1>5. /\ b \in Seq(Entry) /\ Len(b) = Len(batch) + 1 /\ b # <<>>
        /\ \A i \in 1..Len(batch) : b[i] = batch[i]
        /\ b[Len(batch) + 1] = Head(entries)
    BY <1>1, <1>4, AppendProperties DEF TypeOK, Entry
  <1> HIDE DEF b
  <1>6. \A i \in 1..Len(b) : b[i] = Done + i
    <2> SUFFICES ASSUME NEW i \in 1..Len(b) PROVE b[i] = Done + i
        OBVIOUS
    <2>1. CASE i \in 1..Len(batch)
      BY <1>1, <1>3, <1>5, <2>1, Lengths DEF Numbered
    <2>2. CASE i = Len(batch) + 1
      BY <1>1, <1>3, <1>4, <1>5, <2>2, Lengths DEF Numbered
    <2> QED BY <1>1, <1>5, <2>1, <2>2, Lengths
  <1>len. /\ sent \in Nat /\ Len(entries) \in Nat /\ Len(batch) \in Nat /\ Done \in Int
          /\ sent' = sent
    BY <1>1, <1>2, Lengths
  <1>7. \A i \in 1..Len(Tail(entries)) : Tail(entries)[i] = Done + Len(b) + i
    <2> SUFFICES ASSUME NEW i \in 1..(Len(entries) - 1)
                 PROVE  Tail(entries)[i] = Done + Len(b) + i
        BY <1>4
    <2>1. i + 1 \in 1..Len(entries) /\ Tail(entries)[i] = entries[i + 1]
      BY <1>4, <1>len
    <2>2. entries[i + 1] = Done + Len(posting) + Len(batch) + (i + 1)
      BY <1>1, <2>1 DEF Numbered
    <2> QED BY <1>3, <1>5, <1>len, <2>1, <2>2
  <1>8. Settled' = Settled
    BY <1>2 DEF Settled
  <1>9. CASE Len(b) > BatchEntriesNum
    <2>1. posting' = b /\ batch' = <<>> /\ run' = "flush"
      BY <1>9 DEF RunEntry, StartFlush, b
    <2>2. Len(batch') = 0
      BY <2>1
    <2>3. Done' = Done
      <3>1. Len(posting') = Len(batch) + 1 /\ Len(entries') = Len(entries) - 1
        BY <1>2, <1>4, <1>5, <2>1
      <3> QED BY <1>3, <1>len, <2>2, <3>1 DEF Done
    <2>4. TypeOK'
      BY <1>1, <1>2, <1>4, <1>5, <2>1, <2>2, LokiAssumption, Lengths DEF TypeOK, Entry
    <2>5. Numbered'
      <3>1. \A i \in 1..Len(batch') : batch'[i] = Done + Len(b) + i
        BY <2>2
      <3>2. \A i \in 1..Len(entries') : entries'[i] = Done + Len(b) + 0 + i
        BY <1>1, <1>2, <1>4, <1>5, <1>7, Lengths
      <3> QED BY <1>1, <1>2, <1>6, <1>8, <2>1, <2>2, <2>3, <3>1, <3>2 DEF Numbered
    <2>6. PostsAreBatches'
      BY <1>1, <1>5, <2>1, LokiAssumption, Lengths DEF PostsAreBatches, TypeOK
    <2>7. TimerAlive' /\ Returned'
      BY <1>2, <2>1 DEF IInv, TimerAlive, Returned
    <2> QED BY <2>4, <2>5, <2>6, <2>7 DEF IInv
  <1>10. CASE ~(Len(b) > BatchEntriesNum)
    <2>1. posting' = posting /\ batch' = b /\ run' = run
      BY <1>10 DEF RunEntry, b
    <2>3. Done' = Done
      <3>1. Len(posting') = 0 /\ Len(batch') = Len(batch) + 1 /\ Len(entries') = Len(entries) - 1
        BY <1>2, <1>3, <1>4, <1>5, <2>1
      <3> QED BY <1>3, <1>len, <3>1 DEF Done
    <2>4. TypeOK'
      BY SMTT(30), <1>1, <1>2, <1>4, <1>5, <1>10, <2>1, LokiAssumption, Lengths DEF TypeOK, Entry
    <2>5. Numbered'
      <3>1. \A i \in 1..Len(batch') : batch'[i] = Done + Len(posting) + i
        BY <1>1, <1>3, <1>6, <2>1, Lengths
      <3>2. \A i \in 1..Len(entries') : entries'[i] = Done + Len(posting) + Len(b) + i
        BY <1>1, <1>2, <1>3, <1>4, <1>5, <1>7, Lengths
      <3> QED BY <1>1, <1>2, <1>8, <2>1, <2>3, <3>1, <3>2 DEF Numbered
    <2>6. PostsAreBatches' /\ TimerAlive' /\ Returned'
      BY <1>2, <2>1 DEF IInv, PostsAreBatches, TimerAlive, Returned
    <2> QED BY <2>4, <2>5, <2>6 DEF IInv
  <1> QED BY <1>9, <1>10

\* The whole batch, not empty, becomes the post (RunTimer and RunQuit).
LEMMA FlushStep ==
    ASSUME IInv, run = "select", batch # <<>>, NEW s \in {"flush", "last"},
           StartFlush(batch, s), armed' = armed, tick' \in BOOLEAN,
           UNCHANGED <<sent, entries, quit, shut, stored, lost>>
    PROVE  IInv'
  <1>1. TypeOK /\ Numbered /\ PostsAreBatches
    BY DEF IInv
  <1>2. posting = <<>> /\ Len(posting) = 0
    BY <1>1 DEF PostsAreBatches
  <1>3. posting' = batch /\ batch' = <<>> /\ run' = s /\ Len(batch') = 0
    BY DEF StartFlush
  <1>4. Done' = Done
    BY <1>1, <1>2, <1>3, Lengths DEF Done
  <1>5. TypeOK'
    BY <1>1, <1>3, LokiAssumption DEF TypeOK
  <1>6. Settled' = Settled
    BY DEF Settled
  <1>7. Numbered'
    <2>1. \A i \in 1..Len(batch) : batch[i] = Done + i
      BY <1>1, <1>2, Lengths DEF Numbered
    <2>2. \A i \in 1..Len(entries) : entries[i] = Done + Len(batch) + 0 + i
      BY <1>1, <1>2, Lengths DEF Numbered
    <2>3. \A i \in 1..Len(batch') : batch'[i] = Done + Len(batch) + i
      BY <1>3
    <2> QED BY <1>1, <1>3, <1>4, <1>6, <2>1, <2>2, <2>3 DEF Numbered
  <1>8. PostsAreBatches'
    <2>1. Len(batch) \in 1..(BatchEntriesNum + 1)
      BY <1>1, LokiAssumption DEF TypeOK
    <2> QED BY <1>3, <2>1 DEF PostsAreBatches
  <1>9. TimerAlive' /\ Returned'
    BY <1>3 DEF IInv, TimerAlive, Returned
  <1> QED BY <1>5, <1>7, <1>8, <1>9 DEF IInv

\* The entries of a post that ends become settled, all of them at once.
LEMMA FlushEndsStep ==
    ASSUME IInv, NEW ok \in BOOLEAN, FlushEnds(ok)
    PROVE  IInv'
  <1>1. TypeOK /\ Numbered /\ PostsAreBatches
    BY DEF IInv
  <1>2. /\ run \in {"flush", "last"} /\ batch = <<>>
        /\ posting' = <<>> /\ run' = (IF run = "flush" THEN "select" ELSE "done")
        /\ armed' = (run = "flush")
        /\ UNCHANGED <<sent, entries, batch, tick, quit, shut>>
    BY <1>1 DEF FlushEnds, PostsAreBatches, ends
  <1>3. Len(batch) = 0 /\ Len(posting') = 0
    BY <1>2
  <1>4. /\ stored \in Seq(Entry) /\ lost \in Seq(Entry) /\ posting \in Seq(Entry)
    BY <1>1 DEF TypeOK, Entry
  <1>5. Range(posting) = (Done + 1)..(Done + Len(posting))
    <2>1. Range(posting) = {posting[i] : i \in 1..Len(posting)}
      BY <1>4, RangeEquality
    <2>2. \A i \in 1..Len(posting) : posting[i] = Done + i
      BY <1>1 DEF Numbered
    <2>3. \A x \in (Done + 1)..(Done + Len(posting)) : x - Done \in 1..Len(posting) /\ x = Done + (x - Done)
      BY <1>1, Lengths
    <2>4. \A x \in Range(posting) : x \in (Done + 1)..(Done + Len(posting))
      BY <1>1, <2>1, <2>2, Lengths
    <2>5. \A x \in (Done + 1)..(Done + Len(posting)) : x \in Range(posting)
      BY <2>1, <2>2, <2>3
    <2> QED BY <2>4, <2>5
  <1>6. /\ stored' \in Seq(Entry) /\ lost' \in Seq(Entry)
        /\ Settled' = Settled \cup Range(posting)
        /\ Len(stored') + Len(lost') = Len(stored) + Len(lost) + Len(posting)
    <2>1. CASE ok
      <3>1. stored' = stored \o posting /\ lost' = lost
        BY <2>1 DEF FlushEnds
      <3>2. stored' \in Seq(Entry) /\ Len(stored') = Len(stored) + Len(posting)
        BY <1>4, <3>1, ConcatProperties
      <3>3. Range(stored') = Range(stored) \cup Range(posting)
        BY <1>4, <3>1, RangeConcatenation
      <3>4. Settled' = Settled \cup Range(posting)
        BY <3>1, <3>3 DEF Settled
      <3> QED BY <1>1, <1>4, <3>1, <3>2, <3>4, Lengths
    <2>2. CASE ~ok
      <3>1. lost' = lost \o posting /\ stored' = stored
        BY <2>2 DEF FlushEnds
      <3>2. lost' \in Seq(Entry) /\ Len(lost') = Len(lost) + Len(posting)
        BY <1>4, <3>1, ConcatProperties
      <3>3. Range(lost') = Range(lost) \cup Range(posting)
        BY <1>4, <3>1, RangeConcatenation
      <3>4. Settled' = Settled \cup Range(posting)
        BY <3>1, <3>3 DEF Settled
      <3> QED BY <1>1, <1>4, <3>1, <3>2, <3>4, Lengths
    <2> QED BY <2>1, <2>2
  <1>7. Done' = Done + Len(posting)
    BY <1>1, <1>2, <1>3, Lengths DEF Done
  <1>8. TypeOK'
    <2>1. posting' \in Seq(1..MaxEntries) /\ stored' \in Seq(1..MaxEntries) /\ lost' \in Seq(1..MaxEntries)
      BY <1>2, <1>6 DEF Entry
    <2>2. armed' \in BOOLEAN /\ run' \in {"select", "flush", "last", "done"}
      BY <1>2
    <2> QED BY <1>1, <1>2, <2>1, <2>2 DEF TypeOK
  <1>9. Numbered'
    <2>1. Settled' = 1..Done'
      BY SMTT(30), <1>1, <1>5, <1>6, <1>7, Lengths DEF Numbered
    <2>2. \A i \in 1..Len(entries') : entries'[i] = Done' + 0 + 0 + i
      BY <1>1, <1>2, <1>3, <1>7, Lengths DEF Numbered
    <2>3. Done' >= 0 /\ Len(stored') + Len(lost') = Done'
      BY SMTT(30), <1>1, <1>6, <1>7, Lengths DEF Numbered
    <2>4. \A i \in 1..Len(posting') : posting'[i] = Done' + i
      BY <1>3
    <2>5. \A i \in 1..Len(batch') : batch'[i] = Done' + Len(posting') + i
      BY <1>2, <1>3
    <2> QED BY <1>2, <1>3, <2>1, <2>2, <2>3, <2>4, <2>5 DEF Numbered
  <1>10. PostsAreBatches' /\ TimerAlive' /\ Returned'
    BY <1>2 DEF IInv, PostsAreBatches, TimerAlive, Returned
  <1> QED BY <1>8, <1>9, <1>10 DEF IInv

----------------------------------------------------------------------------
\* The invariant is preserved by every step.
LEMMA NextIInv == IInv /\ [Next]_vars => IInv'
  <1> SUFFICES ASSUME IInv, [Next]_vars PROVE IInv'
      OBVIOUS
  <1>1. CASE Consume
    BY <1>1, ConsumeStep
  <1>2. ASSUME UNCHANGED <<sent, entries, batch, posting, stored, lost>>,
               (TypeOK /\ PostsAreBatches /\ TimerAlive /\ Returned)'
        PROVE  IInv'
    <2>1. Done' = Done /\ Settled' = Settled
      BY <1>2 DEF Done, Settled
    <2>2. Numbered'
      BY <1>2, <2>1 DEF IInv, Numbered
    <2> QED BY <1>2, <2>2 DEF IInv
  <1>3. CASE TimerFires
    <2>1. (TypeOK /\ PostsAreBatches /\ TimerAlive /\ Returned)'
      BY <1>3 DEF TimerFires, IInv, TypeOK, PostsAreBatches, TimerAlive, Returned, ends, results
    <2> QED BY <1>2, <1>3, <2>1 DEF TimerFires, results
  <1>4. CASE RunEntry
    BY <1>4, RunEntryStep
  <1>5. CASE RunTimer
    <2>1. CASE batch = <<>>
      <3>1. (TypeOK /\ PostsAreBatches /\ TimerAlive /\ Returned)'
        BY <1>5, <2>1 DEF RunTimer, IInv, TypeOK, PostsAreBatches, TimerAlive, Returned, ends, results
      <3> QED BY <1>2, <1>5, <2>1, <3>1 DEF RunTimer, results
    <2>2. CASE batch # <<>>
      BY <1>5, <2>2, FlushStep DEF RunTimer, ends, results
    <2> QED BY <2>1, <2>2
  <1>6. CASE RunQuit
    <2>1. CASE batch = <<>>
      <3>1. (TypeOK /\ PostsAreBatches /\ TimerAlive /\ Returned)'
        BY <1>6, <2>1 DEF RunQuit, IInv, TypeOK, PostsAreBatches, TimerAlive, Returned, ends, results
      <3> QED BY <1>2, <1>6, <2>1, <3>1 DEF RunQuit, results
    <2>2. CASE batch # <<>>
      <3>1. tick' \in BOOLEAN
        BY <1>6 DEF RunQuit, IInv, TypeOK
      <3> QED BY <1>6, <2>2, <3>1, FlushStep DEF RunQuit, ends, results
    <2> QED BY <2>1, <2>2
  <1>7. ASSUME NEW ok \in BOOLEAN, FlushEnds(ok) PROVE IInv'
    BY <1>7, FlushEndsStep
  <1>8. CASE ShutDown
    <2>1. (TypeOK /\ PostsAreBatches /\ TimerAlive /\ Returned)'
      BY <1>8 DEF ShutDown, IInv, TypeOK, PostsAreBatches, TimerAlive, Returned, timer, results
    <2> QED BY <1>2, <1>8, <2>1 DEF ShutDown, results
  <1>9. CASE ShutDownReturns
    <2>1. (TypeOK /\ PostsAreBatches /\ TimerAlive /\ Returned)'
      BY <1>9 DEF ShutDownReturns, IInv, TypeOK, PostsAreBatches, TimerAlive, Returned, timer, results
    <2> QED BY <1>2, <1>9, <2>1 DEF ShutDownReturns, results
  <1>10. CASE UNCHANGED vars
    <2>1. (TypeOK /\ PostsAreBatches /\ TimerAlive /\ Returned)'
      BY <1>10 DEF vars, IInv, TypeOK, PostsAreBatches, TimerAlive, Returned
    <2> QED BY <1>2, <1>10, <2>1 DEF vars
  <1> QED BY <1>1, <1>3, <1>4, <1>5, <1>6, <1>7, <1>8, <1>9, <1>10 DEF Next

LEMMA Invariance == Spec => []IInv
  BY InitIInv, NextIInv, PTL DEF Spec

\* The concatenation is what its three parts say.
LEMMA NumberedInOrder ==
    ASSUME TypeOK, Numbered
    PROVE  PendingInOrder
  <1> DEFINE pb == posting \o batch
             pending == pb \o entries
  <1>1. posting \in Seq(Entry) /\ batch \in Seq(Entry) /\ entries \in Seq(Entry)
    BY DEF TypeOK, Entry
  <1>2. /\ pb \in Seq(Entry) /\ Len(pb) = Len(posting) + Len(batch)
        /\ \A i \in 1..(Len(posting) + Len(batch)) :
              pb[i] = IF i <= Len(posting) THEN posting[i] ELSE batch[i - Len(posting)]
    BY <1>1, ConcatProperties
  <1>p. pending = pb \o entries
    OBVIOUS
  <1> HIDE DEF pb, pending
  <1>3. /\ pending \in Seq(Entry) /\ Len(pending) = Len(pb) + Len(entries)
        /\ \A i \in 1..(Len(pb) + Len(entries)) :
              pending[i] = IF i <= Len(pb) THEN pb[i] ELSE entries[i - Len(pb)]
    <2>1. pb \in Seq(Entry) /\ entries \in Seq(Entry)
      BY <1>1, <1>2
    <2> QED BY <1>p, <2>1, ConcatProperties
  <1>len. /\ sent \in Nat /\ Len(entries) \in Nat /\ Len(batch) \in Nat /\ Len(posting) \in Nat
          /\ Done \in Int
    BY Lengths
  <1>4. \A i \in 1..Len(pending) : pending[i] = Done + i
    <2> SUFFICES ASSUME NEW i \in 1..Len(pending) PROVE pending[i] = Done + i
        OBVIOUS
    <2>1. CASE i <= Len(posting)
      <3>1. pending[i] = posting[i] /\ i \in 1..Len(posting)
        BY <1>2, <1>3, <1>len, <2>1
      <3> QED BY <3>1 DEF Numbered
    <2>2. CASE i > Len(posting) /\ i <= Len(pb)
      <3>1. pending[i] = batch[i - Len(posting)] /\ i - Len(posting) \in 1..Len(batch)
        BY <1>2, <1>3, <1>len, <2>2
      <3>2. batch[i - Len(posting)] = Done + Len(posting) + (i - Len(posting))
        BY <3>1 DEF Numbered
      <3> QED BY <1>len, <3>1, <3>2
    <2>3. CASE i > Len(pb)
      <3>1. pending[i] = entries[i - Len(pb)] /\ i - Len(pb) \in 1..Len(entries)
        BY <1>2, <1>3, <1>len, <2>3
      <3>2. entries[i - Len(pb)] = Done + Len(posting) + Len(batch) + (i - Len(pb))
        BY <3>1 DEF Numbered
      <3> QED BY <1>2, <1>len, <3>1, <3>2
    <2> QED BY <1>2, <1>3, <2>1, <2>2, <2>3, Lengths
  <1>5. pending = [i \in 1..Len(pending) |-> Done + i]
    <2>1. pending = [i \in 1..Len(pending) |-> pending[i]]
      BY <1>3
    <2> QED BY <1>4, <2>1
  <1>6. Len(pending) <= sent /\ sent - Len(pending) = Done
    BY SMTT(30), <1>2, <1>3, Lengths DEF Numbered, Done
  <1>7. pending = [i \in 1..Len(pending) |-> (sent - Len(pending)) + i]
    BY <1>5, <1>6
  <1> QED BY <1>6, <1>7 DEF PendingInOrder, Numbered, pending, pb

\* Run, Flush and ShutDown leave only well-formed entries and batches, the
\* channel within its capacity and the batch within its limit.
THEOREM TypeCorrect == Spec => []TypeOK
  <1>1. IInv => TypeOK
    BY DEF IInv
  <1> QED BY <1>1, Invariance, PTL

\* No entry is skipped, repeated or overtaken on its way through the channel,
\* the batch and the post, and all older ones are settled, each once.
THEOREM InOrder == Spec => []PendingInOrder
  <1>1. IInv => PendingInOrder
    BY NumberedInOrder DEF IInv
  <1> QED BY <1>1, Invariance, PTL

\* A post is never empty and never more than one entry over the limit.
THEOREM WholeBatches == Spec => []PostsAreBatches
  <1>1. IInv => PostsAreBatches
    BY DEF IInv
  <1> QED BY <1>1, Invariance, PTL

\* While Run serves the channel its timer is armed or its tick waits.
THEOREM TimerStaysAlive == Spec => []TimerAlive
  <1>1. IInv => TimerAlive
    BY DEF IInv
  <1> QED BY <1>1, Invariance, PTL

\* When ShutDown has returned, everything Run took from the channel has been
\* posted.
THEOREM FlushedAtShutDown == Spec => []ShutDownFlushes
  <1>1. IInv => ShutDownFlushes
    <2> SUFFICES ASSUME IInv, shut = "returned"
                 PROVE  Settled = 1..(sent - Len(entries))
        BY DEF ShutDownFlushes
    <2>1. run = "done" /\ batch = <<>> /\ posting = <<>>
      BY DEF IInv, Returned, PostsAreBatches
    <2>2. Len(batch) = 0 /\ Len(posting) = 0
      BY <2>1
    <2>3. Done = sent - Len(entries)
      BY <2>2, Lengths DEF Done, IInv
    <2> QED BY <2>3 DEF IInv, Numbered
  <1> QED BY <1>1, Invariance, PTL
=============================================================================
