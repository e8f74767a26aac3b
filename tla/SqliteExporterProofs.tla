------------------------ MODULE SqliteExporterProofs ------------------------
(***************************************************************************)
(* Proofs about SqliteExporter, for every set of tables, every capacity of *)
(* the channel, every size of a batch and every number of items.           *)
(*                                                                         *)
(* The loop that sorts a batch by table is a recursive function; what it   *)
(* computes is proved by induction, in the form that a set of numbers      *)
(* which is not empty has a least one.                                     *)
(***************************************************************************)
EXTENDS SqliteExporter, SequenceTheorems, WellFoundedInduction, TLAPS

\* Items that no part of the exporter has before it any more.
Done == sent - Len(datas) - Len(batch) - Len(posting)

\* The items of the flush, of the batch and of the channel follow each other
\* without a gap after those.
Numbered ==
    /\ Done >= 0
    /\ \A i \in 1..Len(posting) : posting[i][2] = Done + i
    /\ \A i \in 1..Len(batch)   : batch[i][2] = Done + Len(posting) + i
    /\ \A i \in 1..Len(datas)   : datas[i][2] = Done + Len(posting) + Len(batch) + i

\* The tables Flush is through with.
WrittenTables == {TableOrder[k] : k \in 1..(next - 1)}

\* The row r can only be in a table or lost: it is older than the flush under
\* way, or its table has been written by it.
Behind(r) ==
    \/ r[2] \in 1..Done
    \/ r \in ToSet(posting) /\ r[1] \in WrittenTables

Kept == UNION {ToSet(stored[t]) : t \in Tables}

\* Where every row behind Flush is, and where no other is.
Written ==
    /\ \A t \in Tables : \A r \in ToSet(stored[t]) : r[1] = t
    /\ \A r \in Kept \cup lost : Behind(r)
    /\ \A r, s \in Kept \cup lost : r[2] = s[2] => r = s
    /\ Kept \cap lost = {}
    /\ \A n \in 1..Done : \E r \in Kept \cup lost : r[2] = n
    /\ \A r \in ToSet(posting) : r[1] \in WrittenTables => r \in Kept \cup lost

\* The numbers in a sequence of rows rise.
Rising(s) == \A i, j \in DOMAIN s : i < j => s[i][2] < s[j][2]

IInv ==
    /\ TypeOK
    /\ next = 0 => posting = <<>>
    /\ Numbered
    /\ Written
    /\ \A t \in Tables : Rising(stored[t])

----------------------------------------------------------------------------
(***************************************************************************)
(* The loop of Flush over a batch.                                         *)
(***************************************************************************)

Less == {p \in Nat \X Nat : p[1] < p[2]}

\* Induction: a set of numbers that is not empty has a least one.
LEMMA NatLeast ==
    ASSUME NEW T \in SUBSET Nat, T # {}
    PROVE  \E n \in T : \A m \in T : n <= m
  <1>1. IsWellFoundedOn(Less, Nat)
    BY NatLessThanWellFounded DEF OpToRel, Less
  <1>2. PICK n \in T : \A m \in T : <<m, n>> \notin Less
    BY <1>1, WFMin
  <1>3. \A m \in T : ~(m < n)
    BY <1>2 DEF Less
  <1> QED BY <1>3

\* f[i] is the slice of table t after i items of s, up to n.
Loop(f, s, t, n) ==
    f = [i \in 0..n |-> IF i = 0 THEN <<>>
                        ELSE IF s[i][1] = t THEN Append(f[i - 1], s[i])
                        ELSE f[i - 1]]

LEMMA LoopExists ==
    ASSUME NEW s, NEW t
    PROVE  \A n \in Nat : \E f : Loop(f, s, t, n)
  <1> DEFINE T == {n \in Nat : ~ \E f : Loop(f, s, t, n)}
  <1> SUFFICES ASSUME T # {} PROVE FALSE
      OBVIOUS
  <1>1. PICK m \in T : \A k \in T : m <= k
    <2>1. T \in SUBSET Nat
      OBVIOUS
    <2> HIDE DEF T
    <2> QED BY <2>1, NatLeast
  <1>2. m \in Nat /\ ~ \E f : Loop(f, s, t, m)
    BY <1>1
  <1>3. CASE m = 0
    <2>1. Loop([i \in 0..0 |-> <<>>], s, t, 0)
      BY DEF Loop
    <2> QED BY <1>2, <1>3, <2>1
  <1>4. CASE m # 0
    <2>1. m - 1 \in Nat /\ m - 1 \notin T
      BY <1>1, <1>2, <1>4
    <2>2. PICK f : Loop(f, s, t, m - 1)
      BY <2>1
    <2> DEFINE g == [i \in 0..m |-> IF i = m
                                   THEN IF s[m][1] = t THEN Append(f[m - 1], s[m]) ELSE f[m - 1]
                                   ELSE f[i]]
    <2>3. \A i \in 0..m : g[i] = IF i = 0 THEN <<>>
                                 ELSE IF s[i][1] = t THEN Append(g[i - 1], s[i])
                                 ELSE g[i - 1]
      <3> SUFFICES ASSUME NEW i \in 0..m
                   PROVE  g[i] = IF i = 0 THEN <<>>
                                 ELSE IF s[i][1] = t THEN Append(g[i - 1], s[i])
                                 ELSE g[i - 1]
          OBVIOUS
      <3>1. CASE i = m
        <4>1. g[i - 1] = f[m - 1]
          BY <1>2, <1>4, <3>1
        <4> QED BY <1>2, <1>4, <3>1, <4>1
      <3>2. CASE i # m
        <4>1. i \in 0..(m - 1) /\ g[i] = f[i]
          BY <1>2, <3>2
        <4>2. f[i] = IF i = 0 THEN <<>>
                     ELSE IF s[i][1] = t THEN Append(f[i - 1], s[i])
                     ELSE f[i - 1]
          BY <2>2, <4>1 DEF Loop
        <4>3. CASE i = 0
          BY <4>1, <4>2, <4>3
        <4>4. CASE i # 0
          <5>1. g[i - 1] = f[i - 1]
            BY <1>2, <4>1, <4>4
          <5> QED BY <4>1, <4>2, <4>4, <5>1
        <4> QED BY <4>3, <4>4
      <3> QED BY <3>1, <3>2
    <2>4. g = [i \in 0..m |-> g[i]]
      OBVIOUS
    <2>5. Loop(g, s, t, m)
      <3> HIDE DEF g
      <3> QED BY <2>3, <2>4 DEF Loop
    <2> HIDE DEF g
    <2> QED BY <1>2, <2>5
  <1> QED BY <1>3, <1>4

\* What the slice r holds after n items of s: the items of table t, in their
\* order.
Slice(r, s, t, n) ==
    /\ r \in Seq(Row)
    /\ \A j \in 1..Len(r) : r[j][1] = t /\ \E i \in 1..n : r[j] = s[i]
    /\ \A i \in 1..n : s[i][1] = t => \E j \in 1..Len(r) : r[j] = s[i]
    /\ Rising(r)


\* One more item of s.
LEMMA SliceStep ==
    ASSUME NEW s \in Seq(Row), Rising(s), NEW t, NEW n \in Nat, n + 1 <= Len(s),
           NEW r, Slice(r, s, t, n)
    PROVE  Slice(IF s[n + 1][1] = t THEN Append(r, s[n + 1]) ELSE r, s, t, n + 1)
  <1>1. n + 1 \in 1..Len(s) /\ n + 1 \in DOMAIN s /\ s[n + 1] \in Row
    OBVIOUS
  <1>2. r \in Seq(Row) /\ Len(r) \in Nat
    BY DEF Slice
  <1>3. \A i \in 1..(n + 1) : i \in 1..n \/ i = n + 1
    OBVIOUS
  <1>4. ASSUME s[n + 1][1] # t PROVE Slice(r, s, t, n + 1)
    <2>1. \A j \in 1..Len(r) : r[j][1] = t /\ \E i \in 1..(n + 1) : r[j] = s[i]
      <3> SUFFICES ASSUME NEW j \in 1..Len(r)
                   PROVE  r[j][1] = t /\ \E i \in 1..(n + 1) : r[j] = s[i]
          OBVIOUS
      <3>1. PICK i \in 1..n : r[j][1] = t /\ r[j] = s[i]
        BY DEF Slice
      <3>2. i \in 1..(n + 1)
        OBVIOUS
      <3> QED BY <3>1, <3>2
    <2>2. \A i \in 1..(n + 1) : s[i][1] = t => \E j \in 1..Len(r) : r[j] = s[i]
      BY <1>3, <1>4 DEF Slice
    <2> QED BY <1>2, <2>1, <2>2 DEF Slice
  <1>5. ASSUME s[n + 1][1] = t PROVE Slice(Append(r, s[n + 1]), s, t, n + 1)
    <2> DEFINE q == Append(r, s[n + 1])
    <2>1. /\ q \in Seq(Row) /\ Len(q) = Len(r) + 1 /\ q[Len(r) + 1] = s[n + 1]
          /\ \A j \in 1..Len(r) : q[j] = r[j]
      BY <1>1, <1>2, AppendProperties
    <2> HIDE DEF q
    <2>2. \A j \in 1..Len(q) : j \in 1..Len(r) \/ j = Len(r) + 1
      BY <1>2, <2>1
    <2>3. \A j \in 1..Len(q) : q[j][1] = t /\ \E i \in 1..(n + 1) : q[j] = s[i]
      <3> SUFFICES ASSUME NEW j \in 1..Len(q)
                   PROVE  q[j][1] = t /\ \E i \in 1..(n + 1) : q[j] = s[i]
          OBVIOUS
      <3>1. CASE j \in 1..Len(r)
        <4>1. PICK i \in 1..n : r[j][1] = t /\ r[j] = s[i]
          BY <3>1 DEF Slice
        <4>2. i \in 1..(n + 1) /\ q[j] = r[j]
          BY <2>1, <3>1
        <4> QED BY <4>1, <4>2
      <3>2. CASE j = Len(r) + 1
        <4>1. q[j] = s[n + 1] /\ n + 1 \in 1..(n + 1)
          BY <2>1, <3>2
        <4> QED BY <1>5, <4>1
      <3> QED BY <2>2, <3>1, <3>2
    <2>4. \A i \in 1..(n + 1) : s[i][1] = t => \E j \in 1..Len(q) : q[j] = s[i]
      <3> SUFFICES ASSUME NEW i \in 1..(n + 1), s[i][1] = t
                   PROVE  \E j \in 1..Len(q) : q[j] = s[i]
          OBVIOUS
      <3>1. CASE i \in 1..n
        <4>1. PICK j \in 1..Len(r) : r[j] = s[i]
          BY <3>1 DEF Slice
        <4>2. j \in 1..Len(q) /\ q[j] = r[j]
          BY <1>2, <2>1
        <4> QED BY <4>1, <4>2
      <3>2. CASE i = n + 1
        <4>1. Len(r) + 1 \in 1..Len(q)
          BY <1>2, <2>1
        <4> QED BY <2>1, <3>2, <4>1
      <3> QED BY <1>3, <3>1, <3>2
    <2>5. Rising(q)
      <3> SUFFICES ASSUME NEW i \in 1..Len(q), NEW j \in 1..Len(q), i < j
                   PROVE  q[i][2] < q[j][2]
          <4>1. DOMAIN q = 1..Len(q)
            BY <2>1
          <4> QED BY <4>1 DEF Rising
      <3>1. i \in 1..Len(r) /\ q[i] = r[i]
        BY <1>2, <2>1, <2>2
      <3>2. CASE j \in 1..Len(r)
        <4>1. DOMAIN r = 1..Len(r) /\ Rising(r)
          BY <1>2 DEF Slice
        <4>2. r[i][2] < r[j][2]
          BY <3>1, <3>2, <4>1 DEF Rising
        <4> QED BY <2>1, <3>1, <3>2, <4>2
      <3>3. CASE j = Len(r) + 1
        <4>1. PICK k \in 1..n : r[i] = s[k]
          BY <3>1 DEF Slice
        <4>2. k \in DOMAIN s /\ k < n + 1
          BY <1>1
        <4>3. s[k][2] < s[n + 1][2]
          BY <1>1, <4>2 DEF Rising
        <4> QED BY <2>1, <3>1, <3>3, <4>1, <4>3
      <3> QED BY <2>2, <3>2, <3>3
    <2>6. Slice(q, s, t, n + 1)
      BY <2>1, <2>3, <2>4, <2>5 DEF Slice
    <2> QED BY <2>6 DEF q
  <1> QED BY <1>4, <1>5

\* The rows Flush writes to the table t.
LEMMA RowsOfSlice ==
    ASSUME NEW s \in Seq(Row), Rising(s), NEW t
    PROVE  Slice(RowsOf(s, t), s, t, Len(s))
  <1> DEFINE f == CHOOSE g : Loop(g, s, t, Len(s))
  <1>1. Len(s) \in Nat
    OBVIOUS
  <1>2. Loop(f, s, t, Len(s))
    <2>1. \E g : Loop(g, s, t, Len(s))
      BY <1>1, LoopExists
    <2> QED BY <2>1
  <1>3. RowsOf(s, t) = f[Len(s)]
    BY DEF RowsOf, Loop
  <1> HIDE DEF f
  <1> DEFINE T == {n \in 0..Len(s) : ~ Slice(f[n], s, t, n)}
  <1>4. T = {}
    <2> SUFFICES ASSUME T # {} PROVE FALSE
        OBVIOUS
    <2>1. PICK m \in T : \A k \in T : m <= k
      <3>1. T \in SUBSET Nat
        OBVIOUS
      <3> HIDE DEF T
      <3> QED BY <3>1, NatLeast
    <2>2. m \in 0..Len(s) /\ m \in Nat /\ ~ Slice(f[m], s, t, m)
      BY <1>1, <2>1
    <2>3. CASE m = 0
      <3>1. f[0] = <<>>
        BY <1>1, <1>2 DEF Loop
      <3>2. <<>> \in Seq(Row) /\ Len(<<>>) = 0 /\ DOMAIN <<>> = {}
        OBVIOUS
      <3>3. Slice(<<>>, s, t, 0)
        BY <3>2 DEF Slice, Rising
      <3> QED BY <2>2, <2>3, <3>1, <3>3
    <2>4. CASE m # 0
      <3>1. PICK n \in Nat : m = n + 1
        <4>1. m - 1 \in Nat /\ m = (m - 1) + 1
          BY <2>2, <2>4
        <4> QED BY <4>1
      <3>2. n \in 0..Len(s) /\ n \notin T /\ n + 1 <= Len(s)
        BY <1>1, <2>1, <2>2, <3>1
      <3>3. Slice(f[n], s, t, n)
        BY <3>2
      <3>4. f[n + 1] = IF s[n + 1][1] = t THEN Append(f[n], s[n + 1]) ELSE f[n]
        <4>1. n + 1 \in 0..Len(s) /\ n + 1 # 0 /\ (n + 1) - 1 = n
          BY <1>1, <3>2
        <4> QED BY <1>2, <4>1 DEF Loop
      <3>5. Slice(f[n + 1], s, t, n + 1)
        BY <3>2, <3>3, <3>4, SliceStep
      <3> QED BY <2>2, <3>1, <3>5
    <2> QED BY <2>3, <2>4
  <1>5. Len(s) \notin T /\ Len(s) \in 0..Len(s)
    BY <1>1, <1>4
  <1> QED BY <1>3, <1>5


----------------------------------------------------------------------------
(***************************************************************************)
(* The steps.                                                              *)
(***************************************************************************)

\* The sequences and their lengths.
LEMMA Lengths ==
    ASSUME TypeOK
    PROVE  /\ sent \in Nat /\ Done \in Int
           /\ datas \in Seq(Row) /\ batch \in Seq(Row) /\ posting \in Seq(Row)
           /\ Len(datas) \in Nat /\ Len(batch) \in Nat /\ Len(posting) \in Nat
  <1>1. sent \in Nat /\ datas \in Seq(Row) /\ batch \in Seq(Row) /\ posting \in Seq(Row)
    BY SqliteAssumption DEF TypeOK
  <1>2. Len(datas) \in Nat /\ Len(batch) \in Nat /\ Len(posting) \in Nat
    BY <1>1
  <1> QED BY <1>1, <1>2 DEF Done

LEMMA InitIInv == Init => IInv
  <1> SUFFICES ASSUME Init PROVE IInv
      OBVIOUS
  <1>0. <<>> \in Seq(Row) /\ Len(<<>>) = 0 /\ DOMAIN <<>> = {} /\ Len(TableOrder) = 5
    BY DEF TableOrder
  <1>1. TypeOK
    <2>1. 0 \in 0..MaxItems /\ 0 <= DatasSize /\ 0 <= BatchEntriesNum /\ 0 \in 0..(Len(TableOrder) + 1)
      BY <1>0, SqliteAssumption
    <2>2. stored \in [Tables -> Seq(Row)] /\ lost \subseteq Row
      BY <1>0 DEF Init
    <2> QED BY <1>0, <2>1, <2>2 DEF Init, TypeOK
  <1>2. Done = 0
    <2>1. sent = 0 /\ Len(datas) = 0 /\ Len(batch) = 0 /\ Len(posting) = 0
      BY DEF Init
    <2> QED BY <2>1 DEF Done
  <1>3. Numbered
    BY <1>0, <1>2 DEF Init, Numbered
  <1>4. ToSet(posting) = {} /\ (\A t \in Tables : ToSet(stored[t]) = {}) /\ Kept = {} /\ lost = {}
    <2>1. ToSet(<<>>) = {}
      BY <1>0 DEF ToSet
    <2> QED BY <2>1 DEF Init, Kept
  <1>5. Written
    BY <1>2, <1>4 DEF Written
  <1>6. \A t \in Tables : Rising(stored[t])
    BY <1>0 DEF Init, Rising
  <1> QED BY <1>1, <1>3, <1>5, <1>6 DEF IInv, Init

\* The database and the flush are not touched.
LEMMA WrittenKept ==
    ASSUME Written, \A t \in Tables : Rising(stored[t]),
           Done' = Done, UNCHANGED <<posting, next, stored, lost>>
    PROVE  Written' /\ \A t \in Tables : Rising(stored'[t])
  <1>1. Kept' = Kept /\ WrittenTables' = WrittenTables
    BY DEF Kept, WrittenTables
  <1>2. \A r : Behind(r)' <=> Behind(r)
    BY <1>1 DEF Behind
  <1> QED BY <1>1, <1>2 DEF Written

\* A flush begins: nothing of its batch has been written.
LEMMA WrittenAtStart ==
    ASSUME Written, \A t \in Tables : Rising(stored[t]),
           posting = <<>>, next' = 1, Done' = Done, UNCHANGED <<stored, lost>>
    PROVE  Written' /\ \A t \in Tables : Rising(stored'[t])
  <1>1. Kept' = Kept /\ WrittenTables' = {}
    BY DEF Kept, WrittenTables
  <1>2. ToSet(posting) = {}
    BY DEF ToSet
  <1>3. \A r : Behind(r)' <=> Behind(r)
    BY <1>1, <1>2 DEF Behind
  <1> QED BY <1>1, <1>2, <1>3 DEF Written

\* Consume puts the next number at the end of the channel.
LEMMA ConsumeStep ==
    ASSUME IInv, NEW t \in Tables, Consume(t)
    PROVE  IInv'
  <1>1. TypeOK /\ Numbered /\ Written /\ \A u \in Tables : Rising(stored[u])
    BY DEF IInv
  <1>2. /\ sent < MaxItems /\ Len(datas) < DatasSize
        /\ sent' = sent + 1 /\ datas' = Append(datas, <<t, sent + 1>>)
        /\ UNCHANGED <<batch, posting, next, armed, tick, quit, shut, stored, lost>>
    BY DEF Consume, timer, ends
  <1>3. <<t, sent + 1>> \in Row /\ sent' \in 0..MaxItems
    BY <1>1, <1>2, SqliteAssumption DEF TypeOK, Row
  <1>4. /\ datas' \in Seq(Row) /\ Len(datas') = Len(datas) + 1
        /\ \A i \in 1..Len(datas) : datas'[i] = datas[i]
        /\ datas'[Len(datas) + 1] = <<t, sent + 1>>
    BY <1>1, <1>2, <1>3, Lengths, AppendProperties
  <1>5. Len(datas') <= DatasSize
    BY <1>1, <1>2, <1>4, Lengths, SqliteAssumption
  <1>6. TypeOK'
    BY <1>1, <1>2, <1>3, <1>4, <1>5 DEF TypeOK
  <1>7. Done' = Done
    BY <1>1, <1>2, <1>4, Lengths DEF Done
  <1>8. \A i \in 1..Len(datas') : datas'[i][2] = Done + Len(posting) + Len(batch) + i
    <2> SUFFICES ASSUME NEW i \in 1..Len(datas')
                 PROVE  datas'[i][2] = Done + Len(posting) + Len(batch) + i
        OBVIOUS
    <2>1. CASE i \in 1..Len(datas)
      BY <1>1, <1>4, <2>1 DEF Numbered
    <2>2. CASE i = Len(datas) + 1
      <3>1. datas'[i][2] = sent + 1
        BY <1>4, <2>2
      <3>2. sent \in Nat /\ Len(datas) \in Nat /\ Len(batch) \in Nat /\ Len(posting) \in Nat
        BY <1>1, Lengths
      <3> QED BY <2>2, <3>1, <3>2 DEF Done
    <2> QED BY <1>1, <1>4, <2>1, <2>2, Lengths
  <1>9. Numbered'
    BY <1>1, <1>2, <1>7, <1>8 DEF Numbered
  <1>10. Written' /\ \A u \in Tables : Rising(stored'[u])
    BY <1>1, <1>2, <1>7, WrittenKept
  <1> QED BY <1>2, <1>6, <1>9, <1>10 DEF IInv

\* Run moves the head of the channel to the end of the batch, and a batch
\* past its size to Flush.
LEMMA RunDataStep ==
    ASSUME IInv, RunData
    PROVE  IInv'
  <1> DEFINE b == Append(batch, Head(datas))
  <1>1. /\ TypeOK /\ Numbered /\ Written /\ \A u \in Tables : Rising(stored[u])
        /\ next = 0 /\ posting = <<>>
    BY DEF IInv, RunData, Idle
  <1>2. /\ datas # <<>> /\ datas' = Tail(datas)
        /\ UNCHANGED <<sent, armed, tick, quit, shut, stored, lost>>
    BY DEF RunData, timer, ends
  <1>3. /\ datas' \in Seq(Row) /\ Len(datas') = Len(datas) - 1 /\ Len(datas) >= 1
        /\ \A i \in 1..Len(datas') : datas'[i] = datas[i + 1]
        /\ Head(datas) = datas[1] /\ Head(datas) \in Row
    BY <1>1, <1>2, Lengths
  <1>4. /\ b \in Seq(Row) /\ Len(b) = Len(batch) + 1
        /\ \A i \in 1..Len(batch) : b[i] = batch[i]
        /\ b[Len(batch) + 1] = datas[1]
    BY <1>1, <1>3, Lengths, AppendProperties
  <1>5. IF Len(b) > BatchEntriesNum
        THEN posting' = b /\ batch' = <<>> /\ next' = 1
        ELSE batch' = b /\ UNCHANGED <<posting, next>>
    BY DEF RunData, StartFlush
  <1> HIDE DEF b
  <1>6. /\ <<>> \in Seq(Row) /\ Len(<<>>) = 0 /\ Len(posting) = 0 /\ Len(TableOrder) = 5
        /\ BatchEntriesNum \in Nat /\ DatasSize \in Nat
    BY <1>1, SqliteAssumption DEF TableOrder
  <1>7. TypeOK'
    <2>1. Len(datas') <= DatasSize
      BY <1>1, <1>3, <1>6, Lengths DEF TypeOK
    <2>2. batch' \in Seq(Row) /\ Len(batch') <= BatchEntriesNum /\ posting' \in Seq(Row)
      <3>1. CASE Len(b) > BatchEntriesNum
        BY <1>4, <1>5, <1>6, <3>1
      <3>2. CASE ~(Len(b) > BatchEntriesNum)
        <4>1. batch' = b /\ posting' = posting /\ Len(b) \in Nat
          BY <1>4, <1>5, <3>2
        <4> QED BY <1>1, <1>4, <1>6, <3>2, <4>1, Lengths
      <3> QED BY <3>1, <3>2
    <2>3. next' \in 0..(Len(TableOrder) + 1)
      BY <1>1, <1>5, <1>6
    <2>4. /\ sent' \in 0..MaxItems
          /\ armed' \in BOOLEAN /\ tick' \in BOOLEAN /\ quit' \in BOOLEAN
          /\ shut' \in {"no", "waiting", "returned"}
          /\ stored' \in [Tables -> Seq(Row)] /\ lost' \subseteq Row
      BY <1>1, <1>2 DEF TypeOK
    <2> QED BY <1>3, <2>1, <2>2, <2>3, <2>4 DEF TypeOK
  <1>8. Done' = Done
    BY SMTT(30), <1>1, <1>2, <1>3, <1>4, <1>5, <1>6, Lengths DEF Done
  <1>9. \A i \in 1..Len(b) : b[i][2] = Done + i
    <2> SUFFICES ASSUME NEW i \in 1..Len(b)
                 PROVE  b[i][2] = Done + i
        OBVIOUS
    <2>1. CASE i \in 1..Len(batch)
      <3>1. b[i] = batch[i] /\ batch[i][2] = Done + Len(posting) + i
        BY <1>1, <1>4, <2>1 DEF Numbered
      <3>2. Done \in Int
        BY <1>1, Lengths
      <3> QED BY <1>6, <3>1, <3>2
    <2>2. CASE i = Len(batch) + 1
      <3>1. 1 \in 1..Len(datas)
        BY <1>1, <1>3, Lengths
      <3>2. datas[1][2] = Done + Len(posting) + Len(batch) + 1
        BY <1>1, <3>1 DEF Numbered
      <3> QED BY <1>1, <1>4, <1>6, <2>2, <3>2, Lengths
    <2> QED BY <1>1, <1>4, <2>1, <2>2, Lengths
  <1>10. \A i \in 1..Len(datas') : datas'[i][2] = Done + Len(b) + i
    <2> SUFFICES ASSUME NEW i \in 1..Len(datas')
                 PROVE  datas'[i][2] = Done + Len(b) + i
        OBVIOUS
    <2>1. i + 1 \in 1..Len(datas) /\ datas'[i] = datas[i + 1]
      BY <1>1, <1>3, Lengths
    <2>2. datas[i + 1][2] = Done + Len(posting) + Len(batch) + (i + 1)
      BY <1>1, <2>1 DEF Numbered
    <2> QED BY SMTT(30), <1>1, <1>4, <1>6, <2>1, <2>2, Lengths
  <1>11. Done >= 0 /\ Done \in Int /\ Len(b) \in Nat
    BY <1>1, <1>4, Lengths DEF Numbered
  <1>12. Numbered' /\ Written' /\ (next' = 0 => posting' = <<>>)
         /\ \A u \in Tables : Rising(stored'[u])
    <2>1. CASE Len(b) > BatchEntriesNum
      <3>1. posting' = b /\ batch' = <<>> /\ next' = 1
        BY <1>5, <2>1
      <3>2. \A i \in 1..Len(datas') : datas'[i][2] = Done + Len(b) + 0 + i
        BY <1>10, <1>11
      <3>3. Numbered'
        BY <1>6, <1>8, <1>9, <1>11, <3>1, <3>2 DEF Numbered
      <3> QED BY <1>1, <1>2, <1>8, <3>1, <3>3, WrittenAtStart
    <2>2. CASE ~(Len(b) > BatchEntriesNum)
      <3>1. batch' = b /\ UNCHANGED <<posting, next>>
        BY <1>5, <2>2
      <3>2. /\ \A i \in 1..Len(datas') : datas'[i][2] = Done + 0 + Len(b) + i
            /\ \A i \in 1..Len(b) : b[i][2] = Done + 0 + i
        BY <1>9, <1>10, <1>11
      <3>3. Numbered'
        BY <1>6, <1>8, <1>11, <3>1, <3>2 DEF Numbered
      <3> QED BY <1>1, <1>2, <1>8, <3>1, <3>3, WrittenKept
    <2> QED BY <2>1, <2>2
  <1> QED BY <1>7, <1>12 DEF IInv


\* A tick hands the batch to Flush, or re-arms the timer when it is empty.
LEMMA RunTimerStep ==
    ASSUME IInv, RunTimer
    PROVE  IInv'
  <1>1. /\ TypeOK /\ Numbered /\ Written /\ \A u \in Tables : Rising(stored[u])
        /\ next = 0 /\ posting = <<>>
    BY DEF IInv, RunTimer, Idle
  <1>2. /\ tick' = FALSE
        /\ UNCHANGED <<sent, datas, quit, shut, stored, lost>>
    BY DEF RunTimer, ends
  <1>3. /\ <<>> \in Seq(Row) /\ Len(<<>>) = 0 /\ Len(posting) = 0 /\ Len(TableOrder) = 5
        /\ BatchEntriesNum \in Nat
    BY <1>1, SqliteAssumption DEF TableOrder
  <1>4. CASE batch = <<>>
    <2>1. armed' = TRUE /\ UNCHANGED <<posting, batch, next>>
      BY <1>4 DEF RunTimer
    <2>2. Done' = Done
      BY <1>2, <2>1 DEF Done
    <2>3. TypeOK' /\ Numbered'
      BY <1>1, <1>2, <2>1, <2>2 DEF TypeOK, Numbered
    <2>4. Written' /\ \A u \in Tables : Rising(stored'[u])
      BY <1>1, <1>2, <2>1, <2>2, WrittenKept
    <2> QED BY <1>1, <2>1, <2>3, <2>4 DEF IInv
  <1>5. CASE batch # <<>>
    <2>1. posting' = batch /\ batch' = <<>> /\ next' = 1 /\ armed' = armed
      BY <1>5 DEF RunTimer, StartFlush
    <2>2. /\ sent \in Nat /\ Len(datas) \in Nat /\ Len(batch) \in Nat /\ batch \in Seq(Row)
          /\ Done \in Int
      BY <1>1, Lengths
    <2>3. Done' = Done
      BY <1>2, <1>3, <2>1, <2>2 DEF Done
    <2>4. TypeOK'
      <3>1. next' \in 0..(Len(TableOrder) + 1) /\ Len(batch') <= BatchEntriesNum
        BY <1>3, <2>1
      <3> QED BY <1>1, <1>2, <1>3, <2>1, <2>2, <3>1 DEF TypeOK
    <2>5. /\ \A i \in 1..Len(batch) : batch[i][2] = Done + i
          /\ \A i \in 1..Len(datas) : datas[i][2] = Done + Len(batch) + 0 + i
          /\ Done >= 0
      BY <1>1, <1>3, <2>2 DEF Numbered
    <2>6. Numbered'
      BY <1>2, <1>3, <2>1, <2>3, <2>5 DEF Numbered
    <2>7. Written' /\ \A u \in Tables : Rising(stored'[u])
      BY <1>1, <1>2, <2>1, <2>3, WrittenAtStart
    <2> QED BY <2>1, <2>4, <2>6, <2>7 DEF IInv
  <1> QED BY <1>4, <1>5

\* A step that only concerns the timer or ShutDown.
LEMMA OtherStep ==
    ASSUME IInv, UNCHANGED <<sent, datas, batch, posting, next, stored, lost>>,
           armed' \in BOOLEAN, tick' \in BOOLEAN, quit' \in BOOLEAN,
           shut' \in {"no", "waiting", "returned"}
    PROVE  IInv'
  <1>1. Done' = Done
    BY DEF Done
  <1>2. TypeOK' /\ Numbered'
    BY <1>1 DEF IInv, TypeOK, Numbered
  <1>3. Written' /\ \A u \in Tables : Rising(stored'[u])
    BY <1>1, WrittenKept DEF IInv
  <1> QED BY <1>2, <1>3 DEF IInv

\* No table is written twice in a flush.
LEMMA TablesDiffer ==
    ASSUME NEW n \in 1..5
    PROVE  /\ Len(TableOrder) = 5
           /\ \A k \in 1..(n - 1) : TableOrder[k] # TableOrder[n]
  BY DEF TableOrder

\* The rows of a flush have numbers past Done, and each number once.
LEMMA PostingRows ==
    ASSUME TypeOK, Numbered
    PROVE  /\ \A r \in ToSet(posting) : r[2] \in Nat /\ r[2] > Done
                                        /\ r[2] <= Done + Len(posting) /\ r[1] \in Tables
           /\ \A r, s \in ToSet(posting) : r[2] = s[2] => r = s
           /\ Rising(posting)
  <1>1. /\ DOMAIN posting = 1..Len(posting) /\ Len(posting) \in Nat /\ Done \in Int
        /\ \A i \in 1..Len(posting) : posting[i] \in Row /\ posting[i][2] = Done + i
    BY Lengths DEF Numbered
  <1>2. \A r \in ToSet(posting) : \E i \in 1..Len(posting) : r = posting[i]
    BY <1>1 DEF ToSet
  <1>3. \A r \in ToSet(posting) : r[2] \in Nat /\ r[2] > Done /\ r[2] <= Done + Len(posting)
                                  /\ r[1] \in Tables
    <2> SUFFICES ASSUME NEW r \in ToSet(posting)
                 PROVE  r[2] \in Nat /\ r[2] > Done /\ r[2] <= Done + Len(posting) /\ r[1] \in Tables
        OBVIOUS
    <2>1. PICK i \in 1..Len(posting) : r = posting[i]
      BY <1>2
    <2>2. r \in Row /\ r[2] = Done + i
      BY <1>1, <2>1
    <2> QED BY <1>1, <2>2 DEF Row
  <1>4. \A r, s \in ToSet(posting) : r[2] = s[2] => r = s
    <2> SUFFICES ASSUME NEW r \in ToSet(posting), NEW s \in ToSet(posting), r[2] = s[2]
                 PROVE  r = s
        OBVIOUS
    <2>1. PICK i \in 1..Len(posting) : r = posting[i]
      BY <1>2
    <2>2. PICK j \in 1..Len(posting) : s = posting[j]
      BY <1>2
    <2>3. Done + i = Done + j
      BY <1>1, <2>1, <2>2
    <2>4. i = j
      BY <1>1, <2>3
    <2> QED BY <2>1, <2>2, <2>4
  <1>5. Rising(posting)
    <2> SUFFICES ASSUME NEW i \in 1..Len(posting), NEW j \in 1..Len(posting), i < j
                 PROVE  posting[i][2] < posting[j][2]
        BY <1>1 DEF Rising
    <2>1. posting[i][2] = Done + i /\ posting[j][2] = Done + j
      BY <1>1
    <2> QED BY <1>1, <2>1
  <1> QED BY <1>3, <1>4, <1>5

\* The rows of one table, as a set.
LEMMA RowsOfSet ==
    ASSUME TypeOK, Numbered, NEW t
    PROVE  LET rows == RowsOf(posting, t)
           IN  /\ rows \in Seq(Row) /\ Rising(rows)
               /\ ToSet(rows) = {r \in ToSet(posting) : r[1] = t}
               /\ rows = <<>> <=> ToSet(rows) = {}
  <1> DEFINE rows == RowsOf(posting, t)
  <1>1. Slice(rows, posting, t, Len(posting))
    BY Lengths, PostingRows, RowsOfSlice
  <1> HIDE DEF rows
  <1>2. rows \in Seq(Row) /\ Rising(rows) /\ DOMAIN rows = 1..Len(rows) /\ Len(rows) \in Nat
    BY <1>1 DEF Slice
  <1>3. DOMAIN posting = 1..Len(posting)
    BY Lengths
  <1>4. ToSet(rows) \subseteq {r \in ToSet(posting) : r[1] = t}
    <2> SUFFICES ASSUME NEW r \in ToSet(rows)
                 PROVE  r \in ToSet(posting) /\ r[1] = t
        OBVIOUS
    <2>1. PICK j \in 1..Len(rows) : r = rows[j]
      BY <1>2 DEF ToSet
    <2>2. PICK i \in 1..Len(posting) : rows[j][1] = t /\ rows[j] = posting[i]
      BY <1>1 DEF Slice
    <2>3. posting[i] \in ToSet(posting)
      BY <1>3 DEF ToSet
    <2> QED BY <2>1, <2>2, <2>3
  <1>5. {r \in ToSet(posting) : r[1] = t} \subseteq ToSet(rows)
    <2> SUFFICES ASSUME NEW r \in ToSet(posting), r[1] = t
                 PROVE  r \in ToSet(rows)
        OBVIOUS
    <2>1. PICK i \in 1..Len(posting) : r = posting[i]
      BY <1>3 DEF ToSet
    <2>2. PICK j \in 1..Len(rows) : rows[j] = posting[i]
      BY <1>1, <2>1 DEF Slice
    <2>3. rows[j] \in ToSet(rows)
      BY <1>2 DEF ToSet
    <2> QED BY <2>1, <2>2, <2>3
  <1>6. rows = <<>> => ToSet(rows) = {}
    BY DEF ToSet
  <1>7. ASSUME rows # <<>> PROVE ToSet(rows) # {}
    <2>1. 1 \in DOMAIN rows
      BY <1>2, <1>7
    <2> QED BY <2>1 DEF ToSet
  <1>8. ToSet(rows) = {r \in ToSet(posting) : r[1] = t}
    BY <1>4, <1>5
  <1>9. rows = <<>> <=> ToSet(rows) = {}
    BY <1>6, <1>7
  <1> QED BY <1>2, <1>8, <1>9 DEF rows


\* The rows of the table Flush writes next.
Rows(t) == {r \in ToSet(posting) : r[1] = t}

\* Nobody has seen them before.
LEMMA RowsFresh ==
    ASSUME TypeOK, Numbered, Written, next \in 1..5, NEW t, t = TableOrder[next]
    PROVE  /\ t \notin WrittenTables
           /\ Rows(t) \cap (Kept \cup lost) = {}
  <1>1. t \notin WrittenTables
    BY TablesDiffer DEF WrittenTables
  <1>2. ASSUME NEW r \in Rows(t), r \in Kept \cup lost PROVE FALSE
    <2>1. r \in ToSet(posting) /\ r[1] = t
      BY <1>2 DEF Rows
    <2>2. r[2] \in Nat /\ r[2] > Done /\ Done \in Int
      BY <2>1, PostingRows, Lengths
    <2>3. Behind(r)
      BY <1>2 DEF Written
    <2>4. r[2] \in 1..Done \/ r[1] \in WrittenTables
      BY <2>3 DEF Behind
    <2> QED BY <1>1, <2>1, <2>2, <2>4
  <1> QED BY <1>1, <1>2

\* The write of a table, whether it succeeds or fails.
LEMMA TableWritten ==
    ASSUME TypeOK, Numbered, Written, next \in 1..5, NEW t, t = TableOrder[next],
           next' = next + 1, posting' = posting, Done' = Done,
           (Kept \cup lost)' = (Kept \cup lost) \cup Rows(t),
           (Kept \cap lost)' = {},
           \A u \in Tables : \A r \in ToSet(stored'[u]) : r[1] = u
    PROVE  Written'
  <1> DEFINE Old == Kept \cup lost
             New == Rows(t)
  <1>1. WrittenTables' = WrittenTables \cup {t}
    <2>1. \A k : k \in 1..(next' - 1) <=> k \in 1..(next - 1) \/ k = next
      OBVIOUS
    <2>2. WrittenTables' = {TableOrder[k] : k \in 1..(next' - 1)}
      BY DEF WrittenTables
    <2> QED BY <2>1, <2>2 DEF WrittenTables
  <1>2. \A r \in Old : Behind(r)
    BY DEF Written
  <1>3. \A r \in Old \cup New : Behind(r)'
    BY <1>1, <1>2 DEF Behind, Rows
  <1>4. ASSUME NEW r \in Old, NEW s \in New, r[2] = s[2] PROVE FALSE
    <2>1. s \in ToSet(posting) /\ s[2] > Done /\ s[2] \in Nat /\ Done \in Int
      BY PostingRows, Lengths DEF Rows
    <2>2. r \in ToSet(posting)
      BY <1>2, <1>4, <2>1 DEF Behind
    <2>3. r = s
      BY <1>4, <2>1, <2>2, PostingRows
    <2> QED BY <2>3, RowsFresh
  <1>5. \A r, s \in Old : r[2] = s[2] => r = s
    BY DEF Written
  <1>6. \A r, s \in New : r[2] = s[2] => r = s
    BY PostingRows DEF Rows
  <1>7. \A r, s \in Old \cup New : r[2] = s[2] => r = s
    BY <1>4, <1>5, <1>6
  <1>8. \A n \in 1..Done : \E r \in Old \cup New : r[2] = n
    BY DEF Written
  <1>9. \A r \in ToSet(posting) : r[1] \in WrittenTables' => r \in Old \cup New
    BY <1>1 DEF Written, Rows
  <1>10. (Kept \cup lost)' = Old \cup New
    OBVIOUS
  <1> HIDE DEF Old, New
  <1> QED BY <1>3, <1>7, <1>8, <1>9, <1>10 DEF Written

\* Writing puts the rows behind those of earlier flushes.
LEMMA StoredRising ==
    ASSUME TypeOK, Numbered, Written, next \in 1..5, NEW t \in Tables, t = TableOrder[next],
           Rising(stored[t]), NEW rows \in Seq(Row), Rising(rows), ToSet(rows) = Rows(t)
    PROVE  /\ stored[t] \o rows \in Seq(Row)
           /\ ToSet(stored[t] \o rows) = ToSet(stored[t]) \cup Rows(t)
           /\ Rising(stored[t] \o rows)
  <1> DEFINE a == stored[t]
             q == a \o rows
  <1>1. a \in Seq(Row) /\ Len(a) \in Nat /\ DOMAIN a = 1..Len(a)
    BY DEF TypeOK
  <1>2. Len(rows) \in Nat /\ DOMAIN rows = 1..Len(rows)
    OBVIOUS
  <1>3. /\ q \in Seq(Row) /\ Len(q) = Len(a) + Len(rows)
        /\ \A i \in 1..Len(a) : q[i] = a[i]
        /\ \A i \in 1..Len(rows) : q[Len(a) + i] = rows[i]
    <2> HIDE DEF a
    <2> QED BY <1>1, <1>2
  <1>4. \A r \in ToSet(a) : r[2] <= Done
    <2> SUFFICES ASSUME NEW r \in ToSet(a) PROVE r[2] <= Done
        OBVIOUS
    <2>1. r[1] = t /\ r \in Kept /\ Behind(r)
      BY DEF Written, Kept
    <2>2. r[1] \notin WrittenTables
      BY <2>1, RowsFresh
    <2>3. Done \in Int
      BY Lengths
    <2> QED BY <2>1, <2>2, <2>3 DEF Behind
  <1>5. \A r \in ToSet(rows) : r[2] > Done
    BY PostingRows DEF Rows
  <1>6. \A i \in 1..Len(a) : a[i] \in ToSet(a) /\ a[i][2] \in Nat
    <2> HIDE DEF a
    <2>1. \A i \in 1..Len(a) : a[i] \in Row /\ a[i] \in ToSet(a)
      BY <1>1 DEF ToSet
    <2> QED BY <2>1 DEF Row
  <1>7. \A i \in 1..Len(rows) : rows[i] \in ToSet(rows) /\ rows[i][2] \in Nat
    BY SMTT(30), <1>2 DEF ToSet, Row
  <1>8. DOMAIN q = 1..Len(q) /\ Len(q) \in Nat
    BY <1>3
  <1>9. \A i \in 1..Len(q) : i \in 1..Len(a) \/ \E j \in 1..Len(rows) : i = Len(a) + j
    <2> SUFFICES ASSUME NEW i \in 1..Len(q), i \notin 1..Len(a)
                 PROVE  \E j \in 1..Len(rows) : i = Len(a) + j
        OBVIOUS
    <2>1. i - Len(a) \in 1..Len(rows) /\ i = Len(a) + (i - Len(a))
      BY <1>1, <1>2, <1>3
    <2> QED BY <2>1
  <1> HIDE DEF a, q
  <1>10. ToSet(q) = ToSet(a) \cup ToSet(rows)
    <2>1. \A r \in ToSet(q) : r \in ToSet(a) \/ r \in ToSet(rows)
      <3> SUFFICES ASSUME NEW r \in ToSet(q) PROVE r \in ToSet(a) \/ r \in ToSet(rows)
          OBVIOUS
      <3>1. PICK i \in 1..Len(q) : r = q[i]
        BY <1>8 DEF ToSet
      <3>2. CASE i \in 1..Len(a)
        BY <1>3, <1>6, <3>1, <3>2
      <3>3. ASSUME NEW j \in 1..Len(rows), i = Len(a) + j PROVE r \in ToSet(rows)
        BY <1>3, <1>7, <3>1, <3>3
      <3> QED BY <1>9, <3>2, <3>3
    <2>2. \A r \in ToSet(a) : r \in ToSet(q)
      <3> SUFFICES ASSUME NEW r \in ToSet(a) PROVE r \in ToSet(q)
          OBVIOUS
      <3>1. PICK i \in 1..Len(a) : r = a[i]
        BY <1>1 DEF ToSet
      <3>2. i \in DOMAIN q /\ q[i] = r
        BY <1>1, <1>2, <1>3, <1>8, <3>1
      <3> QED BY <3>2 DEF ToSet
    <2>3. \A r \in ToSet(rows) : r \in ToSet(q)
      <3> SUFFICES ASSUME NEW r \in ToSet(rows) PROVE r \in ToSet(q)
          OBVIOUS
      <3>1. PICK i \in 1..Len(rows) : r = rows[i]
        BY <1>2 DEF ToSet
      <3>2. Len(a) + i \in DOMAIN q /\ q[Len(a) + i] = r
        BY <1>1, <1>2, <1>3, <1>8, <3>1
      <3> QED BY <3>2 DEF ToSet
    <2> QED BY <2>1, <2>2, <2>3
  <1>11. Rising(q)
    <2> SUFFICES ASSUME NEW i \in 1..Len(q), NEW j \in 1..Len(q), i < j
                 PROVE  q[i][2] < q[j][2]
        BY <1>8 DEF Rising
    <2>1. CASE i \in 1..Len(a) /\ j \in 1..Len(a)
      <3>1. a[i][2] < a[j][2]
        BY <1>1, <2>1 DEF Rising, a
      <3> QED BY <1>3, <2>1, <3>1
    <2>2. ASSUME i \in 1..Len(a), NEW l \in 1..Len(rows), j = Len(a) + l
          PROVE  q[i][2] < q[j][2]
      <3>1. q[i] = a[i] /\ q[j] = rows[l]
        BY <1>3, <2>2
      <3>2. a[i][2] <= Done /\ rows[l][2] > Done /\ a[i][2] \in Nat /\ rows[l][2] \in Nat
        BY <1>4, <1>5, <1>6, <1>7, <2>2
      <3>3. Done \in Int
        BY Lengths
      <3> QED BY SMTT(30), <3>1, <3>2, <3>3
    <2>3. ASSUME NEW k \in 1..Len(rows), i = Len(a) + k
          PROVE  q[i][2] < q[j][2]
      <3>1. j \notin 1..Len(a)
        BY <1>1, <2>3
      <3>2. PICK l \in 1..Len(rows) : j = Len(a) + l
        BY <1>9, <3>1
      <3>3. k < l
        BY <1>1, <2>3, <3>2
      <3>4. rows[k][2] < rows[l][2]
        BY <1>2, <3>3 DEF Rising
      <3> QED BY <1>3, <2>3, <3>2, <3>4
    <2> QED BY <1>9, <2>1, <2>2, <2>3
  <1> QED BY <1>3, <1>10, <1>11 DEF a, q


\* Flush writes one table.
LEMMA FlushTableStep ==
    ASSUME IInv, NEW ok \in BOOLEAN, FlushTable(ok)
    PROVE  IInv'
  <1> DEFINE t    == TableOrder[next]
             rows == RowsOf(posting, t)
  <1>1. /\ TypeOK /\ Numbered /\ Written /\ \A u \in Tables : Rising(stored[u])
    BY DEF IInv
  <1>2. /\ next \in 1..5 /\ next' = next + 1 /\ Len(TableOrder) = 5
        /\ UNCHANGED <<sent, datas, batch, posting, armed, tick, quit, shut>>
    BY DEF FlushTable, timer, ends, TableOrder
  <1>3. Done' = Done
    BY <1>2 DEF Done
  <1>4. Numbered' /\ (next' = 0 => posting' = <<>>)
    BY <1>1, <1>2, <1>3 DEF Numbered
  <1>5. /\ rows \in Seq(Row) /\ Rising(rows) /\ ToSet(rows) = Rows(t)
        /\ rows = <<>> <=> Rows(t) = {}
    BY <1>1, RowsOfSet DEF Rows
  <1>6. \/ rows = <<>> /\ UNCHANGED <<stored, lost>>
        \/ rows # <<>> /\ stored' = [stored EXCEPT ![t] = stored[t] \o rows] /\ lost' = lost
        \/ rows # <<>> /\ lost' = lost \cup ToSet(rows) /\ stored' = stored
    BY DEF FlushTable
  <1>7. ASSUME stored' \in [Tables -> Seq(Row)], lost' \subseteq Row PROVE TypeOK'
    <2>1. next' \in 0..(Len(TableOrder) + 1)
      BY <1>2
    <2> QED BY <1>1, <1>2, <1>7, <2>1 DEF TypeOK
  <1>8. t \notin WrittenTables /\ Rows(t) \cap (Kept \cup lost) = {}
    BY <1>1, <1>2, RowsFresh
  <1>9. Kept \cap lost = {} /\ \A u \in Tables : \A r \in ToSet(stored[u]) : r[1] = u
    BY <1>1 DEF Written
  <1>10. stored \in [Tables -> Seq(Row)] /\ lost \subseteq Row
    BY <1>1 DEF TypeOK
  <1> HIDE DEF t, rows
  <1>11. ASSUME stored' = stored, Rows(t) \cup lost = lost' PROVE IInv'
    <2>1. Kept' = Kept
      BY <1>11 DEF Kept
    <2>2. (Kept \cup lost)' = (Kept \cup lost) \cup Rows(t) /\ (Kept \cap lost)' = {}
      BY <1>8, <1>9, <1>11, <2>1
    <2>3. \A u \in Tables : \A r \in ToSet(stored'[u]) : r[1] = u
      BY <1>9, <1>11
    <2>4. Written'
      BY <1>1, <1>2, <1>3, <2>2, <2>3, TableWritten DEF t
    <2>5. Rows(t) \subseteq Row
      <3>1. ToSet(posting) \subseteq Row
        BY <1>1, Lengths DEF ToSet
      <3> QED BY <3>1 DEF Rows
    <2>6. TypeOK'
      BY <1>7, <1>10, <1>11, <2>5
    <2> QED BY <1>1, <1>4, <1>11, <2>4, <2>6 DEF IInv
  <1>12. CASE rows = <<>> /\ UNCHANGED <<stored, lost>>
    BY <1>5, <1>11, <1>12
  <1>13. CASE rows # <<>> /\ lost' = lost \cup ToSet(rows) /\ stored' = stored
    BY <1>5, <1>11, <1>13
  <1>14. CASE rows # <<>> /\ stored' = [stored EXCEPT ![t] = stored[t] \o rows] /\ lost' = lost
    <2>1. t \in Tables
      <3>1. PICK r : r \in Rows(t)
        BY <1>5, <1>14
      <3> QED BY <1>1, <3>1, PostingRows DEF Rows
    <2>2. /\ stored[t] \o rows \in Seq(Row)
          /\ ToSet(stored[t] \o rows) = ToSet(stored[t]) \cup Rows(t)
          /\ Rising(stored[t] \o rows)
      BY <1>1, <1>2, <1>5, <2>1, StoredRising DEF t
    <2>3. /\ stored'[t] = stored[t] \o rows
          /\ \A u \in Tables \ {t} : stored'[u] = stored[u]
          /\ stored' \in [Tables -> Seq(Row)]
      BY <1>10, <1>14, <2>1, <2>2
    <2>4. /\ ToSet(stored'[t]) = ToSet(stored[t]) \cup Rows(t)
          /\ \A u \in Tables \ {t} : ToSet(stored'[u]) = ToSet(stored[u])
      BY <2>2, <2>3
    <2>5. Kept' = Kept \cup Rows(t)
      <3>1. Kept' = UNION {ToSet(stored'[u]) : u \in Tables}
        BY DEF Kept
      <3>2. \A r : r \in Kept' <=> \E u \in Tables : r \in ToSet(stored'[u])
        BY <3>1
      <3>3. \A r : r \in Kept <=> \E u \in Tables : r \in ToSet(stored[u])
        BY DEF Kept
      <3>4. \A r \in Kept' : r \in Kept \cup Rows(t)
        BY <2>4, <3>2, <3>3
      <3>5. \A r \in Rows(t) : r \in Kept'
        BY <2>1, <2>4, <3>2
      <3>6. \A r \in Kept : r \in Kept'
        BY <2>1, <2>4, <3>2, <3>3
      <3> QED BY <3>4, <3>5, <3>6
    <2>6. (Kept \cup lost)' = (Kept \cup lost) \cup Rows(t) /\ (Kept \cap lost)' = {}
      BY <1>8, <1>9, <1>14, <2>5
    <2>7. \A u \in Tables : \A r \in ToSet(stored'[u]) : r[1] = u
      BY <1>9, <2>1, <2>4 DEF Rows
    <2>8. Written'
      BY <1>1, <1>2, <1>3, <2>6, <2>7, TableWritten DEF t
    <2>9. \A u \in Tables : Rising(stored'[u])
      BY <1>1, <2>2, <2>3
    <2>10. TypeOK'
      BY <1>7, <1>10, <1>14, <2>3
    <2> QED BY <1>4, <2>8, <2>9, <2>10 DEF IInv
  <1> QED BY <1>6, <1>12, <1>13, <1>14

\* Every table of the flush has been written: its rows are behind it.
LEMMA FlushEndsStep ==
    ASSUME IInv, FlushEnds
    PROVE  IInv'
  <1>1. /\ TypeOK /\ Numbered /\ Written /\ \A u \in Tables : Rising(stored[u])
    BY DEF IInv
  <1>2. /\ next = 6 /\ next' = 0 /\ posting' = <<>> /\ armed' = TRUE
        /\ UNCHANGED <<sent, datas, batch, tick, quit, shut, stored, lost>>
    BY DEF FlushEnds, ends, TableOrder
  <1>3. /\ sent \in Nat /\ Len(datas) \in Nat /\ Len(batch) \in Nat /\ Len(posting) \in Nat
        /\ Done \in Int /\ Len(posting') = 0
    BY <1>1, <1>2, Lengths
  <1>4. Done' = Done + Len(posting)
    BY <1>2, <1>3 DEF Done
  <1>5. TypeOK'
    <2>1. <<>> \in Seq(Row) /\ 0 \in 0..(Len(TableOrder) + 1)
      BY DEF TableOrder
    <2> QED BY <1>1, <1>2, <2>1 DEF TypeOK
  <1>6. Numbered'
    <2>1. Done' >= 0
      BY <1>1, <1>3, <1>4 DEF Numbered
    <2>2. \A i \in 1..Len(batch) : batch[i][2] = Done' + 0 + i
      BY <1>1, <1>3, <1>4 DEF Numbered
    <2>3. \A i \in 1..Len(datas) : datas[i][2] = Done' + 0 + Len(batch) + i
      BY <1>1, <1>3, <1>4 DEF Numbered
    <2> QED BY <1>2, <1>3, <2>1, <2>2, <2>3 DEF Numbered
  <1>7. Kept' = Kept /\ lost' = lost
    BY <1>2 DEF Kept
  <1>8. Tables \subseteq WrittenTables
    <2>1. ToSet(TableOrder) \subseteq {TableOrder[k] : k \in 1..5}
      BY DEF ToSet, TableOrder
    <2> QED BY <1>2, <2>1, SqliteAssumption DEF WrittenTables
  <1>9. \A r \in Kept \cup lost : Behind(r)'
    <2> SUFFICES ASSUME NEW r \in Kept \cup lost PROVE r[2] \in 1..Done'
        BY DEF Behind
    <2>1. Behind(r)
      BY <1>1 DEF Written
    <2>2. CASE r[2] \in 1..Done
      BY <1>3, <1>4, <2>2
    <2>3. CASE r \in ToSet(posting)
      <3>1. r[2] \in Nat /\ r[2] > Done /\ r[2] <= Done + Len(posting) /\ Done >= 0
        BY <1>1, <2>3, PostingRows DEF Numbered
      <3> QED BY <1>3, <1>4, <3>1
    <2> QED BY <2>1, <2>2, <2>3 DEF Behind
  <1>10. \A n \in 1..Done' : \E r \in Kept \cup lost : r[2] = n
    <2> SUFFICES ASSUME NEW n \in 1..Done' PROVE \E r \in Kept \cup lost : r[2] = n
        OBVIOUS
    <2>1. CASE n \in 1..Done
      BY <1>1, <2>1 DEF Written
    <2>2. CASE n \notin 1..Done
      <3>1. PICK i \in 1..Len(posting) : n = Done + i
        <4>1. n - Done \in 1..Len(posting) /\ n = Done + (n - Done)
          BY <1>3, <1>4, <2>2
        <4> QED BY <4>1
      <3>2. posting[i][2] = n
        BY <1>1, <3>1 DEF Numbered
      <3>3. posting[i] \in ToSet(posting)
        <4>1. DOMAIN posting = 1..Len(posting)
          BY <1>1, Lengths
        <4> QED BY <4>1 DEF ToSet
      <3>4. posting[i][1] \in WrittenTables
        BY <1>1, <1>8, <3>3, PostingRows
      <3>5. posting[i] \in Kept \cup lost
        BY <1>1, <3>3, <3>4 DEF Written
      <3> QED BY <3>2, <3>5
    <2> QED BY <2>1, <2>2
  <1>11. ToSet(posting') = {}
    BY <1>2 DEF ToSet
  <1>12. Written'
    <2>1. /\ \A u \in Tables : \A r \in ToSet(stored'[u]) : r[1] = u
          /\ \A r, s \in Kept \cup lost : r[2] = s[2] => r = s
          /\ Kept \cap lost = {}
      BY <1>1, <1>2 DEF Written
    <2> QED BY <1>7, <1>9, <1>10, <1>11, <2>1 DEF Written
  <1>13. \A u \in Tables : Rising(stored'[u])
    BY <1>1, <1>2
  <1> QED BY <1>2, <1>5, <1>6, <1>12, <1>13 DEF IInv

LEMMA NextIInv == IInv /\ [Next]_vars => IInv'
  <1> SUFFICES ASSUME IInv, [Next]_vars PROVE IInv'
      OBVIOUS
  <1>0. armed \in BOOLEAN /\ tick \in BOOLEAN /\ quit \in BOOLEAN
        /\ shut \in {"no", "waiting", "returned"}
    BY DEF IInv, TypeOK
  <1>1. ASSUME NEW t \in Tables, Consume(t) PROVE IInv'
    BY <1>1, ConsumeStep
  <1>2. CASE TimerFires
    BY <1>0, <1>2, OtherStep DEF TimerFires, ends
  <1>3. CASE RunData
    BY <1>3, RunDataStep
  <1>4. CASE RunTimer
    BY <1>4, RunTimerStep
  <1>5. CASE RunQuit
    BY <1>0, <1>5, OtherStep DEF RunQuit, vars
  <1>6. ASSUME NEW ok \in BOOLEAN, FlushTable(ok) PROVE IInv'
    BY <1>6, FlushTableStep
  <1>7. CASE FlushEnds
    BY <1>7, FlushEndsStep
  <1>8. CASE ShutDown
    BY <1>0, <1>8, OtherStep DEF ShutDown, timer
  <1>9. CASE UNCHANGED vars
    BY <1>0, <1>9, OtherStep DEF vars
  <1> QED BY <1>1, <1>2, <1>3, <1>4, <1>5, <1>6, <1>7, <1>8, <1>9 DEF Next

LEMMA Invariance == Spec => []IInv
  BY InitIInv, NextIInv, PTL DEF Spec


----------------------------------------------------------------------------
(***************************************************************************)
(* The theorems.                                                           *)
(***************************************************************************)

\* The rows of a sequence whose numbers run from a + 1 on.
LEMMA RunOfRows ==
    ASSUME NEW s \in Seq(Row), NEW a \in Int, \A i \in 1..Len(s) : s[i][2] = a + i
    PROVE  /\ \A r \in ToSet(s) : r[2] \in (a + 1)..(a + Len(s))
           /\ \A n \in (a + 1)..(a + Len(s)) : \E r \in ToSet(s) : r[2] = n
           /\ \A r, q \in ToSet(s) : r[2] = q[2] => r = q
  <1>1. Len(s) \in Nat /\ DOMAIN s = 1..Len(s)
    OBVIOUS
  <1>2. \A r \in ToSet(s) : \E i \in 1..Len(s) : r = s[i] /\ r[2] = a + i
    BY <1>1 DEF ToSet
  <1>3. \A r \in ToSet(s) : r[2] \in (a + 1)..(a + Len(s))
    BY <1>1, <1>2
  <1>4. \A n \in (a + 1)..(a + Len(s)) : \E r \in ToSet(s) : r[2] = n
    <2> SUFFICES ASSUME NEW n \in (a + 1)..(a + Len(s)) PROVE \E r \in ToSet(s) : r[2] = n
        OBVIOUS
    <2>1. PICK i \in 1..Len(s) : n = a + i
      <3>1. n - a \in 1..Len(s) /\ n = a + (n - a)
        BY <1>1
      <3> QED BY <3>1
    <2>2. s[i] \in ToSet(s) /\ s[i][2] = n
      BY <1>1, <2>1 DEF ToSet
    <2> QED BY <2>2
  <1>5. \A r, q \in ToSet(s) : r[2] = q[2] => r = q
    <2> SUFFICES ASSUME NEW r \in ToSet(s), NEW q \in ToSet(s), r[2] = q[2] PROVE r = q
        OBVIOUS
    <2>1. PICK i \in 1..Len(s) : r = s[i] /\ r[2] = a + i
      BY <1>2
    <2>2. PICK j \in 1..Len(s) : q = s[j] /\ q[2] = a + j
      BY <1>2
    <2>3. i = j
      BY <2>1, <2>2
    <2> QED BY <2>1, <2>2, <2>3
  <1> QED BY <1>3, <1>4, <1>5

\* What the invariant says of all the rows at once.
LEMMA Accounted ==
    ASSUME IInv
    PROVE  RowsAccounted
  <1>1. TypeOK /\ Numbered /\ Written
    BY DEF IInv
  <1> DEFINE P == ToSet(posting)
             B == ToSet(batch)
             D == ToSet(datas)
             p == Done + Len(posting)
             b == Done + Len(posting) + Len(batch)
             Old == Kept \cup lost
  <1>2. /\ sent \in Nat /\ Done \in Int /\ Done >= 0
        /\ datas \in Seq(Row) /\ batch \in Seq(Row) /\ posting \in Seq(Row)
        /\ Len(datas) \in Nat /\ Len(batch) \in Nat /\ Len(posting) \in Nat
    BY <1>1, Lengths DEF Numbered
  <1>3. /\ p \in Nat /\ b \in Nat /\ Done <= p /\ p <= b /\ b <= sent
        /\ p + Len(batch) = b /\ b + Len(datas) = sent
    BY <1>2 DEF Done
  <1>4. /\ \A r \in P : r[2] \in (Done + 1)..p
        /\ \A n \in (Done + 1)..p : \E r \in P : r[2] = n
        /\ \A r, q \in P : r[2] = q[2] => r = q
    BY <1>1, <1>2, RunOfRows DEF Numbered
  <1>5. /\ \A r \in B : r[2] \in (p + 1)..b
        /\ \A n \in (p + 1)..b : \E r \in B : r[2] = n
        /\ \A r, q \in B : r[2] = q[2] => r = q
    <2>1. \A i \in 1..Len(batch) : batch[i][2] = p + i
      BY <1>1 DEF Numbered
    <2> HIDE DEF p
    <2>2. /\ \A r \in B : r[2] \in (p + 1)..(p + Len(batch))
          /\ \A n \in (p + 1)..(p + Len(batch)) : \E r \in B : r[2] = n
          /\ \A r, q \in B : r[2] = q[2] => r = q
      BY SMTT(30), <1>2, <1>3, <2>1, RunOfRows
    <2> HIDE DEF b, B
    <2> QED BY <1>3, <2>2
  <1>6. /\ \A r \in D : r[2] \in (b + 1)..sent
        /\ \A n \in (b + 1)..sent : \E r \in D : r[2] = n
        /\ \A r, q \in D : r[2] = q[2] => r = q
    <2>1. \A i \in 1..Len(datas) : datas[i][2] = b + i
      BY <1>1 DEF Numbered
    <2> HIDE DEF b
    <2>2. /\ \A r \in D : r[2] \in (b + 1)..(b + Len(datas))
          /\ \A n \in (b + 1)..(b + Len(datas)) : \E r \in D : r[2] = n
          /\ \A r, q \in D : r[2] = q[2] => r = q
      BY SMTT(30), <1>2, <1>3, <2>1, RunOfRows
    <2> HIDE DEF D
    <2> QED BY <1>3, <2>2
  <1>7. Unwritten = {r \in P : r[1] \notin WrittenTables}
    BY DEF Unwritten, WrittenTables
  <1>8. /\ \A r \in Old : r[2] \in 1..Done \/ (r \in P /\ r[1] \in WrittenTables)
        /\ \A r, q \in Old : r[2] = q[2] => r = q
        /\ Kept \cap lost = {}
        /\ \A n \in 1..Done : \E r \in Old : r[2] = n
        /\ \A r \in P : r[1] \in WrittenTables => r \in Old
    BY <1>1 DEF Written, Behind
  <1> DEFINE U == {r \in P : r[1] \notin WrittenTables}
             pending == D \cup B \cup U
             all == pending \cup lost \cup Kept
  <1> HIDE DEF P, B, D, p, b, Old
  <1>9. all = D \cup B \cup P \cup Old
    BY <1>8 DEF Old
  <1>10. {r[2] : r \in all} = 1..sent
    <2>1. \A r \in D \cup B \cup P \cup Old : r[2] \in 1..sent
      BY SMTT(30), <1>2, <1>3, <1>4, <1>5, <1>6, <1>8
    <2>2. \A n \in 1..sent : \E r \in D \cup B \cup P \cup Old : r[2] = n
      <3> SUFFICES ASSUME NEW n \in 1..sent
                   PROVE  \E r \in D \cup B \cup P \cup Old : r[2] = n
          OBVIOUS
      <3>1. n \in 1..Done \/ n \in (Done + 1)..p \/ n \in (p + 1)..b \/ n \in (b + 1)..sent
        BY <1>2, <1>3
      <3> QED BY <1>4, <1>5, <1>6, <1>8, <3>1
    <2> HIDE DEF all
    <2> QED BY <1>9, <2>1, <2>2
  <1>11. \A r, s \in all : r[2] = s[2] => r = s
    <2> SUFFICES ASSUME NEW r \in D \cup B \cup P \cup Old, NEW s \in D \cup B \cup P \cup Old,
                        r[2] = s[2]
                 PROVE  r = s
        BY <1>9
    <2>1. r \in D \/ r \in B \/ r \in P \/ (r \in Old /\ r[2] \in 1..Done)
      BY <1>8
    <2>2. s \in D \/ s \in B \/ s \in P \/ (s \in Old /\ s[2] \in 1..Done)
      BY <1>8
    <2>3. CASE r \in D
      <3>1. r[2] \in (b + 1)..sent
        BY <1>6, <2>3
      <3>2. s \notin B /\ s \notin P /\ s[2] \notin 1..Done
        BY SMTT(30), <1>2, <1>3, <1>4, <1>5, <3>1
      <3> QED BY <1>6, <2>2, <2>3, <3>2
    <2>4. CASE r \in B
      <3>1. r[2] \in (p + 1)..b
        BY <1>5, <2>4
      <3>2. s \notin D /\ s \notin P /\ s[2] \notin 1..Done
        BY SMTT(30), <1>2, <1>3, <1>4, <1>6, <3>1
      <3> QED BY <1>5, <2>2, <2>4, <3>2
    <2>5. CASE r \in P
      <3>1. r[2] \in (Done + 1)..p
        BY <1>4, <2>5
      <3>2. s \notin D /\ s \notin B /\ s[2] \notin 1..Done
        BY SMTT(30), <1>2, <1>3, <1>5, <1>6, <3>1
      <3> QED BY <1>4, <2>2, <2>5, <3>2
    <2>6. CASE r \in Old /\ r[2] \in 1..Done
      <3>1. s \notin D /\ s \notin B /\ s \notin P
        BY <1>2, <1>3, <1>4, <1>5, <1>6, <2>6
      <3> QED BY <1>8, <2>2, <2>6, <3>1
    <2> QED BY <2>1, <2>3, <2>4, <2>5, <2>6
  <1>12. pending \cap Old = {}
    <2> SUFFICES ASSUME NEW r \in pending, r \in Old PROVE FALSE
        OBVIOUS
    <2>1. r[2] \in 1..Done \/ (r \in P /\ r[1] \in WrittenTables)
      BY <1>8
    <2>2. CASE r \in D
      <3>1. r[2] \in (b + 1)..sent
        BY <1>6, <2>2
      <3> QED BY <1>2, <1>3, <1>4, <2>1, <3>1
    <2>3. CASE r \in B
      <3>1. r[2] \in (p + 1)..b
        BY <1>5, <2>3
      <3> QED BY <1>2, <1>3, <1>4, <2>1, <3>1
    <2>4. CASE r \in U
      <3>1. r[2] \in (Done + 1)..p
        BY <1>4, <2>4
      <3> QED BY SMTT(30), <1>2, <1>3, <2>1, <2>4, <3>1
    <2> QED BY <2>2, <2>3, <2>4
  <1>13. pending \cap lost = {}
    BY <1>12 DEF Old
  <1>14. \A t \in Tables : ToSet(stored[t]) \cap (pending \cup lost) = {}
    <2>1. \A t \in Tables : ToSet(stored[t]) \subseteq Kept
      BY DEF Kept
    <2> QED BY <1>8, <1>12, <2>1 DEF Old
  <1>15. pending = ToSet(datas) \cup ToSet(batch) \cup Unwritten
    BY <1>7 DEF D, B, P
  <1>16. all = pending \cup lost \cup UNION {ToSet(stored[t]) : t \in Tables}
    BY DEF Kept
  <1> HIDE DEF pending, all
  <1> QED BY <1>10, <1>11, <1>13, <1>14, <1>15, <1>16 DEF RowsAccounted

\* Items, rows and tables stay well-formed, the channel and the batch within
\* their sizes, whichever writes fail.
THEOREM TypeCorrect == Spec => []TypeOK
  <1>1. IInv => TypeOK
    BY DEF IInv
  <1> QED BY <1>1, Invariance, PTL

\* Every item Consume took is in one place: waiting, in its own table, or lost
\* in a failed write of that table, which took no row of another with it.
THEOREM EveryRowAccounted == Spec => []RowsAccounted
  <1>1. IInv => RowsAccounted
    BY Accounted
  <1> QED BY <1>1, Invariance, PTL

\* Flush sorts its batch by table without mixing or reordering the rows.
THEOREM RowsInOrder == Spec => []TablesInOrder
  <1>1. ASSUME IInv PROVE TablesInOrder
    <2> SUFFICES ASSUME NEW t \in Tables, NEW i \in DOMAIN stored[t], NEW j \in DOMAIN stored[t]
                 PROVE  /\ stored[t][i][1] = t
                        /\ i < j => stored[t][i][2] < stored[t][j][2]
        BY DEF TablesInOrder
    <2>1. stored[t][i] \in ToSet(stored[t])
      BY DEF ToSet
    <2>2. stored[t][i][1] = t
      BY <1>1, <2>1 DEF IInv, Written
    <2>3. i < j => stored[t][i][2] < stored[t][j][2]
      BY <1>1 DEF IInv, Rising
    <2> QED BY <2>2, <2>3
  <1> QED BY <1>1, Invariance, PTL

=============================================================================
