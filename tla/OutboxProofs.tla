---------------------------- MODULE OutboxProofs ----------------------------
(***************************************************************************)
(* Theorems about the outbox: one owner for each row, copies bounded by    *)
(* the failures counted, events stuck by faults only, and at-least-once    *)
(* delivery as a refinement.                                               *)
(***************************************************************************)
EXTENDS Outbox, SumTheorems

\* The n oldest events of S.
Oldest(S, n) == {e \in S : Cardinality({d \in S : d < e}) < n}

\* There are at most n of them: their ranks differ.
LEMMA RanksBelow ==
  ASSUME NEW S \in SUBSET Events, NEW n \in Nat
  PROVE  /\ IsFiniteSet(Oldest(S, n))
         /\ Cardinality(Oldest(S, n)) \in Nat /\ Cardinality(Oldest(S, n)) <= n
<1> DEFINE below(e) == {d \in S : d < e}
           low == {e \in S : Cardinality(below(e)) < n}
           rank == [e \in low |-> Cardinality(below(e))]
<1>1. S \in SUBSET Nat /\ IsFiniteSet(S)
  BY EventsAssumption, FS_Subset
<1>2. IsFiniteSet(low)
  <2>1. low \in SUBSET S
    OBVIOUS
  <2> HIDE DEF low
  <2>2. QED BY <1>1, <2>1, FS_Subset
<1>3. ASSUME NEW e \in S
      PROVE  IsFiniteSet(below(e)) /\ Cardinality(below(e)) \in Nat
  <2>1. below(e) \in SUBSET S
    OBVIOUS
  <2> HIDE DEF below
  <2>2. QED BY <1>1, <2>1, FS_Subset, FS_CardinalityType
<1>4. ASSUME NEW d \in S, NEW e \in S, d < e
      PROVE  Cardinality(below(d)) # Cardinality(below(e))
  <2>0. d \in Nat /\ e \in Nat /\ \A x \in below(d) : x \in Nat
    BY <1>1
  <2>1. below(d) \in SUBSET below(e) /\ d \in below(e) /\ d \notin below(d)
    <3> HIDE DEF low, rank
    <3>1. \A x \in below(d) : x \in S /\ x < e
      BY <1>4, <2>0
    <3>2. d \in below(e) /\ d \notin below(d)
      BY <1>4, <2>0
    <3>3. QED BY <3>1, <3>2
  <2>2. PICK b, c : b = below(d) /\ c = below(e)
    OBVIOUS
  <2>3. IsFiniteSet(c) /\ b \in SUBSET c /\ d \in c /\ d \notin b
    BY <1>3, <2>1, <2>2
  <2>4. Cardinality(b) # Cardinality(c)
    BY ONLY <2>3, FS_Subset
  <2>5. QED BY <2>2, <2>4
<1>5. IsFiniteSet(0..(n - 1)) /\ Cardinality(0..(n - 1)) = n
  BY FS_Interval
<1>6. rank \in [low -> 0..(n - 1)]
  BY <1>3
<1>7. ASSUME NEW d \in low, NEW e \in low, rank[d] = rank[e]
      PROVE  d = e
  <2>1. d \in Nat /\ e \in Nat /\ d \in S /\ e \in S
    BY <1>1
  <2>2. Cardinality(below(d)) = Cardinality(below(e))
    BY <1>7
  <2> HIDE DEF below, low
  <2>3. QED BY <1>4, <2>1, <2>2
<1>8. rank \in Injection(low, 0..(n - 1))
  <2> HIDE DEF rank, low
  <2>1. QED BY <1>6, <1>7 DEF Injection, IsInjective
<1>9. Cardinality(low) <= n
  <2> HIDE DEF rank, low
  <2>1. Cardinality(low) <= Cardinality(0..(n - 1))
    BY <1>5, <1>8, FS_Injection
  <2>2. QED BY <1>5, <2>1
<1>10. QED BY <1>2, <1>9, FS_CardinalityType DEF Oldest

\* Some event of S has none before it.
LEMMA SomeOldest ==
  ASSUME NEW S \in SUBSET Events, S # {}
  PROVE  \E e \in S : Cardinality({d \in S : d < e}) = 0
<1>1. S \subseteq Nat
  BY EventsAssumption
<1>2. PICK e \in S : \A d \in S : ~(<<d, e>> \in OpToRel(<, Nat))
  BY <1>1, NatLessThanWellFounded, WFMin
<1>3. \A d \in S : ~(d < e)
  BY <1>1, <1>2 DEF OpToRel
<1>4. {d \in S : d < e} = {}
  BY <1>3
<1>5. QED BY <1>4, FS_EmptySet

\* What LIMIT and ORDER BY of the claim return: different events of S with the
\* retry counts they have, at most BatchLimit, some if there are any.
LEMMA BatchIs ==
  ASSUME NEW S \in SUBSET Events, NEW rows \in Batch(S),
         \A e \in S : retry[e] \in 0..MaxRetries
  PROVE  /\ rows \in Seq(Rows) /\ Len(rows) <= BatchLimit
         /\ S # {} => rows # <<>>
         /\ \A i \in DOMAIN rows :
              rows[i].id \in S /\ rows[i].retryCount = retry[rows[i].id]
         /\ \A i, j \in DOMAIN rows : rows[i].id = rows[j].id => i = j
<1> DEFINE oldest == Oldest(S, BatchLimit)
           read == {[id |-> e, retryCount |-> retry[e]] : e \in oldest}
<1>1. IsFiniteSet(oldest) /\ Cardinality(oldest) \in Nat /\ Cardinality(oldest) <= BatchLimit
  BY RanksBelow, LimitsAssumption
<1>2. S # {} => Cardinality(oldest) # 0
  <2>1. ASSUME S # {} PROVE oldest # {}
    <3>1. PICK e \in S : Cardinality({d \in S : d < e}) = 0
      BY <2>1, SomeOldest
    <3>2. Cardinality({d \in S : d < e}) < BatchLimit
      BY <3>1, LimitsAssumption
    <3>3. QED BY <3>2 DEF Oldest
  <2> HIDE DEF oldest
  <2>2. QED BY <1>1, <2>1, FS_EmptySet
<1>3. PICK n \in Nat : n = Cardinality(oldest)
  BY <1>1
<1>4. /\ rows \in [1..n -> read]
      /\ \A i, j \in DOMAIN rows : i < j => rows[i].id < rows[j].id
  BY <1>3 DEF Batch, Oldest
<1>5. \A r \in read : r \in Rows /\ r.id \in S /\ r.id \in Nat /\ r.retryCount = retry[r.id]
  <2> SUFFICES ASSUME NEW e \in oldest
               PROVE  LET r == [id |-> e, retryCount |-> retry[e]]
                      IN  r \in Rows /\ r.id \in S /\ r.id \in Nat /\ r.retryCount = retry[r.id]
    OBVIOUS
  <2>1. e \in S /\ e \in Events /\ e \in Nat /\ retry[e] \in 0..MaxRetries
    BY EventsAssumption DEF Oldest
  <2>2. QED BY <2>1 DEF Rows
<1>6. oldest \in SUBSET S
  BY DEF Oldest
<1> HIDE DEF oldest, read
<1>7. /\ rows \in Seq(Rows) /\ Len(rows) = n /\ DOMAIN rows = 1..n
  <2>1. rows \in [1..n -> Rows]
    BY <1>4, <1>5
  <2>2. QED BY <2>1
<1>8. \A i, j \in 1..n : i < j => rows[i].id < rows[j].id
  BY <1>4, <1>7
<1>9. \A i \in 1..n : rows[i] \in read
  BY <1>4
<1>10. \A i, j \in 1..n : rows[i].id = rows[j].id => i = j
  <2> SUFFICES ASSUME NEW i \in 1..n, NEW j \in 1..n, rows[i].id = rows[j].id, i # j PROVE FALSE
    OBVIOUS
  <2>1. i < j \/ j < i
    OBVIOUS
  <2>2. rows[i].id < rows[j].id \/ rows[j].id < rows[i].id
    BY <1>8, <2>1
  <2>3. rows[i].id \in Nat
    BY <1>5, <1>9
  <2>4. QED BY <2>2, <2>3
<1>11. S # {} => rows # <<>>
  BY <1>2, <1>3, <1>7
<1>12. \A i \in DOMAIN rows : rows[i].id \in S /\ rows[i].retryCount = retry[rows[i].id]
  BY <1>5, <1>7, <1>9
<1>13. QED BY <1>1, <1>3, <1>7, <1>10, <1>11, <1>12

-----------------------------------------------------------------------------
(* The ticks and the invariant.                                            *)

Statuses == {"NONE", "PENDING", "PROCESSING", "PROCESSED", "FAILED", "DELETED"}

\* The record of a tick, with sequences of bounded length spelled out.
LEMMA TickRecordIs ==
  \A x : x \in TickRecords <=>
    \E s \in {"idle", "locked", "publish", "processed", "retry"}, rows \in Seq(Rows) :
      Len(rows) <= BatchLimit /\ x = [step |-> s, rows |-> rows]
<1>1. \A rows : rows \in BoundedSeq(Rows, BatchLimit) <=> rows \in Seq(Rows) /\ Len(rows) <= BatchLimit
  <2>1. ASSUME NEW rows \in BoundedSeq(Rows, BatchLimit)
        PROVE  rows \in Seq(Rows) /\ Len(rows) <= BatchLimit
    <3>1. PICK m \in 0..BatchLimit : rows \in [1..m -> Rows]
      BY LimitsAssumption DEF BoundedSeq, SeqOf
    <3>2. QED BY <3>1, LimitsAssumption
  <2>2. ASSUME NEW rows \in Seq(Rows), Len(rows) <= BatchLimit
        PROVE  rows \in BoundedSeq(Rows, BatchLimit)
    <3>1. Len(rows) \in 0..BatchLimit /\ rows \in [1..Len(rows) -> Rows]
      BY <2>2, LimitsAssumption
    <3>2. QED BY <3>1 DEF BoundedSeq, SeqOf
  <2>3. QED BY <2>1, <2>2
<1>2. QED BY <1>1 DEF TickRecords

\* Tick k is at work.
Working(k) == tick[k].step # "idle"

\* The record of a tick, without the library's sequences of bounded length.
TickFacts(k) ==
  /\ tick[k] = [step |-> tick[k].step, rows |-> tick[k].rows]
  /\ tick[k].step \in {"idle", "locked", "publish", "processed", "retry"}
  /\ tick[k].rows \in Seq(Rows)
  /\ Len(tick[k].rows) \in 0..BatchLimit
  /\ DOMAIN tick[k].rows = 1..Len(tick[k].rows)
  /\ Working(k) => /\ 1 \in DOMAIN tick[k].rows
                   /\ Row(k) = tick[k].rows[1]
                   /\ Row(k) \in Rows
  /\ ~Working(k) => tick[k].rows = <<>>

\* Every tick's record is of that form.
LEMMA TickIs == ASSUME TypeOK, NEW k \in Ticks PROVE TickFacts(k)
<1>1. tick[k] \in TickRecords /\ (tick[k].step = "idle" <=> tick[k].rows = <<>>)
  BY DEF TypeOK
<1>2. PICK s \in {"idle", "locked", "publish", "processed", "retry"}, rows \in Seq(Rows) :
        Len(rows) <= BatchLimit /\ tick[k] = [step |-> s, rows |-> rows]
  BY <1>1, TickRecordIs
<1>3. rows # <<>> => Len(rows) >= 1 /\ Head(rows) = rows[1] /\ rows[1] \in Rows
  OBVIOUS
<1>4. Len(rows) \in 0..BatchLimit /\ DOMAIN rows = 1..Len(rows)
  BY <1>2, LimitsAssumption
<1>5. QED BY <1>1, <1>2, <1>3, <1>4 DEF TickFacts, Working, Row

\* The rows the tick goes on with.
RowsLeft(k) == IF Len(tick[k].rows) = 1 THEN <<>> ELSE Tail(tick[k].rows)

\* The loop of pollOnce goes on with the rest of its batch.
LEMMA NextRowIs ==
  ASSUME TypeOK, NEW k \in Ticks, Working(k), NextRow(k)
  PROVE  /\ tick' = [tick EXCEPT ![k] =
              [step |-> IF RowsLeft(k) = <<>> THEN "idle" ELSE "publish", rows |-> RowsLeft(k)]]
         /\ RowsLeft(k) \in Seq(Rows) /\ Len(RowsLeft(k)) <= BatchLimit
         /\ DOMAIN RowsLeft(k) = 1..(Len(tick[k].rows) - 1)
         /\ \A i \in DOMAIN RowsLeft(k) :
              i + 1 \in DOMAIN tick[k].rows /\ RowsLeft(k)[i] = tick[k].rows[i + 1]
<1>1. TickFacts(k)
  BY TickIs
<1>2. PICK rows \in Seq(Rows) : rows = tick[k].rows
  BY <1>1 DEF TickFacts
<1>3. Len(rows) >= 1 /\ Len(rows) <= BatchLimit
  BY <1>1, <1>2, LimitsAssumption DEF TickFacts
<1>4. CASE Len(rows) = 1
  <2>1. RowsLeft(k) = <<>>
    BY <1>2, <1>4 DEF RowsLeft
  <2>2. tick' = [tick EXCEPT ![k] = [step |-> "idle", rows |-> <<>>]]
    BY <1>2, <1>4 DEF NextRow, Idle
  <2>3. <<>> \in Seq(Rows) /\ Len(<<>>) = 0 /\ DOMAIN <<>> = {} /\ 1..(Len(rows) - 1) = {}
    BY <1>4
  <2>4. QED BY <1>2, <2>1, <2>2, <2>3, LimitsAssumption
<1>5. CASE Len(rows) # 1
  <2>1. RowsLeft(k) = Tail(rows)
    BY <1>2, <1>5 DEF RowsLeft
  <2>2. PICK rest \in Seq(Rows) : rest = Tail(rows)
    <3>1. Tail(rows) \in Seq(Rows)
      BY <1>3
    <3>2. QED BY <3>1
  <2>3. Len(rest) = Len(rows) - 1 /\ \A i \in 1..(Len(rows) - 1) : rest[i] = rows[i + 1]
    BY <1>3, <2>2
  <2>4. rest # <<>>
    BY <1>3, <1>5, <2>3
  <2>5. tick' = [tick EXCEPT ![k] = [step |-> "publish", rows |-> rest]]
    BY <1>2, <1>5, <2>2 DEF NextRow
  <2>6. \A i \in 1..(Len(rows) - 1) : i + 1 \in DOMAIN rows
    BY <1>3
  <2>7. DOMAIN rest = 1..(Len(rows) - 1) /\ Len(rest) <= BatchLimit
    BY <1>3, <2>3, LimitsAssumption
  <2>8. QED
    BY <1>2, <2>1, <2>2, <2>3, <2>4, <2>5, <2>6, <2>7
<1>6. QED BY <1>4, <1>5

-----------------------------------------------------------------------------
\* Each row belongs to one tick, at one place of its batch.
OwnedOnce ==
  \A j, k \in Ticks : \A h \in DOMAIN tick[j].rows, i \in DOMAIN tick[k].rows :
    tick[j].rows[h].id = tick[k].rows[i].id => j = k /\ h = i

\* A tick's rows are claimed, with the retry count they really have.
RowsClaimed ==
  \A k \in Ticks : \A i \in DOMAIN tick[k].rows :
    LET row == tick[k].rows[i]
    IN  /\ status[row.id] = IF tick[k].step = "locked" THEN "PENDING" ELSE "PROCESSING"
        /\ row.retryCount = retry[row.id]

\* OneOwner in two halves.
LEMMA OneOwnerIs == OneOwner <=> OwnedOnce /\ RowsClaimed
<1>1. ASSUME OneOwner PROVE OwnedOnce /\ RowsClaimed
  <2>1. RowsClaimed
    BY <1>1 DEF OneOwner, RowsClaimed
  <2>2. ASSUME NEW j \in Ticks, NEW k \in Ticks, NEW h \in DOMAIN tick[j].rows,
               NEW i \in DOMAIN tick[k].rows, tick[j].rows[h].id = tick[k].rows[i].id
        PROVE  j = k /\ h = i
    <3>1. tick[j].rows[h].id \in IdsOf(j) /\ tick[j].rows[h].id \in IdsOf(k)
      BY <2>2 DEF IdsOf
    <3>2. j = k
      BY <1>1, <3>1 DEF OneOwner
    <3>3. QED BY <1>1, <2>2, <3>2 DEF OneOwner
  <2>3. QED BY <2>1, <2>2 DEF OwnedOnce
<1>2. ASSUME OwnedOnce, RowsClaimed PROVE OneOwner
  <2>1. ASSUME NEW k \in Ticks, NEW j \in Ticks \ {k} PROVE IdsOf(j) \cap IdsOf(k) = {}
    BY <1>2 DEF OwnedOnce, IdsOf
  <2>2. ASSUME NEW k \in Ticks, NEW i \in DOMAIN tick[k].rows, NEW h \in DOMAIN tick[k].rows, i # h
        PROVE  tick[k].rows[i].id # tick[k].rows[h].id
    BY <1>2, <2>2 DEF OwnedOnce
  <2>3. QED BY <1>2, <2>1, <2>2 DEF OneOwner, RowsClaimed
<1>3. QED BY <1>1, <1>2

\* How often the channels of all processes wait to write e again.
Waiting(e) == SumFunctionOnSet([p \in Procs |-> draining[p][e]], Procs)

\* The copies of an event that were published, arrived or not, and those still
\* to be written, less the full buffers.
Copies(e) == late[e] + arrived[e] + Waiting(e) - faults.full

\* A failure of this attempt is still to be counted.
Attempted(k, i) == i = 1 /\ tick[k].step \in {"processed", "retry"}

\* A row that can be claimed, or is, has a retry left.
Retryable ==
  \A e \in Events :
    /\ status[e] = "NONE" => retry[e] = 0
    /\ status[e] \in {"NONE", "PENDING", "PROCESSING"} => retry[e] < MaxRetries

\* Every attempt to publish e that there was is counted.
AllCounted(e) ==
  \/ status[e] \in {"NONE", "PENDING"}
  \/ \E k \in Ticks : \E i \in DOMAIN tick[k].rows :
       tick[k].rows[i].id = e /\ ~Attempted(k, i)

\* A copy for each counted failure, one more only while an attempt is not
\* counted.
Counted ==
  \A e \in Events :
    /\ Copies(e) <= retry[e] + 1
    /\ AllCounted(e) => Copies(e) <= retry[e]

\* An event that was not settled has no copy anywhere.
Unsent ==
  \A e \in Events :
    status[e] = "NONE" => late[e] = 0 /\ \A p \in Procs : draining[p][e] = 0

\* A row about to be marked PROCESSED has a copy in the queue.
ArrivedBeforeSent ==
  QueueExists =>
    /\ bound
    /\ \A k \in Ticks : tick[k].step = "processed" => arrived[Row(k).id] > 0

\* The inductive invariant.
OutboxInv ==
  /\ TypeOK
  /\ OneOwner
  /\ Retryable
  /\ Counted
  /\ Unsent
  /\ ArrivedBeforeSent
  /\ StuckOnlyByFault

-----------------------------------------------------------------------------
(* Types.                                                                  *)

\* TypeOK, the part about the ticks.
TickType ==
  /\ tick \in [Ticks -> TickRecords]
  /\ \A k \in Ticks : tick[k].step = "idle" <=> tick[k].rows = <<>>

\* A tick is given another step and other rows.
LEMMA TickTypeNext ==
  ASSUME TickType, NEW k \in Ticks, NEW s \in {"idle", "locked", "publish", "processed", "retry"},
         NEW rows \in Seq(Rows), Len(rows) <= BatchLimit, s = "idle" <=> rows = <<>>,
         tick' = [tick EXCEPT ![k] = [step |-> s, rows |-> rows]]
  PROVE  TickType'
<1>1. [step |-> s, rows |-> rows] \in TickRecords
  BY TickRecordIs
<1>2. tick' \in [Ticks -> TickRecords]
  BY <1>1 DEF TickType
<1>3. \A j \in Ticks : tick'[j] = IF j = k THEN [step |-> s, rows |-> rows] ELSE tick[j]
  BY DEF TickType
<1>4. QED BY <1>2, <1>3 DEF TickType

\* A tick goes from one step to another with the rows it has.
LEMMA StepIs ==
  ASSUME TypeOK, NEW k \in Ticks, NEW s, Working(k), tick' = [tick EXCEPT ![k].step = s]
  PROVE  /\ tick' = [tick EXCEPT ![k] = [step |-> s, rows |-> tick[k].rows]]
         /\ tick[k].rows \in Seq(Rows) /\ Len(tick[k].rows) <= BatchLimit /\ tick[k].rows # <<>>
<1>1. TickFacts(k)
  BY TickIs
<1>2. tick[k].rows \in Seq(Rows) /\ Len(tick[k].rows) <= BatchLimit /\ tick[k].rows # <<>>
  BY <1>1, LimitsAssumption DEF TickFacts
<1>3. [tick[k] EXCEPT !.step = s] = [step |-> s, rows |-> tick[k].rows]
  BY <1>1 DEF TickFacts
<1>4. QED BY <1>2, <1>3

\* The claim of a tick that begins.
LEMMA LockIs ==
  ASSUME TypeOK, NEW k \in Ticks, Lock(k)
  PROVE  \E rows \in Seq(Rows) :
           /\ tick' = [tick EXCEPT ![k] = [step |-> "locked", rows |-> rows]]
           /\ Len(rows) <= BatchLimit /\ rows # <<>>
           /\ \A i \in DOMAIN rows :
                /\ rows[i].id \in Events \ Locked
                /\ status[rows[i].id] = "PENDING"
                /\ rows[i].retryCount = retry[rows[i].id]
           /\ \A h, i \in DOMAIN rows : rows[h].id = rows[i].id => h = i
<1> DEFINE free == {e \in Events : status[e] = "PENDING"} \ Locked
<1>1. PICK rows \in Batch(free) : tick' = [tick EXCEPT ![k] = [step |-> "locked", rows |-> rows]]
  BY DEF Lock
<1>2. free # {}
  BY DEF Lock
<1>3. free \in SUBSET Events /\ \A e \in free : retry[e] \in 0..MaxRetries
  BY DEF TypeOK
<1>4. \A e \in free : e \in Events \ Locked /\ status[e] = "PENDING"
  OBVIOUS
<1> HIDE DEF free
<1>5. /\ rows \in Seq(Rows) /\ Len(rows) <= BatchLimit /\ rows # <<>>
      /\ \A i \in DOMAIN rows :
           rows[i].id \in free /\ rows[i].retryCount = retry[rows[i].id]
      /\ \A h, i \in DOMAIN rows : rows[h].id = rows[i].id => h = i
  BY <1>2, <1>3, BatchIs
<1>6. QED BY <1>1, <1>4, <1>5

\* What one step does to the ticks.
TickFate ==
  \/ UNCHANGED tick
  \/ \E k \in Ticks : Lock(k)
  \/ \E k \in Ticks, s \in {"publish", "processed", "retry"} :
       Working(k) /\ tick' = [tick EXCEPT ![k].step = s]
  \/ \E k \in Ticks : Working(k) /\ NextRow(k)
  \/ \E K \in SUBSET Ticks : tick' = [k \in Ticks |-> IF k \in K THEN Idle ELSE tick[k]]

\* Every step of the system does one of these things to the ticks.
LEMMA TickFates == TypeOK /\ [Next]_vars => TickFate
<1> SUFFICES ASSUME TypeOK, [Next]_vars PROVE TickFate
  OBVIOUS
<1>1. ASSUME NEW e \in Events, Settle(e) \/ LateArrival(e) \/ Cleanup(e) PROVE TickFate
  BY <1>1 DEF Settle, LateArrival, Cleanup, TickFate
<1>2. ASSUME NEW k \in Ticks, Lock(k) PROVE TickFate
  BY <1>2 DEF TickFate
<1>3. ASSUME NEW k \in Ticks, Claim(k) \/ Publish(k) \/ PublishFails(k) \/ Refused(k) \/ MarkProcessedFails(k)
      PROVE  TickFate
  <2>1. Working(k)
    BY <1>3 DEF Claim, Publish, PublishFails, Refused, MarkProcessedFails, Working
  <2>2. \E s \in {"publish", "processed", "retry"} : tick' = [tick EXCEPT ![k].step = s]
    BY <1>3 DEF Claim, Publish, PublishFails, Refused, MarkProcessedFails
  <2>3. QED BY <2>1, <2>2 DEF TickFate
<1>4. ASSUME NEW k \in Ticks, MarkProcessed(k) \/ MarkForRetry(k) PROVE TickFate
  <2>1. Working(k) /\ NextRow(k)
    BY <1>4 DEF MarkProcessed, MarkForRetry, Working
  <2>2. QED BY <2>1 DEF TickFate
<1>5. ASSUME NEW k \in Ticks, MarkForRetryFails(k) PROVE TickFate
  <2>1. tick' = [tick EXCEPT ![k] = Idle]
    BY <1>5 DEF MarkForRetryFails
  <2>2. tick' = [j \in Ticks |-> IF j \in {k} THEN Idle ELSE tick[j]]
    BY <2>1 DEF TypeOK
  <2>3. QED BY <2>2 DEF TickFate
<1>6. ASSUME NEW p \in Procs, HalfOpen(p) \/ ConnectionLost(p) PROVE TickFate
  BY <1>6 DEF HalfOpen, ConnectionLost, TickFate
<1>7. ASSUME NEW p \in Procs, Crash(p) PROVE TickFate
  <2> DEFINE K == {k \in Ticks : ProcOf[k] = p}
  <2>1. tick' = [k \in Ticks |-> IF k \in K THEN Idle ELSE tick[k]]
    BY <1>7 DEF Crash
  <2>2. K \in SUBSET Ticks
    OBVIOUS
  <2> HIDE DEF K
  <2>3. QED BY <2>1, <2>2 DEF TickFate
<1>8. ASSUME NEW p \in Procs, NEW e \in Events, Drain(p, e) \/ Consume(p, e) \/ Ack(p, e) PROVE TickFate
  BY <1>8 DEF Drain, Consume, Ack, TickFate
<1>9. ASSUME Bind PROVE TickFate
  BY <1>9 DEF Bind, TickFate
<1>10. ASSUME UNCHANGED vars PROVE TickFate
  BY <1>10 DEF vars, TickFate
<1>11. QED
  BY <1>1, <1>2, <1>3, <1>4, <1>5, <1>6, <1>7, <1>8, <1>9, <1>10 DEF Next, Loop

\* All of them leave the ticks typed.
LEMMA TicksTyped == TypeOK /\ TickFate => TickType'
<1> SUFFICES ASSUME TypeOK, TickFate PROVE TickType'
  OBVIOUS
<1>0. TickType
  BY DEF TypeOK, TickType
<1>1. ASSUME UNCHANGED tick PROVE TickType'
  BY <1>0, <1>1 DEF TickType
<1>2. ASSUME NEW k \in Ticks, Lock(k) PROVE TickType'
  BY <1>0, <1>2, LockIs, TickTypeNext
<1>3. ASSUME NEW k \in Ticks, NEW s \in {"publish", "processed", "retry"}, Working(k),
             tick' = [tick EXCEPT ![k].step = s]
      PROVE  TickType'
  BY <1>0, <1>3, StepIs, TickTypeNext
<1>4. ASSUME NEW k \in Ticks, Working(k), NextRow(k) PROVE TickType'
  <2>1. PICK s \in {"idle", "publish"}, rows \in Seq(Rows) :
          /\ Len(rows) <= BatchLimit /\ (s = "idle" <=> rows = <<>>)
          /\ tick' = [tick EXCEPT ![k] = [step |-> s, rows |-> rows]]
    BY <1>4, NextRowIs
  <2>2. QED BY <1>0, <2>1, TickTypeNext
<1>5. ASSUME NEW K \in SUBSET Ticks, tick' = [k \in Ticks |-> IF k \in K THEN Idle ELSE tick[k]]
      PROVE  TickType'
  <2>1. Idle \in TickRecords
    <3>1. <<>> \in Seq(Rows) /\ Len(<<>>) <= BatchLimit
      BY LimitsAssumption
    <3>2. QED BY <3>1, TickRecordIs DEF Idle
  <2>2. \A k \in Ticks : tick'[k] = IF k \in K THEN Idle ELSE tick[k]
    BY <1>5
  <2>3. QED BY <1>0, <1>5, <2>1, <2>2 DEF TickType, Idle
<1>6. QED BY <1>1, <1>2, <1>3, <1>4, <1>5 DEF TickFate

\* TypeOK, the part about the table.
RowsType ==
  /\ status \in [Events -> Statuses]
  /\ retry \in [Events -> 0..MaxRetries]

\* TypeOK, the part about breaker, broker and consumer.
BrokerType ==
  /\ breaker \in [Procs -> {"closed", "open", "halfOpen"}]
  /\ bound \in BOOLEAN
  /\ draining \in [Procs -> [Events -> Nat]]
  /\ late \in [Events -> Nat] /\ arrived \in [Events -> Nat]
  /\ ready \in [Events -> Nat] /\ handled \in [Events -> Nat]
  /\ unacked \in [Procs -> [Events -> Nat]]
  /\ faults \in [crash : 0..MaxCrashes, db : 0..MaxDbErrors, full : 0..MaxFull]

\* TypeOK is these three parts.
LEMMA TypeIs == TypeOK <=> TickType /\ RowsType /\ BrokerType
BY DEF TypeOK, TickType, RowsType, BrokerType, Statuses

\* The row a tick is working on.
LEMMA RowHead ==
  ASSUME TypeOK, NEW k \in Ticks, Working(k)
  PROVE  Row(k).id \in Events /\ Row(k).retryCount \in 0..MaxRetries
<1>1. Row(k) \in Rows
  BY TickIs DEF TickFacts
<1>2. QED BY <1>1 DEF Rows

\* The rows of the table, given that a row at work can be tried again.
LEMMA RowsTyped ==
  TypeOK /\ OneOwner /\ Retryable /\ [Next]_vars => RowsType'
<1> SUFFICES ASSUME TypeOK, OneOwner, Retryable, [Next]_vars PROVE RowsType'
  OBVIOUS
<1>0. RowsType
  BY TypeIs
<1>1. ASSUME NEW e \in Events, Settle(e) \/ Cleanup(e) PROVE RowsType'
  BY <1>0, <1>1 DEF Settle, Cleanup, RowsType, Statuses
<1>2. ASSUME NEW k \in Ticks, Claim(k) PROVE RowsType'
  BY <1>0, <1>2 DEF Claim, RowsType, Statuses
<1>3. ASSUME NEW k \in Ticks, MarkProcessed(k) PROVE RowsType'
  BY <1>0, <1>3 DEF MarkProcessed, RowsType, Statuses
<1>4. ASSUME NEW k \in Ticks, MarkForRetry(k) PROVE RowsType'
  <2>1. Working(k)
    BY <1>4 DEF MarkForRetry, Working
  <2>2. PICK e \in Events, n \in 0..MaxRetries : e = Row(k).id /\ n = Row(k).retryCount
    BY <2>1, RowHead
  <2>3. status[e] = "PROCESSING" /\ n = retry[e]
    <3>1. 1 \in DOMAIN tick[k].rows /\ Row(k) = tick[k].rows[1]
      BY <2>1, TickIs DEF TickFacts
    <3>2. tick[k].step # "locked"
      BY <1>4 DEF MarkForRetry
    <3>3. QED BY <2>2, <3>1, <3>2 DEF OneOwner
  <2>4. n + 1 \in 0..MaxRetries
    BY <2>3, LimitsAssumption DEF Retryable
  <2>5. /\ retry' = [retry EXCEPT ![e] = n + 1]
        /\ \E s \in {"FAILED", "PENDING"} : status' = [status EXCEPT ![e] = s]
    BY <1>4, <2>2 DEF MarkForRetry
  <2>6. QED BY <1>0, <2>4, <2>5 DEF RowsType, Statuses
<1>5. ASSUME UNCHANGED <<status, retry>> PROVE RowsType'
  BY <1>0, <1>5 DEF RowsType
<1>6. ASSUME NEW e \in Events, LateArrival(e) PROVE UNCHANGED <<status, retry>>
  BY <1>6 DEF LateArrival
<1>7. ASSUME NEW k \in Ticks,
             \/ Lock(k) \/ Publish(k) \/ PublishFails(k) \/ Refused(k)
             \/ MarkProcessedFails(k) \/ MarkForRetryFails(k)
      PROVE  UNCHANGED <<status, retry>>
  BY <1>7 DEF Lock, Publish, PublishFails, Refused, MarkProcessedFails, MarkForRetryFails
<1>8. ASSUME NEW p \in Procs, HalfOpen(p) \/ ConnectionLost(p) \/ Crash(p)
      PROVE  UNCHANGED <<status, retry>>
  BY <1>8 DEF HalfOpen, ConnectionLost, Crash
<1>9. ASSUME NEW p \in Procs, NEW e \in Events, Drain(p, e) \/ Consume(p, e) \/ Ack(p, e)
      PROVE  UNCHANGED <<status, retry>>
  BY <1>9 DEF Drain, Consume, Ack
<1>10. ASSUME Bind \/ UNCHANGED vars PROVE UNCHANGED <<status, retry>>
  BY <1>10 DEF Bind, vars
<1>11. QED
  BY <1>1, <1>2, <1>3, <1>4, <1>5, <1>6, <1>7, <1>8, <1>9, <1>10 DEF Next, Loop

\* What reaches the exchange is counted.
LEMMA RouteType ==
  ASSUME BrokerType, NEW e \in Events, Route(e)
  PROVE  ready' \in [Events -> Nat] /\ arrived' \in [Events -> Nat]
<1>1. ready[e] + 1 \in Nat /\ arrived[e] + 1 \in Nat
  BY DEF BrokerType
<1>2. CASE bound
  BY <1>1, <1>2 DEF BrokerType, Route
<1>3. CASE ~bound
  BY <1>3 DEF BrokerType, Route
<1>4. QED BY <1>2, <1>3

\* So is what waits to be written again.
LEMMA WrittenType ==
  ASSUME BrokerType, NEW p \in Procs, NEW e \in Events, NEW n \in Nat, Written(p, e, n)
  PROVE  /\ draining' \in [Procs -> [Events -> Nat]]
         /\ faults' \in [crash : 0..MaxCrashes, db : 0..MaxDbErrors, full : 0..MaxFull]
<1>1. \E m \in Nat : draining' = [draining EXCEPT ![p][e] = m]
  BY DEF Written
<1>2. draining' \in [Procs -> [Events -> Nat]]
  BY <1>1 DEF BrokerType
<1>3. faults' \in [crash : 0..MaxCrashes, db : 0..MaxDbErrors, full : 0..MaxFull]
  BY BoundsAssumption DEF Written, BrokerType
<1>4. QED BY <1>2, <1>3

\* The write of a tick is one of its process and of its row.
LEMMA SendsIs ==
  ASSUME TypeOK, NEW k \in Ticks, Working(k), Sends(k)
  PROVE  \E p \in Procs, e \in Events :
           p = ProcOf[k] /\ e = Row(k).id /\ draining[p][e] \in Nat /\ Written(p, e, draining[p][e])
<1>1. ProcOf[k] \in Procs /\ Row(k).id \in Events
  BY RowHead, ProcOfAssumption
<1>2. draining[ProcOf[k]][Row(k).id] \in Nat
  BY <1>1 DEF TypeOK
<1>3. QED BY <1>1, <1>2 DEF Sends

\* Every step leaves breaker, broker and consumer typed.
LEMMA BrokerTyped == TypeOK /\ [Next]_vars => BrokerType'
<1> SUFFICES ASSUME TypeOK, [Next]_vars PROVE BrokerType'
  OBVIOUS
<1>0. BrokerType
  BY TypeIs
<1>1. ASSUME NEW e \in Events, Settle(e) \/ Cleanup(e) PROVE BrokerType'
  BY <1>0, <1>1 DEF Settle, Cleanup, BrokerType, queue
<1>2. ASSUME NEW e \in Events, LateArrival(e) PROVE BrokerType'
  <2>1. ready' \in [Events -> Nat] /\ arrived' \in [Events -> Nat]
    BY <1>0, <1>2, RouteType DEF LateArrival
  <2>2. late' \in [Events -> Nat]
    BY <1>0, <1>2 DEF LateArrival, BrokerType
  <2>3. QED BY <1>0, <1>2, <2>1, <2>2 DEF LateArrival, BrokerType
<1>3. ASSUME NEW k \in Ticks, Lock(k) \/ Claim(k) \/ Refused(k) \/ MarkProcessed(k) \/ MarkForRetry(k)
      PROVE  BrokerType'
  BY <1>0, <1>3 DEF Lock, Claim, Refused, MarkProcessed, MarkForRetry, BrokerType, queue
<1>4. ASSUME NEW k \in Ticks, Publish(k) PROVE BrokerType'
  <2>0. Row(k).id \in Events
    BY <1>4, RowHead DEF Publish, Working
  <2>1. ready' \in [Events -> Nat] /\ arrived' \in [Events -> Nat]
    BY <1>0, <1>4, <2>0, RouteType DEF Publish
  <2>2. breaker' \in [Procs -> {"closed", "open", "halfOpen"}]
    BY <1>0, <1>4 DEF Publish, BrokerType
  <2>3. /\ draining' \in [Procs -> [Events -> Nat]]
        /\ faults' \in [crash : 0..MaxCrashes, db : 0..MaxDbErrors, full : 0..MaxFull]
    BY <1>0, <1>4, SendsIs, WrittenType DEF Publish, Working
  <2>4. QED BY <1>0, <1>4, <2>1, <2>2, <2>3 DEF Publish, BrokerType
<1>5. ASSUME NEW k \in Ticks, PublishFails(k) PROVE BrokerType'
  <2>0. Row(k).id \in Events
    BY <1>5, RowHead DEF PublishFails, Working
  <2>1. late' \in [Events -> Nat]
    BY <1>0, <1>5, <2>0 DEF PublishFails, BrokerType
  <2>2. breaker' \in [Procs -> {"closed", "open", "halfOpen"}]
    BY <1>0, <1>5 DEF PublishFails, BrokerType
  <2>3. /\ draining' \in [Procs -> [Events -> Nat]]
        /\ faults' \in [crash : 0..MaxCrashes, db : 0..MaxDbErrors, full : 0..MaxFull]
    BY <1>0, <1>5, SendsIs, WrittenType DEF PublishFails, Working
  <2>4. QED BY <1>0, <1>5, <2>1, <2>2, <2>3 DEF PublishFails, BrokerType
<1>6. ASSUME NEW k \in Ticks, MarkProcessedFails(k) \/ MarkForRetryFails(k) PROVE BrokerType'
  <2>1. faults' \in [crash : 0..MaxCrashes, db : 0..MaxDbErrors, full : 0..MaxFull]
    BY <1>0, <1>6, BoundsAssumption DEF MarkProcessedFails, MarkForRetryFails, BrokerType
  <2>2. QED BY <1>0, <1>6, <2>1 DEF MarkProcessedFails, MarkForRetryFails, BrokerType, queue
<1>7. ASSUME NEW p \in Procs, HalfOpen(p) PROVE BrokerType'
  BY <1>0, <1>7 DEF HalfOpen, BrokerType, queue
<1>8. ASSUME NEW p \in Procs, ConnectionLost(p) \/ Crash(p) PROVE BrokerType'
  <2>1. faults' \in [crash : 0..MaxCrashes, db : 0..MaxDbErrors, full : 0..MaxFull]
    <3>1. faults.crash < MaxCrashes /\ faults' = [faults EXCEPT !.crash = @ + 1]
      BY <1>8 DEF ConnectionLost, Crash
    <3>2. faults.crash + 1 \in 0..MaxCrashes
      BY <1>0, <3>1, BoundsAssumption DEF BrokerType
    <3>3. QED BY <1>0, <3>1, <3>2 DEF BrokerType
  <2>2. /\ ready' \in [Events -> Nat] /\ unacked' \in [Procs -> [Events -> Nat]]
        /\ draining' \in [Procs -> [Events -> Nat]]
    <3>1. Requeue(p)
      BY <1>8 DEF ConnectionLost, Crash
    <3>2. \A e \in Events : ready[e] + unacked[p][e] \in Nat
      BY <1>0 DEF BrokerType
    <3>3. QED BY <1>0, <3>1, <3>2 DEF Requeue, BrokerType
  <2>3. breaker' \in [Procs -> {"closed", "open", "halfOpen"}]
    BY <1>0, <1>8 DEF ConnectionLost, Crash, BrokerType
  <2>4. QED BY <1>0, <1>8, <2>1, <2>2, <2>3 DEF ConnectionLost, Crash, BrokerType
<1>9. ASSUME NEW p \in Procs, NEW e \in Events, Consume(p, e) PROVE BrokerType'
  <2>1. ready' \in [Events -> Nat]
    BY <1>0, <1>9 DEF Consume, BrokerType
  <2>2. unacked' \in [Procs -> [Events -> Nat]]
    BY <1>0, <1>9 DEF Consume, BrokerType
  <2>3. QED BY <1>0, <1>9, <2>1, <2>2 DEF Consume, BrokerType
<1>10. ASSUME NEW p \in Procs, NEW e \in Events, Ack(p, e) PROVE BrokerType'
  <2>1. handled' \in [Events -> Nat]
    BY <1>0, <1>10 DEF Ack, BrokerType
  <2>2. unacked' \in [Procs -> [Events -> Nat]]
    BY <1>0, <1>10 DEF Ack, BrokerType
  <2>3. QED BY <1>0, <1>10, <2>1, <2>2 DEF Ack, BrokerType
<1>11. ASSUME Bind \/ UNCHANGED vars PROVE BrokerType'
  BY <1>0, <1>11 DEF Bind, vars, BrokerType, queue
<1>12. ASSUME NEW p \in Procs, NEW e \in Events, Drain(p, e) PROVE BrokerType'
  <2>1. late' \in [Events -> Nat]
    BY <1>0, <1>12 DEF Drain, BrokerType
  <2>2. draining[p][e] - 1 \in Nat
    BY <1>0, <1>12 DEF Drain, BrokerType
  <2>3. /\ draining' \in [Procs -> [Events -> Nat]]
        /\ faults' \in [crash : 0..MaxCrashes, db : 0..MaxDbErrors, full : 0..MaxFull]
    BY <1>0, <1>12, <2>2, WrittenType DEF Drain
  <2>4. QED BY <1>0, <1>12, <2>1, <2>3 DEF Drain, BrokerType
<1>13. QED
  BY <1>1, <1>2, <1>3, <1>4, <1>5, <1>6, <1>7, <1>8, <1>9, <1>10, <1>11, <1>12 DEF Next, Loop

\* TypeOK is kept; the retry count stays in range as only rows with a retry left
\* are worked on.
LEMMA TypeNext == TypeOK /\ OneOwner /\ Retryable /\ [Next]_vars => TypeOK'
<1>1. TickType' /\ RowsType' /\ BrokerType' => TypeOK'
  BY DEF TypeOK, TickType, RowsType, BrokerType, Statuses
<1>2. QED BY <1>1, TickFates, TicksTyped, RowsTyped, BrokerTyped

-----------------------------------------------------------------------------
\* After a step that claims nothing, the rows of a tick are a suffix of those
\* it had.
LEMMA RowsShift ==
  ASSUME TypeOK, TickFate, \A k \in Ticks : ~Lock(k), NEW j \in Ticks
  PROVE  \E s \in {0, 1} : \A i \in DOMAIN tick'[j].rows :
           /\ i \in Nat /\ i >= 1
           /\ i + s \in DOMAIN tick[j].rows
           /\ tick'[j].rows[i] = tick[j].rows[i + s]
<1> DEFINE Shift(s) == \A i \in DOMAIN tick'[j].rows :
             /\ i \in Nat /\ i >= 1
             /\ i + s \in DOMAIN tick[j].rows
             /\ tick'[j].rows[i] = tick[j].rows[i + s]
<1>0. TickFacts(j) /\ tick \in [Ticks -> TickRecords]
  BY TickIs DEF TypeOK
<1>1. ASSUME tick'[j].rows = tick[j].rows PROVE Shift(0)
  BY <1>0, <1>1 DEF TickFacts
<1>2. ASSUME UNCHANGED tick PROVE Shift(0)
  BY <1>1, <1>2
<1>3. ASSUME NEW k \in Ticks, NEW s \in {"publish", "processed", "retry"}, Working(k),
             tick' = [tick EXCEPT ![k].step = s]
      PROVE  Shift(0)
  <2>1. tick' = [tick EXCEPT ![k] = [step |-> s, rows |-> tick[k].rows]]
    BY <1>3, StepIs
  <2>2. tick'[j].rows = tick[j].rows
    BY <1>0, <2>1
  <2>3. QED BY <1>1, <2>2
<1>4. ASSUME NEW k \in Ticks, Working(k), NextRow(k) PROVE Shift(0) \/ Shift(1)
  <2>1. CASE j = k
    <3>1. tick'[k].rows = RowsLeft(k)
      BY <1>0, <1>4, <2>1, NextRowIs
    <3>2. DOMAIN RowsLeft(k) = 1..(Len(tick[k].rows) - 1)
      BY <1>4, NextRowIs
    <3>3. \A i \in DOMAIN RowsLeft(k) :
            i + 1 \in DOMAIN tick[k].rows /\ RowsLeft(k)[i] = tick[k].rows[i + 1]
      BY <1>4, NextRowIs
    <3>4. \A i \in DOMAIN RowsLeft(k) : i \in Nat /\ i >= 1
      BY <3>2
    <3>5. QED BY <2>1, <3>1, <3>3, <3>4
  <2>2. CASE j # k
    <3>1. tick'[j].rows = tick[j].rows
      BY <1>0, <1>4, <2>2, NextRowIs
    <3>2. QED BY <1>1, <3>1
  <2>3. QED BY <2>1, <2>2
<1>5. ASSUME NEW K \in SUBSET Ticks, tick' = [k \in Ticks |-> IF k \in K THEN Idle ELSE tick[k]]
      PROVE  Shift(0)
  <2>1. tick'[j] = IF j \in K THEN Idle ELSE tick[j]
    BY <1>5
  <2>2. DOMAIN Idle.rows = {}
    BY DEF Idle
  <2>3. CASE j \in K
    BY <2>1, <2>2, <2>3
  <2>4. CASE j \notin K
    BY <1>1, <2>1, <2>4
  <2>5. QED BY <2>3, <2>4
<1> HIDE DEF Shift
<1>6. Shift(0) \/ Shift(1)
  BY <1>2, <1>3, <1>4, <1>5 DEF TickFate
<1>7. QED BY <1>6 DEF Shift

\* Ticks that claim at the same time claim different rows: SKIP LOCKED passes
\* over the rows of a claim not committed, and the status over those of one that is.
LEMMA OwnedOnceNext == TypeOK /\ OneOwner /\ TickFate => OwnedOnce'
<1> SUFFICES ASSUME TypeOK, OneOwner, TickFate PROVE OwnedOnce'
  OBVIOUS
<1>0. OwnedOnce /\ RowsClaimed
  BY OneOwnerIs
<1>1. CASE \A k \in Ticks : ~Lock(k)
  <2> SUFFICES ASSUME NEW j \in Ticks, NEW k \in Ticks,
                      NEW h \in DOMAIN tick'[j].rows, NEW i \in DOMAIN tick'[k].rows,
                      tick'[j].rows[h].id = tick'[k].rows[i].id
               PROVE  j = k /\ h = i
    BY DEF OwnedOnce
  <2>1. PICK s \in {0, 1} : /\ h \in Nat
                            /\ h + s \in DOMAIN tick[j].rows
                            /\ tick'[j].rows[h] = tick[j].rows[h + s]
    BY <1>1, RowsShift
  <2>2. PICK t \in {0, 1} : /\ i \in Nat
                            /\ i + t \in DOMAIN tick[k].rows
                            /\ tick'[k].rows[i] = tick[k].rows[i + t]
                            /\ j = k => /\ h + t \in DOMAIN tick[k].rows
                                        /\ tick'[k].rows[h] = tick[k].rows[h + t]
    <3>1. PICK t \in {0, 1} : \A g \in DOMAIN tick'[k].rows :
            /\ g \in Nat /\ g >= 1
            /\ g + t \in DOMAIN tick[k].rows
            /\ tick'[k].rows[g] = tick[k].rows[g + t]
      BY <1>1, RowsShift
    <3>2. QED BY <3>1
  <2>3. tick[j].rows[h + s].id = tick[k].rows[i + t].id
    BY <2>1, <2>2
  <2>4. j = k /\ h + s = i + t
    BY <1>0, <2>1, <2>2, <2>3 DEF OwnedOnce
  <2>5. tick[k].rows[h + t].id = tick[k].rows[i + t].id
    BY <2>2, <2>4
  <2>6. h + t = i + t
    BY <1>0, <2>2, <2>4, <2>5 DEF OwnedOnce
  <2>7. QED BY <2>1, <2>2, <2>4, <2>6
<1>2. ASSUME NEW k \in Ticks, Lock(k) PROVE OwnedOnce'
  <2>1. PICK rows \in Seq(Rows) :
           /\ tick' = [tick EXCEPT ![k] = [step |-> "locked", rows |-> rows]]
           /\ \A i \in DOMAIN rows :
                rows[i].id \notin Locked /\ status[rows[i].id] = "PENDING"
           /\ \A h, i \in DOMAIN rows : rows[h].id = rows[i].id => h = i
    BY <1>2, LockIs
  <2>2. /\ tick'[k].rows = rows
        /\ \A j \in Ticks : j # k => tick'[j].rows = tick[j].rows
    BY <2>1 DEF TypeOK
  <2>3. ASSUME NEW j \in Ticks, NEW h \in DOMAIN tick[j].rows, NEW i \in DOMAIN rows
        PROVE  tick[j].rows[h].id # rows[i].id
    <3>1. CASE tick[j].step = "locked"
      <4>1. tick[j].rows[h].id \in Locked
        BY <3>1 DEF Locked, IdsOf
      <4>2. QED BY <2>1, <4>1
    <3>2. CASE tick[j].step # "locked"
      <4>1. status[tick[j].rows[h].id] = "PROCESSING"
        BY <1>0, <3>2 DEF RowsClaimed
      <4>2. QED BY <2>1, <4>1
    <3>3. QED BY <3>1, <3>2
  <2> SUFFICES ASSUME NEW a \in Ticks, NEW b \in Ticks,
                      NEW h \in DOMAIN tick'[a].rows, NEW i \in DOMAIN tick'[b].rows,
                      tick'[a].rows[h].id = tick'[b].rows[i].id
               PROVE  a = b /\ h = i
    BY DEF OwnedOnce
  <2>4. CASE a = k /\ b = k
    BY <2>1, <2>2, <2>4
  <2>5. CASE a # k /\ b # k
    <3>1. tick'[a].rows = tick[a].rows /\ tick'[b].rows = tick[b].rows
      BY <2>2, <2>5
    <3>2. QED BY <1>0, <3>1 DEF OwnedOnce
  <2>6. CASE a = k /\ b # k
    BY <2>2, <2>3, <2>6
  <2>7. CASE a # k /\ b = k
    BY <2>2, <2>3, <2>7
  <2>8. QED BY <2>4, <2>5, <2>6, <2>7
<1>3. QED BY <1>1, <1>2

\* What the ticks hold of a row is what its owner alone changes.
LEMMA HeldAlone ==
  ASSUME TypeOK, OneOwner, NEW k \in Ticks, Working(k),
         NEW j \in Ticks, NEW i \in DOMAIN tick[j].rows, tick[j].rows[i].id = Row(k).id
  PROVE  j = k /\ i = 1
<1>1. 1 \in DOMAIN tick[k].rows /\ Row(k) = tick[k].rows[1]
  BY TickIs DEF TickFacts
<1>2. QED BY <1>1, OneOwnerIs DEF OwnedOnce

\* What a tick holds is a row of an event.
LEMMA HeldRow ==
  ASSUME TypeOK, NEW j \in Ticks, NEW i \in DOMAIN tick[j].rows
  PROVE  tick[j].rows[i] \in Rows /\ tick[j].rows[i].id \in Events
<1>1. TickFacts(j)
  BY TickIs
<1>2. PICK rows \in Seq(Rows) : rows = tick[j].rows
  BY <1>1 DEF TickFacts
<1>3. rows[i] \in Rows
  BY <1>2
<1>4. QED BY <1>2, <1>3 DEF Rows

\* The row a tick is working on is claimed, and its count is the table's.
LEMMA HeadIs ==
  ASSUME TypeOK, OneOwner, NEW k \in Ticks, Working(k)
  PROVE  /\ Row(k).id \in Events /\ Row(k).retryCount = retry[Row(k).id]
         /\ status[Row(k).id] = IF tick[k].step = "locked" THEN "PENDING" ELSE "PROCESSING"
<1>1. 1 \in DOMAIN tick[k].rows /\ Row(k) = tick[k].rows[1]
  BY TickIs DEF TickFacts
<1>2. QED BY <1>1, OneOwnerIs, RowHead DEF RowsClaimed

\* After the owner is through with its row, no tick holds it.
LEMMA HeadGone ==
  ASSUME TypeOK, OneOwner, NEW k \in Ticks, tick[k].step \in {"processed", "retry"}, NextRow(k),
         NEW j \in Ticks, NEW i \in DOMAIN tick'[j].rows
  PROVE  /\ tick'[j].rows[i].id # Row(k).id
         /\ \E h \in DOMAIN tick[j].rows :
              tick'[j].rows[i] = tick[j].rows[h] /\ (j = k => h # 1)
         /\ tick'[j].step = IF j = k THEN "publish" ELSE tick[j].step
         /\ j # k => tick'[j] = tick[j]
<1>0. Working(k) /\ TickFacts(k)
  BY TickIs DEF Working
<1>1. CASE j = k
  <2>1. tick'[k] = [step |-> IF RowsLeft(k) = <<>> THEN "idle" ELSE "publish", rows |-> RowsLeft(k)]
    BY <1>0, NextRowIs DEF TypeOK
  <2>2. i \in DOMAIN RowsLeft(k) /\ tick'[j].rows[i] = RowsLeft(k)[i]
    BY <1>1, <2>1
  <2>3. RowsLeft(k) # <<>> /\ i \in Nat /\ i >= 1
    <3>1. DOMAIN RowsLeft(k) = 1..(Len(tick[k].rows) - 1)
      BY <1>0, NextRowIs
    <3>2. RowsLeft(k) # <<>>
      BY <2>2
    <3>3. QED BY <2>2, <3>1, <3>2
  <2>4. i + 1 \in DOMAIN tick[k].rows /\ RowsLeft(k)[i] = tick[k].rows[i + 1]
    BY <1>0, <2>2, NextRowIs
  <2>5. tick[k].rows[i + 1].id # Row(k).id
    BY <1>0, <2>3, <2>4, HeldAlone
  <2>6. i + 1 # 1
    BY <2>3
  <2>7. QED BY <1>1, <2>1, <2>2, <2>3, <2>4, <2>5, <2>6
<1>2. CASE j # k
  <2>1. tick'[j] = tick[j]
    BY <1>0, <1>2, NextRowIs DEF TypeOK
  <2>2. QED BY <1>0, <1>2, <2>1, HeldAlone
<1>3. QED BY <1>1, <1>2

\* A change of step leaves the rows.
LEMMA StepKept ==
  ASSUME TypeOK, NEW k \in Ticks, NEW s \in {"publish", "processed", "retry"}, Working(k), tick' = [tick EXCEPT ![k].step = s],
         NEW j \in Ticks
  PROVE  tick'[j].rows = tick[j].rows /\ tick'[j].step = IF j = k THEN s ELSE tick[j].step
<1>1. tick' = [tick EXCEPT ![k] = [step |-> s, rows |-> tick[k].rows]]
  BY StepIs
<1>2. tick'[j] = IF j = k THEN [step |-> s, rows |-> tick[k].rows] ELSE tick[j]
  BY <1>1 DEF TypeOK
<1>3. QED BY <1>2

\* What the step leaves in the hands of a tick was there before, and a claim
\* is neither begun nor finished.
HeldBefore ==
  \A j \in Ticks : \A i \in DOMAIN tick'[j].rows :
    /\ tick'[j].step = "locked" <=> tick[j].step = "locked"
    /\ \E h \in DOMAIN tick[j].rows : tick'[j].rows[i] = tick[j].rows[h]

\* Then the ticks' rows stay as the table has them.
LEMMA ClaimedKept ==
  ASSUME RowsClaimed, HeldBefore,
         \A j \in Ticks : \A i \in DOMAIN tick'[j].rows :
           LET e == tick'[j].rows[i].id IN status'[e] = status[e] /\ retry'[e] = retry[e]
  PROVE  RowsClaimed'
<1> SUFFICES ASSUME NEW j \in Ticks, NEW i \in DOMAIN tick'[j].rows
             PROVE  LET row == tick'[j].rows[i]
                    IN  /\ status'[row.id] = IF tick'[j].step = "locked" THEN "PENDING" ELSE "PROCESSING"
                        /\ row.retryCount = retry'[row.id]
  BY DEF RowsClaimed
<1>1. PICK h \in DOMAIN tick[j].rows : tick'[j].rows[i] = tick[j].rows[h]
  BY DEF HeldBefore
<1>2. tick'[j].step = "locked" <=> tick[j].step = "locked"
  BY DEF HeldBefore
<1>3. QED BY <1>1, <1>2 DEF RowsClaimed

\* Every step leaves the table as the ticks' rows say.
LEMMA RowsClaimedNext == TypeOK /\ OneOwner /\ [Next]_vars => RowsClaimed'
<1> SUFFICES ASSUME TypeOK, OneOwner, [Next]_vars PROVE RowsClaimed'
  OBVIOUS
<1>0. RowsClaimed
  BY OneOwnerIs
<1>1. ASSUME UNCHANGED tick PROVE HeldBefore
  BY <1>1 DEF HeldBefore
<1>2. ASSUME HeldBefore, UNCHANGED <<status, retry>> PROVE RowsClaimed'
  BY <1>0, <1>2, ClaimedKept
<1>3. ASSUME NEW e \in Events, Settle(e) \/ Cleanup(e) PROVE RowsClaimed'
  <2>1. HeldBefore /\ UNCHANGED <<tick, retry>>
    BY <1>1, <1>3 DEF Settle, Cleanup
  <2>2. status[e] \notin {"PENDING", "PROCESSING"}
    BY <1>3 DEF Settle, Cleanup
  <2>3. \A d \in Events \ {e} : status'[d] = status[d]
    BY <1>3 DEF Settle, Cleanup, TypeOK
  <2>4. ASSUME NEW j \in Ticks, NEW i \in DOMAIN tick'[j].rows
        PROVE  status'[tick'[j].rows[i].id] = status[tick'[j].rows[i].id]
    <3>1. tick'[j].rows[i] = tick[j].rows[i] /\ i \in DOMAIN tick[j].rows
      BY <2>1
    <3>2. status[tick[j].rows[i].id] \in {"PENDING", "PROCESSING"}
      BY <1>0, <3>1 DEF RowsClaimed
    <3>3. tick[j].rows[i].id \in Events
      BY <3>1, HeldRow
    <3>4. QED BY <2>2, <2>3, <3>1, <3>2, <3>3
  <2>5. QED BY <1>0, <2>1, <2>4, ClaimedKept
<1>4. ASSUME NEW k \in Ticks, Lock(k) PROVE RowsClaimed'
  <2>1. PICK rows \in Seq(Rows) :
           /\ tick' = [tick EXCEPT ![k] = [step |-> "locked", rows |-> rows]]
           /\ Len(rows) <= BatchLimit /\ rows # <<>>
           /\ \A i \in DOMAIN rows :
                /\ rows[i].id \in Events \ Locked
                /\ status[rows[i].id] = "PENDING"
                /\ rows[i].retryCount = retry[rows[i].id]
           /\ \A h, i \in DOMAIN rows : rows[h].id = rows[i].id => h = i
    BY <1>4, LockIs
  <2>2. tick'[k] = [step |-> "locked", rows |-> rows] /\ \A j \in Ticks \ {k} : tick'[j] = tick[j]
    BY <2>1 DEF TypeOK
  <2>3. UNCHANGED <<status, retry>>
    BY <1>4 DEF Lock
  <2>4. QED BY <1>0, <2>1, <2>2, <2>3 DEF RowsClaimed
<1>5. ASSUME NEW k \in Ticks, Claim(k) PROVE RowsClaimed'
  <2>1. Working(k) /\ tick' = [tick EXCEPT ![k].step = "publish"] /\ UNCHANGED retry
    BY <1>5 DEF Claim, Working
  <2>2. \A j \in Ticks : /\ tick'[j].rows = tick[j].rows
                         /\ tick'[j].step = IF j = k THEN "publish" ELSE tick[j].step
    BY <2>1, StepKept
  <2> SUFFICES ASSUME NEW j \in Ticks, NEW i \in DOMAIN tick[j].rows
               PROVE  LET row == tick[j].rows[i]
                      IN  /\ status'[row.id] = IF tick'[j].step = "locked" THEN "PENDING" ELSE "PROCESSING"
                          /\ row.retryCount = retry'[row.id]
    BY <2>2 DEF RowsClaimed
  <2>3. tick[j].rows[i].id \in Events
    BY HeldRow
  <2>4. tick[j].rows[i].id \in IdsOf(j) /\ (j # k => tick[j].rows[i].id \notin IdsOf(k))
    BY DEF IdsOf, OneOwner
  <2>5. status'[tick[j].rows[i].id] = IF j = k THEN "PROCESSING" ELSE status[tick[j].rows[i].id]
    BY <1>5, <2>3, <2>4 DEF Claim
  <2>6. QED BY <1>0, <2>1, <2>2, <2>5 DEF RowsClaimed
<1>6. ASSUME NEW k \in Ticks, Publish(k) \/ PublishFails(k) \/ Refused(k) \/ MarkProcessedFails(k)
      PROVE  RowsClaimed'
  <2>1. PICK s \in {"processed", "retry"} : tick' = [tick EXCEPT ![k].step = s]
    BY <1>6 DEF Publish, PublishFails, Refused, MarkProcessedFails
  <2>2. tick[k].step \in {"publish", "processed"} /\ Working(k) /\ UNCHANGED <<status, retry>>
    BY <1>6 DEF Publish, PublishFails, Refused, MarkProcessedFails, Working
  <2>3. HeldBefore
    BY <2>1, <2>2, StepKept DEF HeldBefore
  <2>4. QED BY <1>2, <2>2, <2>3
<1>7. ASSUME NEW k \in Ticks, MarkProcessed(k) \/ MarkForRetry(k) PROVE RowsClaimed'
  <2>1. tick[k].step \in {"processed", "retry"} /\ NextRow(k) /\ Working(k)
    BY <1>7 DEF MarkProcessed, MarkForRetry, Working
  <2>2. HeldBefore
    BY <2>1, HeadGone DEF HeldBefore
  <2>3. \A d \in Events : d # Row(k).id => status'[d] = status[d] /\ retry'[d] = retry[d]
    BY <1>7 DEF MarkProcessed, MarkForRetry, TypeOK
  <2>4. \A j \in Ticks : \A i \in DOMAIN tick'[j].rows : tick'[j].rows[i].id # Row(k).id /\ tick'[j].rows[i].id \in Events
    BY <2>1, HeadGone, HeldRow
  <2>5. QED BY <1>0, <2>2, <2>3, <2>4, ClaimedKept
<1>8. ASSUME NEW K \in SUBSET Ticks, tick' = [k \in Ticks |-> IF k \in K THEN Idle ELSE tick[k]]
      PROVE  HeldBefore
  <2>1. \A j \in Ticks : tick'[j] = IF j \in K THEN Idle ELSE tick[j]
    BY <1>8
  <2>2. DOMAIN Idle.rows = {}
    BY DEF Idle
  <2>3. QED BY <2>1, <2>2 DEF HeldBefore
<1>9. ASSUME NEW k \in Ticks, MarkForRetryFails(k) PROVE RowsClaimed'
  <2>1. tick' = [j \in Ticks |-> IF j \in {k} THEN Idle ELSE tick[j]] /\ UNCHANGED <<status, retry>>
    BY <1>9 DEF MarkForRetryFails, TypeOK
  <2>2. QED BY <1>2, <1>8, <2>1
<1>10. ASSUME NEW p \in Procs, Crash(p) PROVE RowsClaimed'
  <2> DEFINE K == {k \in Ticks : ProcOf[k] = p}
  <2>1. /\ tick' = [j \in Ticks |-> IF j \in K THEN Idle ELSE tick[j]] /\ K \in SUBSET Ticks
        /\ UNCHANGED <<status, retry>>
    BY <1>10 DEF Crash
  <2> HIDE DEF K
  <2>2. QED BY <1>2, <1>8, <2>1
<1>11. ASSUME NEW e \in Events, LateArrival(e) PROVE RowsClaimed'
  BY <1>1, <1>2, <1>11 DEF LateArrival
<1>12. ASSUME NEW p \in Procs, HalfOpen(p) \/ ConnectionLost(p) PROVE RowsClaimed'
  BY <1>1, <1>2, <1>12 DEF HalfOpen, ConnectionLost
<1>13. ASSUME NEW p \in Procs, NEW e \in Events, Drain(p, e) \/ Consume(p, e) \/ Ack(p, e) PROVE RowsClaimed'
  BY <1>1, <1>2, <1>13 DEF Drain, Consume, Ack
<1>14. ASSUME Bind \/ UNCHANGED vars PROVE RowsClaimed'
  BY <1>1, <1>2, <1>14 DEF Bind, vars
<1>15. QED
  BY <1>3, <1>4, <1>5, <1>6, <1>7, <1>9, <1>10, <1>11, <1>12, <1>13, <1>14 DEF Next, Loop

\* Whatever overlaps, a row has one owner.
LEMMA OneOwnerNext == TypeOK /\ OneOwner /\ [Next]_vars => OneOwner'
<1>1. OwnedOnce' /\ RowsClaimed' => OneOwner'
  BY OneOwnerIs, PTL
<1>2. QED BY <1>1, TickFates, OwnedOnceNext, RowsClaimedNext

-----------------------------------------------------------------------------
(* Retries and copies.                                                     *)

\* A row that has no retry left is given up when the last failure is counted.
LEMMA RetryableNext == TypeOK /\ OneOwner /\ Retryable /\ [Next]_vars => Retryable'
<1> SUFFICES ASSUME TypeOK, OneOwner, Retryable, [Next]_vars PROVE Retryable'
  OBVIOUS
<1>0. RowsType
  BY TypeIs
<1>1. ASSUME NEW e \in Events, Settle(e) \/ Cleanup(e) PROVE Retryable'
  BY <1>0, <1>1 DEF Settle, Cleanup, RowsType, Retryable
<1>2. ASSUME NEW k \in Ticks, Claim(k) PROVE Retryable'
  <2>1. \A e \in IdsOf(k) : e \in Events /\ status[e] = "PENDING"
    <3>1. \A i \in DOMAIN tick[k].rows : tick[k].rows[i].id \in Events
      BY HeldRow
    <3>2. QED BY <1>2, <3>1 DEF Claim, OneOwner, IdsOf
  <2>2. \A e \in Events : status'[e] = IF e \in IdsOf(k) THEN "PROCESSING" ELSE status[e]
    BY <1>2 DEF Claim
  <2>3. UNCHANGED retry
    BY <1>2 DEF Claim
  <2>4. QED BY <2>1, <2>2, <2>3 DEF Retryable
<1>3. ASSUME NEW k \in Ticks, MarkProcessed(k) PROVE Retryable'
  BY <1>0, <1>3 DEF MarkProcessed, RowsType, Retryable
<1>4. ASSUME NEW k \in Ticks, MarkForRetry(k) PROVE Retryable'
  <2>1. PICK e \in Events, n \in 0..MaxRetries : e = Row(k).id /\ n = Row(k).retryCount
    BY <1>4, RowHead DEF MarkForRetry, Working
  <2>2. /\ retry' = [retry EXCEPT ![e] = n + 1]
        /\ status' = [status EXCEPT ![e] = IF n + 1 >= MaxRetries THEN "FAILED" ELSE "PENDING"]
    BY <1>4, <2>1 DEF MarkForRetry
  <2>3. n + 1 \in Nat /\ MaxRetries \in Nat
    BY LimitsAssumption
  <2>4. ASSUME NEW d \in Events, d = e
        PROVE  /\ status'[d] = "NONE" => retry'[d] = 0
               /\ status'[d] \in {"NONE", "PENDING", "PROCESSING"} => retry'[d] < MaxRetries
    BY <1>0, <2>2, <2>3, <2>4 DEF RowsType
  <2>5. ASSUME NEW d \in Events, d # e
        PROVE  status'[d] = status[d] /\ retry'[d] = retry[d]
    BY <1>0, <2>2, <2>5 DEF RowsType
  <2>6. QED BY <2>4, <2>5 DEF Retryable
<1>5. ASSUME UNCHANGED <<status, retry>> PROVE Retryable'
  BY <1>5 DEF Retryable
<1>6. ASSUME NEW e \in Events, LateArrival(e) PROVE UNCHANGED <<status, retry>>
  BY <1>6 DEF LateArrival
<1>7. ASSUME NEW k \in Ticks,
             \/ Lock(k) \/ Publish(k) \/ PublishFails(k) \/ Refused(k)
             \/ MarkProcessedFails(k) \/ MarkForRetryFails(k)
      PROVE  UNCHANGED <<status, retry>>
  BY <1>7 DEF Lock, Publish, PublishFails, Refused, MarkProcessedFails, MarkForRetryFails
<1>8. ASSUME NEW p \in Procs, HalfOpen(p) \/ ConnectionLost(p) \/ Crash(p)
      PROVE  UNCHANGED <<status, retry>>
  BY <1>8 DEF HalfOpen, ConnectionLost, Crash
<1>9. ASSUME NEW p \in Procs, NEW e \in Events, Drain(p, e) \/ Consume(p, e) \/ Ack(p, e)
      PROVE  UNCHANGED <<status, retry>>
  BY <1>9 DEF Drain, Consume, Ack
<1>10. ASSUME Bind \/ UNCHANGED vars PROVE UNCHANGED <<status, retry>>
  BY <1>10 DEF Bind, vars
<1>11. QED
  BY <1>1, <1>2, <1>3, <1>4, <1>5, <1>6, <1>7, <1>8, <1>9, <1>10 DEF Next, Loop

-----------------------------------------------------------------------------
\* Channels wait a natural number of times.
LEMMA WaitsNat ==
  ASSUME NEW w \in [Procs -> [Events -> Nat]], NEW e \in Events
  PROVE  SumFunctionOnSet([p \in Procs |-> w[p][e]], Procs) \in Nat
<1> DEFINE f == [p \in Procs |-> w[p][e]]
<1>1. \A p \in Procs : f[p] \in Nat
  OBVIOUS
<1> HIDE DEF f
<1>2. SumFunctionOnSet(f, Procs) \in Nat
  BY <1>1, ProcsAssumption, SumNat
<1>3. QED BY <1>2 DEF f

\* One process waits for an event another number of times.
LEMMA WaitingChanged ==
  ASSUME TypeOK, TypeOK', NEW e \in Events, NEW p \in Procs,
         \A q \in Procs \ {p} : draining'[q][e] = draining[q][e]
  PROVE  Waiting(e)' = Waiting(e) - draining[p][e] + draining'[p][e]
<1> DEFINE f == [q \in Procs |-> draining[q][e]]
           g == [q \in Procs |-> draining'[q][e]]
<1>1. \A q \in Procs : f[q] \in Int /\ g[q] \in Int
  BY DEF TypeOK
<1>2. \A q \in Procs \ {p} : f[q] = g[q]
  OBVIOUS
<1>3. f[p] = draining[p][e] /\ g[p] = draining'[p][e]
  OBVIOUS
<1>4. Waiting(e) = SumFunctionOnSet(f, Procs) /\ Waiting(e)' = SumFunctionOnSet(g, Procs)
  BY DEF Waiting
<1> HIDE DEF f, g
<1>5. SumFunctionOnSet(g, Procs) = SumFunctionOnSet(f, Procs) - f[p] + g[p]
  BY <1>1, <1>2, ProcsAssumption, SumChanged
<1>6. QED BY <1>3, <1>4, <1>5

\* The numbers of the count.
LEMMA CopiesInt ==
  ASSUME TypeOK, NEW e \in Events
  PROVE  /\ late[e] \in Nat /\ arrived[e] \in Nat /\ Waiting(e) \in Nat
         /\ faults.full \in Nat /\ retry[e] \in Nat
         /\ Copies(e) = late[e] + arrived[e] + Waiting(e) - faults.full
         /\ Copies(e) \in Int
<1>1. /\ late[e] \in Nat /\ arrived[e] \in Nat /\ retry[e] \in Nat /\ faults.full \in Nat
  BY BoundsAssumption DEF TypeOK
<1>2. Waiting(e) \in Nat
  BY WaitsNat DEF TypeOK, Waiting
<1>3. QED BY <1>1, <1>2 DEF Copies

\* The same after a step.
LEMMA CopiesIntNext ==
  ASSUME TypeOK', NEW e \in Events
  PROVE  /\ late'[e] \in Nat /\ arrived'[e] \in Nat /\ Waiting(e)' \in Nat
         /\ faults'.full \in Nat /\ retry'[e] \in Nat
         /\ Copies(e)' = late'[e] + arrived'[e] + Waiting(e)' - faults'.full
         /\ Copies(e)' \in Int
<1>1. /\ late'[e] \in Nat /\ arrived'[e] \in Nat /\ retry'[e] \in Nat /\ faults'.full \in Nat
  BY BoundsAssumption DEF TypeOK
<1>2. Waiting(e)' \in Nat
  BY WaitsNat DEF TypeOK, Waiting
<1>3. QED BY <1>1, <1>2 DEF Copies

\* What is written to a buffer, full or not: the channel waits as often as
\* before, or once more for a full buffer.
LEMMA WrittenCopies ==
  ASSUME TypeOK, TypeOK', NEW p \in Procs, NEW e \in Events, NEW n \in Nat, Written(p, e, n)
  PROVE  /\ Waiting(e)' - faults'.full = Waiting(e) - draining[p][e] + n - faults.full
         /\ \A d \in Events \ {e} :
              Waiting(d)' = Waiting(d) /\ faults'.full >= faults.full
<1>1. draining[p][e] \in Nat /\ faults.full \in Nat /\ faults'.full \in Nat
  BY BoundsAssumption DEF TypeOK
<1>2. \/ faults'.full = faults.full /\ draining' = [draining EXCEPT ![p][e] = n]
      \/ faults'.full = faults.full + 1 /\ draining' = [draining EXCEPT ![p][e] = n + 1]
  BY DEF Written, TypeOK
<1> DEFINE Wait(m) == [draining EXCEPT ![p][e] = m]
<1>3. draining \in [Procs -> [Events -> Nat]]
  BY DEF TypeOK
<1>4. ASSUME NEW m
      PROVE  /\ Wait(m)[p][e] = m
             /\ \A q \in Procs, d \in Events : q # p \/ d # e => Wait(m)[q][d] = draining[q][d]
  BY <1>3
<1>5. \/ faults'.full = faults.full /\ draining'[p][e] = n
      \/ faults'.full = faults.full + 1 /\ draining'[p][e] = n + 1
  BY <1>2, <1>4
<1>6. \A q \in Procs, d \in Events : q # p \/ d # e => draining'[q][d] = draining[q][d]
  <2>1. PICK m : draining' = Wait(m)
    BY <1>2
  <2>2. QED BY <1>4, <2>1
<1>7. Waiting(e)' = Waiting(e) - draining[p][e] + draining'[p][e]
  BY <1>6, WaitingChanged
<1>8. Waiting(e) \in Nat
  BY CopiesInt
<1>9. Waiting(e)' - faults'.full = Waiting(e) - draining[p][e] + n - faults.full
  BY <1>1, <1>5, <1>7, <1>8
<1>10. ASSUME NEW d \in Events \ {e} PROVE Waiting(d)' = Waiting(d) /\ faults'.full >= faults.full
  <2>1. Waiting(d)' = Waiting(d) - draining[p][d] + draining'[p][d]
    BY <1>6, WaitingChanged
  <2>2. draining'[p][d] = draining[p][d] /\ draining[p][d] \in Nat /\ Waiting(d) \in Nat
    BY <1>6, <1>3, CopiesInt
  <2>3. QED BY <1>1, <1>5, <2>1, <2>2
<1>11. QED BY <1>9, <1>10

\* A step that publishes nothing has at most as many copies of each event.
NoNewCopies == \A e \in Events : Copies(e)' <= Copies(e)

\* As does one that leaves broker and channels alone.
LEMMA CopiesSame ==
  ASSUME TypeOK, TypeOK', UNCHANGED <<late, arrived, draining>>, faults'.full = faults.full
  PROVE  NoNewCopies
<1>1. ASSUME NEW e \in Events PROVE Copies(e)' <= Copies(e)
  <2>1. Waiting(e)' = Waiting(e)
    BY DEF Waiting
  <2>2. Copies(e)' = Copies(e)
    BY <2>1 DEF Copies
  <2>3. QED BY <2>2, CopiesInt
<1>2. QED BY <1>1 DEF NoNewCopies

\* And one in which a process loses its channels.
LEMMA CopiesDropped ==
  ASSUME TypeOK, TypeOK', NEW p \in Procs, Requeue(p), UNCHANGED <<late, arrived>>,
         faults'.full = faults.full
  PROVE  NoNewCopies
<1>1. ASSUME NEW e \in Events PROVE Copies(e)' <= Copies(e)
  <2>1. /\ \A q \in Procs \ {p} : draining'[q][e] = draining[q][e]
        /\ draining'[p][e] = 0 /\ draining[p][e] \in Nat
    BY DEF Requeue, TypeOK
  <2>2. Waiting(e)' = Waiting(e) - draining[p][e] + draining'[p][e]
    BY <2>1, WaitingChanged
  <2>3. Copies(e)' = late[e] + arrived[e] + Waiting(e)' - faults.full
    BY DEF Copies
  <2>4. QED BY <2>1, <2>2, <2>3, CopiesInt
<1>2. QED BY <1>1 DEF NoNewCopies

\* A step that publishes nothing, counts nothing and forgets no attempt.
LEMMA CountedKept ==
  ASSUME TypeOK, TypeOK', Counted, NoNewCopies, UNCHANGED retry,
         \A e \in Events : AllCounted(e)' => AllCounted(e)
  PROVE  Counted'
<1>1. ASSUME NEW e \in Events
      PROVE  Copies(e)' <= retry[e] + 1 /\ (AllCounted(e)' => Copies(e)' <= retry[e])
  <2>1. Copies(e) \in Int /\ retry[e] \in Nat /\ Copies(e)' <= Copies(e) /\ Copies(e)' \in Int
    BY CopiesInt, CopiesIntNext DEF NoNewCopies
  <2>2. Copies(e) <= retry[e] + 1 /\ (AllCounted(e) => Copies(e) <= retry[e])
    BY DEF Counted
  <2>3. QED BY <2>1, <2>2
<1>2. \A e \in Events : retry'[e] = retry[e]
  OBVIOUS
<1>3. QED BY <1>1, <1>2 DEF Counted

\* Who holds a row after the step held it before.
LEMMA CountedBefore ==
  ASSUME NEW e \in Events,
         status'[e] \in {"NONE", "PENDING"} => status[e] \in {"NONE", "PENDING"},
         \A j \in Ticks : \A i \in DOMAIN tick'[j].rows :
           ~Attempted(j, i)' =>
             \/ status[tick'[j].rows[i].id] \in {"NONE", "PENDING"}
             \/ \E h \in DOMAIN tick[j].rows :
                  ~Attempted(j, h) /\ tick'[j].rows[i] = tick[j].rows[h],
         AllCounted(e)'
  PROVE  AllCounted(e)
<1> SUFFICES ASSUME status[e] \notin {"NONE", "PENDING"}
             PROVE  AllCounted(e)
  BY DEF AllCounted
<1>1. PICK j \in Ticks : \E i \in DOMAIN tick'[j].rows : tick'[j].rows[i].id = e /\ ~Attempted(j, i)'
  <2>1. status'[e] \notin {"NONE", "PENDING"}
    OBVIOUS
  <2>2. QED BY <2>1 DEF AllCounted
<1>2. PICK i \in DOMAIN tick'[j].rows : tick'[j].rows[i].id = e /\ ~Attempted(j, i)'
  BY <1>1
<1>3. PICK h \in DOMAIN tick[j].rows : ~Attempted(j, h) /\ tick'[j].rows[i] = tick[j].rows[h]
  BY <1>2
<1>4. QED BY <1>2, <1>3 DEF AllCounted

\* An attempt of k on its row begins with all of them counted.
LEMMA BeforeAttempt ==
  ASSUME TypeOK, NEW k \in Ticks, Working(k), ~Attempted(k, 1)
  PROVE  AllCounted(Row(k).id)
<1>1. 1 \in DOMAIN tick[k].rows /\ Row(k) = tick[k].rows[1]
  BY TickIs DEF TickFacts
<1>2. QED BY <1>1 DEF AllCounted

\* k publishes, or believes it did not: at most one copy more of its row, and an
\* attempt to be counted.
LEMMA CountedAttempt ==
  ASSUME TypeOK, TypeOK', OneOwner, Counted, UNCHANGED <<status, retry>>,
         NEW k \in Ticks, tick[k].step = "publish",
         NEW s \in {"processed", "retry"}, tick' = [tick EXCEPT ![k].step = s],
         NEW e \in Events, e = Row(k).id, Copies(e)' <= Copies(e) + 1,
         \A d \in Events \ {e} : Copies(d)' <= Copies(d)
  PROVE  Counted'
<1>0. Working(k) /\ ~Attempted(k, 1)
  BY DEF Working, Attempted
<1>1. ASSUME NEW d \in Events
      PROVE  /\ Copies(d) \in Int /\ Copies(d)' \in Int
             /\ retry[d] \in Nat /\ retry'[d] = retry[d]
             /\ Copies(d) <= retry[d] + 1
             /\ AllCounted(d) => Copies(d) <= retry[d]
  BY CopiesInt, CopiesIntNext DEF Counted
<1>2. Copies(e) <= retry[e]
  BY <1>0, <1>1, BeforeAttempt
<1>3. Copies(e)' <= retry'[e] + 1
  BY <1>1, <1>2
<1>4. ASSUME NEW d \in Events PROVE Copies(d)' <= retry'[d] + 1
  BY <1>1, <1>3
<1>5. \A j \in Ticks : /\ tick'[j].rows = tick[j].rows
                       /\ tick'[j].step = IF j = k THEN s ELSE tick[j].step
  <2>1. s \in {"publish", "processed", "retry"}
    OBVIOUS
  <2>2. QED BY <1>0, <2>1, StepKept
<1>6. ~AllCounted(e)'
  <2>1. status'[e] = "PROCESSING"
    BY <1>0, HeadIs
  <2>2. ASSUME NEW j \in Ticks, NEW i \in DOMAIN tick'[j].rows, tick'[j].rows[i].id = e
        PROVE  Attempted(j, i)'
    <3>1. j = k /\ i = 1
      BY <1>0, <1>5, <2>2, HeldAlone
    <3>2. QED BY <1>5, <3>1 DEF Attempted
  <2>3. QED BY <2>1, <2>2 DEF AllCounted
<1>7. ASSUME NEW d \in Events, AllCounted(d)' PROVE AllCounted(d)
  <2>1. ASSUME NEW j \in Ticks, NEW i \in DOMAIN tick'[j].rows, ~Attempted(j, i)'
        PROVE  \E h \in DOMAIN tick[j].rows : ~Attempted(j, h) /\ tick'[j].rows[i] = tick[j].rows[h]
    BY <1>5, <2>1 DEF Attempted
  <2>2. QED BY <1>7, <2>1, CountedBefore
<1>8. ASSUME NEW d \in Events, AllCounted(d)' PROVE Copies(d)' <= retry'[d]
  <2>1. d # e
    BY <1>6, <1>8
  <2>2. QED BY <1>1, <1>7, <1>8, <2>1
<1>9. QED BY <1>4, <1>8 DEF Counted

\* The rows a tick holds afterwards it held before, and no attempt is
\* forgotten.
Remembered ==
  \A j \in Ticks : \A i \in DOMAIN tick'[j].rows :
    ~Attempted(j, i)' =>
      \/ status[tick'[j].rows[i].id] \in {"NONE", "PENDING"}
      \/ \E h \in DOMAIN tick[j].rows :
           ~Attempted(j, h) /\ tick'[j].rows[i] = tick[j].rows[h]

\* When the ticks do nothing.
LEMMA RememberedSame == UNCHANGED tick => Remembered
<1> SUFFICES ASSUME UNCHANGED tick PROVE Remembered
  OBVIOUS
<1>1. \A j, i : Attempted(j, i)' <=> Attempted(j, i)
  BY DEF Attempted
<1>2. QED BY <1>1 DEF Remembered

\* When a tick changes its step, and no published row becomes unpublished.
LEMMA RememberedStep ==
  ASSUME TypeOK, NEW k \in Ticks, Working(k), NEW s \in {"publish", "processed", "retry"},
         tick' = [tick EXCEPT ![k].step = s],
         tick[k].step \in {"processed", "retry"} => s \in {"processed", "retry"}
  PROVE  Remembered
<1>1. \A j \in Ticks : /\ tick'[j].rows = tick[j].rows
                       /\ tick'[j].step = IF j = k THEN s ELSE tick[j].step
  BY StepKept
<1>2. QED BY <1>1 DEF Remembered, Attempted

\* When a tick goes on to its next row.
LEMMA RememberedNextRow ==
  ASSUME TypeOK, OneOwner, NEW k \in Ticks, tick[k].step \in {"processed", "retry"}, NextRow(k)
  PROVE  Remembered
<1> SUFFICES ASSUME NEW j \in Ticks, NEW i \in DOMAIN tick'[j].rows, ~Attempted(j, i)'
             PROVE  \E h \in DOMAIN tick[j].rows :
                      ~Attempted(j, h) /\ tick'[j].rows[i] = tick[j].rows[h]
  BY DEF Remembered
<1>1. CASE j = k
  BY <1>1, HeadGone DEF Attempted
<1>2. CASE j # k
  BY <1>2, HeadGone DEF Attempted
<1>3. QED BY <1>1, <1>2

\* When ticks are given up.
LEMMA RememberedIdle ==
  ASSUME NEW K \in SUBSET Ticks, tick' = [k \in Ticks |-> IF k \in K THEN Idle ELSE tick[k]]
  PROVE  Remembered
<1>1. \A j \in Ticks : tick'[j] = IF j \in K THEN Idle ELSE tick[j]
  OBVIOUS
<1>2. DOMAIN Idle.rows = {}
  BY DEF Idle
<1>3. QED BY <1>1, <1>2 DEF Remembered, Attempted

\* Nothing is published, and no failure is counted.
LEMMA CountedSame ==
  ASSUME TypeOK, TypeOK', Counted, Remembered, UNCHANGED retry,
         NoNewCopies,
         \A e \in Events : status'[e] \in {"NONE", "PENDING"} => status[e] \in {"NONE", "PENDING"}
  PROVE  Counted'
<1>1. \A e \in Events : AllCounted(e)' => AllCounted(e)
  BY CountedBefore DEF Remembered
<1>2. QED BY <1>1, CountedKept

\* Every step leaves the copies bounded: a confirmed, a failed and a late
\* publication, the one whose confirm never comes, and the message written again.
LEMMA CountedNext ==
  TypeOK /\ TypeOK' /\ OneOwner /\ Counted /\ [Next]_vars => Counted'
<1> SUFFICES ASSUME TypeOK, TypeOK', OneOwner, Counted, [Next]_vars PROVE Counted'
  OBVIOUS
<1>0. ASSUME UNCHANGED <<late, arrived, draining>>, faults'.full = faults.full PROVE NoNewCopies
  BY <1>0, CopiesSame
<1>1. ASSUME NEW e \in Events, Settle(e) \/ Cleanup(e) PROVE Counted'
  <2>1. UNCHANGED <<late, arrived, draining, faults, retry, tick>>
    BY <1>1 DEF Settle, Cleanup, queue
  <2>2. \A d \in Events : status'[d] \in {"NONE", "PENDING"} => status[d] \in {"NONE", "PENDING"}
    BY <1>1 DEF Settle, Cleanup, TypeOK
  <2>3. QED BY <1>0, <2>1, <2>2, RememberedSame, CountedSame
<1>2. ASSUME NEW e \in Events, LateArrival(e) PROVE Counted'
  <2>1. UNCHANGED <<status, retry, tick>>
    BY <1>2 DEF LateArrival
  <2>2. ASSUME NEW d \in Events PROVE Copies(d)' <= Copies(d)
    <3>1. late[d] \in Nat /\ arrived[d] \in Nat
      BY DEF TypeOK
    <3>2. late'[d] + arrived'[d] <= late[d] + arrived[d]
      <4>1. CASE d # e
        <5>1. late'[d] = late[d] /\ arrived'[d] = arrived[d]
          BY <1>2, <4>1 DEF LateArrival, Route, TypeOK
        <5>2. QED BY <3>1, <5>1
      <4>2. CASE d = e
        <5>1. late'[e] = late[e] - 1 /\ arrived'[e] \in {arrived[e], arrived[e] + 1}
          BY <1>2, <4>2 DEF LateArrival, Route, TypeOK
        <5>2. QED BY <3>1, <4>2, <5>1
      <4>3. QED BY <4>1, <4>2
    <3>3. Waiting(d)' = Waiting(d) /\ faults'.full = faults.full
      BY <1>2 DEF LateArrival, Waiting
    <3>4. QED BY <3>2, <3>3, CopiesInt, CopiesIntNext
  <2>3. NoNewCopies
    BY <2>2 DEF NoNewCopies
  <2>4. QED BY <2>1, <2>3, RememberedSame, CountedSame
<1>3. ASSUME NEW k \in Ticks, Lock(k) PROVE Counted'
  <2>1. UNCHANGED <<late, arrived, draining, faults, retry, status>>
    BY <1>3 DEF Lock, queue
  <2>2. PICK rows \in Seq(Rows) :
           /\ tick' = [tick EXCEPT ![k] = [step |-> "locked", rows |-> rows]]
           /\ Len(rows) <= BatchLimit /\ rows # <<>>
           /\ \A i \in DOMAIN rows :
                /\ rows[i].id \in Events \ Locked
                /\ status[rows[i].id] = "PENDING"
                /\ rows[i].retryCount = retry[rows[i].id]
           /\ \A h, i \in DOMAIN rows : rows[h].id = rows[i].id => h = i
    BY <1>3, LockIs
  <2>3. tick'[k].rows = rows /\ \A j \in Ticks \ {k} : tick'[j] = tick[j]
    BY <2>2 DEF TypeOK
  <2>4. Remembered
    BY <2>2, <2>3 DEF Remembered, Attempted
  <2>5. QED BY <1>0, <2>1, <2>4, CountedSame
<1>4. ASSUME NEW k \in Ticks, Claim(k) \/ Refused(k) \/ MarkProcessedFails(k) PROVE Counted'
  <2>1. UNCHANGED <<late, arrived, draining, retry>> /\ faults'.full = faults.full
    BY <1>4 DEF Claim, Refused, MarkProcessedFails, queue, TypeOK
  <2>2. \A d \in Events : status'[d] \in {"NONE", "PENDING"} => status[d] \in {"NONE", "PENDING"}
    BY <1>4 DEF Claim, Refused, MarkProcessedFails
  <2>3. PICK s \in {"publish", "processed", "retry"} :
          /\ tick' = [tick EXCEPT ![k].step = s] /\ Working(k)
          /\ tick[k].step \in {"processed", "retry"} => s \in {"processed", "retry"}
    BY <1>4 DEF Claim, Refused, MarkProcessedFails, Working
  <2>4. QED BY <1>0, <2>1, <2>2, <2>3, RememberedStep, CountedSame
<1>5. ASSUME NEW k \in Ticks, Publish(k) \/ PublishFails(k) PROVE Counted'
  <2>1. /\ UNCHANGED <<status, retry>> /\ tick[k].step = "publish" /\ Working(k) /\ Sends(k)
        /\ \E s \in {"processed", "retry"} : tick' = [tick EXCEPT ![k].step = s]
    BY <1>5 DEF Publish, PublishFails, Working
  <2>2. PICK p \in Procs, e \in Events :
          e = Row(k).id /\ draining[p][e] \in Nat /\ Written(p, e, draining[p][e])
    BY <2>1, SendsIs
  <2>3. /\ Waiting(e)' - faults'.full = Waiting(e) - draining[p][e] + draining[p][e] - faults.full
        /\ \A d \in Events \ {e} : Waiting(d)' = Waiting(d) /\ faults'.full >= faults.full
    BY <2>2, WrittenCopies
  <2>4. /\ \A d \in Events \ {e} : late'[d] = late[d] /\ arrived'[d] = arrived[d]
        /\ \/ late'[e] = late[e] /\ arrived'[e] \in {arrived[e], arrived[e] + 1}
           \/ late'[e] \in {late[e], late[e] + 1} /\ arrived'[e] = arrived[e]
    <3>1. CASE Publish(k)
      <4>1. UNCHANGED late /\ (UNCHANGED arrived \/ arrived' = [arrived EXCEPT ![e] = @ + 1])
        BY <2>2, <3>1 DEF Publish, Route
      <4>2. QED BY <4>1 DEF TypeOK
    <3>2. CASE PublishFails(k)
      BY <2>2, <3>2 DEF PublishFails, TypeOK
    <3>3. QED BY <1>5, <3>1, <3>2
  <2>5. ASSUME NEW d \in Events \ {e} PROVE Copies(d)' <= Copies(d)
    <3>1. late'[d] = late[d] /\ arrived'[d] = arrived[d] /\ Waiting(d)' = Waiting(d) /\ faults'.full >= faults.full
      BY <2>3, <2>4
    <3>2. QED BY <3>1, CopiesInt, CopiesIntNext
  <2>6. Copies(e)' <= Copies(e) + 1
    <3>1. late'[e] + arrived'[e] <= late[e] + arrived[e] + 1
      BY <2>4, CopiesInt
    <3>2. Waiting(e)' - faults'.full = Waiting(e) - faults.full
      BY <2>2, <2>3, CopiesInt
    <3>3. QED BY <3>1, <3>2, CopiesInt, CopiesIntNext
  <2>7. QED BY <2>1, <2>2, <2>5, <2>6, CountedAttempt
<1>6. ASSUME NEW p \in Procs, NEW e \in Events, Drain(p, e) PROVE Counted'
  <2>1. /\ UNCHANGED <<status, retry, tick, arrived>> /\ late' = [late EXCEPT ![e] = @ + 1]
        /\ draining[p][e] \in Nat /\ draining[p][e] - 1 \in Nat /\ Written(p, e, draining[p][e] - 1)
    BY <1>6 DEF Drain, TypeOK
  <2>2. /\ Waiting(e)' - faults'.full = Waiting(e) - draining[p][e] + (draining[p][e] - 1) - faults.full
        /\ \A d \in Events \ {e} : Waiting(d)' = Waiting(d) /\ faults'.full >= faults.full
    BY <2>1, WrittenCopies
  <2>3. late'[e] = late[e] + 1 /\ \A d \in Events \ {e} : late'[d] = late[d]
    BY <2>1 DEF TypeOK
  <2>4. ASSUME NEW d \in Events PROVE Copies(d)' <= Copies(d)
    <3>1. CASE d = e
      <4>1. Waiting(e)' - faults'.full = Waiting(e) - 1 - faults.full
        <5>1. Waiting(e) \in Nat /\ faults.full \in Nat /\ draining[p][e] \in Nat
          BY <2>1, CopiesInt
        <5>2. QED BY <2>2, <5>1
      <4>2. QED BY <2>1, <2>3, <3>1, <4>1, CopiesInt, CopiesIntNext
    <3>2. CASE d # e
      <4>1. late'[d] = late[d] /\ Waiting(d)' = Waiting(d) /\ faults'.full >= faults.full
        BY <2>2, <2>3, <3>2
      <4>2. QED BY <2>1, <4>1, CopiesInt, CopiesIntNext
    <3>3. QED BY <3>1, <3>2
  <2>5. NoNewCopies
    BY <2>4 DEF NoNewCopies
  <2>6. QED BY <2>1, <2>5, RememberedSame, CountedSame
<1>7. ASSUME NEW k \in Ticks, MarkProcessed(k) PROVE Counted'
  <2>1. /\ UNCHANGED <<late, arrived, draining, faults, retry>>
        /\ tick[k].step \in {"processed", "retry"} /\ NextRow(k)
    BY <1>7 DEF MarkProcessed, queue
  <2>2. \A d \in Events : status'[d] \in {"NONE", "PENDING"} => status[d] \in {"NONE", "PENDING"}
    BY <1>7 DEF MarkProcessed, TypeOK
  <2>3. QED BY <1>0, <2>1, <2>2, RememberedNextRow, CountedSame
<1>8. ASSUME NEW k \in Ticks, MarkForRetry(k) PROVE Counted'
  <2>1. /\ UNCHANGED <<late, arrived, draining, faults>>
        /\ tick[k].step \in {"processed", "retry"} /\ NextRow(k) /\ Working(k)
    BY <1>8 DEF MarkForRetry, queue, Working
  <2>2. PICK e \in Events : e = Row(k).id /\ Row(k).retryCount = retry[e]
    BY <2>1, HeadIs
  <2>3. retry'[e] = retry[e] + 1
    BY <1>8, <2>2 DEF MarkForRetry, TypeOK
  <2>4. \A d \in Events \ {e} : retry'[d] = retry[d] /\ status'[d] = status[d]
    BY <1>8, <2>2 DEF MarkForRetry, TypeOK
  <2>5. Remembered
    BY <2>1, RememberedNextRow
  <2>6. ASSUME NEW d \in Events
        PROVE  /\ Copies(d)' = Copies(d) /\ Copies(d) \in Int /\ retry[d] \in Nat
               /\ Copies(d) <= retry[d] + 1 /\ (AllCounted(d) => Copies(d) <= retry[d])
    <3>1. Waiting(d)' = Waiting(d)
      BY <2>1 DEF Waiting
    <3>2. Copies(d)' = Copies(d)
      BY <2>1, <3>1 DEF Copies
    <3>3. QED BY <3>2, CopiesInt DEF Counted
  <2>7. ASSUME NEW d \in Events
        PROVE  /\ Copies(d)' <= retry'[d] + 1
               /\ AllCounted(d)' => Copies(d)' <= retry'[d]
    <3>1. CASE d = e
      BY <2>3, <2>6, <3>1
    <3>2. CASE d # e
      <4>1. AllCounted(d)' => AllCounted(d)
        BY <2>4, <2>5, <3>2, CountedBefore DEF Remembered
      <4>2. retry'[d] = retry[d]
        BY <2>4, <3>2
      <4>3. QED BY <2>6, <4>1, <4>2
    <3>3. QED BY <3>1, <3>2
  <2>8. QED BY <2>7 DEF Counted
<1>9. ASSUME NEW k \in Ticks, MarkForRetryFails(k) PROVE Counted'
  <2>1. /\ tick' = [j \in Ticks |-> IF j \in {k} THEN Idle ELSE tick[j]]
        /\ UNCHANGED <<status, retry, late, arrived, draining>> /\ faults'.full = faults.full
    BY <1>9 DEF MarkForRetryFails, TypeOK, queue
  <2>2. QED BY <1>0, <2>1, RememberedIdle, CountedSame
<1>10. ASSUME NEW p \in Procs, Crash(p) PROVE Counted'
  <2> DEFINE K == {k \in Ticks : ProcOf[k] = p}
  <2>1. /\ tick' = [j \in Ticks |-> IF j \in K THEN Idle ELSE tick[j]] /\ K \in SUBSET Ticks
        /\ UNCHANGED <<status, retry, late, arrived>>
    BY <1>10 DEF Crash
  <2> HIDE DEF K
  <2>2. NoNewCopies
    BY <1>10, CopiesDropped DEF Crash, TypeOK
  <2>3. QED BY <2>1, <2>2, RememberedIdle, CountedSame
<1>11. ASSUME UNCHANGED <<status, retry, late, arrived, draining, tick>>, faults'.full = faults.full
       PROVE  Counted'
  BY <1>0, <1>11, RememberedSame, CountedSame
<1>12. ASSUME NEW p \in Procs, HalfOpen(p) PROVE Counted'
  BY <1>11, <1>12 DEF HalfOpen, queue
<1>13. ASSUME NEW p \in Procs, ConnectionLost(p) PROVE Counted'
  <2>1. UNCHANGED <<status, retry, tick>>
    BY <1>13 DEF ConnectionLost
  <2>2. NoNewCopies
    BY <1>13, CopiesDropped DEF ConnectionLost, TypeOK
  <2>3. QED BY <2>1, <2>2, RememberedSame, CountedSame
<1>14. ASSUME NEW p \in Procs, NEW e \in Events, Consume(p, e) \/ Ack(p, e) PROVE Counted'
  BY <1>11, <1>14 DEF Consume, Ack
<1>15. ASSUME Bind \/ UNCHANGED vars PROVE Counted'
  BY <1>11, <1>15 DEF Bind, vars, queue
<1>16. QED
  BY <1>1, <1>2, <1>3, <1>4, <1>5, <1>6, <1>7, <1>8, <1>9, <1>10, <1>12, <1>13, <1>14, <1>15
     DEF Next, Loop

\* Every step keeps the events that were not settled without a copy.
LEMMA UnsentNext == TypeOK /\ OneOwner /\ Unsent /\ [Next]_vars => Unsent'
<1> SUFFICES ASSUME TypeOK, OneOwner, Unsent, [Next]_vars, NEW d \in Events, status'[d] = "NONE"
             PROVE  late'[d] = 0 /\ \A q \in Procs : draining'[q][d] = 0
  BY DEF Unsent
<1>0. ASSUME status[d] = "NONE", UNCHANGED <<late, draining>>
      PROVE  late'[d] = 0 /\ \A q \in Procs : draining'[q][d] = 0
  BY <1>0 DEF Unsent
<1>1. ASSUME NEW e \in Events, Settle(e) \/ Cleanup(e)
      PROVE  status[d] = "NONE" /\ UNCHANGED <<late, draining>>
  BY <1>1 DEF Settle, Cleanup, queue, TypeOK
<1>2. ASSUME NEW k \in Ticks,
             \/ Lock(k) \/ Claim(k) \/ Refused(k) \/ MarkProcessed(k)
             \/ MarkForRetry(k) \/ MarkProcessedFails(k) \/ MarkForRetryFails(k)
      PROVE  status[d] = "NONE" /\ UNCHANGED <<late, draining>>
  BY <1>2 DEF Lock, Claim, Refused, MarkProcessed, MarkForRetry, MarkProcessedFails,
              MarkForRetryFails, queue, TypeOK
<1>3. ASSUME NEW p \in Procs, NEW e \in Events, NEW n, Written(p, e, n), d # e, status[d] = "NONE"
      PROVE  \A q \in Procs : draining'[q][d] = 0
  <2>1. \E m : draining' = [draining EXCEPT ![p][e] = m]
    BY <1>3 DEF Written
  <2>2. \A q \in Procs : draining'[q][d] = draining[q][d]
    BY <1>3, <2>1 DEF TypeOK
  <2>3. QED BY <1>3, <2>2 DEF Unsent
<1>4. ASSUME NEW k \in Ticks, Publish(k) \/ PublishFails(k)
      PROVE  late'[d] = 0 /\ \A q \in Procs : draining'[q][d] = 0
  <2>1. UNCHANGED status /\ Working(k) /\ Sends(k) /\ tick[k].step = "publish"
    BY <1>4 DEF Publish, PublishFails, Working
  <2>2. PICK p \in Procs, e \in Events : e = Row(k).id /\ Written(p, e, draining[p][e])
    BY <2>1, SendsIs
  <2>3. status[e] = "PROCESSING" /\ status[d] = "NONE"
    BY <2>1, <2>2, HeadIs
  <2>4. late'[d] = late[d]
    BY <1>4, <2>2, <2>3 DEF Publish, PublishFails, TypeOK
  <2>5. QED BY <1>3, <2>2, <2>3, <2>4 DEF Unsent
<1>5. ASSUME NEW p \in Procs, NEW e \in Events, Drain(p, e)
      PROVE  late'[d] = 0 /\ \A q \in Procs : draining'[q][d] = 0
  <2>1. status[d] = "NONE" /\ draining[p][e] # 0 /\ Written(p, e, draining[p][e] - 1)
    BY <1>5 DEF Drain, TypeOK
  <2>2. d # e
    BY <2>1 DEF Unsent
  <2>3. late'[d] = late[d]
    BY <1>5, <2>2 DEF Drain, TypeOK
  <2>4. QED BY <1>3, <2>1, <2>2, <2>3 DEF Unsent
<1>6. ASSUME NEW e \in Events, LateArrival(e)
      PROVE  late'[d] = 0 /\ \A q \in Procs : draining'[q][d] = 0
  <2>1. status[d] = "NONE" /\ UNCHANGED draining /\ late[e] # 0
    BY <1>6 DEF LateArrival, TypeOK
  <2>2. late'[d] = late[d]
    BY <1>6, <2>1 DEF LateArrival, TypeOK, Unsent
  <2>3. QED BY <2>1, <2>2 DEF Unsent
<1>7. ASSUME NEW p \in Procs, ConnectionLost(p) \/ Crash(p)
      PROVE  late'[d] = 0 /\ \A q \in Procs : draining'[q][d] = 0
  <2>1. UNCHANGED <<status, late>> /\ Requeue(p)
    BY <1>7 DEF ConnectionLost, Crash
  <2>2. \A q \in Procs : draining'[q][d] \in {0, draining[q][d]}
    BY <2>1 DEF Requeue, TypeOK
  <2>3. QED BY <2>1, <2>2 DEF Unsent
<1>8. ASSUME NEW p \in Procs, HalfOpen(p) PROVE status[d] = "NONE" /\ UNCHANGED <<late, draining>>
  BY <1>8 DEF HalfOpen, queue
<1>9. ASSUME NEW p \in Procs, NEW e \in Events, Consume(p, e) \/ Ack(p, e)
      PROVE  status[d] = "NONE" /\ UNCHANGED <<late, draining>>
  BY <1>9 DEF Consume, Ack
<1>10. ASSUME Bind \/ UNCHANGED vars PROVE status[d] = "NONE" /\ UNCHANGED <<late, draining>>
  BY <1>10 DEF Bind, vars, queue
<1>11. QED
  BY <1>0, <1>1, <1>2, <1>4, <1>5, <1>6, <1>7, <1>8, <1>9, <1>10 DEF Next, Loop

-----------------------------------------------------------------------------
(* Arrivals, and rows nobody works on.                                     *)

\* No copy that arrived goes away, and a queue that is bound stays.
LEMMA ArrivedGrows ==
  TypeOK /\ [Next]_vars =>
    /\ bound => bound'
    /\ \A e \in Events : arrived'[e] \in Nat /\ arrived'[e] >= arrived[e]
<1> SUFFICES ASSUME TypeOK, [Next]_vars
             PROVE  /\ bound => bound'
                    /\ \A e \in Events : arrived'[e] \in Nat /\ arrived'[e] >= arrived[e]
  OBVIOUS
<1>1. ASSUME NEW e \in Events, Route(e)
      PROVE  \A d \in Events : arrived'[d] \in Nat /\ arrived'[d] >= arrived[d]
  <2>1. \A d \in Events : arrived[d] \in Nat
    BY DEF TypeOK
  <2>2. \A d \in Events : arrived'[d] \in {arrived[d], arrived[d] + 1}
    BY <1>1 DEF Route, TypeOK
  <2>3. QED BY <2>1, <2>2
<1>2. ASSUME UNCHANGED arrived
      PROVE  \A d \in Events : arrived'[d] \in Nat /\ arrived'[d] >= arrived[d]
  BY <1>2 DEF TypeOK
<1>3. (\E e \in Events : Route(e)) \/ UNCHANGED arrived
  <2>1. ASSUME NEW e \in Events, LateArrival(e) PROVE \E d \in Events : Route(d)
    BY <2>1 DEF LateArrival
  <2>2. ASSUME NEW k \in Ticks, Publish(k) PROVE \E d \in Events : Route(d)
    BY <2>2, RowHead DEF Publish, Working
  <2>3. ASSUME NEW e \in Events, Settle(e) \/ Cleanup(e) PROVE UNCHANGED arrived
    BY <2>3 DEF Settle, Cleanup, queue
  <2>4. ASSUME NEW k \in Ticks,
               \/ Lock(k) \/ Claim(k) \/ PublishFails(k) \/ Refused(k) \/ MarkProcessed(k)
               \/ MarkForRetry(k) \/ MarkProcessedFails(k) \/ MarkForRetryFails(k)
        PROVE  UNCHANGED arrived
    BY <2>4 DEF Lock, Claim, PublishFails, Refused, MarkProcessed, MarkForRetry,
                MarkProcessedFails, MarkForRetryFails, queue
  <2>5. ASSUME NEW p \in Procs, HalfOpen(p) \/ ConnectionLost(p) \/ Crash(p) PROVE UNCHANGED arrived
    BY <2>5 DEF HalfOpen, ConnectionLost, Crash, queue
  <2>6. ASSUME NEW p \in Procs, NEW e \in Events, Drain(p, e) \/ Consume(p, e) \/ Ack(p, e) PROVE UNCHANGED arrived
    BY <2>6 DEF Drain, Consume, Ack
  <2>7. ASSUME Bind \/ UNCHANGED vars PROVE UNCHANGED arrived
    BY <2>7 DEF Bind, vars, queue
  <2>8. QED BY <2>1, <2>2, <2>3, <2>4, <2>5, <2>6, <2>7 DEF Next, Loop
<1>4. bound => bound'
  BY DEF Next, Loop, vars, queue, Settle, Cleanup, LateArrival, Lock, Claim, Publish, PublishFails,
         Refused, MarkProcessed, MarkForRetry, MarkProcessedFails, MarkForRetryFails, HalfOpen,
         ConnectionLost, Crash, Drain, Consume, Ack, Bind
<1>5. QED BY <1>1, <1>2, <1>3, <1>4

\* A tick that has published did so in this step, or had done before.
LEMMA PublishedBefore ==
  TypeOK /\ OneOwner /\ [Next]_vars =>
    \A j \in Ticks : tick'[j].step = "processed" => tick'[j] = tick[j] \/ Publish(j)
<1> SUFFICES ASSUME TypeOK, OneOwner, [Next]_vars, NEW j \in Ticks, tick'[j].step = "processed"
             PROVE  tick'[j] = tick[j] \/ Publish(j)
  OBVIOUS
<1>1. ASSUME UNCHANGED tick PROVE tick'[j] = tick[j]
  BY <1>1
<1>2. ASSUME NEW k \in Ticks, Lock(k) PROVE tick'[j] = tick[j]
  <2>1. PICK rows \in Seq(Rows) : tick' = [tick EXCEPT ![k] = [step |-> "locked", rows |-> rows]]
    BY <1>2, LockIs
  <2>2. tick'[j] = IF j = k THEN [step |-> "locked", rows |-> rows] ELSE tick[j]
    BY <2>1 DEF TypeOK
  <2>3. QED BY <2>2
<1>3. ASSUME NEW k \in Ticks, Claim(k) \/ PublishFails(k) \/ Refused(k) \/ MarkProcessedFails(k)
      PROVE  tick'[j] = tick[j]
  <2>1. PICK s \in {"publish", "retry"} : tick' = [tick EXCEPT ![k].step = s] /\ Working(k)
    BY <1>3 DEF Claim, PublishFails, Refused, MarkProcessedFails, Working
  <2>2. s \in {"publish", "processed", "retry"}
    OBVIOUS
  <2>3. tick'[j].step = IF j = k THEN s ELSE tick[j].step
    BY <2>1, <2>2, StepKept
  <2>4. QED BY <2>1, <2>3 DEF TypeOK
<1>4. ASSUME NEW k \in Ticks, Publish(k) PROVE tick'[j] = tick[j] \/ Publish(j)
  BY <1>4 DEF Publish, TypeOK
<1>5. ASSUME NEW k \in Ticks, MarkProcessed(k) \/ MarkForRetry(k) PROVE tick'[j] = tick[j]
  <2>1. Working(k) /\ NextRow(k)
    BY <1>5 DEF MarkProcessed, MarkForRetry, Working
  <2>2. tick'[j] = IF j = k THEN [step |-> IF RowsLeft(k) = <<>> THEN "idle" ELSE "publish", rows |-> RowsLeft(k)]
                   ELSE tick[j]
    BY <2>1, NextRowIs DEF TypeOK
  <2>3. QED BY <2>2
<1>6. ASSUME NEW k \in Ticks, MarkForRetryFails(k) PROVE tick'[j] = tick[j]
  BY <1>6 DEF MarkForRetryFails, Idle, TypeOK
<1>7. ASSUME NEW p \in Procs, Crash(p) PROVE tick'[j] = tick[j]
  <2>1. tick'[j] = IF ProcOf[j] = p THEN Idle ELSE tick[j]
    BY <1>7 DEF Crash
  <2>2. QED BY <2>1 DEF Idle
<1>8. ASSUME NEW e \in Events, Settle(e) \/ LateArrival(e) \/ Cleanup(e) PROVE tick'[j] = tick[j]
  BY <1>8 DEF Settle, LateArrival, Cleanup
<1>9. ASSUME NEW p \in Procs, HalfOpen(p) \/ ConnectionLost(p) PROVE tick'[j] = tick[j]
  BY <1>9 DEF HalfOpen, ConnectionLost
<1>10. ASSUME NEW p \in Procs, NEW e \in Events, Drain(p, e) \/ Consume(p, e) \/ Ack(p, e) PROVE tick'[j] = tick[j]
  BY <1>10 DEF Drain, Consume, Ack
<1>11. ASSUME Bind \/ UNCHANGED vars PROVE tick'[j] = tick[j]
  BY <1>11 DEF Bind, vars
<1>12. QED
  BY <1>2, <1>3, <1>4, <1>5, <1>6, <1>7, <1>8, <1>9, <1>10, <1>11 DEF Next, Loop

\* With the queue in place only what arrived is about to be marked.
LEMMA ArrivedNext == TypeOK /\ OneOwner /\ ArrivedBeforeSent /\ [Next]_vars => ArrivedBeforeSent'
<1> SUFFICES ASSUME TypeOK, OneOwner, ArrivedBeforeSent, [Next]_vars, QueueExists
             PROVE  bound' /\ \A j \in Ticks : tick'[j].step = "processed" => arrived'[Row(j)'.id] > 0
  BY DEF ArrivedBeforeSent
<1>1. bound /\ bound'
  BY ArrivedGrows DEF ArrivedBeforeSent
<1>2. ASSUME NEW j \in Ticks, tick'[j].step = "processed", tick'[j] = tick[j]
      PROVE  arrived'[Row(j)'.id] > 0
  <2>1. Row(j)' = Row(j) /\ tick[j].step = "processed"
    BY <1>2 DEF Row
  <2>2. PICK e \in Events : e = Row(j).id
    BY <2>1, RowHead DEF Working
  <2>3. arrived[e] > 0 /\ arrived[e] \in Nat
    BY <2>1, <2>2 DEF ArrivedBeforeSent, TypeOK
  <2>4. arrived'[e] \in Nat /\ arrived'[e] >= arrived[e]
    BY ArrivedGrows
  <2>5. QED BY <2>1, <2>2, <2>3, <2>4
<1>3. ASSUME NEW j \in Ticks, Publish(j) PROVE arrived'[Row(j)'.id] > 0
  <2>1. Working(j) /\ tick' = [tick EXCEPT ![j].step = "processed"]
    BY <1>3 DEF Publish, Working
  <2>2. Row(j)' = Row(j)
    BY <2>1, StepKept DEF Row
  <2>3. PICK e \in Events : e = Row(j).id
    BY <2>1, RowHead
  <2>4. Route(e)
    BY <1>3, <2>3 DEF Publish
  <2>5. arrived[e] \in Nat /\ arrived'[e] = arrived[e] + 1
    BY <1>1, <2>4 DEF Route, TypeOK
  <2>6. QED BY <2>2, <2>3, <2>5
<1>4. QED BY <1>1, <1>2, <1>3, PublishedBefore

-----------------------------------------------------------------------------
\* No crash, no connection lost, no update failed.
NoFaults == faults.db + faults.crash = 0

\* As long as there is none, no step is one.
LEMMA FaultsGrow ==
  TypeOK /\ [Next]_vars /\ NoFaults' =>
    /\ NoFaults
    /\ \A k \in Ticks : ~MarkProcessedFails(k) /\ ~MarkForRetryFails(k)
    /\ \A p \in Procs : ~ConnectionLost(p) /\ ~Crash(p)
<1> SUFFICES ASSUME TypeOK, [Next]_vars, NoFaults'
             PROVE  /\ NoFaults
                    /\ \A k \in Ticks : ~MarkProcessedFails(k) /\ ~MarkForRetryFails(k)
                    /\ \A p \in Procs : ~ConnectionLost(p) /\ ~Crash(p)
  OBVIOUS
<1>1. faults.db \in Nat /\ faults.crash \in Nat
  BY BoundsAssumption DEF TypeOK
<1>2. ASSUME faults' = [faults EXCEPT !.db = @ + 1] \/ faults' = [faults EXCEPT !.crash = @ + 1]
      PROVE  FALSE
  <2>1. \/ faults'.db = faults.db + 1 /\ faults'.crash = faults.crash
        \/ faults'.crash = faults.crash + 1 /\ faults'.db = faults.db
    BY <1>2 DEF TypeOK
  <2>2. QED BY <1>1, <2>1 DEF NoFaults
<1>3. ASSUME NEW k \in Ticks PROVE ~MarkProcessedFails(k) /\ ~MarkForRetryFails(k)
  BY <1>2 DEF MarkProcessedFails, MarkForRetryFails
<1>4. ASSUME NEW p \in Procs PROVE ~ConnectionLost(p) /\ ~Crash(p)
  BY <1>2 DEF ConnectionLost, Crash
<1>5. faults'.db = faults.db /\ faults'.crash = faults.crash
  <2>1. ASSUME NEW p, NEW e, NEW n, Written(p, e, n)
        PROVE  faults'.db = faults.db /\ faults'.crash = faults.crash
    BY <2>1 DEF Written, TypeOK
  <2>2. ASSUME NEW k \in Ticks, Publish(k) \/ PublishFails(k)
        PROVE  faults'.db = faults.db /\ faults'.crash = faults.crash
    BY <2>1, <2>2 DEF Publish, PublishFails, Sends
  <2>3. ASSUME NEW p \in Procs, NEW e \in Events, Drain(p, e)
        PROVE  faults'.db = faults.db /\ faults'.crash = faults.crash
    BY <2>1, <2>3 DEF Drain
  <2>4. QED
    BY <1>3, <1>4, <2>2, <2>3 DEF Next, Loop, vars, queue, Settle, Cleanup, LateArrival, Lock, Claim,
         Refused, MarkProcessed, MarkForRetry, HalfOpen, Consume, Ack, Bind
<1>6. QED BY <1>3, <1>4, <1>5 DEF NoFaults

\* A tick's ids, as long as neither its row nor its process is done with.
LEMMA IdsKept ==
  ASSUME NEW j \in Ticks, tick'[j].rows = tick[j].rows
  PROVE  IdsOf(j)' = IdsOf(j)
BY DEF IdsOf

\* Every claimed row is in the batch of a tick.
AllAtWork ==
  \A e \in Events : status[e] = "PROCESSING" => \E j \in Ticks : e \in IdsOf(j)

\* StuckOnlyByFault in those words.
LEMMA NotStuck ==
  TypeOK => (StuckOnlyByFault <=> (NoFaults => AllAtWork))
<1> SUFFICES ASSUME TypeOK
             PROVE  StuckOnlyByFault <=> (NoFaults => AllAtWork)
  OBVIOUS
<1>1. faults.db + faults.crash \in Nat
  BY BoundsAssumption DEF TypeOK
<1>2. NoFaults <=> ~(faults.db + faults.crash > 0)
  BY <1>1 DEF NoFaults
<1>3. Stuck = {} <=> AllAtWork
  BY DEF Stuck, AllAtWork
<1>4. QED BY <1>2, <1>3 DEF StuckOnlyByFault

\* A row at work stays in its tick until it is put back or sent.
LEMMA KeptAtWork ==
  ASSUME TypeOK, OneOwner, [Next]_vars, NoFaults', NEW e \in Events,
         status[e] = "PROCESSING", status'[e] = "PROCESSING",
         NEW j \in Ticks, e \in IdsOf(j)
  PROVE  e \in IdsOf(j)'
<1>0. Working(j)
  <2>1. DOMAIN tick[j].rows # {}
    BY DEF IdsOf
  <2>2. ASSUME ~Working(j) PROVE DOMAIN tick[j].rows = {}
    <3>1. TickFacts(j)
      BY TickIs
    <3>2. tick[j].rows = <<>>
      BY <2>2, <3>1 DEF TickFacts
    <3>3. QED BY <3>2
  <2>3. QED BY <2>1, <2>2
<1>1. ASSUME tick'[j].rows = tick[j].rows PROVE e \in IdsOf(j)'
  BY <1>1, IdsKept
<1>2. ASSUME NEW k \in Ticks, Lock(k) PROVE e \in IdsOf(j)'
  <2>1. j # k
    BY <1>0, <1>2 DEF Lock, Working
  <2>2. PICK rows : tick' = [tick EXCEPT ![k] = rows]
    BY <1>2 DEF Lock
  <2>3. tick'[j] = tick[j]
    BY <2>1, <2>2 DEF TypeOK
  <2>4. QED BY <1>1, <2>3
<1>3. ASSUME NEW k \in Ticks, Claim(k) \/ Publish(k) \/ PublishFails(k) \/ Refused(k)
      PROVE  e \in IdsOf(j)'
  <2>1. PICK s \in {"publish", "processed", "retry"} : tick' = [tick EXCEPT ![k].step = s] /\ Working(k)
    BY <1>3 DEF Claim, Publish, PublishFails, Refused, Working
  <2>2. QED BY <1>1, <2>1, StepKept
<1>4. ASSUME NEW k \in Ticks, MarkProcessed(k) \/ MarkForRetry(k) PROVE e \in IdsOf(j)'
  <2>1. Working(k) /\ NextRow(k)
    BY <1>4 DEF MarkProcessed, MarkForRetry, Working
  <2>2. status'[Row(k).id] # "PROCESSING"
    BY <1>4, <2>1, RowHead DEF MarkProcessed, MarkForRetry, TypeOK
  <2>3. e # Row(k).id
    BY <2>2
  <2>4. CASE j # k
    <3>1. tick'[j] = tick[j]
      BY <2>1, <2>4, NextRowIs DEF TypeOK
    <3>2. QED BY <1>1, <3>1
  <2>5. CASE j = k
    <3>1. PICK i \in DOMAIN tick[k].rows : tick[k].rows[i].id = e
      BY <2>5 DEF IdsOf
    <3>2. TickFacts(k)
      BY TickIs
    <3>3. i \in 1..Len(tick[k].rows) /\ i # 1 /\ Len(tick[k].rows) \in Nat
      BY <2>1, <2>3, <3>1, <3>2 DEF TickFacts
    <3>4. DOMAIN RowsLeft(k) = 1..(Len(tick[k].rows) - 1)
      BY <2>1, NextRowIs
    <3>5. i - 1 \in DOMAIN RowsLeft(k) /\ (i - 1) + 1 = i
      BY <3>3, <3>4
    <3>6. RowsLeft(k)[i - 1] = tick[k].rows[(i - 1) + 1]
      BY <2>1, <3>5, NextRowIs
    <3>7. tick'[k].rows = RowsLeft(k)
      <4>1. tick'[k] = [step |-> IF RowsLeft(k) = <<>> THEN "idle" ELSE "publish", rows |-> RowsLeft(k)]
        BY <2>1, NextRowIs DEF TypeOK
      <4>2. QED BY <4>1
    <3>8. tick'[k].rows[i - 1].id = e
      BY <3>1, <3>5, <3>6, <3>7
    <3>9. QED BY <2>5, <3>5, <3>7, <3>8 DEF IdsOf
  <2>6. QED BY <2>4, <2>5
<1>5. ASSUME NEW d \in Events, Settle(d) \/ LateArrival(d) \/ Cleanup(d) PROVE e \in IdsOf(j)'
  BY <1>1, <1>5 DEF Settle, LateArrival, Cleanup
<1>6. ASSUME NEW p \in Procs, HalfOpen(p) PROVE e \in IdsOf(j)'
  BY <1>1, <1>6 DEF HalfOpen
<1>7. ASSUME NEW p \in Procs, NEW d \in Events, Drain(p, d) \/ Consume(p, d) \/ Ack(p, d) PROVE e \in IdsOf(j)'
  BY <1>1, <1>7 DEF Drain, Consume, Ack
<1>8. ASSUME Bind \/ UNCHANGED vars PROVE e \in IdsOf(j)'
  BY <1>1, <1>8 DEF Bind, vars
<1>9. QED
  BY <1>2, <1>3, <1>4, <1>5, <1>6, <1>7, <1>8, FaultsGrow DEF Next, Loop

\* Only a claim begins to work on a row.
LEMMA ClaimedByTick ==
  ASSUME TypeOK, [Next]_vars, NEW e \in Events, status[e] # "PROCESSING", status'[e] = "PROCESSING"
  PROVE  \E j \in Ticks : e \in IdsOf(j)'
<1>1. ASSUME NEW k \in Ticks, Claim(k) PROVE \E j \in Ticks : e \in IdsOf(j)'
  <2>1. e \in IdsOf(k)
    BY <1>1 DEF Claim
  <2>2. tick'[k].rows = tick[k].rows
    BY <1>1, StepKept DEF Claim, Working
  <2>3. QED BY <2>1, <2>2, IdsKept
<1>2. ASSUME UNCHANGED status PROVE FALSE
  BY <1>2
<1>3. ASSUME NEW d, NEW s, status' = [status EXCEPT ![d] = s], s # "PROCESSING" PROVE FALSE
  BY <1>3 DEF TypeOK
<1>4. ASSUME NEW d \in Events, Settle(d) \/ LateArrival(d) \/ Cleanup(d) PROVE FALSE
  BY <1>2, <1>3, <1>4 DEF Settle, LateArrival, Cleanup
<1>5. ASSUME NEW k \in Ticks, MarkProcessed(k) \/ MarkForRetry(k) PROVE FALSE
  BY <1>3, <1>5 DEF MarkProcessed, MarkForRetry
<1>6. ASSUME NEW k \in Ticks, \/ Lock(k) \/ Publish(k) \/ PublishFails(k) \/ Refused(k)
                              \/ MarkProcessedFails(k) \/ MarkForRetryFails(k)
      PROVE  FALSE
  BY <1>2, <1>6 DEF Lock, Publish, PublishFails, Refused, MarkProcessedFails, MarkForRetryFails
<1>7. ASSUME NEW p \in Procs, HalfOpen(p) \/ ConnectionLost(p) \/ Crash(p) PROVE FALSE
  BY <1>2, <1>7 DEF HalfOpen, ConnectionLost, Crash
<1>8. ASSUME NEW p \in Procs, NEW d \in Events, Drain(p, d) \/ Consume(p, d) \/ Ack(p, d) PROVE FALSE
  BY <1>2, <1>8 DEF Drain, Consume, Ack
<1>9. ASSUME Bind \/ UNCHANGED vars PROVE FALSE
  BY <1>2, <1>9 DEF Bind, vars
<1>10. QED
  BY <1>1, <1>4, <1>5, <1>6, <1>7, <1>8, <1>9 DEF Next, Loop

\* Without a fault every claimed row stays in a tick until it is marked.
LEMMA StuckNext ==
  TypeOK /\ TypeOK' /\ OneOwner /\ StuckOnlyByFault /\ [Next]_vars => StuckOnlyByFault'
<1> SUFFICES ASSUME TypeOK, TypeOK', OneOwner, StuckOnlyByFault, [Next]_vars
             PROVE  StuckOnlyByFault'
  OBVIOUS
<1>1. TypeOK' => (StuckOnlyByFault' <=> (NoFaults' => AllAtWork'))
  BY ONLY NotStuck, PTL
<1> SUFFICES ASSUME NoFaults', NEW e \in Events, status'[e] = "PROCESSING"
             PROVE  \E j \in Ticks : e \in IdsOf(j)'
  BY <1>1 DEF AllAtWork
<1>2. CASE status[e] = "PROCESSING"
  <2>1. PICK j \in Ticks : e \in IdsOf(j)
    BY <1>2, NotStuck, FaultsGrow DEF AllAtWork
  <2>2. QED BY <1>2, <2>1, KeptAtWork
<1>3. CASE status[e] # "PROCESSING"
  BY <1>3, ClaimedByTick
<1>4. QED BY <1>2, <1>3

-----------------------------------------------------------------------------
\* No event, and every tick idle, at first.
LEMMA OutboxInit == Init => OutboxInv
<1> SUFFICES ASSUME Init PROVE OutboxInv
  OBVIOUS
<1>1. TypeOK
  <2>1. \A k \in Ticks : tick[k] = Idle
    BY DEF Init
  <2>2. Idle \in TickRecords
    <3>1. <<>> \in Seq(Rows) /\ Len(<<>>) <= BatchLimit
      BY LimitsAssumption
    <3>2. QED BY <3>1, TickRecordIs DEF Idle
  <2>3. TickType
    BY <2>1, <2>2 DEF Init, TickType, Idle
  <2>4. RowsType /\ BrokerType
    BY LimitsAssumption, BoundsAssumption, QueueAssumption DEF Init, RowsType, BrokerType, Statuses
  <2>5. QED BY <2>3, <2>4, TypeIs
<1>2. \A k \in Ticks : tick[k].step = "idle" /\ DOMAIN tick[k].rows = {}
  BY DEF Init, Idle
<1>3. OneOwner
  BY <1>2 DEF OneOwner, IdsOf
<1>4. Retryable
  BY LimitsAssumption DEF Init, Retryable
<1>5. Counted
  <2>1. ASSUME NEW e \in Events PROVE Copies(e) = 0 /\ retry[e] = 0
    <3> DEFINE f == [p \in Procs |-> draining[p][e]]
    <3>1. \A p \in Procs : f[p] = 0
      BY DEF Init
    <3> HIDE DEF f
    <3>2. SumFunctionOnSet(f, Procs) = 0
      BY <3>1, ProcsAssumption, SumZero
    <3>3. QED BY <3>2 DEF Init, Copies, Waiting, f
  <2>2. QED BY <2>1 DEF Counted
<1>6. ArrivedBeforeSent
  BY <1>2 DEF Init, ArrivedBeforeSent
<1>7. StuckOnlyByFault
  BY DEF Init, StuckOnlyByFault, Stuck
<1>8. Unsent
  BY DEF Init, Unsent
<1>9. QED BY <1>1, <1>3, <1>4, <1>5, <1>6, <1>7, <1>8 DEF OutboxInv

\* Every step keeps the invariant.
LEMMA OutboxNext == OutboxInv /\ [Next]_vars => OutboxInv'
BY TypeNext, OneOwnerNext, RetryableNext, CountedNext, UnsentNext, ArrivedNext, StuckNext DEF OutboxInv

\* The invariant holds.
LEMMA OutboxInvariant == Spec => []OutboxInv
BY OutboxInit, OutboxNext, PTL DEF Spec

\* However ticks of any number of processes overlap, with crashes, late confirms,
\* failed updates and messages written again to a channel that drains: no two ticks
\* work on one row of the outbox, a tick knows the retry count its row has, and an
\* event has at most one copy for each failure counted, one for the attempt that is
\* not, and one for each write so far that found its buffer full.
THEOREM RowsOwnedAndCounted == Spec => []OwnedAndCounted
<1>1. ASSUME OutboxInv PROVE OwnedAndCounted
  <2>1. TypeOK /\ OneOwner /\ Counted
    BY <1>1 DEF OutboxInv
  <2>2. ASSUME NEW e \in Events PROVE late[e] + arrived[e] <= retry[e] + 1 + faults.full
    BY <2>1, CopiesInt DEF Counted
  <2>3. QED BY <2>1, <2>2 DEF OwnedAndCounted, CopiesBounded
<1>2. QED BY <1>1, OutboxInvariant, PTL

\* Without a crash and a failed update no claimed event is forgotten by the
\* poller.
THEOREM EventsStuckByFaults == Spec => []StuckOnlyByFault
<1>1. OutboxInv => StuckOnlyByFault
  BY DEF OutboxInv
<1>2. QED BY <1>1, OutboxInvariant, PTL

-----------------------------------------------------------------------------
(* The outbox implements AtLeastOnce.                                      *)

\* No event is due at first.
LEMMA DueInit == Init => D!Init
BY DEF Init, D!Init, Due

\* A step that leaves every event as due as it was, and brings no copy.
LEMMA DueSame ==
  ASSUME \A e \in Events : Due(status'[e]) = Due(status[e]), UNCHANGED arrived
  PROVE  UNCHANGED <<[e \in Events |-> Due(status[e])], arrived>>
OBVIOUS

\* One event changes from due-ness x to y.
LEMMA DueChange ==
  ASSUME TypeOK, NEW e \in Events, NEW s, status' = [status EXCEPT ![e] = s]
  PROVE  [d \in Events |-> Due(status'[d])] =
           [[d \in Events |-> Due(status[d])] EXCEPT ![e] = Due(s)]
<1>1. \A d \in Events : status'[d] = IF d = e THEN s ELSE status[d]
  BY DEF TypeOK
<1> DEFINE new == [d \in Events |-> Due(status'[d])]
           old == [d \in Events |-> Due(status[d])]
<1>2. \A d \in Events : new[d] = IF d = e THEN Due(s) ELSE old[d]
  BY <1>1
<1>3. QED BY <1>2

\* Copies arrive of an event that was settled.
LEMMA DueArrive ==
  ASSUME TypeOK, bound, UNCHANGED status, NEW e \in Events, Route(e), status[e] # "NONE"
  PROVE  D!Next
<1>1. arrived' = [arrived EXCEPT ![e] = arrived[e] + 1]
  BY DEF Route
<1>2. Due(status[e]) # "none"
  BY DEF Due, TypeOK
<1>3. D!Arrive(e)
  BY <1>1, <1>2 DEF D!Arrive
<1>4. QED BY <1>3 DEF D!Next

\* Every step of the outbox is one of the promise or leaves it alone.
LEMMA DueNext ==
  QueueExists /\ OutboxInv /\ [Next]_vars =>
    D!Next \/ UNCHANGED <<[e \in Events |-> Due(status[e])], arrived>>
<1> DEFINE Same == UNCHANGED <<[e \in Events |-> Due(status[e])], arrived>>
<1> SUFFICES ASSUME QueueExists, OutboxInv, [Next]_vars PROVE D!Next \/ Same
  OBVIOUS
<1>0. TypeOK /\ OneOwner /\ Unsent /\ bound /\ ArrivedBeforeSent
  BY DEF OutboxInv, ArrivedBeforeSent
<1>1. ASSUME UNCHANGED <<status, arrived>> PROVE Same
  BY <1>1
<1>2. ASSUME NEW e \in Events, Settle(e) PROVE D!Next
  <2>1. Due(status[e]) = "none" /\ Due("PENDING") = "due"
    BY <1>2 DEF Settle, Due
  <2>2. [d \in Events |-> Due(status'[d])] = [[d \in Events |-> Due(status[d])] EXCEPT ![e] = "due"]
    BY <1>0, <1>2, <2>1, DueChange DEF Settle
  <2>3. UNCHANGED arrived
    BY <1>2 DEF Settle, queue
  <2>4. D!Settle(e)
    BY <2>1, <2>2, <2>3 DEF D!Settle
  <2>5. QED BY <2>4 DEF D!Next
<1>3. ASSUME NEW e \in Events, LateArrival(e) PROVE D!Next
  <2>1. Route(e) /\ UNCHANGED status /\ late[e] > 0
    BY <1>3 DEF LateArrival
  <2>2. status[e] # "NONE"
    BY <1>0, <2>1 DEF Unsent
  <2>3. QED BY <1>0, <2>1, <2>2, DueArrive
<1>4. ASSUME NEW e \in Events, Cleanup(e) PROVE Same
  <2>1. \A d \in Events : Due(status'[d]) = Due(status[d])
    <3>1. \A d \in Events : status'[d] = IF d = e THEN "DELETED" ELSE status[d]
      BY <1>0, <1>4 DEF Cleanup, TypeOK
    <3>2. status[e] = "PROCESSED" /\ Due("PROCESSED") = "sent" /\ Due("DELETED") = "sent"
      BY <1>4 DEF Cleanup, Due
    <3>3. QED BY <3>1, <3>2
  <2>2. UNCHANGED arrived
    BY <1>4 DEF Cleanup, queue
  <2>3. QED BY <2>1, <2>2, DueSame
<1>5. ASSUME NEW k \in Ticks, Claim(k) PROVE Same
  <2>1. \A d \in Events : Due(status'[d]) = Due(status[d])
    <3>1. \A d \in Events : status'[d] = IF d \in IdsOf(k) THEN "PROCESSING" ELSE status[d]
      BY <1>5 DEF Claim
    <3>2. \A d \in IdsOf(k) : status[d] = "PENDING"
      BY <1>0, <1>5 DEF Claim, OneOwner, IdsOf
    <3>3. Due("PENDING") = "due" /\ Due("PROCESSING") = "due"
      BY DEF Due
    <3>4. QED BY <3>1, <3>2, <3>3
  <2>2. UNCHANGED arrived
    BY <1>5 DEF Claim, queue
  <2>3. QED BY <2>1, <2>2, DueSame
<1>6. ASSUME NEW k \in Ticks, Publish(k) PROVE D!Next
  <2>1. Working(k) /\ tick[k].step = "publish" /\ UNCHANGED status
    BY <1>6 DEF Publish, Working
  <2>2. PICK e \in Events : e = Row(k).id /\ status[e] = "PROCESSING"
    BY <1>0, <2>1, HeadIs
  <2>3. Route(e)
    BY <1>6, <2>2 DEF Publish
  <2>4. QED BY <1>0, <2>1, <2>2, <2>3, DueArrive
<1>7. ASSUME NEW k \in Ticks, MarkProcessed(k) PROVE D!Next
  <2>1. Working(k) /\ tick[k].step = "processed"
    BY <1>7 DEF MarkProcessed, Working
  <2>2. PICK e \in Events : e = Row(k).id /\ status[e] = "PROCESSING"
    BY <1>0, <2>1, HeadIs
  <2>3. arrived[e] > 0
    BY <1>0, <2>1, <2>2 DEF ArrivedBeforeSent
  <2>4. Due(status[e]) = "due" /\ Due("PROCESSED") = "sent"
    BY <2>2 DEF Due
  <2>5. [d \in Events |-> Due(status'[d])] = [[d \in Events |-> Due(status[d])] EXCEPT ![e] = "sent"]
    <3>1. status' = [status EXCEPT ![e] = "PROCESSED"]
      BY <1>7, <2>2 DEF MarkProcessed
    <3>2. QED BY <1>0, <2>4, <3>1, DueChange
  <2>6. UNCHANGED arrived
    BY <1>7 DEF MarkProcessed, queue
  <2>7. D!Sent(e)
    BY <2>3, <2>4, <2>5, <2>6 DEF D!Sent
  <2>8. QED BY <2>7 DEF D!Next
<1>8. ASSUME NEW k \in Ticks, MarkForRetry(k) PROVE D!Next \/ Same
  <2>1. Working(k) /\ tick[k].step = "retry"
    BY <1>8 DEF MarkForRetry, Working
  <2>2. PICK e \in Events : e = Row(k).id /\ status[e] = "PROCESSING"
    BY <1>0, <2>1, HeadIs
  <2>3. PICK s \in {"FAILED", "PENDING"} : status' = [status EXCEPT ![e] = s]
    BY <1>8, <2>2 DEF MarkForRetry
  <2>4. Due(status[e]) = "due" /\ Due("PENDING") = "due" /\ Due("FAILED") = "failed"
    BY <2>2 DEF Due
  <2>5. UNCHANGED arrived
    BY <1>8 DEF MarkForRetry, queue
  <2>6. [d \in Events |-> Due(status'[d])] = [[d \in Events |-> Due(status[d])] EXCEPT ![e] = Due(s)]
    BY <1>0, <2>3, DueChange
  <2>7. CASE s = "FAILED"
    <3>1. D!GiveUp(e)
      BY <2>4, <2>5, <2>6, <2>7 DEF D!GiveUp
    <3>2. QED BY <3>1 DEF D!Next
  <2>8. CASE s = "PENDING"
    <3>1. \A d \in Events : status'[d] = IF d = e THEN "PENDING" ELSE status[d]
      BY <1>0, <2>3, <2>8 DEF TypeOK
    <3>2. \A d \in Events : Due(status'[d]) = Due(status[d])
      BY <2>4, <3>1
    <3>3. QED BY <2>5, <3>2, DueSame
  <2>9. QED BY <2>7, <2>8
<1>9. ASSUME NEW k \in Ticks, \/ Lock(k) \/ PublishFails(k) \/ Refused(k)
                              \/ MarkProcessedFails(k) \/ MarkForRetryFails(k)
      PROVE  Same
  <2>1. UNCHANGED <<status, arrived>>
    BY <1>9 DEF Lock, PublishFails, Refused, MarkProcessedFails, MarkForRetryFails, queue
  <2>2. QED BY <1>1, <2>1
<1>10. ASSUME NEW p \in Procs, HalfOpen(p) \/ ConnectionLost(p) \/ Crash(p) PROVE Same
  <2>1. UNCHANGED <<status, arrived>>
    BY <1>10 DEF HalfOpen, ConnectionLost, Crash, queue
  <2>2. QED BY <1>1, <2>1
<1>11. ASSUME NEW p \in Procs, NEW e \in Events, Drain(p, e) \/ Consume(p, e) \/ Ack(p, e) PROVE Same
  <2>1. UNCHANGED <<status, arrived>>
    BY <1>11 DEF Drain, Consume, Ack
  <2>2. QED BY <1>1, <2>1
<1>12. ASSUME Bind \/ UNCHANGED vars PROVE Same
  <2>1. UNCHANGED <<status, arrived>>
    BY <1>12 DEF Bind, vars, queue
  <2>2. QED BY <1>1, <2>1
<1> HIDE DEF Same
<1>13. QED
  BY <1>2, <1>3, <1>4, <1>5, <1>6, <1>7, <1>8, <1>9, <1>10, <1>11, <1>12 DEF Next, Loop

\* With the queue in place, the poller, the broker and the retention job keep what
\* AtLeastOnce promises: an event settled is due until a copy of it has arrived.
THEOREM DeliversAtLeastOnce ==
  ASSUME QueueExists PROVE Spec => ImplementsAtLeastOnce
<1>1. Init => D!Init
  BY DueInit
<1>2. OutboxInv /\ [Next]_vars => [D!Next]_<<[e \in Events |-> Due(status[e])], arrived>>
  BY DueNext
<1>3. QED BY <1>1, <1>2, OutboxInvariant, PTL DEF Spec, ImplementsAtLeastOnce, D!Spec
=============================================================================
