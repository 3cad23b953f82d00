------------------------------ MODULE Outbox ------------------------------
(***************************************************************************)
(* The transactional outbox: rows written with a settlement, the poller    *)
(* that claims and publishes them through a circuit breaker, the broker's  *)
(* settlement queue, its consumer, and the retention job.                  *)
(*                                                                         *)
(* A tick is one run of pollOnce. setInterval starts one every two seconds *)
(* and does not wait for the previous one, so ticks of one process overlap *)
(* as ticks of several processes do.                                       *)
(***************************************************************************)
EXTENDS Integers, Sequences, FiniteSets, SequencesExt

CONSTANTS
  Events,       \* 1..n, numbered in the order of created_at
  Ticks,        \* runs of pollOnce that can be under way at the same time
  Procs,        \* server processes
  ProcOf,       \* the process of each tick
  BatchLimit,   \* LIMIT of the claim
  MaxRetries,   \* DEFAULT_MAX_RETRIES
  Prefetch,     \* copies a consumer is given before it acknowledges one
  QueueExists,  \* the settlement queue was declared before the start
  MaxCrashes,   \* bound: crashes of processes and lost connections
  MaxDbErrors,  \* bound: failed updates of a row
  MaxFull       \* bound: writes that find the channel's buffer full

ASSUME EventsAssumption == Events \subseteq Nat /\ IsFiniteSet(Events)
ASSUME ProcOfAssumption == ProcOf \in [Ticks -> Procs]
ASSUME LimitsAssumption == BatchLimit \in Nat \ {0} /\ MaxRetries \in Nat \ {0}
ASSUME PrefetchAssumption == Prefetch \in Nat \ {0}
ASSUME QueueAssumption == QueueExists \in BOOLEAN
ASSUME BoundsAssumption == MaxCrashes \in Nat /\ MaxDbErrors \in Nat /\ MaxFull \in Nat
ASSUME ProcsAssumption == IsFiniteSet(Procs)

VARIABLES
  status,    \* OutboxEvent.status; "NONE" before, "DELETED" after the row
  retry,     \* OutboxEvent.retryCount
  tick,      \* what each tick is doing
  breaker,   \* state of each process's circuit breaker
  bound,     \* the settlement queue is bound to the exchange
  draining,  \* messages publish() writes again when a process's channel drains
  late,      \* copies written that the broker has yet to take
  arrived,   \* history: copies that ever entered the settlement queue
  ready,     \* copies in the settlement queue
  unacked,   \* copies each process's consumer is working on
  handled,   \* copies acknowledged
  faults     \* crashes, database errors and full buffers so far

vars == <<status, retry, tick, breaker, bound, draining, late, arrived, ready,
          unacked, handled, faults>>

\* A row as the claim returned it.
Rows == [id : Events, retryCount : 0..MaxRetries]

Idle == [step |-> "idle", rows |-> <<>>]

TickRecords == [step : {"idle", "locked", "publish", "processed", "retry"},
                rows : BoundedSeq(Rows, BatchLimit)]

Init ==
  /\ status = [e \in Events |-> "NONE"]
  /\ retry = [e \in Events |-> 0]
  /\ tick = [k \in Ticks |-> Idle]
  /\ breaker = [p \in Procs |-> "closed"]
  /\ bound = QueueExists
  /\ draining = [p \in Procs |-> [e \in Events |-> 0]]
  /\ late = [e \in Events |-> 0]
  /\ arrived = [e \in Events |-> 0]
  /\ ready = [e \in Events |-> 0]
  /\ unacked = [p \in Procs |-> [e \in Events |-> 0]]
  /\ handled = [e \in Events |-> 0]
  /\ faults = [crash |-> 0, db |-> 0, full |-> 0]

queue == <<bound, draining, late, arrived, ready, unacked, handled>>

IdsOf(k) == {tick[k].rows[i].id : i \in DOMAIN tick[k].rows}

\* The settlement of a match writes its FUNDS_SETTLED row.
Settle(e) ==
  /\ status[e] = "NONE"
  /\ \A d \in Events : d < e => status[d] # "NONE"
  /\ status' = [status EXCEPT ![e] = "PENDING"]
  /\ UNCHANGED <<retry, tick, breaker, queue, faults>>

-----------------------------------------------------------------------------
(* pollOnce.                                                               *)

\* Rows under FOR UPDATE by transactions not yet committed.
Locked == UNION {IdsOf(k) : k \in {j \in Ticks : tick[j].step = "locked"}}

\* What the claim returns of the rows in S: the oldest, at most BatchLimit of
\* them, in order. One sequence is in the set.
Batch(S) ==
  LET oldest == {e \in S : Cardinality({d \in S : d < e}) < BatchLimit}
  IN  {rows \in [1..Cardinality(oldest) ->
                   {[id |-> e, retryCount |-> retry[e]] : e \in oldest}] :
         \A i, j \in DOMAIN rows : i < j => rows[i].id < rows[j].id}

\* Mutation: FOR UPDATE SKIP LOCKED is left out of the claim.
Lock_NoSkipLocked(k) ==
  LET free == {e \in Events : status[e] = "PENDING"}
  IN  /\ tick[k].step = "idle"
      /\ breaker[ProcOf[k]] # "open"
      /\ free # {}
      /\ \E rows \in Batch(free) :
           tick' = [tick EXCEPT ![k] = [step |-> "locked", rows |-> rows]]
      /\ UNCHANGED <<status, retry, breaker, queue, faults>>

\* The claim's SELECT ... FOR UPDATE SKIP LOCKED; no tick while the breaker is
\* open.
Lock(k) ==
  LET free == {e \in Events : status[e] = "PENDING"} \ Locked
  IN  /\ tick[k].step = "idle"
      /\ breaker[ProcOf[k]] # "open"
      /\ free # {}
      /\ \E rows \in Batch(free) :
           tick' = [tick EXCEPT ![k] = [step |-> "locked", rows |-> rows]]
      /\ UNCHANGED <<status, retry, breaker, queue, faults>>

\* The claim's updateMany, and its commit.
Claim(k) ==
  /\ tick[k].step = "locked"
  /\ status' = [e \in Events |->
       IF e \in IdsOf(k) THEN "PROCESSING" ELSE status[e]]
  /\ tick' = [tick EXCEPT ![k].step = "publish"]
  /\ UNCHANGED <<retry, breaker, queue, faults>>

Row(k) == Head(tick[k].rows)

\* A copy reaches the exchange: without a bound queue the broker confirms and
\* drops it.
Route(e) ==
  IF bound THEN /\ ready' = [ready EXCEPT ![e] = @ + 1]
                /\ arrived' = [arrived EXCEPT ![e] = @ + 1]
           ELSE UNCHANGED <<ready, arrived>>

\* send() of publish(): ch.publish returns false when the buffer is full, and
\* send waits for "drain", n times so far, to write the message once more.
Written(p, e, n) ==
  \/ /\ draining' = [draining EXCEPT ![p][e] = n]
     /\ UNCHANGED faults
  \/ /\ faults.full < MaxFull
     /\ faults' = [faults EXCEPT !.full = @ + 1]
     /\ draining' = [draining EXCEPT ![p][e] = n + 1]

\* The process of the tick, and how often its channel waits to write the row.
Sends(k) == Written(ProcOf[k], Row(k).id, draining[ProcOf[k]][Row(k).id])

\* publish() resolves: the message is written and the broker confirms.
Publish(k) ==
  /\ tick[k].step = "publish"
  /\ breaker[ProcOf[k]] # "open"
  /\ Route(Row(k).id)
  /\ Sends(k)
  /\ breaker' = [breaker EXCEPT ![ProcOf[k]] = "closed"]
  /\ tick' = [tick EXCEPT ![k].step = "processed"]
  /\ UNCHANGED <<status, retry, bound, late, unacked, handled>>

\* Mutation: the poller goes on without waiting for the confirm.
PublishFails_Unconfirmed(k) ==
  /\ tick[k].step = "publish"
  /\ breaker[ProcOf[k]] # "open"
  /\ late' \in {late, [late EXCEPT ![Row(k).id] = @ + 1]}
  /\ Sends(k)
  /\ tick' = [tick EXCEPT ![k].step = "processed"]
  /\ UNCHANGED <<status, retry, breaker, bound, arrived, ready, unacked, handled>>

\* publish() rejects: no channel, or the confirm is refused, or it does not
\* come in time and the message may still arrive; send may go on waiting for
\* "drain". Enough failures open the breaker, one does when it is half-open.
PublishFails(k) ==
  /\ tick[k].step = "publish"
  /\ breaker[ProcOf[k]] # "open"
  /\ late' \in {late, [late EXCEPT ![Row(k).id] = @ + 1]}
  /\ Sends(k)
  /\ \/ breaker' = [breaker EXCEPT ![ProcOf[k]] = "open"]
     \/ breaker[ProcOf[k]] = "closed" /\ UNCHANGED breaker
  /\ tick' = [tick EXCEPT ![k].step = "retry"]
  /\ UNCHANGED <<status, retry, bound, arrived, ready, unacked, handled>>

\* "drain": send writes the message again, although its promise may be settled
\* long since, and waits again if the buffer is full again.
Drain(p, e) ==
  /\ draining[p][e] > 0
  /\ late' = [late EXCEPT ![e] = @ + 1]
  /\ Written(p, e, draining[p][e] - 1)
  /\ UNCHANGED <<status, retry, tick, breaker, bound, arrived, ready, unacked, handled>>

\* fire() rejects at once: the breaker is open, or half-open with the probe
\* of another tick under way. Nothing is published.
Refused(k) ==
  /\ tick[k].step = "publish"
  /\ \/ breaker[ProcOf[k]] = "open"
     \/ /\ breaker[ProcOf[k]] = "halfOpen"
        /\ \E j \in Ticks \ {k} : ProcOf[j] = ProcOf[k] /\ tick[j].step = "publish"
  /\ tick' = [tick EXCEPT ![k].step = "retry"]
  /\ UNCHANGED <<status, retry, breaker, queue, faults>>

\* Mutation: the loop ends after the first row of the batch.
NextRow_Forgotten(k) == tick' = [tick EXCEPT ![k] = Idle]

\* The loop goes on to the next row of the batch.
NextRow(k) ==
  tick' = [tick EXCEPT ![k] =
    IF Len(@.rows) = 1 THEN Idle
    ELSE [step |-> "publish", rows |-> Tail(@.rows)]]

MarkProcessed(k) ==
  /\ tick[k].step = "processed"
  /\ status' = [status EXCEPT ![Row(k).id] = "PROCESSED"]
  /\ NextRow(k)
  /\ UNCHANGED <<retry, breaker, queue, faults>>

\* The update to PROCESSED throws; the catch treats it as a failed publish.
MarkProcessedFails(k) ==
  /\ tick[k].step = "processed"
  /\ faults.db < MaxDbErrors
  /\ faults' = [faults EXCEPT !.db = @ + 1]
  /\ tick' = [tick EXCEPT ![k].step = "retry"]
  /\ UNCHANGED <<status, retry, breaker, queue>>

\* Mutation: the failure is counted, the status is not put back.
MarkForRetry_StatusKept(k) ==
  LET nextRetry == Row(k).retryCount + 1
  IN  /\ tick[k].step = "retry"
      /\ retry' = [retry EXCEPT ![Row(k).id] = nextRetry]
      /\ NextRow(k)
      /\ UNCHANGED <<status, breaker, queue, faults>>

\* The catch block's update.
MarkForRetry(k) ==
  LET e == Row(k).id
      nextRetry == Row(k).retryCount + 1
  IN  /\ tick[k].step = "retry"
      /\ retry' = [retry EXCEPT ![e] = nextRetry]
      /\ status' = [status EXCEPT
           ![e] = IF nextRetry >= MaxRetries THEN "FAILED" ELSE "PENDING"]
      /\ NextRow(k)
      /\ UNCHANGED <<breaker, queue, faults>>

\* The catch block's update throws: processRow rejects, pollOnce gives up the
\* rest of the batch.
MarkForRetryFails(k) ==
  /\ tick[k].step = "retry"
  /\ faults.db < MaxDbErrors
  /\ faults' = [faults EXCEPT !.db = @ + 1]
  /\ tick' = [tick EXCEPT ![k] = Idle]
  /\ UNCHANGED <<status, retry, breaker, queue>>

\* resetTimeout of the breaker.
HalfOpen(p) ==
  /\ breaker[p] = "open"
  /\ breaker' = [breaker EXCEPT ![p] = "halfOpen"]
  /\ UNCHANGED <<status, retry, tick, queue, faults>>

-----------------------------------------------------------------------------
(* The broker, the consumer and the retention job.                         *)

\* A copy that was written a second time, or whose confirm timed out, arrives.
LateArrival(e) ==
  /\ late[e] > 0
  /\ late' = [late EXCEPT ![e] = @ - 1]
  /\ Route(e)
  /\ UNCHANGED <<status, retry, tick, breaker, bound, draining, unacked, handled, faults>>

\* setupConsumerChannel declares and binds the queue, which is durable.
Bind ==
  /\ ~bound
  /\ bound' = TRUE
  /\ UNCHANGED <<status, retry, tick, breaker, draining, late, arrived, ready, unacked,
                 handled, faults>>

Consume(p, e) ==
  /\ ready[e] > 0
  /\ SumFunction(unacked[p]) < Prefetch
  /\ ready' = [ready EXCEPT ![e] = @ - 1]
  /\ unacked' = [unacked EXCEPT ![p][e] = @ + 1]
  /\ UNCHANGED <<status, retry, tick, breaker, bound, draining, late, arrived, handled,
                 faults>>

\* dispatchMessage notifies, then acknowledges. Its nack is for payloads that
\* are not JSON, which publish() does not send.
Ack(p, e) ==
  /\ unacked[p][e] > 0
  /\ unacked' = [unacked EXCEPT ![p][e] = @ - 1]
  /\ handled' = [handled EXCEPT ![e] = @ + 1]
  /\ UNCHANGED <<status, retry, tick, breaker, bound, draining, late, arrived, ready, faults>>

\* p's channels are gone: they never drain, and the broker puts the copies back
\* that were not acknowledged.
Requeue(p) ==
  /\ ready' = [e \in Events |-> ready[e] + unacked[p][e]]
  /\ unacked' = [unacked EXCEPT ![p] = [e \in Events |-> 0]]
  /\ draining' = [draining EXCEPT ![p] = [e \in Events |-> 0]]

ConnectionLost(p) ==
  /\ faults.crash < MaxCrashes
  /\ faults' = [faults EXCEPT !.crash = @ + 1]
  /\ Requeue(p)
  /\ UNCHANGED <<status, retry, tick, breaker, bound, late, arrived, handled>>

\* The process dies and starts again: its open claims roll back, its ticks
\* and its breaker are forgotten.
Crash(p) ==
  /\ faults.crash < MaxCrashes
  /\ faults' = [faults EXCEPT !.crash = @ + 1]
  /\ tick' = [k \in Ticks |-> IF ProcOf[k] = p THEN Idle ELSE tick[k]]
  /\ breaker' = [breaker EXCEPT ![p] = "closed"]
  /\ Requeue(p)
  /\ UNCHANGED <<status, retry, bound, late, arrived, handled>>

\* deleteOneChunk: a PROCESSED row is old enough.
Cleanup(e) ==
  /\ status[e] = "PROCESSED"
  /\ status' = [status EXCEPT ![e] = "DELETED"]
  /\ UNCHANGED <<retry, tick, breaker, queue, faults>>

-----------------------------------------------------------------------------

Loop(k) ==
  \/ Claim(k) \/ Publish(k) \/ PublishFails(k) \/ Refused(k)
  \/ MarkProcessed(k) \/ MarkForRetry(k)

Next ==
  \/ \E e \in Events : Settle(e) \/ LateArrival(e) \/ Cleanup(e)
  \/ \E k \in Ticks :
       Lock(k) \/ Loop(k) \/ MarkProcessedFails(k) \/ MarkForRetryFails(k)
  \/ \E p \in Procs : HalfOpen(p) \/ ConnectionLost(p) \/ Crash(p)
  \/ \E p \in Procs, e \in Events : Drain(p, e) \/ Consume(p, e) \/ Ack(p, e)
  \/ Bind

Spec == Init /\ [][Next]_vars

\* The timers keep firing, a tick under way goes on, and a process that runs
\* keeps consuming. Nothing says that a publication ever succeeds.
Fairness ==
  /\ \A k \in Ticks : WF_vars(Lock(k) \/ Loop(k))
  /\ \A p \in Procs : WF_vars(HalfOpen(p))
  /\ \A e \in Events : WF_vars(\E p \in Procs : Consume(p, e) \/ Ack(p, e))

FairSpec == Spec /\ Fairness

-----------------------------------------------------------------------------
(* Properties.                                                             *)

\* Types; a batch holds at most BatchLimit rows, and a tick that does
\* something with a row has one.
TypeOK ==
  /\ status \in [Events -> {"NONE", "PENDING", "PROCESSING", "PROCESSED", "FAILED", "DELETED"}]
  /\ retry \in [Events -> 0..MaxRetries]
  /\ tick \in [Ticks -> TickRecords]
  /\ \A k \in Ticks : tick[k].step = "idle" <=> tick[k].rows = <<>>
  /\ breaker \in [Procs -> {"closed", "open", "halfOpen"}]
  /\ bound \in BOOLEAN
  /\ draining \in [Procs -> [Events -> Nat]]
  /\ late \in [Events -> Nat] /\ arrived \in [Events -> Nat]
  /\ ready \in [Events -> Nat] /\ handled \in [Events -> Nat]
  /\ unacked \in [Procs -> [Events -> Nat]]
  /\ faults \in [crash : 0..MaxCrashes, db : 0..MaxDbErrors, full : 0..MaxFull]

\* Whatever overlaps, two ticks never work on one row, and a tick works on
\* rows that are claimed and on the retry count they really have.
OneOwner ==
  \A k \in Ticks :
    /\ \A j \in Ticks \ {k} : IdsOf(j) \cap IdsOf(k) = {}
    /\ \A i, j \in DOMAIN tick[k].rows :
         i # j => tick[k].rows[i].id # tick[k].rows[j].id
    /\ \A i \in DOMAIN tick[k].rows :
         LET row == tick[k].rows[i]
         IN  /\ status[row.id] = IF tick[k].step = "locked"
                                 THEN "PENDING" ELSE "PROCESSING"
             /\ row.retryCount = retry[row.id]

\* A copy more than one per failure that was counted, and one for the attempt
\* that is not, is a message written again after a full buffer: each full buffer
\* makes one, crashes and lost confirms make none.
CopiesBounded ==
  \A e \in Events : late[e] + arrived[e] <= retry[e] + 1 + faults.full

\* No row is worked on twice at once, and duplicates come from failures that
\* were counted and from full buffers.
OwnedAndCounted == TypeOK /\ OneOwner /\ CopiesBounded

\* Claimed, and nobody publishes it: nothing will claim the row again.
Stuck == {e \in Events : status[e] = "PROCESSING" /\ \A k \in Ticks : e \notin IdsOf(k)}

\* However the ticks overlap and publications fail, a settlement's event is
\* lost only when a process dies or an update fails.
StuckOnlyByFault == Stuck # {} => faults.db + faults.crash > 0

\* Every event that waits when the queue is in place is handled by the
\* consumer or given up after MaxRetries failures, whatever the breaker and
\* the overlapping ticks do in between.
EventReachesConsumer ==
  \A e \in Events :
    bound /\ status[e] = "PENDING" ~> handled[e] > 0 \/ status[e] = "FAILED"

Due(s) ==
  CASE s = "NONE" -> "none"
    [] s \in {"PENDING", "PROCESSING"} -> "due"
    [] s \in {"PROCESSED", "DELETED"} -> "sent"
    [] s = "FAILED" -> "failed"

\* With the queue in place the outbox delivers at least once: a crash, a lost
\* confirm or the retention job never turns an event that is due into one
\* that was sent.
D == INSTANCE AtLeastOnce WITH
       due <- [e \in Events |-> Due(status[e])], copies <- arrived
ImplementsAtLeastOnce == D!Spec
=============================================================================
