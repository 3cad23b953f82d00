-------------------------- MODULE WebhookDelivery --------------------------
(***************************************************************************)
(* B2B webhooks: WebhookOutbox entries delivered by workers that poll the  *)
(* table or take the entry's id from RabbitMQ, retried with a backoff,     *)
(* archived as dead letters after MaxAttempts, and requeued by admins.     *)
(*                                                                         *)
(* A worker is one run of processPendingWebhooks or processOutboxById; the *)
(* interval does not wait, so runs overlap. Time shows only in what it     *)
(* makes true: a backoff that is over, a claim that is stale.              *)
(***************************************************************************)
EXTENDS Integers, FiniteSets, FiniteSetsExt

CONSTANTS
  Entries,      \* ids of WebhookOutbox rows, created in any order
  Workers,
  Admins,
  NoEntry,
  BatchSize,    \* batchSize of a poll
  MaxAttempts,  \* MAX_DELIVERY_ATTEMPTS
  SlowWorkers,  \* a live worker can take longer than STALE_PROCESSING_MS
  MaxFaults     \* bound: crashes and failed row updates

ASSUME NoEntryAssumption == NoEntry \notin Entries
ASSUME LimitsAssumption == BatchSize \in Nat \ {0} /\ MaxAttempts \in Nat \ {0}
ASSUME SlowAssumption == SlowWorkers \in BOOLEAN
ASSUME FaultsAssumption == MaxFaults \in Nat

VARIABLES
  row,     \* the WebhookOutbox row of each entry; "GONE" once deleted
  dead,    \* number of WebhookDeadLetter rows of each entry
  requeued,\* dead letters marked requeued
  msgs,    \* messages in the outbox_delivery queue, by entry
  worker,  \* what each worker is doing
  admin,   \* the dead letter each admin is requeueing
  stale,   \* entries PROCESSING for longer than STALE_PROCESSING_MS
  faults,
  overtaken \* history: entries that became stale while a worker had them

vars == <<row, dead, requeued, msgs, worker, admin, stale, faults, overtaken>>

\* due: nextAttemptAt has passed. The last attempt is counted in the dead
\* letter only.
RowRecords ==
  [status : {"NONE", "PENDING", "PROCESSING", "FAILED", "SUCCESS"},
   attempts : 0..(MaxAttempts - 1), due : BOOLEAN]
  \cup [status : {"GONE"}, attempts : 1..MaxAttempts, due : {FALSE}]

\* An entry as the worker read it.
Claimed == [id : Entries, attempts : 0..(MaxAttempts - 1)]

Read(e) == [id |-> e, attempts |-> row[e].attempts]

\* Its batch, to be delivered in any order: the one of nextAttemptAt is left
\* open. current is the entry it has posted last.
NoClaim == [id |-> NoEntry, attempts |-> 0]

Idle == [step |-> "idle", rows |-> {}, current |-> NoClaim, byMsg |-> FALSE]

WorkerRecords ==
  [step : {"idle", "selected", "deliver", "ok", "failed"},
   rows : SUBSET Claimed, current : Claimed \cup {NoClaim}, byMsg : BOOLEAN]

TypeOK ==
  /\ row \in [Entries -> RowRecords]
  /\ dead \in [Entries -> Nat]
  /\ msgs \in [Entries -> Nat]
  /\ requeued \subseteq Entries
  /\ worker \in [Workers -> WorkerRecords]
  /\ admin \in [Admins -> Entries \cup {NoEntry}]
  /\ stale \subseteq Entries /\ overtaken \subseteq Entries
  /\ faults \in Nat

Init ==
  /\ row = [e \in Entries |-> [status |-> "NONE", attempts |-> 0, due |-> FALSE]]
  /\ dead = [e \in Entries |-> 0]
  /\ requeued = {}
  /\ msgs = [e \in Entries |-> 0]
  /\ worker = [w \in Workers |-> Idle]
  /\ admin = [a \in Admins |-> NoEntry]
  /\ stale = {}
  /\ faults = 0
  /\ overtaken = {}

IdsOf(w) == {c.id : c \in worker[w].rows}

\* The entries a worker has claimed, not merely selected.
Holds(w) == IF worker[w].step = "selected" THEN {} ELSE IdsOf(w)

Waiting(e) == row[e].status \in {"PENDING", "FAILED"} /\ row[e].due

NewRow == [status |-> "PENDING", attempts |-> 0, due |-> TRUE]

\* webhookPublish after the commit; a failure is only logged.
Announce(e) == msgs' \in {msgs, [msgs EXCEPT ![e] = @ + 1]}

\* A charge, refund, payout or dispute writes its event.
Create(e) ==
  /\ row[e].status = "NONE"
  /\ row' = [row EXCEPT ![e] = NewRow]
  /\ Announce(e)
  /\ UNCHANGED <<dead, requeued, worker, admin, stale, faults, overtaken>>

\* The backoff of 1 min, 5 min or 1 h is over.
BackoffOver(e) ==
  /\ row[e].status = "FAILED" /\ ~row[e].due
  /\ row' = [row EXCEPT ![e].due = TRUE]
  /\ UNCHANGED <<dead, requeued, msgs, worker, admin, stale, faults, overtaken>>

\* 15 minutes since the claim. A worker needs at most 25 * 15 s for a batch,
\* unless something holds it up.
BecomesStale(e) ==
  /\ row[e].status = "PROCESSING" /\ e \notin stale
  /\ SlowWorkers \/ \A w \in Workers : e \notin Holds(w)
  /\ stale' = stale \cup {e}
  /\ overtaken' = overtaken \cup ({e} \cap UNION {Holds(w) : w \in Workers})
  /\ UNCHANGED <<row, dead, requeued, msgs, worker, admin, faults>>

-----------------------------------------------------------------------------
(* processPendingWebhooks and processOutboxById: the claims.               *)

\* findMany: the entries that have waited longest, read with their attempts.
Selections(waiting) ==
  {[Idle EXCEPT !.step = "selected", !.rows = {Read(e) : e \in S}] :
     S \in kSubset(Min({Cardinality(waiting), BatchSize}), waiting)}

\* The nextAttemptAt of the entries S moves on, past the now of every other
\* worker that has selected but not yet claimed: it can no longer claim them.
Rescheduled(v, S) ==
  IF worker[v].step = "selected"
  THEN [worker[v] EXCEPT !.rows = {c \in @ : c.id \notin S}]
  ELSE worker[v]

\* Mutation: stale claims are not taken back.
Poll_NoReclaim(w) ==
  LET waiting == {e \in Entries : Waiting(e)}
  IN  /\ worker[w].step = "idle"
      /\ waiting # {}
      /\ worker' \in {[worker EXCEPT ![w] = s] : s \in Selections(waiting)}
      /\ UNCHANGED <<row, dead, requeued, msgs, admin, stale, faults, overtaken>>

\* reclaimStaleProcessing, then the findMany of the batch.
Poll(w) ==
  LET waiting == {e \in Entries : Waiting(e)} \cup stale
  IN  /\ worker[w].step = "idle"
      /\ waiting # {}
      /\ row' = [e \in Entries |->
           IF e \in stale THEN [row[e] EXCEPT !.status = "FAILED", !.due = TRUE]
                          ELSE row[e]]
      /\ stale' = {}
      /\ \E s \in Selections(waiting) :
           worker' = [v \in Workers |-> IF v = w THEN s ELSE Rescheduled(v, stale)]
      /\ UNCHANGED <<dead, requeued, msgs, admin, faults, overtaken>>

\* The conditional updateMany of each candidate, and the commit.
Claim(w) ==
  LET won == {c \in worker[w].rows : Waiting(c.id)}
      ids == {c.id : c \in won}
  IN  /\ worker[w].step = "selected"
      /\ row' = [e \in Entries |->
           IF e \in ids THEN [row[e] EXCEPT !.status = "PROCESSING"] ELSE row[e]]
      /\ worker' = [worker EXCEPT ![w] =
           IF won = {} THEN Idle ELSE [@ EXCEPT !.step = "deliver", !.rows = won]]
      /\ UNCHANGED <<dead, requeued, msgs, admin, stale, faults, overtaken>>

\* The poll's transaction deadlocks with another one, or the database fails.
ClaimFails(w) ==
  /\ worker[w].step = "selected"
  /\ faults < MaxFaults
  /\ faults' = faults + 1
  /\ worker' = [worker EXCEPT ![w] = Idle]
  /\ UNCHANGED <<row, dead, requeued, msgs, admin, stale, overtaken>>

\* Mutation: a message claims its entry whatever its status.
TakeMessage_Unguarded(w, e) ==
  /\ worker[w].step = "idle" /\ msgs[e] > 0
  /\ msgs' = [msgs EXCEPT ![e] = @ - 1]
  /\ IF row[e].status # "GONE"
     THEN /\ row' = [row EXCEPT ![e].status = "PROCESSING"]
          /\ worker' = [worker EXCEPT ![w] =
               [Idle EXCEPT !.step = "deliver", !.byMsg = TRUE, !.rows = {Read(e)}]]
     ELSE UNCHANGED <<row, worker>>
  /\ UNCHANGED <<dead, requeued, admin, stale, faults, overtaken>>

\* processOutboxById; the message of an entry that cannot be claimed is
\* acknowledged.
TakeMessage(w, e) ==
  /\ worker[w].step = "idle" /\ msgs[e] > 0
  /\ msgs' = [msgs EXCEPT ![e] = @ - 1]
  /\ IF Waiting(e)
     THEN /\ row' = [row EXCEPT ![e].status = "PROCESSING"]
          /\ worker' = [worker EXCEPT ![w] =
               [Idle EXCEPT !.step = "deliver", !.byMsg = TRUE, !.rows = {Read(e)}]]
     ELSE UNCHANGED <<row, worker>>
  /\ UNCHANGED <<dead, requeued, admin, stale, faults, overtaken>>

-----------------------------------------------------------------------------
(* deliverOne.                                                             *)

Current(w) == worker[w].current

\* w is done with the entry; a message is acknowledged.
GoOn(w, c) ==
  LET rest == worker[w].rows \ {c}
  IN  IF rest = {} THEN Idle
      ELSE [worker[w] EXCEPT !.step = "deliver", !.rows = rest, !.current = NoClaim]

\* The POST is answered with 2xx, or it is not: refused, another status, or
\* no answer in time.
Post(w, c) ==
  /\ worker[w].step = "deliver"
  /\ \E s \in {"ok", "failed"} :
       worker' = [worker EXCEPT ![w].step = s, ![w].current = c]
  /\ UNCHANGED <<row, dead, requeued, msgs, admin, stale, faults, overtaken>>

\* An exception in deliverOne: a poll abandons the rest of its batch, the
\* message goes back to the queue.
Throw(w) ==
  /\ worker' = [worker EXCEPT ![w] = Idle]
  /\ msgs' = [e \in Entries |->
       IF worker[w].byMsg /\ e \in IdsOf(w) THEN msgs[e] + 1 ELSE msgs[e]]

\* The entry as w finds it; an update or delete of a deleted row throws.
Exists(e) == row[e].status # "GONE"

Succeed(w) ==
  LET e == Current(w).id
  IN  /\ worker[w].step = "ok" /\ Exists(e)
      /\ row' = [row EXCEPT ![e].status = "SUCCESS"]
      /\ stale' = stale \ {e}
      /\ worker' = [worker EXCEPT ![w] = GoOn(w, Current(w))]
      /\ UNCHANGED <<dead, requeued, msgs, admin, faults, overtaken>>

\* archiveWebhookOutboxToDeadLetter: create and delete in one transaction.
Archive(w, c, attempts) ==
  /\ Exists(c.id)
  /\ dead' = [dead EXCEPT ![c.id] = @ + 1]
  /\ row' = [row EXCEPT ![c.id] =
       [status |-> "GONE", attempts |-> attempts, due |-> FALSE]]
  /\ stale' = stale \ {c.id}
  /\ worker' = [worker EXCEPT ![w] = GoOn(w, c)]
  /\ UNCHANGED <<requeued, msgs, admin, faults, overtaken>>

\* The integrator has no webhookUrl: archived as after the last attempt.
NoUrl(w, c) ==
  worker[w].step = "deliver" /\ Archive(w, c, MaxAttempts)

LastAttempt(w) ==
  /\ worker[w].step = "failed"
  /\ Current(w).attempts + 1 >= MaxAttempts
  /\ Archive(w, Current(w), Current(w).attempts + 1)

\* The next attempt, after the backoff of 1 min, 5 min or 1 h.
Retry(c) == [status |-> "FAILED", attempts |-> c.attempts + 1, due |-> FALSE]

\* Mutation: the claim does not ask for nextAttemptAt again.
Reschedule_ClaimAnyway(w) ==
  LET e == Current(w).id
  IN  /\ worker[w].step = "failed" /\ Exists(e)
      /\ Current(w).attempts + 1 < MaxAttempts
      /\ row' = [row EXCEPT ![e] = Retry(Current(w))]
      /\ stale' = stale \ {e}
      /\ worker' = [worker EXCEPT ![w] = GoOn(w, Current(w))]
      /\ UNCHANGED <<dead, requeued, msgs, admin, faults, overtaken>>

Reschedule(w) ==
  LET e == Current(w).id
  IN  /\ worker[w].step = "failed" /\ Exists(e)
      /\ Current(w).attempts + 1 < MaxAttempts
      /\ row' = [row EXCEPT ![e] = Retry(Current(w))]
      /\ stale' = stale \ {e}
      /\ worker' = [v \in Workers |->
           IF v = w THEN GoOn(w, Current(w)) ELSE Rescheduled(v, {e})]
      /\ UNCHANGED <<dead, requeued, msgs, admin, faults, overtaken>>

\* The update or the archive, also the one for want of a webhookUrl, throws
\* because another worker archived the entry.
EntryGone(w) ==
  /\ \/ worker[w].step \in {"ok", "failed"} /\ ~Exists(Current(w).id)
     \/ worker[w].step = "deliver" /\ \E c \in worker[w].rows : ~Exists(c.id)
  /\ Throw(w)
  /\ UNCHANGED <<row, dead, requeued, admin, stale, faults, overtaken>>

\* A database error in deliverOne.
DbError(w) ==
  /\ worker[w].step \in {"deliver", "ok", "failed"}
  /\ faults < MaxFaults
  /\ faults' = faults + 1
  /\ Throw(w)
  /\ UNCHANGED <<row, dead, requeued, admin, stale, overtaken>>

\* The worker's process dies; an unacknowledged message is redelivered.
Crash(w) ==
  /\ worker[w].step # "idle"
  /\ faults < MaxFaults
  /\ faults' = faults + 1
  /\ Throw(w)
  /\ UNCHANGED <<row, dead, requeued, admin, stale, overtaken>>

-----------------------------------------------------------------------------
(* requeueById, READ COMMITTED: the read and the writes are two steps.     *)

ReadDeadLetter(a, e) ==
  /\ admin[a] = NoEntry
  /\ dead[e] > 0 /\ e \notin requeued
  /\ admin' = [admin EXCEPT ![a] = e]
  /\ UNCHANGED <<row, dead, requeued, msgs, worker, stale, faults, overtaken>>

Requeue(a, n) ==
  /\ admin[a] # NoEntry
  /\ row[n].status = "NONE"
  /\ row' = [row EXCEPT ![n] = NewRow]
  /\ requeued' = requeued \cup {admin[a]}
  /\ admin' = [admin EXCEPT ![a] = NoEntry]
  /\ Announce(n)
  /\ UNCHANGED <<dead, worker, stale, faults, overtaken>>

-----------------------------------------------------------------------------

Deliver(w) ==
  \/ Claim(w) \/ \E c \in worker[w].rows : Post(w, c) \/ NoUrl(w, c)
  \/ Succeed(w) \/ LastAttempt(w) \/ Reschedule(w) \/ EntryGone(w)

Next ==
  \/ \E e \in Entries : Create(e) \/ BackoffOver(e) \/ BecomesStale(e)
  \/ \E w \in Workers :
       Poll(w) \/ ClaimFails(w) \/ Deliver(w) \/ DbError(w) \/ Crash(w)
  \/ \E w \in Workers, e \in Entries : TakeMessage(w, e)
  \/ \E a \in Admins, e \in Entries : ReadDeadLetter(a, e) \/ Requeue(a, e)

Spec == Init /\ [][Next]_vars

\* Time passes, the interval keeps firing in some process, and a worker that
\* has claimed rows goes on with them. No message has to be taken.
Fairness ==
  /\ \A e \in Entries : WF_vars(BackoffOver(e)) /\ WF_vars(BecomesStale(e))
  /\ WF_vars(\E w \in Workers : Poll(w))
  /\ \A w \in Workers : WF_vars(Deliver(w))

FairSpec == Spec /\ Fairness

-----------------------------------------------------------------------------
(* Properties.                                                             *)

\* An entry leaves the outbox for the dead letters exactly once, also when
\* two workers give it up at the same time.
ArchivedOnce ==
  \A e \in Entries : dead[e] = IF row[e].status = "GONE" THEN 1 ELSE 0

\* Unless a worker is held up past STALE_PROCESSING_MS with it, an entry is
\* delivered by one worker at a time, which counts on from its real attempts.
ClaimsExclusive ==
  \A w \in Workers :
    /\ \A v \in Workers \ {w} : Holds(v) \cap Holds(w) \subseteq overtaken
    /\ \A c \in worker[w].rows :
         c.id \in Holds(w) \ overtaken =>
           row[c.id].status = "PROCESSING" /\ c = Read(c.id)

\* An entry is in one pair of hands, down to its grave.
HandledOnce == ArchivedOnce /\ ClaimsExclusive

\* A delivered event is never taken up again, slow workers apart.
SuccessIsFinal ==
  [][\A e \in Entries \ overtaken' :
       row[e].status = "SUCCESS" => row'[e].status = "SUCCESS"]_vars

\* Whoever dies, an event ends up delivered or among the dead letters.
EveryEventEnds ==
  \A e \in Entries :
    row[e].status = "PENDING" ~> row[e].status \in {"SUCCESS", "GONE"}
=============================================================================
