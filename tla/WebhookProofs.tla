---------------------------- MODULE WebhookProofs ----------------------------
(***************************************************************************)
(* For every set of entries, workers and admins and every batch size: the  *)
(* outbox keeps its types, an entry is archived exactly once, is claimed   *)
(* by one worker at a time unless a worker is held up past                 *)
(* STALE_PROCESSING_MS with it, and a delivered entry stays delivered.     *)
(***************************************************************************)
EXTENDS WebhookDelivery, TLAPS

\* What a worker's record has to do with the table: a row it has read exists,
\* its batch has each entry once, and until it claims it has the attempts of
\* the table, because whoever changes them moves nextAttemptAt on.
BatchInv ==
  \A w \in Workers :
    /\ \A c, d \in worker[w].rows : c.id = d.id => c = d
    /\ \A c \in worker[w].rows : row[c.id].status # "NONE"
    /\ worker[w].step \in {"ok", "failed"} => worker[w].current \in worker[w].rows
    /\ worker[w].step = "selected" =>
         \A c \in worker[w].rows : row[c.id].status = "GONE" \/ c = Read(c.id)

\* Only claimed entries get stale, and one that a worker still has is marked.
StaleInv ==
  /\ \A e \in stale : row[e].status = "PROCESSING"
  /\ \A w \in Workers : Holds(w) \cap stale \subseteq overtaken

IInv == TypeOK /\ BatchInv /\ StaleInv /\ HandledOnce

-----------------------------------------------------------------------------
(* Type correctness.                                                       *)

LEMMA IdleType == Idle \in WorkerRecords
BY DEF Idle, WorkerRecords, NoClaim

LEMMA WorkerType ==
  ASSUME TypeOK, NEW w \in Workers
  PROVE  /\ worker[w] \in WorkerRecords
         /\ worker[w].rows \subseteq Claimed
         /\ worker[w].current \in Claimed \cup {NoClaim}
         /\ worker[w].step \in {"idle", "selected", "deliver", "ok", "failed"}
         /\ worker[w].byMsg \in BOOLEAN
         /\ worker[w] = [step |-> worker[w].step, rows |-> worker[w].rows,
                         current |-> worker[w].current, byMsg |-> worker[w].byMsg]
BY DEF TypeOK, WorkerRecords

LEMMA RowType ==
  ASSUME TypeOK, NEW e \in Entries
  PROVE  /\ row[e] \in RowRecords
         /\ row[e].status # "GONE" => Read(e) \in Claimed
         /\ \A s \in {"PROCESSING", "FAILED", "SUCCESS"}, d \in BOOLEAN :
              row[e].status # "GONE" =>
                /\ [row[e] EXCEPT !.status = s] \in RowRecords
                /\ [row[e] EXCEPT !.due = d] \in RowRecords
                /\ [row[e] EXCEPT !.status = s, !.due = d] \in RowRecords
BY DEF TypeOK, RowRecords, Read, Claimed

\* What is left of a batch when one of its entries is done.
LEMMA GoOnType ==
  ASSUME TypeOK, NEW w \in Workers, NEW c
  PROVE  GoOn(w, c) \in WorkerRecords
BY IdleType, WorkerType DEF GoOn, WorkerRecords

LEMMA RescheduledType ==
  ASSUME TypeOK, NEW w \in Workers, NEW S
  PROVE  Rescheduled(w, S) \in WorkerRecords
BY WorkerType DEF Rescheduled, WorkerRecords

\* A selection reads rows that wait.
LEMMA SelectionRows ==
  ASSUME NEW waiting, NEW s \in Selections(waiting)
  PROVE  \E S \in SUBSET waiting :
           s = [step |-> "selected", rows |-> {Read(e) : e \in S},
                current |-> NoClaim, byMsg |-> FALSE]
BY DEF Selections, kSubset, Idle

LEMMA ThrowType ==
  ASSUME TypeOK, NEW w \in Workers, Throw(w)
  PROVE  worker' \in [Workers -> WorkerRecords] /\ msgs' \in [Entries -> Nat]
BY IdleType DEF Throw, TypeOK

LEMMA AnnounceType ==
  ASSUME TypeOK, NEW e \in Entries, Announce(e)
  PROVE  msgs' \in [Entries -> Nat]
BY DEF Announce, TypeOK

LEMMA ArchiveType ==
  ASSUME TypeOK, NEW w \in Workers, NEW c \in Claimed, NEW n \in 1..MaxAttempts,
         Archive(w, c, n)
  PROVE  TypeOK'
<1>1. [status |-> "GONE", attempts |-> n, due |-> FALSE] \in RowRecords
  BY DEF RowRecords
<1>2. c.id \in Entries
  BY DEF Claimed
<1>3. worker' \in [Workers -> WorkerRecords]
  BY GoOnType DEF Archive, TypeOK
<1>4. dead' \in [Entries -> Nat]
  BY <1>2 DEF Archive, TypeOK
<1>5. row' \in [Entries -> RowRecords]
  BY <1>1, <1>2 DEF Archive, TypeOK
<1> QED
  BY <1>3, <1>4, <1>5 DEF Archive, TypeOK

LEMMA TypeInit == Init => TypeOK
<1> SUFFICES ASSUME Init PROVE TypeOK
  OBVIOUS
<1>1. [status |-> "NONE", attempts |-> 0, due |-> FALSE] \in RowRecords
  BY LimitsAssumption DEF RowRecords
<1> QED
  BY <1>1, IdleType DEF Init, TypeOK

\* The entry a worker has posted is a real one.
CurrentIsReal == \A w \in Workers :
  worker[w].step \in {"ok", "failed"} => worker[w].current \in worker[w].rows

\* A claim that has become stale is still a claim.
StaleIsClaimed == \A e \in stale : row[e].status = "PROCESSING"

LEMMA TypeStep == TypeOK /\ CurrentIsReal /\ StaleIsClaimed /\ [Next]_vars => TypeOK'
<1> SUFFICES ASSUME TypeOK, CurrentIsReal, StaleIsClaimed, [Next]_vars PROVE TypeOK'
  OBVIOUS
<1> USE LimitsAssumption
<1>1. ASSUME NEW e \in Entries, Create(e) PROVE TypeOK'
  <2>1. NewRow \in RowRecords
    BY DEF NewRow, RowRecords
  <2> QED
    BY <1>1, <2>1, AnnounceType DEF Create, TypeOK
<1>2. ASSUME NEW e \in Entries, BackoffOver(e) PROVE TypeOK'
  <2>1. [row[e] EXCEPT !.due = TRUE] \in RowRecords
    BY <1>2, RowType DEF BackoffOver
  <2> QED
    BY <1>2, <2>1 DEF BackoffOver, TypeOK
<1>3. ASSUME NEW e \in Entries, BecomesStale(e) PROVE TypeOK'
  BY <1>3 DEF BecomesStale, TypeOK
<1>4. ASSUME NEW w \in Workers, Poll(w) PROVE TypeOK'
  <2> DEFINE waiting == {e \in Entries : Waiting(e)} \cup stale
  <2>1. \A e \in stale : [row[e] EXCEPT !.status = "FAILED", !.due = TRUE] \in RowRecords
    BY RowType DEF StaleIsClaimed, TypeOK
  <2>2. row' \in [Entries -> RowRecords]
    BY <1>4, <2>1, RowType DEF Poll
  <2>3. PICK s \in Selections(waiting) :
          worker' = [v \in Workers |-> IF v = w THEN s ELSE Rescheduled(v, stale)]
    BY <1>4 DEF Poll
  <2>4. s \in WorkerRecords
    <3>1. \A e \in waiting : e \in Entries /\ row[e].status # "GONE"
      BY DEF TypeOK, StaleIsClaimed, Waiting
    <3>2. PICK S \in SUBSET waiting :
            s = [step |-> "selected", rows |-> {Read(e) : e \in S},
                 current |-> NoClaim, byMsg |-> FALSE]
      BY <2>3, SelectionRows
    <3>3. {Read(e) : e \in S} \subseteq Claimed
      BY <3>1, RowType
    <3> QED
      BY <3>2, <3>3 DEF WorkerRecords
  <2>5. worker' \in [Workers -> WorkerRecords]
    BY <2>3, <2>4, RescheduledType
  <2> QED
    BY <1>4, <2>2, <2>5 DEF Poll, TypeOK
<1>5. ASSUME NEW w \in Workers, ClaimFails(w) PROVE TypeOK'
  BY <1>5, IdleType DEF ClaimFails, TypeOK
<1>6. ASSUME NEW w \in Workers, Claim(w) PROVE TypeOK'
  <2> DEFINE won == {c \in worker[w].rows : Waiting(c.id)}
  <2>1. [worker[w] EXCEPT !.step = "deliver", !.rows = won] \in WorkerRecords
    BY WorkerType DEF WorkerRecords
  <2>2. worker' \in [Workers -> WorkerRecords]
    BY <1>6, <2>1, IdleType DEF Claim, TypeOK
  <2>3. \A e \in Entries : Waiting(e) => [row[e] EXCEPT !.status = "PROCESSING"] \in RowRecords
    BY RowType DEF Waiting
  <2>4. row' \in [Entries -> RowRecords]
    BY <1>6, <2>3, RowType DEF Claim
  <2> QED
    BY <1>6, <2>2, <2>4 DEF Claim, TypeOK
<1>7. ASSUME NEW w \in Workers, NEW c \in worker[w].rows, Post(w, c) PROVE TypeOK'
  <2>1. \A s \in {"ok", "failed"} :
          [worker[w] EXCEPT !.step = s, !.current = c] \in WorkerRecords
    BY WorkerType DEF WorkerRecords
  <2>2. worker' \in [Workers -> WorkerRecords]
    BY <1>7, <2>1 DEF Post, TypeOK
  <2> QED
    BY <1>7, <2>2 DEF Post, TypeOK
<1>8. ASSUME NEW w \in Workers, NEW c \in worker[w].rows, NoUrl(w, c) PROVE TypeOK'
  <2>1. c \in Claimed
    BY WorkerType
  <2>2. MaxAttempts \in 1..MaxAttempts
    OBVIOUS
  <2> QED
    BY <1>8, <2>1, <2>2, ArchiveType DEF NoUrl
<1>9. ASSUME NEW w \in Workers, Succeed(w) PROVE TypeOK'
  <2>1. \A e \in Entries : Exists(e) => [row[e] EXCEPT !.status = "SUCCESS"] \in RowRecords
    BY RowType DEF Exists
  <2>2. row' \in [Entries -> RowRecords]
    BY <1>9, <2>1 DEF Succeed, TypeOK
  <2> QED
    BY <1>9, <2>2, GoOnType DEF Succeed, TypeOK
<1>10. ASSUME NEW w \in Workers, worker[w].step = "failed"
       PROVE  Current(w) \in Claimed /\ Current(w).id \in Entries
              /\ Current(w).attempts \in 0..(MaxAttempts - 1)
  BY <1>10, WorkerType DEF CurrentIsReal, Current, Claimed
<1>11. ASSUME NEW w \in Workers, LastAttempt(w) PROVE TypeOK'
  <2>1. worker[w].step = "failed" /\ Archive(w, Current(w), Current(w).attempts + 1)
    BY <1>11 DEF LastAttempt
  <2>2. Current(w).attempts + 1 \in 1..MaxAttempts
    BY <2>1, <1>10
  <2> QED
    BY <2>1, <2>2, <1>10, ArchiveType
<1>12. ASSUME NEW w \in Workers, Reschedule(w) PROVE TypeOK'
  <2>1. Retry(Current(w)) \in RowRecords
    BY <1>12, <1>10 DEF Reschedule, Retry, RowRecords
  <2>2. row' \in [Entries -> RowRecords]
    BY <1>12, <2>1 DEF Reschedule, TypeOK
  <2>3. worker' \in [Workers -> WorkerRecords]
    BY <1>12, GoOnType, RescheduledType DEF Reschedule
  <2> QED
    BY <1>12, <2>2, <2>3 DEF Reschedule, TypeOK
<1>13. ASSUME NEW w \in Workers, EntryGone(w) \/ DbError(w) \/ Crash(w) PROVE TypeOK'
  <2>1. Throw(w) /\ UNCHANGED <<row, dead, requeued, admin, stale, overtaken>>
        /\ faults' \in Nat
    BY <1>13 DEF EntryGone, DbError, Crash, TypeOK
  <2> QED
    BY <2>1, ThrowType DEF TypeOK
<1>14. ASSUME NEW w \in Workers, NEW e \in Entries, TakeMessage(w, e) PROVE TypeOK'
  <2>1. Waiting(e) => [row[e] EXCEPT !.status = "PROCESSING"] \in RowRecords
    BY RowType DEF Waiting
  <2>2. Waiting(e) =>
          [Idle EXCEPT !.step = "deliver", !.byMsg = TRUE, !.rows = {Read(e)}] \in WorkerRecords
    BY RowType DEF Waiting, Idle, WorkerRecords
  <2>3. row' \in [Entries -> RowRecords] /\ worker' \in [Workers -> WorkerRecords]
    BY <1>14, <2>1, <2>2 DEF TakeMessage, TypeOK
  <2>4. msgs' \in [Entries -> Nat]
    BY <1>14 DEF TakeMessage, TypeOK
  <2> QED
    BY <1>14, <2>3, <2>4 DEF TakeMessage, TypeOK
<1>15. ASSUME NEW a \in Admins, NEW e \in Entries, ReadDeadLetter(a, e) PROVE TypeOK'
  BY <1>15 DEF ReadDeadLetter, TypeOK
<1>16. ASSUME NEW a \in Admins, NEW n \in Entries, Requeue(a, n) PROVE TypeOK'
  <2>1. NewRow \in RowRecords
    BY DEF NewRow, RowRecords
  <2>2. admin[a] \in Entries
    BY <1>16 DEF Requeue, TypeOK
  <2> QED
    BY <1>16, <2>1, <2>2, AnnounceType DEF Requeue, TypeOK
<1>17. CASE UNCHANGED vars
  BY <1>17 DEF vars, TypeOK
<1> QED
  BY <1>1, <1>2, <1>3, <1>4, <1>5, <1>6, <1>7, <1>8, <1>9, <1>11, <1>12, <1>13,
     <1>14, <1>15, <1>16, <1>17 DEF Next, Deliver

-----------------------------------------------------------------------------
(* The steps that take up no entry: workers go on with fewer rows, and an  *)
(* entry changes only where no worker counts on it.                        *)

NoneTakenUp ==
  /\ \A v \in Workers :
       /\ worker'[v].rows \subseteq worker[v].rows
       /\ worker'[v].step = "selected" => worker[v].step = "selected"
       /\ worker[v].step = "selected" => worker'[v].step = "selected" \/ worker'[v].rows = {}
       /\ worker'[v].step \in {"ok", "failed"} => worker'[v].current \in worker'[v].rows
  /\ overtaken \subseteq overtaken'

RowsKept ==
  /\ \A e \in Entries : row[e].status # "NONE" => row'[e].status # "NONE"
  /\ \A v \in Workers : \A c \in worker'[v].rows :
       /\ worker'[v].step = "selected" =>
            \/ row'[c.id].status = "GONE"
            \/ row[c.id].status # "GONE" /\ row'[c.id].attempts = row[c.id].attempts
       /\ worker'[v].step # "selected" /\ c.id \notin overtaken' =>
            /\ row'[c.id].status = row[c.id].status
            /\ row'[c.id].attempts = row[c.id].attempts

StaleKept ==
  \A e \in stale' :
    /\ row'[e].status = "PROCESSING"
    /\ e \in stale \/ \A v \in Workers : e \in Holds(v) => e \in overtaken'

GraveKept ==
  \A e \in Entries : dead'[e] = IF row'[e].status = "GONE" THEN 1 ELSE 0

LEMMA HoldsIds ==
  ASSUME NEW v \in Workers, NEW e
  PROVE  e \in Holds(v) <=>
           worker[v].step # "selected" /\ \E c \in worker[v].rows : c.id = e
BY DEF Holds, IdsOf

LEMMA HoldsIdsNext ==
  ASSUME NEW v \in Workers, NEW e
  PROVE  e \in Holds(v)' <=>
           worker'[v].step # "selected" /\ \E c \in worker'[v].rows : c.id = e
BY DEF Holds, IdsOf

LEMMA ClaimedIds ==
  ASSUME TypeOK, NEW v \in Workers, NEW c \in worker[v].rows
  PROVE  c.id \in Entries /\ (c = Read(c.id) <=> c.attempts = row[c.id].attempts)
<1>1. c \in Claimed
  BY WorkerType
<1>2. c.id \in Entries /\ c = [id |-> c.id, attempts |-> c.attempts]
  BY <1>1 DEF Claimed
<1> QED
  BY <1>2 DEF Read

LEMMA ReadNext ==
  ASSUME TypeOK, NEW c \in Claimed
  PROVE  (c = Read(c.id))' <=> c.attempts = row'[c.id].attempts
BY DEF Claimed, Read

LEMMA GoOnEffect ==
  ASSUME TypeOK, NEW w \in Workers, NEW c
  PROVE  GoOn(w, c).rows = worker[w].rows \ {c} /\ GoOn(w, c).step \in {"idle", "deliver"}
BY WorkerType DEF GoOn, Idle

LEMMA RescheduledEffect ==
  ASSUME TypeOK, NEW v \in Workers, NEW S
  PROVE  /\ Rescheduled(v, S).step = worker[v].step
         /\ Rescheduled(v, S).current = worker[v].current
         /\ Rescheduled(v, S).rows \subseteq worker[v].rows
         /\ worker[v].step = "selected" => \A c \in Rescheduled(v, S).rows : c.id \notin S
         /\ worker[v].step # "selected" => Rescheduled(v, S).rows = worker[v].rows
BY WorkerType DEF Rescheduled

LEMMA NoneTakenUpKeeps ==
  ASSUME IInv, TypeOK', NoneTakenUp, RowsKept, StaleKept, GraveKept
  PROVE  IInv'
<1>1. \A v \in Workers : \A c \in worker'[v].rows :
        c \in worker[v].rows /\ c \in Claimed /\ c.id \in Entries
  BY WorkerType, ClaimedIds DEF IInv, NoneTakenUp
<1>2. BatchInv'
  <2> SUFFICES ASSUME NEW w \in Workers
               PROVE  (/\ \A c, d \in worker[w].rows : c.id = d.id => c = d
                       /\ \A c \in worker[w].rows : row[c.id].status # "NONE"
                       /\ worker[w].step \in {"ok", "failed"} =>
                            worker[w].current \in worker[w].rows
                       /\ worker[w].step = "selected" =>
                            \A c \in worker[w].rows :
                              row[c.id].status = "GONE" \/ c = Read(c.id))'
    BY DEF BatchInv
  <2>1. \A c, d \in worker'[w].rows : c.id = d.id => c = d
    BY <1>1 DEF IInv, BatchInv
  <2>2. \A c \in worker'[w].rows : row'[c.id].status # "NONE"
    BY <1>1 DEF IInv, BatchInv, RowsKept
  <2>3. worker'[w].step \in {"ok", "failed"} => worker'[w].current \in worker'[w].rows
    BY DEF NoneTakenUp
  <2>4. ASSUME worker'[w].step = "selected", NEW c \in worker'[w].rows
        PROVE  row'[c.id].status = "GONE" \/ c.attempts = row'[c.id].attempts
    BY <2>4, <1>1, ClaimedIds DEF IInv, BatchInv, RowsKept, NoneTakenUp
  <2> QED
    BY <2>1, <2>2, <2>3, <2>4, <1>1, ReadNext DEF IInv
<1>3. \A v \in Workers : \A e : e \in Holds(v)' => e \in Holds(v)
  BY <1>1, HoldsIds, HoldsIdsNext DEF NoneTakenUp
<1>4. StaleInv'
  BY <1>3 DEF IInv, StaleInv, StaleKept, NoneTakenUp
<1>5. ClaimsExclusive'
  <2>1. \A w \in Workers : \A v \in Workers \ {w} : (Holds(v) \cap Holds(w) \subseteq overtaken)'
    BY <1>3 DEF IInv, HandledOnce, ClaimsExclusive, NoneTakenUp
  <2>2. ASSUME NEW w \in Workers, NEW c \in worker'[w].rows,
               c.id \in Holds(w)', c.id \notin overtaken'
        PROVE  row'[c.id].status = "PROCESSING" /\ c.attempts = row'[c.id].attempts
    <3>1. c.id \in Holds(w) /\ c.id \notin overtaken /\ worker'[w].step # "selected"
      BY <2>2, <1>3, HoldsIdsNext DEF NoneTakenUp
    <3>2. row[c.id].status = "PROCESSING" /\ c.attempts = row[c.id].attempts
      BY <3>1, <1>1, ClaimedIds DEF IInv, HandledOnce, ClaimsExclusive
    <3> QED
      BY <2>2, <3>1, <3>2 DEF RowsKept
  <2> QED
    BY <2>1, <2>2, <1>1, ReadNext DEF IInv, ClaimsExclusive
<1>6. ArchivedOnce'
  BY DEF GraveKept, ArchivedOnce
<1> QED
  BY <1>2, <1>4, <1>5, <1>6 DEF IInv, HandledOnce

Kept == NoneTakenUp /\ RowsKept /\ StaleKept /\ GraveKept

\* Everything but Poll, Claim and TakeMessage.
LEMMA KeptByOthers ==
  ASSUME IInv
  PROVE  /\ \A e \in Entries : Create(e) \/ BackoffOver(e) \/ BecomesStale(e) => Kept
         /\ \A w \in Workers :
              /\ \A c \in worker[w].rows : Post(w, c) \/ NoUrl(w, c) => Kept
              /\ ClaimFails(w) \/ Succeed(w) \/ LastAttempt(w) \/ Reschedule(w) => Kept
              /\ EntryGone(w) \/ DbError(w) \/ Crash(w) => Kept
         /\ \A a \in Admins, e \in Entries : ReadDeadLetter(a, e) \/ Requeue(a, e) => Kept
<1>1. ASSUME NEW e \in Entries, Create(e) PROVE Kept
  <2>1. NoneTakenUp
    BY <1>1 DEF NoneTakenUp, IInv, BatchInv, Create
  <2>2. RowsKept
    BY <1>1 DEF RowsKept, IInv, BatchInv, Create
  <2>3. StaleKept
    BY <1>1 DEF StaleKept, IInv, StaleInv, Create
  <2>4. GraveKept
    BY <1>1 DEF GraveKept, IInv, HandledOnce, ArchivedOnce, Create, NewRow
  <2> QED
    BY <2>1, <2>2, <2>3, <2>4 DEF Kept
<1>2. ASSUME NEW e \in Entries, BackoffOver(e) PROVE Kept
  <2>1. NoneTakenUp
    BY <1>2 DEF NoneTakenUp, IInv, BatchInv, BackoffOver
  <2>2. RowsKept
    BY <1>2 DEF RowsKept, BackoffOver
  <2>3. StaleKept
    BY <1>2 DEF StaleKept, IInv, StaleInv, BackoffOver
  <2>4. GraveKept
    BY <1>2 DEF GraveKept, IInv, HandledOnce, ArchivedOnce, BackoffOver
  <2> QED
    BY <2>1, <2>2, <2>3, <2>4 DEF Kept
<1>3. ASSUME NEW e \in Entries, BecomesStale(e) PROVE Kept
  <2>1. NoneTakenUp
    BY <1>3 DEF NoneTakenUp, IInv, BatchInv, BecomesStale
  <2>2. RowsKept
    BY <1>3 DEF RowsKept, BecomesStale
  <2>3. StaleKept
    BY <1>3 DEF StaleKept, IInv, StaleInv, BecomesStale
  <2>4. GraveKept
    BY <1>3 DEF GraveKept, IInv, HandledOnce, ArchivedOnce, BecomesStale
  <2> QED
    BY <2>1, <2>2, <2>3, <2>4 DEF Kept
<1>4. ASSUME NEW w \in Workers, ClaimFails(w) PROVE Kept
  <2>1. NoneTakenUp
    BY <1>4 DEF NoneTakenUp, IInv, BatchInv, ClaimFails, Idle
  <2>2. RowsKept
    BY <1>4 DEF RowsKept, ClaimFails
  <2>3. StaleKept
    BY <1>4 DEF StaleKept, IInv, StaleInv, ClaimFails
  <2>4. GraveKept
    BY <1>4 DEF GraveKept, IInv, HandledOnce, ArchivedOnce, ClaimFails
  <2> QED
    BY <2>1, <2>2, <2>3, <2>4 DEF Kept
<1>5. ASSUME NEW w \in Workers, NEW c \in worker[w].rows, Post(w, c) PROVE Kept
  <2>1. NoneTakenUp
    BY <1>5 DEF NoneTakenUp, IInv, BatchInv, TypeOK, Post
  <2>2. RowsKept
    BY <1>5 DEF RowsKept, Post
  <2>3. StaleKept
    BY <1>5 DEF StaleKept, IInv, StaleInv, Post
  <2>4. GraveKept
    BY <1>5 DEF GraveKept, IInv, HandledOnce, ArchivedOnce, Post
  <2> QED
    BY <2>1, <2>2, <2>3, <2>4 DEF Kept
<1>6. ASSUME NEW w \in Workers, NEW c \in worker[w].rows, NoUrl(w, c) PROVE Kept
  <2>1. NoneTakenUp
    BY <1>6, GoOnEffect DEF NoneTakenUp, IInv, BatchInv, NoUrl, Archive
  <2>2. RowsKept
    BY <1>6, HoldsIds, GoOnEffect
       DEF RowsKept, IInv, HandledOnce, ClaimsExclusive, TypeOK, NoUrl, Archive
  <2>3. StaleKept
    BY <1>6 DEF StaleKept, IInv, StaleInv, NoUrl, Archive
  <2>4. GraveKept
    BY <1>6
       DEF GraveKept, IInv, HandledOnce, ArchivedOnce, TypeOK, NoUrl, Archive,
           Exists
  <2> QED
    BY <2>1, <2>2, <2>3, <2>4 DEF Kept
<1>7. ASSUME NEW w \in Workers, Succeed(w) PROVE Kept
  <2>1. NoneTakenUp
    BY <1>7, GoOnEffect DEF NoneTakenUp, IInv, BatchInv, Succeed
  <2>2. RowsKept
    BY <1>7, HoldsIds, GoOnEffect
       DEF RowsKept, IInv, BatchInv, HandledOnce, ClaimsExclusive, TypeOK,
           Succeed, Exists, Current
  <2>3. StaleKept
    BY <1>7 DEF StaleKept, IInv, StaleInv, Succeed
  <2>4. GraveKept
    BY <1>7 DEF GraveKept, IInv, HandledOnce, ArchivedOnce, Succeed, Exists
  <2> QED
    BY <2>1, <2>2, <2>3, <2>4 DEF Kept
<1>8. ASSUME NEW w \in Workers, LastAttempt(w) PROVE Kept
  <2>1. NoneTakenUp
    BY <1>8, GoOnEffect DEF NoneTakenUp, IInv, BatchInv, LastAttempt, Archive
  <2>2. RowsKept
    BY <1>8, HoldsIds, GoOnEffect
       DEF RowsKept, IInv, BatchInv, HandledOnce, ClaimsExclusive, TypeOK,
           LastAttempt, Archive, Current
  <2>3. StaleKept
    BY <1>8 DEF StaleKept, IInv, StaleInv, LastAttempt, Archive
  <2>4. GraveKept
    BY <1>8
       DEF GraveKept, IInv, HandledOnce, ArchivedOnce, TypeOK, LastAttempt,
           Archive, Exists
  <2> QED
    BY <2>1, <2>2, <2>3, <2>4 DEF Kept
<1>9. ASSUME NEW w \in Workers, Reschedule(w) PROVE Kept
  <2>1. NoneTakenUp
    BY <1>9, GoOnEffect, RescheduledEffect DEF NoneTakenUp, IInv, BatchInv, Reschedule
  <2>2. RowsKept
    BY <1>9, HoldsIds, GoOnEffect, RescheduledEffect
       DEF RowsKept, IInv, BatchInv, HandledOnce, ClaimsExclusive, Reschedule,
           Retry, Current
  <2>3. StaleKept
    BY <1>9 DEF StaleKept, IInv, StaleInv, Reschedule
  <2>4. GraveKept
    BY <1>9 DEF GraveKept, IInv, HandledOnce, ArchivedOnce, Reschedule, Retry, Exists
  <2> QED
    BY <2>1, <2>2, <2>3, <2>4 DEF Kept
<1>10. ASSUME NEW w \in Workers, EntryGone(w) \/ DbError(w) \/ Crash(w) PROVE Kept
  <2>1. NoneTakenUp
    BY <1>10
       DEF NoneTakenUp, IInv, BatchInv, TypeOK, EntryGone, DbError, Crash,
           Throw, Idle
  <2>2. RowsKept
    BY <1>10 DEF RowsKept, EntryGone, DbError, Crash
  <2>3. StaleKept
    BY <1>10 DEF StaleKept, IInv, StaleInv, EntryGone, DbError, Crash
  <2>4. GraveKept
    BY <1>10 DEF GraveKept, IInv, HandledOnce, ArchivedOnce, EntryGone, DbError, Crash
  <2> QED
    BY <2>1, <2>2, <2>3, <2>4 DEF Kept
<1>11. ASSUME NEW a \in Admins, NEW e \in Entries, ReadDeadLetter(a, e) PROVE Kept
  <2>1. NoneTakenUp
    BY <1>11 DEF NoneTakenUp, IInv, BatchInv, ReadDeadLetter
  <2>2. RowsKept
    BY <1>11 DEF RowsKept, ReadDeadLetter
  <2>3. StaleKept
    BY <1>11 DEF StaleKept, IInv, StaleInv, ReadDeadLetter
  <2>4. GraveKept
    BY <1>11 DEF GraveKept, IInv, HandledOnce, ArchivedOnce, ReadDeadLetter
  <2> QED
    BY <2>1, <2>2, <2>3, <2>4 DEF Kept
<1>12. ASSUME NEW a \in Admins, NEW n \in Entries, Requeue(a, n) PROVE Kept
  <2>1. NoneTakenUp
    BY <1>12 DEF NoneTakenUp, IInv, BatchInv, Requeue
  <2>2. RowsKept
    BY <1>12 DEF RowsKept, IInv, BatchInv, Requeue
  <2>3. StaleKept
    BY <1>12 DEF StaleKept, IInv, StaleInv, Requeue
  <2>4. GraveKept
    BY <1>12 DEF GraveKept, IInv, HandledOnce, ArchivedOnce, Requeue, NewRow
  <2> QED
    BY <2>1, <2>2, <2>3, <2>4 DEF Kept
<1> QED
  BY <1>1, <1>2, <1>3, <1>4, <1>5, <1>6, <1>7, <1>8, <1>9, <1>10, <1>11, <1>12

\* A worker that takes up entries: they are new to it, and if it has claimed
\* them nobody else has them.
TakenUp(w) ==
  /\ worker'[w].step \in {"selected", "deliver"}
  /\ \A c, d \in worker'[w].rows : c.id = d.id => c = d
  /\ \A c \in worker'[w].rows :
       /\ c.id \in Entries
       /\ row[c.id].status # "NONE"
       /\ c.attempts = row'[c.id].attempts
       /\ worker'[w].step = "deliver" =>
            /\ row'[c.id].status = "PROCESSING"
            /\ row[c.id].status # "PROCESSING"
  /\ \A v \in Workers \ {w} :
       /\ worker'[v].step = worker[v].step
       /\ worker'[v].current = worker[v].current
       /\ worker'[v].rows \subseteq worker[v].rows
       /\ worker[v].step # "selected" => worker'[v].rows = worker[v].rows
  /\ UNCHANGED overtaken

TableKept ==
  /\ \A e \in Entries :
       /\ (row'[e].status = "NONE") = (row[e].status = "NONE")
       /\ (row'[e].status = "GONE") = (row[e].status = "GONE")
       /\ row'[e].attempts = row[e].attempts
       /\ row[e].status = "PROCESSING" /\ e \notin stale => row'[e].status = "PROCESSING"
  /\ stale' \subseteq stale
  /\ \A e \in stale' : row'[e].status = "PROCESSING"
  /\ UNCHANGED dead

LEMMA TakenUpKeeps ==
  ASSUME IInv, TypeOK', NEW w \in Workers, TakenUp(w), TableKept
  PROVE  IInv'
<1>1. \A v \in Workers : \A c \in worker'[v].rows :
        c \in Claimed /\ c.id \in Entries
  BY WorkerType DEF TypeOK, WorkerRecords, Claimed
<1>2. \A v \in Workers \ {w} : \A c \in worker'[v].rows : c \in worker[v].rows
  BY DEF TakenUp
<1>3. BatchInv'
  <2> SUFFICES ASSUME NEW v \in Workers
               PROVE  (/\ \A c, d \in worker[v].rows : c.id = d.id => c = d
                       /\ \A c \in worker[v].rows : row[c.id].status # "NONE"
                       /\ worker[v].step \in {"ok", "failed"} =>
                            worker[v].current \in worker[v].rows
                       /\ worker[v].step = "selected" =>
                            \A c \in worker[v].rows :
                              row[c.id].status = "GONE" \/ c = Read(c.id))'
    BY DEF BatchInv
  <2>1. \A c, d \in worker'[v].rows : c.id = d.id => c = d
    BY <1>2 DEF IInv, BatchInv, TakenUp
  <2>2. \A c \in worker'[v].rows : row'[c.id].status # "NONE"
    BY <1>1, <1>2 DEF IInv, BatchInv, TakenUp, TableKept
  <2>3. worker'[v].step \in {"ok", "failed"} => worker'[v].current \in worker'[v].rows
    BY DEF IInv, BatchInv, TakenUp
  <2>4. ASSUME worker'[v].step = "selected", NEW c \in worker'[v].rows
        PROVE  row'[c.id].status = "GONE" \/ c.attempts = row'[c.id].attempts
    <3>1. CASE v = w
      BY <3>1 DEF TakenUp
    <3>2. CASE v # w
      BY <2>4, <3>2, <1>1, <1>2, ClaimedIds DEF IInv, BatchInv, TakenUp, TableKept
    <3> QED
      BY <3>1, <3>2
  <2> QED
    BY <2>1, <2>2, <2>3, <2>4, <1>1, ReadNext DEF IInv
<1>4. \A v \in Workers \ {w} : \A e : e \in Holds(v)' <=> e \in Holds(v)
  BY HoldsIds, HoldsIdsNext DEF TakenUp
<1>5. \A e \in Holds(w)' : e \in Entries /\ row[e].status # "PROCESSING"
  BY HoldsIdsNext DEF TakenUp
<1>6. \A v \in Workers : \A e \in Holds(v) : row[e].status = "PROCESSING" \/ e \in overtaken
  BY HoldsIds DEF IInv, HandledOnce, ClaimsExclusive
<1>7. StaleInv'
  <2>1. \A e \in stale' : e \notin Holds(w)'
    BY <1>5 DEF IInv, StaleInv, TableKept
  <2> QED
    BY <2>1, <1>4 DEF IInv, StaleInv, TableKept, TakenUp
<1>8. ClaimsExclusive'
  <2>1. \A v, u \in Workers : v # u => (Holds(v) \cap Holds(u) \subseteq overtaken)'
    BY <1>4, <1>5, <1>6 DEF IInv, HandledOnce, ClaimsExclusive, TakenUp
  <2>2. ASSUME NEW v \in Workers, NEW c \in worker'[v].rows,
               c.id \in Holds(v)', c.id \notin overtaken'
        PROVE  row'[c.id].status = "PROCESSING" /\ c.attempts = row'[c.id].attempts
    <3>1. CASE v = w
      BY <2>2, <3>1, HoldsIdsNext DEF TakenUp
    <3>2. CASE v # w
      <4>1. c \in worker[v].rows /\ c.id \in Holds(v) /\ c.id \notin overtaken
        BY <2>2, <3>2, <1>2, <1>4 DEF TakenUp
      <4>2. row[c.id].status = "PROCESSING" /\ c.attempts = row[c.id].attempts
        BY <4>1, ClaimedIds DEF IInv, HandledOnce, ClaimsExclusive
      <4>3. c.id \notin stale
        BY <4>1 DEF IInv, StaleInv
      <4> QED
        BY <4>2, <4>3, <1>1 DEF TableKept
    <3> QED
      BY <3>1, <3>2
  <2> QED
    BY <2>1, <2>2, <1>1, ReadNext DEF IInv, ClaimsExclusive
<1>9. ArchivedOnce'
  BY DEF IInv, HandledOnce, ArchivedOnce, TableKept
<1> QED
  BY <1>3, <1>7, <1>8, <1>9 DEF IInv, HandledOnce

LEMMA TakeSteps ==
  ASSUME IInv, TypeOK', NEW w \in Workers
  PROVE  /\ Poll(w) => IInv'
         /\ Claim(w) => IInv'
         /\ \A e \in Entries : TakeMessage(w, e) => IInv'
<1>1. ASSUME Poll(w) PROVE IInv'
  <2> DEFINE waiting == {e \in Entries : Waiting(e)} \cup stale
  <2>1. PICK s \in Selections(waiting) :
          worker' = [v \in Workers |-> IF v = w THEN s ELSE Rescheduled(v, stale)]
    BY <1>1 DEF Poll
  <2>2. PICK S \in SUBSET waiting :
          s = [step |-> "selected", rows |-> {Read(e) : e \in S},
               current |-> NoClaim, byMsg |-> FALSE]
    BY <2>1, SelectionRows
  <2>3. TableKept
    <3>1. \A e \in Entries :
            row'[e] = IF e \in stale THEN [row[e] EXCEPT !.status = "FAILED", !.due = TRUE]
                                    ELSE row[e]
      BY <1>1 DEF Poll
    <3>2. \A e \in Entries \cap stale :
            /\ row'[e].status = "FAILED" /\ row'[e].attempts = row[e].attempts
            /\ row[e].status = "PROCESSING"
      BY <3>1 DEF IInv, StaleInv, TypeOK, RowRecords
    <3>3. \A e \in Entries \ stale : row'[e] = row[e]
      BY <3>1
    <3>4. stale' = {} /\ UNCHANGED dead
      BY <1>1 DEF Poll
    <3> QED
      BY <3>2, <3>3, <3>4 DEF TableKept
  <2>4. TakenUp(w)
    <3>1. /\ worker'[w].step = "selected"
          /\ worker'[w].rows = {Read(e) : e \in S}
      BY <2>1, <2>2
    <3>2. \A e \in S : e \in Entries /\ row[e].status # "NONE"
      BY DEF Waiting, IInv, StaleInv, TypeOK
    <3>3. \A c \in worker'[w].rows :
            c.id \in S /\ c.attempts = row[c.id].attempts /\ c = Read(c.id)
      BY <3>1 DEF Read
    <3>4. \A v \in Workers \ {w} : worker'[v] = Rescheduled(v, stale)
      BY <2>1
    <3>5. \A v \in Workers \ {w} :
            /\ worker'[v].step = worker[v].step
            /\ worker'[v].current = worker[v].current
            /\ worker'[v].rows \subseteq worker[v].rows
            /\ worker[v].step # "selected" => worker'[v].rows = worker[v].rows
      BY <3>4, RescheduledEffect DEF IInv
    <3>6. \A c \in worker'[w].rows :
            /\ c.id \in Entries /\ row[c.id].status # "NONE"
            /\ c.attempts = row'[c.id].attempts
      BY <2>3, <3>2, <3>3 DEF TableKept
    <3>7. \A c, d \in worker'[w].rows : c.id = d.id => c = d
      BY <3>3
    <3>8. UNCHANGED overtaken
      BY <1>1 DEF Poll
    <3> QED
      BY <3>1, <3>5, <3>6, <3>7, <3>8 DEF TakenUp
  <2> QED
    BY <2>3, <2>4, TakenUpKeeps
<1>2. ASSUME Claim(w) PROVE IInv'
  <2> DEFINE won == {c \in worker[w].rows : Waiting(c.id)}
             ids == {c.id : c \in won}
  <2>1. \A c \in worker[w].rows : c \in Claimed /\ c.id \in Entries
    BY ClaimedIds, WorkerType DEF IInv
  <2>2. /\ \A e \in Entries \ ids : row'[e] = row[e]
        /\ \A e \in ids : /\ row'[e].status = "PROCESSING"
                          /\ row'[e].attempts = row[e].attempts
                          /\ Waiting(e) /\ e \in Entries
    BY <1>2, <2>1 DEF Claim, IInv, TypeOK, RowRecords
  <2>3. TableKept
    BY <1>2, <2>2 DEF Claim, TableKept, Waiting, IInv, StaleInv, TypeOK
  <2>4. /\ worker'[w].rows = won
        /\ worker'[w].step = IF won = {} THEN "idle" ELSE "deliver"
        /\ \A v \in Workers \ {w} : worker'[v] = worker[v]
    BY <1>2, WorkerType DEF Claim, Idle, IInv, TypeOK
  <2>5. CASE won = {}
    <3>1. NoneTakenUp /\ RowsKept /\ StaleKept /\ GraveKept
      BY <1>2, <2>2, <2>4, <2>5, SMTT(40) DEF Claim, NoneTakenUp, RowsKept, StaleKept,
         GraveKept, IInv, BatchInv, StaleInv, HandledOnce, ArchivedOnce, TypeOK
    <3> QED
      BY <3>1, NoneTakenUpKeeps
  <2>6. CASE won # {}
    <3>1. \A c \in won : c.attempts = row[c.id].attempts
      BY <1>2, <2>1, ClaimedIds DEF Claim, Waiting, IInv, BatchInv
    <3>2. TakenUp(w)
      <4>1. \A c, d \in won : c.id = d.id => c = d
        BY DEF IInv, BatchInv
      <4>2. \A c \in won : /\ c.id \in Entries /\ row[c.id].status # "NONE"
                            /\ c.attempts = row'[c.id].attempts
                            /\ row'[c.id].status = "PROCESSING"
                            /\ row[c.id].status # "PROCESSING"
        BY <2>1, <2>2, <3>1 DEF Waiting
      <4>3. UNCHANGED overtaken
        BY <1>2 DEF Claim
      <4> HIDE DEF won, ids
      <4>4. QED BY <2>4, <2>6, <4>1, <4>2, <4>3 DEF TakenUp
    <3> QED
      BY <2>3, <3>2, TakenUpKeeps
  <2> QED
    BY <2>5, <2>6
<1>3. ASSUME NEW e \in Entries, TakeMessage(w, e) PROVE IInv'
  <2> DEFINE x == [Idle EXCEPT !.step = "deliver", !.byMsg = TRUE, !.rows = {Read(e)}]
  <2>1. CASE ~Waiting(e)
    <3>1. UNCHANGED <<row, dead, worker, stale, overtaken>>
      BY <1>3, <2>1 DEF TakeMessage
    <3> QED
      BY <3>1 DEF IInv, BatchInv, StaleInv, HandledOnce, ArchivedOnce, ClaimsExclusive,
         Holds, IdsOf, Read
  <2>2. CASE Waiting(e)
    <3>1. /\ row' = [row EXCEPT ![e].status = "PROCESSING"]
          /\ worker' = [worker EXCEPT ![w] = x]
          /\ UNCHANGED <<dead, stale, overtaken>>
      BY <1>3, <2>2 DEF TakeMessage
    <3>2. /\ row'[e].status = "PROCESSING" /\ row'[e].attempts = row[e].attempts
          /\ \A f \in Entries \ {e} : row'[f] = row[f]
      BY <3>1 DEF IInv, TypeOK, RowRecords
    <3>3. /\ worker'[w].step = "deliver" /\ worker'[w].rows = {Read(e)}
          /\ \A v \in Workers \ {w} : worker'[v] = worker[v]
          /\ Read(e).id = e /\ Read(e).attempts = row[e].attempts
      BY <3>1 DEF IInv, TypeOK, Idle, Read
    <3>4. e \notin stale /\ row[e].status \in {"PENDING", "FAILED"}
      BY <2>2 DEF Waiting, IInv, StaleInv
    <3>5. TableKept
      BY <3>1, <3>2, <3>4 DEF TableKept, IInv, StaleInv, TypeOK
    <3>6. TakenUp(w)
      BY <3>1, <3>2, <3>3, <3>4 DEF TakenUp
    <3> QED
      BY <3>5, <3>6, TakenUpKeeps
  <2> QED
    BY <2>1, <2>2
<1> QED
  BY <1>1, <1>2, <1>3

-----------------------------------------------------------------------------
(* The theorems.                                                           *)

LEMMA InvInit == Init => IInv
<1> SUFFICES ASSUME Init PROVE IInv
  OBVIOUS
<1>1. TypeOK
  BY TypeInit
<1>2. BatchInv /\ StaleInv
  BY DEF Init, BatchInv, StaleInv, Idle
<1>3. HandledOnce
  BY DEF Init, HandledOnce, ArchivedOnce, ClaimsExclusive, Holds, IdsOf, Idle
<1> QED
  BY <1>1, <1>2, <1>3 DEF IInv

LEMMA InvStep == IInv /\ [Next]_vars => IInv'
<1> SUFFICES ASSUME IInv, [Next]_vars PROVE IInv'
  OBVIOUS
<1>1. TypeOK'
  BY TypeStep DEF IInv, BatchInv, StaleInv, CurrentIsReal, StaleIsClaimed
<1>2. Kept => IInv'
  BY <1>1, NoneTakenUpKeeps DEF Kept
<1>3. CASE Next
  BY <1>1, <1>2, <1>3, KeptByOthers, TakeSteps DEF Next, Deliver
<1>4. CASE UNCHANGED vars
  BY <1>1, <1>4 DEF vars, IInv, BatchInv, StaleInv, HandledOnce, ArchivedOnce,
     ClaimsExclusive, Holds, IdsOf, Read
<1> QED
  BY <1>3, <1>4

\* Rows keep their types, and the last attempt is counted in a dead letter only.
THEOREM OutboxTypes == Spec => []TypeOK
<1>1. IInv => TypeOK
  BY DEF IInv
<1> QED
  BY <1>1, InvInit, InvStep, PTL DEF Spec

\* deliverOne and its claims: an entry is archived exactly once, and one worker
\* at a time has it, with the attempts of its row.
THEOREM EntriesAreHandledOnce == Spec => []HandledOnce
<1>1. IInv => HandledOnce
  BY DEF IInv
<1> QED
  BY <1>1, InvInit, InvStep, PTL DEF Spec

SuccessKept ==
  \A e \in Entries \ overtaken' :
    row[e].status = "SUCCESS" => row'[e].status = "SUCCESS"

\* An entry that is held and not overtaken is PROCESSING, so nothing else is
\* written over but by the one who claims it, which asks for the status.
LEMMA SuccessStep == IInv /\ [Next]_vars => SuccessKept
<1> SUFFICES ASSUME IInv, [Next]_vars PROVE SuccessKept
  OBVIOUS
<1>1. ASSUME NEW w \in Workers, worker[w].step # "selected", NEW c \in worker[w].rows,
             overtaken' = overtaken
      PROVE  c.id \notin overtaken' => row[c.id].status = "PROCESSING"
  BY <1>1, HoldsIds DEF IInv, HandledOnce, ClaimsExclusive
<1>2. ASSUME NEW e \in Entries, Create(e) \/ BackoffOver(e) \/ BecomesStale(e) PROVE SuccessKept
  BY <1>2 DEF SuccessKept, Create, BackoffOver, BecomesStale, IInv, TypeOK
<1>3. ASSUME NEW w \in Workers, Poll(w) PROVE SuccessKept
  BY <1>3 DEF SuccessKept, Poll, IInv, StaleInv
<1>4. ASSUME NEW w \in Workers, Claim(w) PROVE SuccessKept
  BY <1>4 DEF SuccessKept, Claim, Waiting
<1>5. ASSUME NEW w \in Workers, NEW c \in worker[w].rows, Post(w, c) \/ NoUrl(w, c)
      PROVE  SuccessKept
  BY <1>1, <1>5 DEF SuccessKept, Post, NoUrl, Archive, IInv, TypeOK
<1>6. ASSUME NEW w \in Workers, Succeed(w) PROVE SuccessKept
  BY <1>6 DEF SuccessKept, Succeed, IInv, TypeOK
<1>7. ASSUME NEW w \in Workers, LastAttempt(w) \/ Reschedule(w) PROVE SuccessKept
  <2>1. worker[w].step = "failed" /\ Current(w) \in worker[w].rows
    BY <1>7 DEF LastAttempt, Reschedule, IInv, BatchInv, Current
  <2> QED
    BY <1>1, <1>7, <2>1 DEF SuccessKept, LastAttempt, Archive, Reschedule, IInv, TypeOK
<1>8. ASSUME NEW w \in Workers, ClaimFails(w) \/ EntryGone(w) \/ DbError(w) \/ Crash(w)
      PROVE  SuccessKept
  BY <1>8 DEF SuccessKept, ClaimFails, EntryGone, DbError, Crash
<1>9. ASSUME NEW w \in Workers, NEW e \in Entries, TakeMessage(w, e) PROVE SuccessKept
  BY <1>9 DEF SuccessKept, TakeMessage, Waiting, IInv, TypeOK
<1>10. ASSUME NEW a \in Admins, NEW e \in Entries, ReadDeadLetter(a, e) \/ Requeue(a, e)
       PROVE  SuccessKept
  BY <1>10 DEF SuccessKept, ReadDeadLetter, Requeue, IInv, TypeOK
<1>11. CASE UNCHANGED vars
  BY <1>11 DEF vars, SuccessKept
<1> QED
  BY <1>2, <1>3, <1>4, <1>5, <1>6, <1>7, <1>8, <1>9, <1>10, <1>11 DEF Next, Deliver

\* deliverOne: what was delivered and had no worker held up with it stays so.
THEOREM DeliveredIsFinal == Spec => SuccessIsFinal
<1>1. IInv /\ [Next]_vars =>
        [\A e \in Entries \ overtaken' :
           row[e].status = "SUCCESS" => row'[e].status = "SUCCESS"]_vars
  BY SuccessStep DEF SuccessKept
<1> QED
  BY <1>1, InvInit, InvStep, PTL DEF Spec, SuccessIsFinal
=============================================================================
