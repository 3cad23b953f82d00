------------------------------ MODULE Deposit ------------------------------
(***************************************************************************)
(* Payment notifications from outside: the PSP's deposit webhook and the   *)
(* ITN of Autopay. Both guard the credit with a key in Redis and with the  *)
(* unique reference dep:{ref} in the ledger, and take the key at different *)
(* moments.                                                                *)
(*                                                                         *)
(* The provider repeats, delays and reorders its notifications.            *)
(***************************************************************************)
EXTENDS Naturals, FiniteSets

CONSTANTS
  Payments,  \* remote ids of payments
  Route,     \* the endpoint that hears of each payment: "psp" or "itn"
  Handlers,  \* notifications that can be handled at the same time
  NoJob      \* no notification in hand

RouteAssumption == Route \in [Payments -> {"psp", "itn"}]

Statuses == {"PENDING", "SUCCESS", "FAILURE"}
Jobs == [payment : Payments, status : Statuses, step : {"key", "deposit", "clean"}]

NoJobAssumption == NoJob \notin Jobs

VARIABLES
  reached,   \* the statuses each payment has had: each can still be notified
  key,       \* payments whose key is in Redis
  credited,  \* DEPOSIT rows of each payment, each with its credit
  job,       \* the notification each handler works on
  acked,     \* payments whose SUCCESS was answered as taken
  failed     \* history: payments with a deposit that failed or a lost call

vars == <<reached, key, credited, job, acked, failed>>

Init ==
  /\ reached = [p \in Payments |-> {}]
  /\ key = {}
  /\ credited = [p \in Payments |-> 0]
  /\ job = [h \in Handlers |-> NoJob]
  /\ acked = {}
  /\ failed = {}

At(h, step) == job[h] # NoJob /\ job[h].step = step
Done(h) == job' = [job EXCEPT ![h] = NoJob]
Goto(h, step) == job' = [job EXCEPT ![h].step = step]

\* The payment at the provider: it may be pending for a while, then ends.
PaymentMoves(p, s) ==
  /\ reached[p] \cap {"SUCCESS", "FAILURE"} = {}
  /\ s \notin reached[p]
  /\ reached' = [reached EXCEPT ![p] = @ \cup {s}]
  /\ UNCHANGED <<key, credited, job, acked, failed>>

\* Mutation: the PSP's notifications take the key whatever their status.
Receive_AnyStatus(h, p, s) ==
  /\ job[h] = NoJob /\ s \in reached[p]
  /\ job' = [job EXCEPT ![h] = [payment |-> p, status |-> s, step |-> "key"]]
  /\ UNCHANGED <<reached, key, credited, acked, failed>>

\* A notification with a valid signature, the first or the hundredth. The
\* PSP's are answered and forgotten unless they report success.
Receive(h, p, s) ==
  /\ job[h] = NoJob /\ s \in reached[p]
  /\ Route[p] = "psp" => s = "SUCCESS"
  /\ job' = [job EXCEPT ![h] = [payment |-> p, status |-> s, step |-> "key"]]
  /\ UNCHANGED <<reached, key, credited, acked, failed>>

\* SET NX succeeds; only now is the status of an ITN looked at.
TakeKey(h) ==
  /\ At(h, "key")
  /\ job[h].payment \notin key
  /\ key' = key \cup {job[h].payment}
  /\ IF job[h].status = "SUCCESS" THEN Goto(h, "deposit") ELSE Done(h)
  /\ UNCHANGED <<reached, credited, acked, failed>>

\* SET NX finds the key: 200, "redis_duplicate" or CONFIRMED.
KeyTaken(h) ==
  /\ At(h, "key")
  /\ job[h].payment \in key
  /\ acked' = acked \cup {p \in {job[h].payment} : job[h].status = "SUCCESS"}
  /\ Done(h)
  /\ UNCHANGED <<reached, key, credited, failed>>

\* depositFundsPspWebhook: one Serializable transaction, and the reference is
\* unique.
Credit(p) == credited' = [credited EXCEPT ![p] = 1]

Deposit(h) ==
  /\ At(h, "deposit")
  /\ Credit(job[h].payment)
  /\ acked' = acked \cup {job[h].payment}
  /\ Done(h)
  /\ UNCHANGED <<reached, key, failed>>

\* An error after SET NX: the PSP's handler deletes the key before it answers,
\* Autopay's answers with an error and leaves it.
GiveUp(h) ==
  /\ failed' = failed \cup {job[h].payment}
  /\ IF Route[job[h].payment] = "psp" THEN Goto(h, "clean") ELSE Done(h)
  /\ UNCHANGED <<reached, key, acked>>

\* No wallet, a malformed order id or amount, a conflict, no database.
DepositFails(h) ==
  /\ At(h, "deposit")
  /\ GiveUp(h)
  /\ UNCHANGED credited

\* The commit's reply is lost, or for an ITN storing the payment method throws.
DepositThrows(h) ==
  /\ At(h, "deposit")
  /\ Credit(job[h].payment)
  /\ GiveUp(h)

DeleteKey(h) ==
  /\ At(h, "clean")
  /\ key' = key \ {job[h].payment}
  /\ Done(h)
  /\ UNCHANGED <<reached, credited, acked, failed>>

\* The process dies, or Redis does not answer.
Crash(h) ==
  /\ job[h] # NoJob
  /\ failed' = failed \cup {job[h].payment}
  /\ Done(h)
  /\ UNCHANGED <<reached, key, credited, acked>>

\* 24 hours, far longer than a notification is worked on.
KeyExpires(p) ==
  /\ p \in key
  /\ \A h \in Handlers : job[h] # NoJob => job[h].payment # p
  /\ key' = key \ {p}
  /\ UNCHANGED <<reached, credited, job, acked, failed>>

Next ==
  \/ \E p \in Payments, s \in Statuses : PaymentMoves(p, s)
  \/ \E h \in Handlers, p \in Payments, s \in Statuses : Receive(h, p, s)
  \/ \E h \in Handlers :
       \/ TakeKey(h) \/ KeyTaken(h) \/ Deposit(h) \/ DepositFails(h)
       \/ DepositThrows(h) \/ DeleteKey(h) \/ Crash(h)
  \/ \E p \in Payments : KeyExpires(p)

Spec == Init /\ [][Next]_vars

-----------------------------------------------------------------------------
(* Properties.                                                             *)

\* A payment is credited at most once and only after it has succeeded, however
\* its notifications are repeated, reordered, interrupted and retried.
CreditedOnce ==
  \A p \in Payments :
    credited[p] <= IF "SUCCESS" \in reached[p] THEN 1 ELSE 0

\* A success that was answered as taken has been credited, or a call is still
\* at it, or one has failed.
Settled(p) ==
  p \in acked =>
    \/ credited[p] > 0
    \/ p \in failed
    \/ \E h \in Handlers : job[h] # NoJob /\ job[h].payment = p

\* The PSP is told that its payment was taken without it being credited only
\* after a call for that payment has failed or died while it had the key.
PspTakenIsCredited == \A p \in Payments : Route[p] = "psp" => Settled(p)

\* What the PSP is told and what the ledger holds agree.
CreditedAsTold == CreditedOnce /\ PspTakenIsCredited

\* docs/API.md: for PaymentStatus=SUCCESS the deposit is booked. No failure is
\* needed for Autopay to be told CONFIRMED without it.
ItnConfirmedIsCredited == \A p \in Payments : Route[p] = "itn" => Settled(p)
=============================================================================
