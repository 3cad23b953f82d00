------------------------------ MODULE Dispute ------------------------------
(***************************************************************************)
(* DisputeService: disputes reported by the PSP's webhook, which hold      *)
(* their amount on the integrator's wallet, and the administrators who     *)
(* file evidence and resolve them.                                         *)
(*                                                                         *)
(* Creating and resolving run in Serializable transactions. Filing         *)
(* evidence runs READ COMMITTED: the status is read in one statement and   *)
(* overwritten, without a condition, in a later one.                       *)
(***************************************************************************)
EXTENDS Integers, FiniteSets, Functions

CONSTANTS
  Disputes,  \* values of pspDisputeId, all on charges of one integrator
  Amount,    \* amount of each dispute
  Funds,     \* initial balance of the integrator's wallet
  Handlers,  \* webhook calls that can be under way
  Admins,    \* administrators, each with one call at a time
  None       \* no call under way

AmountAssumption ==
  IsFiniteSet(Disputes) /\ Amount \in [Disputes -> Nat \ {0}] /\ Funds \in Nat

Open == {"RECEIVED", "EVIDENCE_SUBMITTED"}
Verdicts == {"WON", "LOST", "ACCEPTED"}

Hooks == [id : Disputes, step : {"key", "create", "clean"}]

\* verdict is None for evidence; stale: the row, or the wallet a verdict
\* writes, was written since the call read it.
Calls == [id : Disputes, verdict : Verdicts \cup {None}, stale : BOOLEAN]

NoneAssumption == None \notin Hooks \cup Calls \cup Verdicts

VARIABLES
  status,   \* Dispute.status; "NONE" before the row
  booked,   \* the ledger rows of each dispute: hold, hold_release, final
  balance,  \* the integrator's Wallet.balance
  key,      \* disputes whose key is in Redis
  hook,     \* what each webhook call is doing
  admin,    \* what each administrator's call has read
  late      \* history: disputes whose evidence was filed over a verdict

vars == <<status, booked, balance, key, hook, admin, late>>

Rows == {"hold", "hold_release", "final"}

Init ==
  /\ status = [d \in Disputes |-> "NONE"]
  /\ booked = [d \in Disputes |-> {}]
  /\ balance = Funds
  /\ key = {}
  /\ hook = [h \in Handlers |-> None]
  /\ admin = [a \in Admins |-> None]
  /\ late = {}

-----------------------------------------------------------------------------
(* createFromWebhook.                                                      *)

At(h, step) == hook[h] # None /\ hook[h].step = step
Goto(h, step) == hook' = [hook EXCEPT ![h].step = step]
Answer(h) == hook' = [hook EXCEPT ![h] = None]

\* The webhook of d comes, for the first time or again, and no row is found: a
\* dispute that exists is answered as a duplicate, which changes nothing.
Receive(h, d) ==
  /\ hook[h] = None
  /\ status[d] = "NONE"
  /\ hook' = [hook EXCEPT ![h] = [id |-> d, step |-> "key"]]
  /\ UNCHANGED <<status, booked, balance, key, admin, late>>

\* SET NX; whoever finds the key answers with a duplicate or a 400.
TakeKey(h) ==
  /\ At(h, "key")
  /\ IF hook[h].id \in key
     THEN Answer(h) /\ UNCHANGED key
     ELSE Goto(h, "create") /\ key' = key \cup {hook[h].id}
  /\ UNCHANGED <<status, booked, balance, admin, late>>

\* The dispute d and the wallet were written: calls that have read d, or will
\* write the wallet in a Serializable transaction, are outdated.
Outdate(d) ==
  [a \in Admins |->
     IF admin[a] # None /\ (admin[a].id = d \/ admin[a].verdict # None)
     THEN [admin[a] EXCEPT !.stale = TRUE] ELSE admin[a]]

\* The transaction; pspDisputeId is unique.
Insert(h) ==
  LET d == hook[h].id
  IN  /\ At(h, "create")
      /\ status[d] = "NONE"
      /\ status' = [status EXCEPT ![d] = "RECEIVED"]
      /\ booked' = [booked EXCEPT ![d] = @ \cup {"hold"}]
      /\ balance' = balance - Amount[d]
      /\ admin' = Outdate(d)

Create(h) == Insert(h) /\ Answer(h) /\ UNCHANGED <<key, late>>

\* The commit's reply is lost.
CreateThrows(h) == Insert(h) /\ Goto(h, "clean") /\ UNCHANGED <<key, late>>

\* Refused, rolled back, or P2002.
CreateFails(h) ==
  /\ At(h, "create")
  /\ Goto(h, "clean")
  /\ UNCHANGED <<status, booked, balance, key, admin, late>>

\* The catch deletes the key.
DeleteKey(h) ==
  /\ At(h, "clean")
  /\ key' = key \ {hook[h].id}
  /\ Answer(h)
  /\ UNCHANGED <<status, booked, balance, admin, late>>

Crash(h) ==
  /\ hook[h] # None
  /\ Answer(h)
  /\ UNCHANGED <<status, booked, balance, key, admin, late>>

\* 24 hours, far longer than a webhook call takes.
KeyExpires(d) ==
  /\ d \in key
  /\ \A h \in Handlers : hook[h] # None => hook[h].id # d
  /\ key' = key \ {d}
  /\ UNCHANGED <<status, booked, balance, hook, admin, late>>

-----------------------------------------------------------------------------
(* submitEvidence and resolve.                                             *)

\* Both read the dispute and refuse one that is not open.
ReadOpen(a, d, verdict) ==
  /\ admin[a] = None
  /\ status[d] \in Open
  /\ admin' = [admin EXCEPT ![a] = [id |-> d, verdict |-> verdict, stale |-> FALSE]]
  /\ UNCHANGED <<status, booked, balance, key, hook, late>>

Ended(a, d) == [Outdate(d) EXCEPT ![a] = None]

\* a's write of the dispute alone outdates only the calls on that dispute.
FileEvidence(a) ==
  LET d == admin[a].id
  IN  /\ admin[a] # None /\ admin[a].verdict = None
      /\ late' = late \cup {x \in {d} : status[d] \notin Open}
      /\ status' = [status EXCEPT ![d] = "EVIDENCE_SUBMITTED"]
      /\ admin' = [b \in Admins |->
           IF b = a THEN None
           ELSE IF admin[b] # None /\ admin[b].id = d
                THEN [admin[b] EXCEPT !.stale = TRUE] ELSE admin[b]]
      /\ UNCHANGED <<booked, balance, key, hook>>

NoConflict(a) == ~admin[a].stale

\* Mutation: LOST books the final debit and leaves the hold as well.
RowsOf_HoldKept(verdict) ==
  CASE verdict = "WON" -> {"hold_release"}
    [] OTHER -> {"final"}

\* LOST and ACCEPTED release the hold and take the amount for good.
RowsOf(verdict) ==
  CASE verdict = "WON" -> {"hold_release"}
    [] OTHER -> {"hold_release", "final"}

Effect(rows, amount) ==
  (IF "hold_release" \in rows THEN amount ELSE 0) - (IF "final" \in rows THEN amount ELSE 0)

\* The references disp:{id}:hold_release and disp:{id}:final are unique.
Unbooked(d, rows) == booked[d] \cap rows = {}

Resolve(a) ==
  LET d == admin[a].id
      rows == RowsOf(admin[a].verdict)
  IN  /\ admin[a] # None /\ admin[a].verdict # None
      /\ NoConflict(a)
      /\ Unbooked(d, rows)
      /\ booked' = [booked EXCEPT ![d] = @ \cup rows]
      /\ balance' = balance + Effect(rows, Amount[d])
      /\ status' = [status EXCEPT ![d] = admin[a].verdict]
      /\ admin' = Ended(a, d)
      /\ UNCHANGED <<key, hook, late>>

\* Rolled back: a conflict, a reference that is there, any error, a crash.
Abort(a) ==
  /\ admin[a] # None
  /\ admin' = [admin EXCEPT ![a] = None]
  /\ UNCHANGED <<status, booked, balance, key, hook, late>>

-----------------------------------------------------------------------------

Next ==
  \/ \E h \in Handlers :
       \/ \E d \in Disputes : Receive(h, d)
       \/ TakeKey(h) \/ Create(h) \/ CreateThrows(h)
       \/ CreateFails(h) \/ DeleteKey(h) \/ Crash(h)
  \/ \E d \in Disputes : KeyExpires(d)
  \/ \E a \in Admins :
       \/ \E d \in Disputes, v \in Verdicts \cup {None} : ReadOpen(a, d, v)
       \/ FileEvidence(a) \/ Resolve(a) \/ Abort(a)

Spec == Init /\ [][Next]_vars

-----------------------------------------------------------------------------
(* Properties.                                                             *)

\* Types; a call that is not outdated has read what the dispute still is.
TypeOK ==
  /\ status \in [Disputes -> {"NONE"} \cup Open \cup Verdicts]
  /\ booked \in [Disputes -> SUBSET Rows]
  /\ balance \in Int
  /\ key \in SUBSET Disputes /\ late \in SUBSET Disputes
  /\ hook \in [Handlers -> Hooks \cup {None}]
  /\ admin \in [Admins -> Calls \cup {None}]
  /\ \A a \in Admins :
       admin[a] # None /\ ~admin[a].stale => status[admin[a].id] \in Open

\* What a dispute has booked is what its status says: nothing, the hold, the
\* hold and its release, or all three. Only evidence that was filed over a
\* verdict lets a dispute look open when its money has moved.
BookedAsStatusSays ==
  \A d \in Disputes \ late :
    booked[d] =
      CASE status[d] = "NONE" -> {}
        [] status[d] \in Open -> {"hold"}
        [] status[d] = "WON" -> {"hold", "hold_release"}
        [] OTHER -> Rows

\* The wallet has moved by what is booked: however often the PSP repeats a
\* webhook and whoever resolves at the same time, a dispute is held once and
\* settled at most once, late evidence included.
BalanceExplained ==
  balance = Funds + SumFunction([d \in Disputes |->
    Effect(booked[d], Amount[d]) - (IF "hold" \in booked[d] THEN Amount[d] ELSE 0)])

\* Status, ledger and wallet of every dispute agree.
DisputeIsBooked == TypeOK /\ BookedAsStatusSays /\ BalanceExplained
=============================================================================
