------------------------------- MODULE Payout -------------------------------
(***************************************************************************)
(* PayoutService: payouts from one wallet, created under an idempotency    *)
(* key that only Redis knows, and settled by administrators.  The rows of  *)
(* fraud checks are written and never read by a service: left out.         *)
(*                                                                         *)
(* A behaviour spans less than the 24 hours after which a key expires.     *)
(***************************************************************************)
EXTENDS Fraud, FiniteSets

CONSTANTS
  Requests,    \* calls of createPayout that can be under way
  Admins,      \* calls of settlePayout that can be under way
  Keys,        \* values of the Idempotency-Key header
  Amounts,     \* amounts asked for
  Funds,       \* initial balance of the wallet
  NoJob,       \* no call under way
  MaxPayouts,  \* bound: rows of the table
  MaxLost      \* bound: commits whose reply is lost

VARIABLES
  key,       \* the keys present in Redis
  balance,   \* Wallet.balance
  ledger,    \* Transaction rows of the wallet, in commit order
  payouts,   \* Payout rows, in commit order
  job,       \* the call each request runs
  admin,     \* the payout each administrator has read as open
  lost       \* replies lost so far

vars == <<key, balance, ledger, payouts, job, admin, lost>>

Steps == {"balance", "fraud", "commit"}
\* from: history, the length of the ledger when the call read the balance and
\* its fraud evaluation began.
Jobs == [step : Steps, key : Keys, amount : Amounts, from : Nat]

Parameters ==
  /\ Amounts \subseteq Nat \ {0} /\ Funds \in Nat
  /\ MaxPayouts \in Nat /\ MaxLost \in Nat
  /\ NoJob \notin Jobs

Entry(ref, id, amount) == [ref |-> ref, id |-> id, amount |-> amount]

\* Payouts among the first n entries of the ledger.
PaidBy(n) == Cardinality({e \in 1..n : ledger[e].ref = "pout"})

Init ==
  /\ key = {}
  /\ balance = Funds
  /\ ledger = <<Entry("deposit", 1, Funds)>>
  /\ payouts = <<>>
  /\ job = [r \in Requests |-> NoJob]
  /\ admin = [a \in Admins |-> 0]
  /\ lost = 0

-----------------------------------------------------------------------------
(* createPayout.                                                           *)

Mine(r) == job[r] # NoJob /\ job[r].step \in Steps

At(r, step) == job[r] # NoJob /\ job[r].step = step

Goto(r, step) == job' = [job EXCEPT ![r].step = step]

Done(r) == job' = [job EXCEPT ![r] = NoJob]

money == <<balance, ledger, payouts, admin, lost>>

\* SET NX; a key that is there is answered with 409.
Start(r, k, amount) ==
  /\ job[r] = NoJob
  /\ k \notin key
  /\ key' = key \cup {k}
  /\ job' = [job EXCEPT ![r] = 
       [step |-> "balance", key |-> k, amount |-> amount, from |-> 0]]
  /\ UNCHANGED <<money>>

\* The account is there, active and the integrator's, and its user's wallet has
\* the amount.
BalanceAccepted(r) ==
  /\ At(r, "balance")
  /\ balance >= job[r].amount
  /\ job' = [job EXCEPT ![r].step = "fraud", ![r].from = Len(ledger)]
  /\ UNCHANGED <<key, money>>

\* The amount of every rule that speaks; the rules read at the same time and
\* each at its own.
Seen(n) == SumFunction([i \in 1..n |-> payouts[i].amount])

Entries(n) ==
  [i \in 1..n |-> IF ledger[i].amount < 0 THEN -ledger[i].amount ELSE ledger[i].amount]

Scores(amount, count, day, month, entries) ==
  <<VelocityPayout(count), PayoutSpike(Seen(day), Seen(month)),
    UnusualAmount(Entries(entries), amount)>>

Blocked(scores) == Verdict(SumFunction(scores)) = "BLOCKED"

Evaluations(r) ==
  LET from == job[r].from
      rows == PaidBy(from)..Len(payouts)
      velocity == {VelocityPayout(n) : n \in rows}
      spike == {PayoutSpike(Seen(p[1]), Seen(p[2])) :
                  p \in {q \in rows \X rows : q[1] <= q[2]}}
      unusual == {UnusualAmount(Entries(n), job[r].amount) : n \in from..Len(ledger)}
  IN  velocity \X spike \X unusual

\* PASSED or FLAGGED.
FraudAccepted(r) ==
  /\ At(r, "fraud")
  /\ \E scores \in Evaluations(r) : ~Blocked(scores)
  /\ Goto(r, "commit")
  /\ UNCHANGED <<key, money>>

\* Every refusal deletes the key first: account, balance, BLOCKED, and any
\* error of the transaction, which is rolled back.
Refuse(r) ==
  /\ \/ At(r, "balance") \/ At(r, "commit")
     \/ At(r, "fraud") /\ \E scores \in Evaluations(r) : Blocked(scores)
  /\ key' = key \ {job[r].key}
  /\ Done(r)
  /\ UNCHANGED <<money>>

\* A read or the fraud evaluation throws where no catch deletes the key, or
\* the process dies anywhere.
Crash(r) ==
  /\ Mine(r)
  /\ Done(r)
  /\ UNCHANGED <<key, money>>

\* The Serializable transaction. It neither reads the balance nor knows the
\* key.
Insert(r) ==
  /\ At(r, "commit")
  /\ Len(payouts) < MaxPayouts
  /\ balance' = balance - job[r].amount
  /\ ledger' = Append(ledger, Entry("pout", Len(payouts) + 1, -job[r].amount))
  /\ payouts' = Append(payouts,
       [key |-> job[r].key, amount |-> job[r].amount, status |-> "PENDING",
        from |-> job[r].from])

\* Mutation: the key is deleted when the call ends, however it ends.
Commit_KeyDeleted(r) ==
  /\ Insert(r)
  /\ key' = key \ {job[r].key}
  /\ Done(r)
  /\ UNCHANGED <<admin, lost>>

Commit(r) ==
  /\ Insert(r)
  /\ Done(r)
  /\ UNCHANGED <<key, admin, lost>>

\* The commit succeeds and its reply is lost: the catch deletes the key.
ReplyLost(r) ==
  /\ lost < MaxLost
  /\ lost' = lost + 1
  /\ Insert(r)
  /\ key' = key \ {job[r].key}
  /\ Done(r)
  /\ UNCHANGED <<admin>>

-----------------------------------------------------------------------------
(* settlePayout.                                                           *)

created == <<key, job, lost>>

Open(i) == payouts[i].status = "PENDING"

ReadOpen(a, i) ==
  /\ admin[a] = 0
  /\ Open(i)
  /\ admin' = [admin EXCEPT ![a] = i]
  /\ UNCHANGED <<created, balance, ledger, payouts>>

\* Mutation: the update goes by the status that was read.
StillOpen_AsRead(a) == TRUE

\* The update is conditional on the status, and the database lets no
\* transaction write a row that was written since it was read.
StillOpen(a) == Open(admin[a])

SettlePaid(a) ==
  LET i == admin[a]
  IN  /\ i # 0 /\ StillOpen(a)
      /\ payouts' = [payouts EXCEPT ![i].status = "PAID"]
      /\ admin' = [admin EXCEPT ![a] = 0]
      /\ UNCHANGED <<created, balance, ledger>>

\* Mutation: the amount is not given back.
SettleFailed_NoReversal(a) ==
  LET i == admin[a]
  IN  /\ i # 0 /\ StillOpen(a)
      /\ payouts' = [payouts EXCEPT ![i].status = "FAILED"]
      /\ admin' = [admin EXCEPT ![a] = 0]
      /\ UNCHANGED <<created, balance, ledger>>

\* The reference pout-void:{id} is unique.
SettleFailed(a) ==
  LET i == admin[a]
  IN  /\ i # 0 /\ StillOpen(a)
      /\ \A e \in DOMAIN ledger : ledger[e].ref = "void" => ledger[e].id # i
      /\ payouts' = [payouts EXCEPT ![i].status = "FAILED"]
      /\ ledger' = Append(ledger, Entry("void", i, payouts[i].amount))
      /\ balance' = balance + payouts[i].amount
      /\ admin' = [admin EXCEPT ![a] = 0]
      /\ UNCHANGED created

\* Refused with 409, an error, or a crash.
SettleAborts(a) ==
  /\ admin[a] # 0
  /\ admin' = [admin EXCEPT ![a] = 0]
  /\ UNCHANGED <<created, balance, ledger, payouts>>

-----------------------------------------------------------------------------

Next ==
  \/ \E r \in Requests :
       \/ \E k \in Keys, amount \in Amounts : Start(r, k, amount)
       \/ BalanceAccepted(r) \/ FraudAccepted(r)
       \/ Refuse(r) \/ Crash(r) \/ Commit(r) \/ ReplyLost(r)
  \/ \E a \in Admins :
       \/ \E i \in DOMAIN payouts : ReadOpen(a, i)
       \/ SettlePaid(a) \/ SettleFailed(a) \/ SettleAborts(a)

-----------------------------------------------------------------------------
(* Properties.                                                             *)

\* What the payouts that did not fail have taken.
Taken ==
  LET out == {i \in DOMAIN payouts : payouts[i].status # "FAILED"}
  IN  SumFunction([i \in out |-> payouts[i].amount])

\* A step in which settled payouts keep their outcome.
KeepsSettled ==
  \A i \in DOMAIN payouts :
    payouts[i].status # "PENDING" => payouts'[i] = payouts[i]

\* The ledger entry of payout i.
EntryOf(i) == CHOOSE e \in DOMAIN ledger : ledger[e].ref = "pout" /\ ledger[e].id = i

\* The wallet changed between payout i's evaluation and its commit.
Overlapped(i) == payouts[i].from # EntryOf(i) - 1

\* The wallet goes negative only if a payout was debited from a balance that
\* had changed since its call compared it.
OverdraftOnlyByStaleBalance ==
  balance < 0 => \E i \in DOMAIN payouts : Overlapped(i)

\* A key pays again only after a commit whose reply was lost, and no oftener
\* than that.
CopiesOnlyByLostReply ==
  \A k \in Keys : Cardinality({i \in DOMAIN payouts : payouts[i].key = k}) <= 1 + lost

\* A payout the rules block when they see all it was committed after is made
\* only if some of that came after its evaluation began.
BlockedOnlyPassesByOverlap ==
  \A i \in DOMAIN payouts :
    LET scores == Scores(payouts[i].amount, i - 1, i - 1, i - 1, EntryOf(i) - 1)
    IN  Verdict(SumFunction(scores)) = "BLOCKED" => Overlapped(i)
=============================================================================
