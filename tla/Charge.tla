------------------------------- MODULE Charge -------------------------------
(***************************************************************************)
(* MarketplaceChargeService: charges of one integrator, split between its  *)
(* connected account and itself.  An integration charge has a key in Redis *)
(* and on its row and is evaluated for fraud; a charge by chargeSplit has  *)
(* at most the key on the row, and pays the account all of its amount.     *)
(*                                                                         *)
(* A behaviour spans less than an hour, and the integrator is young.       *)
(***************************************************************************)
EXTENDS Fraud, FiniteSets

CONSTANTS
  Requests,    \* calls that can be under way
  Keys,        \* values of the Idempotency-Key header
  NoKey,       \* a call of chargeSplit without one
  Amounts,     \* amounts of charges
  Splits,      \* the account's part of an integration charge
  PayerFunds,  \* initial balance of the integrator
  NoJob,       \* no call under way
  MaxCharges,  \* bound: rows of the table
  MaxLost      \* bound: commits whose reply is lost

VARIABLES
  key,      \* the keys present in Redis
  payer,    \* Wallet.balance of the integrator
  balance,  \* Wallet.balance of the account's user
  ledger,   \* Transaction rows of that wallet
  charges,  \* MarketplaceCharge rows with the split they paid, in commit order
  job,      \* the call each request runs
  lost      \* replies lost so far

vars == <<key, payer, balance, ledger, charges, job, lost>>

Steps == {"accounts", "score", "book"}

\* from: history, the rows there were when the fraud evaluation began.
Jobs == [step : Steps, key : Keys \cup {NoKey}, amount : Amounts,
         split : Amounts \cup Splits, scored : BOOLEAN, from : Nat]

Parameters ==
  /\ Amounts \subseteq Nat \ {0} /\ Splits \subseteq Nat /\ PayerFunds \in Nat
  /\ MaxCharges \in Nat /\ MaxLost \in Nat
  /\ NoKey \notin Keys /\ NoJob \notin Jobs

Init ==
  /\ key = {}
  /\ payer = PayerFunds
  /\ charges = <<>>

-----------------------------------------------------------------------------

Mine(r) == job[r] # NoJob /\ job[r].step \in Steps

At(r, step) == job[r] # NoJob /\ job[r].step = step

Done(r) == job' = [job EXCEPT ![r] = NoJob]

money == <<payer, balance, ledger, charges, lost>>

KeyTaken(k) == k # NoKey /\ \E i \in DOMAIN charges : charges[i].key = k

Call(k, amount, split, scored) ==
  [step |-> "accounts", key |-> k, amount |-> amount, split |-> split,
   scored |-> scored, from |-> 0]

\* createIntegrationCharge.  SET NX; a key that is there is answered with 409,
\* a split above the amount after its key is deleted.
StartIntegration(r, k, amount, split) ==
  /\ job[r] = NoJob
  /\ k \notin key
  /\ split <= amount
  /\ key' = key \cup {k}
  /\ job' = [job EXCEPT ![r] = Call(k, amount, split, TRUE)]
  /\ UNCHANGED money

\* chargeSplit, its accounts accepted; a key of the table is answered with its
\* charge.
StartSplit(r, k, amount) ==
  /\ job[r] = NoJob
  /\ ~KeyTaken(k)
  /\ job' = [job EXCEPT ![r] =
       [Call(k, amount, amount, FALSE) EXCEPT !.step = "book"]]
  /\ UNCHANGED <<key, money>>

\* The account is there, active and the integrator's, and has a user.
AccountsAccepted(r) ==
  /\ At(r, "accounts")
  /\ job' = [job EXCEPT ![r].step = "score", ![r].from = Len(charges)]
  /\ UNCHANGED <<key, money>>

Deleted(r) == IF job[r].scored THEN {job[r].key} ELSE {}

\* The amounts the first n charges booked on the integrator's wallet: the debit
\* and, unless it is 0, the platform's fee.
Entries(n) ==
  LET fee(c) == IF c.amount > c.split THEN <<c.amount - c.split>> ELSE <<>>
  IN  FoldFunction(LAMBDA c, es : es \o <<c.amount>> \o fee(c), <<>>,
                   [i \in 1..n |-> charges[i]])

Count(n, Test(_)) == Cardinality({i \in 1..n : Test(charges[i].amount)})

\* What each rule scores when there are n charges; those of a behaviour have no
\* refunds.
Rules(amount, n) ==
  <<VelocityCharge(n), DuplicateCharge(Count(n, LAMBDA a : a = amount)),
    CardTesting(Count(n, LAMBDA a : a <= CardTestingMaxAmount)),
    AccountAgeTooLow(n, amount), RefundRateTooHigh(n, 0),
    UnusualAmount(Entries(n), amount)>>

\* The rules read at the same time and each at its own.
Scores(r) ==
  LET Read(rule) == {Rules(job[r].amount, n)[rule] : n \in job[r].from..Len(charges)}
  IN  {a + b + c + d + e + f : a \in Read(1), b \in Read(2), c \in Read(3),
                               d \in Read(4), e \in Read(5), f \in Read(6)}

\* Not BLOCKED.
Scored(r) ==
  /\ At(r, "score")
  /\ \E score \in Scores(r) : Verdict(score) # "BLOCKED"
  /\ job' = [job EXCEPT ![r].step = "book"]
  /\ UNCHANGED <<key, money>>

\* An account refused, BLOCKED, or any error of the transaction but a taken
\* key: an integration's key is deleted.
Refuse(r) ==
  /\ \/ At(r, "accounts") \/ At(r, "book")
     \/ At(r, "score") /\ \E score \in Scores(r) : Verdict(score) = "BLOCKED"
  /\ key' = key \ Deleted(r)
  /\ Done(r)
  /\ UNCHANGED money

\* A read or the evaluation throws where no catch deletes the key, or the
\* process dies anywhere.
Crash(r) ==
  /\ Mine(r)
  /\ Done(r)
  /\ UNCHANGED <<key, money>>

\* MarketplaceCharge.idempotencyKey is unique among those that have one.
Unique(k) == ~KeyTaken(k)

\* Nothing compares the integrator's balance.
Pay(c) ==
  /\ payer' = payer - c.amount + (c.amount - c.split)
  /\ balance' = balance + c.split
  /\ ledger' = IF c.split = 0 THEN ledger
               ELSE Append(ledger, [ref |-> "credit", id |-> Len(charges) + 1,
                                    amount |-> c.split])

\* The Serializable transaction of either call.
Book(r) ==
  /\ At(r, "book")
  /\ Len(charges) < MaxCharges
  /\ Unique(job[r].key)
  /\ Pay(job[r])
  /\ charges' = Append(charges,
       [key |-> job[r].key, amount |-> job[r].amount, split |-> job[r].split,
        scored |-> job[r].scored, from |-> job[r].from])
  /\ Done(r)

Commit(r) == Book(r) /\ UNCHANGED <<key, lost>>

\* The commit succeeds and its reply is lost: the catch deletes the key.
ReplyLost(r) ==
  /\ lost < MaxLost
  /\ lost' = lost + 1
  /\ Book(r)
  /\ key' = key \ Deleted(r)

\* An integration is answered with 409 and its key stays; chargeSplit answers
\* with the charge that has the key.
Duplicate(r) ==
  /\ At(r, "book")
  /\ KeyTaken(job[r].key)
  /\ Done(r)
  /\ UNCHANGED <<key, money>>

Next ==
  \E r \in Requests :
    \/ \E amount \in Amounts :
         \/ \E k \in Keys, split \in Splits :
              StartIntegration(r, k, amount, split)
         \/ \E k \in Keys \cup {NoKey} : StartSplit(r, k, amount)
    \/ AccountsAccepted(r) \/ Scored(r) \/ Refuse(r) \/ Crash(r)
    \/ Commit(r) \/ ReplyLost(r) \/ Duplicate(r)

-----------------------------------------------------------------------------
(* Properties.                                                             *)

\* What the charges have paid the account.
Credited == SumFunction([i \in DOMAIN charges |-> charges[i].split])

\* A key charges once whatever mixture of the two calls it comes with: after
\* lost replies, refusals, crashes, and two calls under way at once.
OneChargePerKey ==
  \A i, j \in DOMAIN charges :
    charges[i].key = charges[j].key /\ charges[i].key # NoKey => i = j

\* An integration charge of an amount charged before is committed only if the
\* earlier one was committed after the later one's evaluation had begun.
SameAmountOnlyByOverlap ==
  \A i, j \in DOMAIN charges :
    i < j /\ charges[j].scored /\ charges[i].amount = charges[j].amount
      => i > charges[j].from
=============================================================================
