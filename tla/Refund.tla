------------------------------- MODULE Refund -------------------------------
(***************************************************************************)
(* RefundService.createRefund on one charge: an idempotency key in Redis   *)
(* and on the row, an eligibility check outside the transaction, and the   *)
(* allocation of the cost among the platform and the connected accounts.   *)
(***************************************************************************)
EXTENDS Integers, Sequences, FiniteSets, Functions

CONSTANTS
  Requests,  \* calls of createRefund that can be under way at the same time
  Keys,      \* values of the Idempotency-Key header
  Amounts,   \* amounts asked for
  Platform,  \* credit:platform of the charge's ledger
  Credits,   \* credits of the connected accounts, in the order they are read
  NoJob      \* no call under way

CompositionAssumption ==
  /\ Platform \in Nat
  /\ Credits \in Seq(Nat \ {0})

VARIABLES
  key,      \* the keys present in Redis
  refunds,  \* Refund rows, each with its REFUND_DEBIT rows, in commit order
  job       \* the call each request runs

vars == <<key, refunds, job>>

Accounts == DOMAIN Credits
Parties == {0} \cup Accounts  \* 0 is the platform

\* The component of each party in the charge.
Share == [p \in Parties |-> IF p = 0 THEN Platform ELSE Credits[p]]

Sum(f, S) == SumFunctionOnSet(f, S)

SplitSum == Sum(Share, Accounts)
Charge == Sum(Share, Parties)

CoveredBy == {"PLATFORM", "CONNECTED_ACCOUNT", "SPLIT"}

\* seen: history, the sum of earlier refunds the call was judged by.
Jobs == [step : {"validate", "commit"}, key : Keys, amount : Amounts,
         coveredBy : CoveredBy, seen : Nat]

AmountsAssumption == Amounts \subseteq Nat \ {0}

NoJobAssumption == NoJob \notin Jobs

Init ==
  /\ key = {}
  /\ refunds = <<>>
  /\ job = [r \in Requests |-> NoJob]

-----------------------------------------------------------------------------
(* The cost of a refund, per party.                                        *)

\* Each party of S pays its share of amount, rounded down, but for the last
\* account, which pays what is left.
Allocate(amount, S, whole) ==
  LET part(p) == (amount * Share[p]) \div whole
      others == S \ {Len(Credits)}
      rest == amount - Sum([p \in others |-> part(p)], others)
  IN  [p \in Parties |-> IF p \notin S THEN 0
                         ELSE IF p \in others THEN part(p) ELSE rest]

\* Mutation: the last account's part is rounded down as well.
SplitCost_RestLost(amount) ==
  [p \in Parties |-> (amount * Share[p]) \div Charge]

\* Without accounts the platform's share is the charge.
SplitCost(amount) ==
  IF Accounts = {} THEN [p \in Parties |-> amount]
  ELSE Allocate(amount, Parties, Charge)

ConnectedCost(amount) == Allocate(amount, Accounts, SplitSum)

Cost(j) ==
  CASE j.coveredBy = "PLATFORM" -> [p \in Parties |-> IF p = 0 THEN j.amount ELSE 0]
    [] j.coveredBy = "CONNECTED_ACCOUNT" -> ConnectedCost(j.amount)
    [] j.coveredBy = "SPLIT" -> SplitCost(j.amount)

-----------------------------------------------------------------------------
(* createRefund.                                                           *)

Refunded == Sum([i \in DOMAIN refunds |-> refunds[i].amount], DOMAIN refunds)

KeysRefunded == {refunds[i].key : i \in DOMAIN refunds}

KeysInUse == {job[r].key : r \in {q \in Requests : job[q] # NoJob}}

Done(r) == job' = [job EXCEPT ![r] = NoJob]

\* SET NX; a key that is there is answered with 409.
Start(r, k, amount, coveredBy) ==
  /\ job[r] = NoJob
  /\ k \notin key
  /\ key' = key \cup {k}
  /\ job' = [job EXCEPT ![r] =
       [step |-> "validate", key |-> k, amount |-> amount,
        coveredBy |-> coveredBy, seen |-> 0]]
  /\ UNCHANGED <<refunds>>

\* Mutation: the refunds made before are not added.
Eligible_Alone(j) ==
  /\ j.amount <= Charge
  /\ j.coveredBy = "CONNECTED_ACCOUNT" => SplitSum > 0

\* validateRefundEligibility on the refunds committed so far.
Eligible(j) ==
  /\ Refunded + j.amount <= Charge
  /\ j.coveredBy = "CONNECTED_ACCOUNT" => SplitSum > 0

Validate(r) ==
  /\ job[r] # NoJob /\ job[r].step = "validate"
  /\ Eligible(job[r])
  /\ job' = [job EXCEPT ![r].step = "commit", ![r].seen = Refunded]
  /\ UNCHANGED <<key, refunds>>

\* The Serializable transaction; the row's idempotencyKey is unique.
Insert(r) ==
  /\ job[r] # NoJob /\ job[r].step = "commit"
  /\ job[r].key \notin KeysRefunded
  /\ refunds' = Append(refunds,
       [key |-> job[r].key, amount |-> job[r].amount, seen |-> job[r].seen,
        coveredBy |-> job[r].coveredBy, debits |-> Cost(job[r])])

Commit(r) == Insert(r) /\ Done(r) /\ UNCHANGED <<key>>

\* The row violates the unique key: 409, and the key stays.
Duplicate(r) ==
  /\ job[r] # NoJob /\ job[r].step = "commit"
  /\ job[r].key \in KeysRefunded
  /\ Done(r)
  /\ UNCHANGED <<key, refunds>>

\* Any other error, eligibility refused included: rolled back, key deleted.
Fail(r) ==
  /\ job[r] # NoJob
  /\ key' = key \ {job[r].key}
  /\ Done(r)
  /\ UNCHANGED <<refunds>>

\* The commit succeeds and its reply is lost: the catch deletes the key.
ReplyLost(r) ==
  /\ Insert(r)
  /\ key' = key \ {job[r].key}
  /\ Done(r)

\* The process dies, or Redis does not take the deletion.
Crash(r) ==
  /\ job[r] # NoJob
  /\ Done(r)
  /\ UNCHANGED <<key, refunds>>

\* 24 hours, far longer than a call can take.
KeyExpires(k) ==
  /\ k \in key \ KeysInUse
  /\ key' = key \ {k}
  /\ UNCHANGED <<refunds, job>>

-----------------------------------------------------------------------------

Next ==
  \/ \E r \in Requests :
       \/ \E k \in Keys, amount \in Amounts, c \in CoveredBy : Start(r, k, amount, c)
       \/ Validate(r) \/ Commit(r) \/ Duplicate(r) \/ Fail(r) \/ ReplyLost(r) \/ Crash(r)
  \/ \E k \in Keys : KeyExpires(k)

Spec == Init /\ [][Next]_vars

-----------------------------------------------------------------------------
(* Properties.                                                             *)

\* What the payer is credited is what the others are debited, to the cent and
\* none of them less than nothing, whoever covers it and whatever the shares
\* round to.
DebitsMatchCredit ==
  \A i \in DOMAIN refunds :
    /\ Sum(refunds[i].debits, Parties) = refunds[i].amount
    /\ \A p \in Parties : refunds[i].debits[p] >= 0

\* However often and for whatever reason a client repeats a call, its key
\* refunds once: after lost replies, failures, crashes, an expired key.
OneRefundPerKey ==
  \A i, j \in DOMAIN refunds : refunds[i].key = refunds[j].key => i = j

RefundedBefore(i) == Sum([j \in 1..(i - 1) |-> refunds[j].amount], 1..(i - 1))

\* The refunds of a charge exceed it only if one of them was judged by a sum
\* that was no longer true when it was committed.
ExcessOnlyByStaleSum ==
  Refunded > Charge =>
    \E i \in DOMAIN refunds : refunds[i].seen # RefundedBefore(i)

\* What the SPLIT refunds have taken from the parties of S.
SplitPaid(S) ==
  LET split == {i \in DOMAIN refunds : refunds[i].coveredBy = "SPLIT"}
  IN  Sum([i \in split |-> Sum(refunds[i].debits, S)], split)

\* However a charge is refunded in parts, the platform and every account but
\* the last pay at most their share of what is refunded by SPLIT.
OthersWithinShare ==
  \A p \in Parties \ {Len(Credits)} :
    SplitPaid({p}) * Charge <= SplitPaid(Parties) * Share[p]

\* The money of every refund, and of all of them, adds up.
RefundsAddUp == DebitsMatchCredit /\ OthersWithinShare

\* What has been refunded is asked for, once, and within the charge.
RefundsAreBounded == OneRefundPerKey /\ ExcessOnlyByStaleSum
=============================================================================
