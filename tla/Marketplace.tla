----------------------------- MODULE Marketplace -----------------------------
(***************************************************************************)
(* The money of one connected account: charges put it on the wallet of the *)
(* account's user, payouts take it off.  The calls of both services share  *)
(* the requests that can be under way.                                     *)
(***************************************************************************)
EXTENDS Integers, Sequences

CONSTANTS
  Requests, Admins,
  PayoutKeys, ChargeKeys,  \* each service has its own prefix in Redis
  NoKey, PayoutAmounts, ChargeAmounts, Splits,
  Funds, PayerFunds, NoJob, MaxLost,
  MaxRows,  \* bound: payouts and charges together
  FlagThreshold, BlockThreshold, MaxChargesPerHour, MaxPayoutsPerDay,
  UnusualMultiplier, SpikeMultiplier,
  CardTestingThreshold, CardTestingMaxAmount, NewAccountMaxAmount

VARIABLES payoutKey, chargeKey, payer, balance, ledger, payouts, charges,
          job, admin, lost

vars == <<payoutKey, chargeKey, payer, balance, ledger, payouts, charges,
          job, admin, lost>>

P == INSTANCE Payout WITH key <- payoutKey, Keys <- PayoutKeys,
                          Amounts <- PayoutAmounts, MaxPayouts <- MaxRows
C == INSTANCE Charge WITH key <- chargeKey, Keys <- ChargeKeys,
                          Amounts <- ChargeAmounts, MaxCharges <- MaxRows

ASSUME PayoutAssumption == P!Parameters
ASSUME ChargeAssumption == C!Parameters

Init == P!Init /\ C!Init

Room == Len(payouts') + Len(charges') <= MaxRows

Next ==
  \/ P!Next /\ UNCHANGED <<chargeKey, payer, charges>> /\ Room
  \/ C!Next /\ UNCHANGED <<payoutKey, payouts, admin>> /\ Room

Spec == Init /\ [][Next]_vars

-----------------------------------------------------------------------------
(* Properties.                                                             *)

\* The account's wallet holds what charges paid less what is paid out or to be
\* paid out, and the integrator has lost what the account got: concurrent
\* settlements never give back a payout that goes out, nor one twice. The
\* wallet goes negative only if a payout was debited from a balance that had
\* changed since its call compared it.
MoneyIsExplained ==
  /\ balance = Funds + C!Credited - P!Taken
  /\ payer = PayerFunds - C!Credited
  /\ P!OverdraftOnlyByStaleBalance

\* A payout's outcome stays, whoever settles it at the same time.
SettledIsFinal == [][P!KeepsSettled]_vars

\* A payout's key pays again only after a commit whose reply was lost, and a
\* charge's key charges once, whichever of the two calls it comes with.
PaidOncePerKey == P!CopiesOnlyByLostReply /\ C!OneChargePerKey

\* What the fraud rules forbid happens only if a commit overlapped their
\* evaluation: a payout they block, an amount charged twice within the window.
RulesHoldButByOverlap ==
  P!BlockedOnlyPassesByOverlap /\ C!SameAmountOnlyByOverlap
=============================================================================
