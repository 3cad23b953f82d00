------------------------------- MODULE Fraud -------------------------------
(***************************************************************************)
(* FraudDetectionService.evaluate and its rules, as functions of what each *)
(* rule reads.  A rule scores or is silent; the scores are added.          *)
(***************************************************************************)
EXTENDS Integers, Sequences, Functions

\* FRAUD_* of the environment; the windows they speak of are longer than a
\* behaviour.
CONSTANTS
  FlagThreshold, BlockThreshold,
  MaxChargesPerHour, MaxPayoutsPerDay,
  UnusualMultiplier, SpikeMultiplier,
  CardTestingThreshold, CardTestingMaxAmount,
  NewAccountMaxAmount

Score(condition, points) == IF condition THEN points ELSE 0

VelocityCharge(charges) == Score(charges > MaxChargesPerHour, 40)

VelocityPayout(payouts) == Score(payouts > MaxPayoutsPerDay, 50)

\* entries: the latest amounts on the user's wallet, without their signs.
UnusualAmount(entries, amount) ==
  LET avg == SumFunction(entries) \div Len(entries)
  IN  IF Len(entries) < 3 THEN 20
      ELSE Score(avg # 0 /\ amount > avg * UnusualMultiplier, 60)

\* Mutation: one earlier charge is still allowed, as in the other counts.
DuplicateCharge_Second(same) == Score(same > 1, 70)

DuplicateCharge(same) == Score(same >= 1, 70)

CardTesting(small) == Score(small > CardTestingThreshold, 80)

\* Of an integrator younger than FRAUD_MIN_ACCOUNT_AGE_HOURS.
AccountAgeTooLow(prior, amount) ==
  Score(prior = 0 /\ amount > NewAccountMaxAmount, 50)

\* FRAUD_MAX_REFUND_RATE is 0.3.
RefundRateTooHigh(charges, refunds) ==
  Score(charges >= 5 /\ 10 * refunds > 3 * charges, 60)

\* day, month: paid out in the last 24 hours and in the last 30 days.
PayoutSpike(day, month) ==
  LET avgDaily == month \div 30
  IN  Score(avgDaily # 0 /\ day > avgDaily * SpikeMultiplier, 55)

\* The cap of 100 is above both thresholds.
Verdict(score) ==
  CASE score < FlagThreshold -> "PASSED"
    [] score >= FlagThreshold /\ score < BlockThreshold -> "FLAGGED"
    [] score >= BlockThreshold -> "BLOCKED"
=============================================================================
