----------------------------- MODULE MCPayments -----------------------------
\* Instances of the parts of the payment platform: a run gives the parts it is
\* not about no calls, keys, users or rides.
EXTENDS Payments, TLC

CONSTANTS p1, p2, d1, d2, anna, bob, plat, ride1

MCIntegrations == {"market", "refund"}
MCWallets == {"deposit", "dispute", "rides"}

\* A charge of 7: 4 for the platform, 1 and 2 for two accounts.
MCCredits == <<1, 2>>

\* A payment heard of by the PSP's webhook and one by Autopay's ITN.
MCRoute == [p \in DepositIds |-> IF p = p1 THEN "psp" ELSE "itn"]

\* Two disputes of different amounts.
MCDisputeAmount == [d \in Disputes |-> IF d = d1 THEN 1 ELSE 2]

\* The wallets of a passenger, a driver and the platform.
MCWalletFunds == [u \in Users |-> IF u = anna THEN 200 ELSE 0]

Request(op, user, peer, amount, key) ==
  [op |-> op, user |-> user, peer |-> peer, amount |-> amount, key |-> key]

\* Opposite transfers that share a key, and with it their references; a deposit
\* under the reference they look up, and a fee under the one a settlement does.
MCWalletRequests ==
  LET k == <<"raw", "k">>
  IN  {Request("transfer", bob, anna, 1, k), Request("transfer", anna, bob, 2, k),
       Request("deposit", anna, anna, 1, <<"out", k>>),
       Request("fee", bob, bob, 1, <<"stx:passenger", ride1>>)}

MCPassenger == [r \in RideIds |-> anna]
MCDriver == [r \in RideIds |-> bob]
MCFloor == -1

CallsSymmetry ==
  Permutations(PayoutKeys) \cup Permutations(ChargeKeys)
    \cup Permutations(Requests) \cup Permutations(Admins)

\* Where every part has the same two calls and the same two workers.
WalletsSymmetry == Permutations(WalletCalls) \cup Permutations(Workers)
=============================================================================
