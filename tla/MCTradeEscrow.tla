---- MODULE MCTradeEscrow ----
\* Two trades, two parties and the platform (who may trade too). The small
\* price is one whose fee rounds to zero, the large one leaves a buyer with
\* too little for a second payment.
EXTENDS TradeEscrow, TLC

CONSTANTS t1, t2

Symmetry == Permutations(Users \ {Platform}) \cup Permutations(Requests)

MCPrice == [t \in Trades |-> IF t = t1 THEN 60 ELSE 16]
MCFunds == [u \in Users |-> 70]
====
