------------------------------- MODULE Escrow -------------------------------
(***************************************************************************)
(* What a trade promises its two parties, with no word about transactions: *)
(* the buyer's money is taken once, held, and then either released to the  *)
(* seller (less the platform's fee) or returned to the buyer, in one step. *)
(***************************************************************************)
EXTENDS TradeData

VARIABLES
  trade,    \* Trade rows
  balance   \* Wallet.balance

Init ==
  /\ trade = [t \in Trades |-> Row("NONE", NoUser, NoUser)]
  /\ balance = Funds

Create(t, s) ==
  /\ trade[t].status = "NONE"
  /\ trade' = [trade EXCEPT ![t] = Row("PENDING_PAYMENT", s, NoUser)]
  /\ UNCHANGED balance

Pay(t, u) ==
  /\ trade[t].status = "PENDING_PAYMENT"
  /\ trade[t].seller # u
  /\ balance[u] >= Price[t]
  /\ trade' = [trade EXCEPT
       ![t] = Row("PAID_AWAITING_ITEM", trade[t].seller, u)]
  /\ balance' = Credit(balance, u, -Price[t])

\* By the buyer.
Release(t) ==
  /\ trade[t].status = "PAID_AWAITING_ITEM"
  /\ trade' = [trade EXCEPT
       ![t] = Row("COMPLETED", trade[t].seller, trade[t].buyer)]
  /\ balance' = Credit(Credit(balance, trade[t].seller, SellerNet(t)),
                       Platform, Fee(t))

\* By the seller, before or after the payment.
Cancel(t) ==
  /\ trade[t].status \in {"PENDING_PAYMENT", "PAID_AWAITING_ITEM"}
  /\ trade' = [trade EXCEPT
       ![t] = Row("CANCELLED", trade[t].seller, trade[t].buyer)]
  /\ balance' = IF trade[t].status = "PAID_AWAITING_ITEM"
                THEN Credit(balance, trade[t].buyer, Price[t])
                ELSE balance

Next ==
  \E t \in Trades :
    \/ \E u \in Users : Create(t, u) \/ Pay(t, u)
    \/ Release(t)
    \/ Cancel(t)

Spec == Init /\ [][Next]_<<trade, balance>>
=============================================================================
