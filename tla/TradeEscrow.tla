---------------------------- MODULE TradeEscrow ----------------------------
(***************************************************************************)
(* TradeService: concurrent requests that pay, confirm and cancel trades.  *)
(*                                                                         *)
(* Each request runs one Serializable transaction, modelled in two steps:  *)
(* Begin takes the snapshot the handler decides on, a commit step writes   *)
(* what the handler computes from that snapshot. The database refuses the  *)
(* commit when a row it writes was written by another transaction since    *)
(* the snapshot (P2034); the service has no retry of its own.              *)
(***************************************************************************)
EXTENDS TradeData

CONSTANTS
  Requests,  \* requests that can be under way at the same time
  NoTx       \* no transaction open

Ops == {"pay", "confirm", "cancel"}

\* What the database and the handler keep of an open transaction.
TxRecords ==
  [op : Ops, id : Trades, caller : Users,
   row : {row \in Rows : row.status # "NONE"}, funds : Int,
   late : BOOLEAN, stale : BOOLEAN]

ASSUME NoTxAssumption == NoTx \notin TxRecords

VARIABLES
  trade,     \* Trade rows
  balance,   \* Wallet.balance
  expired,   \* trades whose expiresAt has passed
  ledger,    \* number of Transaction rows of each trade, by type
  txn        \* the open transaction of each request, with its snapshot

vars == <<trade, balance, expired, ledger, txn>>

LedgerRows == [hold : Nat, seller : Nat, platform : Nat, refund : Nat]
NoRows == [hold |-> 0, seller |-> 0, platform |-> 0, refund |-> 0]

Init ==
  /\ trade = [t \in Trades |-> Row("NONE", NoUser, NoUser)]
  /\ balance = Funds
  /\ expired = {}
  /\ ledger = [t \in Trades |-> NoRows]
  /\ txn = [r \in Requests |-> NoTx]

CreateTrade(t, s) ==
  /\ trade[t].status = "NONE"
  /\ trade' = [trade EXCEPT ![t] = Row("PENDING_PAYMENT", s, NoUser)]
  /\ UNCHANGED <<balance, expired, ledger, txn>>

Expire(t) ==
  /\ trade[t].status # "NONE" /\ t \notin expired
  /\ expired' = expired \cup {t}
  /\ UNCHANGED <<trade, balance, ledger, txn>>

\* The snapshot of the rows the handler reads, and the clock it looks at.
Begin(r, op, t, u) ==
  /\ txn[r] = NoTx
  /\ trade[t].status # "NONE"
  /\ txn' = [txn EXCEPT ![r] =
       [op |-> op, id |-> t, caller |-> u, row |-> trade[t],
        funds |-> balance[u], late |-> t \in expired, stale |-> FALSE]]
  /\ UNCHANGED <<trade, balance, expired, ledger>>

\* The wallets an open transaction writes.
WalletsOf(x) ==
  CASE x.op = "pay" -> {x.caller}
    [] x.op = "confirm" -> {x.row.seller, Platform}
    [] x.op = "cancel" -> {x.row.buyer}

\* Mutation: the transaction runs without an isolationLevel, READ COMMITTED.
NoConflict_ReadCommitted(r) == TRUE

\* No row that r writes was written since its snapshot.
NoConflict(r) == ~txn[r].stale

\* r ends; the open transactions that write the trade or one of the wallets
\* that r has just written can no longer commit.
EndTx(r, t, wallets) ==
  txn' = [q \in Requests |->
    IF q = r THEN NoTx
    ELSE IF txn[q] # NoTx /\ (txn[q].id = t \/ WalletsOf(txn[q]) \cap wallets # {})
         THEN [txn[q] EXCEPT !.stale = TRUE]
         ELSE txn[q]]

\* Mutation: the balance is not read, the decrement alone must do.
PayTrade_BalanceUnread(r) ==
  LET x == txn[r]
  IN  /\ x # NoTx /\ x.op = "pay" /\ NoConflict(r)
      /\ x.row.status = "PENDING_PAYMENT"
      /\ x.row.seller # x.caller
      /\ ~x.late
      /\ balance' = Credit(balance, x.caller, -Price[x.id])
      /\ ledger' = [ledger EXCEPT ![x.id].hold = @ + 1]
      /\ trade' = [trade EXCEPT
           ![x.id] = Row("PAID_AWAITING_ITEM", x.row.seller, x.caller)]
      /\ EndTx(r, x.id, {x.caller})
      /\ UNCHANGED expired

\* Mutation: the seller may buy the own trade.
PayTrade_OwnTrade(r) ==
  LET x == txn[r]
  IN  /\ x # NoTx /\ x.op = "pay" /\ NoConflict(r)
      /\ x.row.status = "PENDING_PAYMENT"
      /\ ~x.late
      /\ x.funds >= Price[x.id]
      /\ balance' = Credit(balance, x.caller, -Price[x.id])
      /\ ledger' = [ledger EXCEPT ![x.id].hold = @ + 1]
      /\ trade' = [trade EXCEPT
           ![x.id] = Row("PAID_AWAITING_ITEM", x.row.seller, x.caller)]
      /\ EndTx(r, x.id, {x.caller})
      /\ UNCHANGED expired

PayTrade(r) ==
  LET x == txn[r]
  IN  /\ x # NoTx /\ x.op = "pay" /\ NoConflict(r)
      /\ x.row.status = "PENDING_PAYMENT"
      /\ x.row.seller # x.caller
      /\ ~x.late
      /\ x.funds >= Price[x.id]
      /\ balance' = Credit(balance, x.caller, -Price[x.id])
      /\ ledger' = [ledger EXCEPT ![x.id].hold = @ + 1]
      /\ trade' = [trade EXCEPT
           ![x.id] = Row("PAID_AWAITING_ITEM", x.row.seller, x.caller)]
      /\ EndTx(r, x.id, {x.caller})
      /\ UNCHANGED expired

ConfirmReceipt(r) ==
  LET x == txn[r]
      fee == IF Fee(x.id) > 0 THEN 1 ELSE 0
  IN  /\ x # NoTx /\ x.op = "confirm" /\ NoConflict(r)
      /\ x.row.status = "PAID_AWAITING_ITEM"
      /\ x.row.buyer = x.caller
      /\ ledger[x.id].seller = 0 /\ ledger[x.id].platform = 0
      /\ balance' = Credit(Credit(balance, x.row.seller, SellerNet(x.id)),
                           Platform, Fee(x.id))
      /\ ledger' = [ledger EXCEPT ![x.id].seller = 1, ![x.id].platform = fee]
      /\ trade' = [trade EXCEPT
           ![x.id] = Row("COMPLETED", x.row.seller, x.row.buyer)]
      /\ EndTx(r, x.id, {x.row.seller, Platform})
      /\ UNCHANGED expired

\* Mutation: a paid trade is cancelled like an unpaid one.
CancelBySeller_NoRefund(r) ==
  LET x == txn[r]
  IN  /\ x # NoTx /\ x.op = "cancel" /\ NoConflict(r)
      /\ x.row.seller = x.caller
      /\ x.row.status \in {"PENDING_PAYMENT", "PAID_AWAITING_ITEM"}
      /\ UNCHANGED <<balance, ledger>>
      /\ EndTx(r, x.id, {})
      /\ trade' = [trade EXCEPT
           ![x.id] = Row("CANCELLED", x.row.seller, x.row.buyer)]
      /\ UNCHANGED expired

\* Before the payment nothing moves; after it the whole price goes back. The
\* reference trade:{id}:cancel-refund is unique.
CancelBySeller(r) ==
  LET x == txn[r]
  IN  /\ x # NoTx /\ x.op = "cancel" /\ NoConflict(r)
      /\ x.row.seller = x.caller
      /\ \/ /\ x.row.status = "PENDING_PAYMENT"
            /\ UNCHANGED <<balance, ledger>>
            /\ EndTx(r, x.id, {})
         \/ /\ x.row.status = "PAID_AWAITING_ITEM"
            /\ ledger[x.id].refund = 0
            /\ balance' = Credit(balance, x.row.buyer, Price[x.id])
            /\ ledger' = [ledger EXCEPT ![x.id].refund = 1]
            /\ EndTx(r, x.id, {x.row.buyer})
      /\ trade' = [trade EXCEPT
           ![x.id] = Row("CANCELLED", x.row.seller, x.row.buyer)]
      /\ UNCHANGED expired

\* The transaction ends without a write: the handler refused or found its
\* work done, the database refused the commit, or the process died.
Rollback(r) ==
  /\ txn[r] # NoTx
  /\ txn' = [txn EXCEPT ![r] = NoTx]
  /\ UNCHANGED <<trade, balance, expired, ledger>>

Next ==
  \/ \E t \in Trades : Expire(t) \/ \E s \in Users : CreateTrade(t, s)
  \/ \E r \in Requests, op \in Ops, t \in Trades, u \in Users : Begin(r, op, t, u)
  \/ \E r \in Requests :
       PayTrade(r) \/ ConfirmReceipt(r) \/ CancelBySeller(r) \/ Rollback(r)

Spec == Init /\ [][Next]_vars

-----------------------------------------------------------------------------
(* Properties.                                                             *)

\* Types; a row of the database or of a snapshot always names a seller, and a
\* paid or completed trade a buyer other than its seller.
TypeOK ==
  /\ trade \in [Trades -> Rows]
  /\ balance \in [Users -> Int]
  /\ expired \in SUBSET Trades
  /\ ledger \in [Trades -> LedgerRows]
  /\ txn \in [Requests -> TxRecords \cup {NoTx}]

\* No interleaving of payments leaves a buyer with a negative balance,
\* although the balance is compared in one step and decremented in another.
NoOverdraft == \A u \in Users : balance[u] >= 0

\* The Transaction rows of a trade say exactly what its status says: one hold
\* for a paid trade, one hold and one release for a completed one, and for a
\* cancelled one either nothing or one hold and one refund.
LedgerMatchesStatus ==
  \A t \in Trades :
    LET l == ledger[t]
        s == trade[t].status
        fee == IF Fee(t) > 0 THEN 1 ELSE 0
        held == [NoRows EXCEPT !.hold = 1]
    IN  /\ s \in {"NONE", "PENDING_PAYMENT"} => l = NoRows
        /\ s = "PAID_AWAITING_ITEM" => l = held
        /\ s = "COMPLETED" => l = [held EXCEPT !.seller = 1, !.platform = fee]
        /\ s = "CANCELLED" => l \in {NoRows, [held EXCEPT !.refund = 1]}

\* What a handler decides on is still true when its transaction can commit.
SnapshotsCurrent ==
  \A r \in Requests :
    txn[r] # NoTx /\ ~txn[r].stale =>
      /\ txn[r].row = trade[txn[r].id]
      /\ txn[r].op = "pay" => txn[r].funds = balance[txn[r].caller]

\* The concurrent service implements the escrow: every commit is one atomic
\* step of it, everything else changes nothing a party can see.
E == INSTANCE Escrow
ImplementsEscrow == E!Spec
=============================================================================
