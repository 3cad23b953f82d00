-------------------------- MODULE TradeEscrowProofs --------------------------
(***************************************************************************)
(* For every set of trades, users and requests and every price list: the   *)
(* concurrent trade service keeps its types, never decides on a stale      *)
(* snapshot it can commit, books every trade exactly once, never overdraws *)
(* a buyer, and implements the atomic Escrow.                              *)
(***************************************************************************)
EXTENDS TradeEscrow, TLAPS

\* The fee is between nothing and the whole price, so the two credits of a
\* release add up to the price and neither of them is a debit.
LEMMA FeeBounds ==
  ASSUME NEW t \in Trades
  PROVE  Fee(t) \in 0..Price[t] /\ SellerNet(t) \in Nat /\ Price[t] \in Nat
<1>1. Price[t] \in Nat /\ Price[t] >= 1
  BY PriceAssumption
<1>2. \A p \in Nat : p >= 1 => (3 * p + 50) \div 100 \in 0..p
  OBVIOUS
<1> QED
  BY <1>1, <1>2 DEF Fee, SellerNet

LEMMA CreditType ==
  ASSUME NEW bal \in [Users -> Int], NEW u \in Users, NEW amount \in Int
  PROVE  Credit(bal, u, amount) \in [Users -> Int]
BY DEF Credit

-----------------------------------------------------------------------------
(* Type correctness.                                                       *)

LEMMA TypeInit == Init => TypeOK
<1> SUFFICES ASSUME Init PROVE TypeOK
  OBVIOUS
<1>1. Row("NONE", NoUser, NoUser) \in Rows
  BY DEF Row, Rows
<1>2. balance \in [Users -> Int]
  BY FundsAssumption DEF Init
<1> QED
  BY <1>1, <1>2 DEF Init, TypeOK, NoRows, LedgerRows

\* Ending a transaction keeps the records of the others well-typed.
LEMMA EndTxType ==
  ASSUME TypeOK, NEW r \in Requests, NEW t, NEW W, EndTx(r, t, W)
  PROVE  txn' \in [Requests -> TxRecords \cup {NoTx}]
<1>1. \A q \in Requests : txn[q] # NoTx => [txn[q] EXCEPT !.stale = TRUE] \in TxRecords
  BY DEF TypeOK, TxRecords
<1> QED
  BY <1>1 DEF EndTx, TypeOK

LEMMA TypeStep == TypeOK /\ [Next]_vars => TypeOK'
<1> SUFFICES ASSUME TypeOK, [Next]_vars PROVE TypeOK'
  OBVIOUS
<1>1. ASSUME NEW t \in Trades, Expire(t) PROVE TypeOK'
  BY <1>1 DEF Expire, TypeOK
<1>2. ASSUME NEW t \in Trades, NEW s \in Users, CreateTrade(t, s) PROVE TypeOK'
  <2>1. Row("PENDING_PAYMENT", s, NoUser) \in Rows
    BY DEF Row, Rows
  <2> QED
    BY <1>2, <2>1 DEF CreateTrade, TypeOK
<1>3. ASSUME NEW r \in Requests, NEW op \in Ops, NEW t \in Trades, NEW u \in Users,
             Begin(r, op, t, u)
      PROVE TypeOK'
  <2>1. [op |-> op, id |-> t, caller |-> u, row |-> trade[t],
         funds |-> balance[u], late |-> t \in expired, stale |-> FALSE] \in TxRecords
    BY <1>3 DEF TypeOK, TxRecords, Begin
  <2> QED
    BY <1>3, <2>1 DEF Begin, TypeOK
<1>4. ASSUME NEW r \in Requests, PayTrade(r) PROVE TypeOK'
  <2> DEFINE x == txn[r]
  <2>1. x \in TxRecords /\ x.id \in Trades /\ x.caller \in Users /\ x.row \in Rows
    BY <1>4 DEF PayTrade, TypeOK, TxRecords
  <2>2. Row("PAID_AWAITING_ITEM", x.row.seller, x.caller) \in Rows
    BY <1>4, <2>1 DEF PayTrade, Row, Rows
  <2>3. trade' \in [Trades -> Rows]
    BY <1>4, <2>2 DEF PayTrade, TypeOK
  <2>4. balance' \in [Users -> Int]
    <3>1. -Price[x.id] \in Int
      BY <2>1, FeeBounds
    <3> QED
      BY <1>4, <2>1, <3>1, CreditType DEF PayTrade, TypeOK
  <2>5. txn' \in [Requests -> TxRecords \cup {NoTx}]
    BY <1>4, EndTxType DEF PayTrade
  <2>6. ledger' \in [Trades -> LedgerRows]
    <3>1. \A l \in LedgerRows : [l EXCEPT !.hold = @ + 1] \in LedgerRows
      BY DEF LedgerRows
    <3>2. [ledger[x.id] EXCEPT !.hold = @ + 1] \in LedgerRows
      BY <2>1, <3>1 DEF TypeOK
    <3> QED
      BY <1>4, <3>2 DEF PayTrade, TypeOK
  <2> QED
    BY <1>4, <2>3, <2>4, <2>5, <2>6 DEF PayTrade, TypeOK
<1>5. ASSUME NEW r \in Requests, ConfirmReceipt(r) PROVE TypeOK'
  <2> DEFINE x == txn[r]
  <2>1. /\ x \in TxRecords /\ x.id \in Trades /\ x.row \in Rows
        /\ x.row.seller \in Users
    BY <1>5 DEF ConfirmReceipt, TypeOK, TxRecords, Rows
  <2>2. Row("COMPLETED", x.row.seller, x.row.buyer) \in Rows
    BY <1>5, <2>1 DEF ConfirmReceipt, Row, Rows
  <2>3. trade' \in [Trades -> Rows]
    BY <1>5, <2>2 DEF ConfirmReceipt, TypeOK
  <2>4. balance' \in [Users -> Int]
    <3>1. SellerNet(x.id) \in Int /\ Fee(x.id) \in Int
      BY <2>1, FeeBounds
    <3>2. Credit(balance, x.row.seller, SellerNet(x.id)) \in [Users -> Int]
      BY <2>1, <3>1, CreditType DEF TypeOK
    <3>3. Credit(Credit(balance, x.row.seller, SellerNet(x.id)),
                 Platform, Fee(x.id)) \in [Users -> Int]
      BY <3>1, <3>2, CreditType, PlatformAssumption
    <3> QED
      BY <1>5, <3>3 DEF ConfirmReceipt
  <2>5. txn' \in [Requests -> TxRecords \cup {NoTx}]
    BY <1>5, EndTxType DEF ConfirmReceipt
  <2>6. ledger' \in [Trades -> LedgerRows]
    <3>1. (IF Fee(x.id) > 0 THEN 1 ELSE 0) \in Nat
      OBVIOUS
    <3>2. PICK fee \in Nat : fee = IF Fee(x.id) > 0 THEN 1 ELSE 0
      BY <3>1
    <3>3. ledger' = [ledger EXCEPT ![x.id].seller = 1, ![x.id].platform = fee]
      BY <1>5, <3>2 DEF ConfirmReceipt
    <3>4. \A t \in Trades : ledger[t] \in LedgerRows
      BY DEF TypeOK
    <3>5. \A t \in Trades :
            ledger'[t] = IF t = x.id THEN [ledger[t] EXCEPT !.seller = 1, !.platform = fee]
                                     ELSE ledger[t]
      BY <3>3 DEF TypeOK
    <3>6. ASSUME NEW l \in LedgerRows
          PROVE  [l EXCEPT !.seller = 1, !.platform = fee] \in LedgerRows
      BY DEF LedgerRows
    <3>7. \A t \in Trades : ledger'[t] \in LedgerRows
      BY <3>4, <3>5, <3>6
    <3> QED
      BY <3>3, <3>7 DEF TypeOK
  <2> QED
    BY <1>5, <2>3, <2>4, <2>5, <2>6 DEF ConfirmReceipt, TypeOK
<1>6. ASSUME NEW r \in Requests, CancelBySeller(r) PROVE TypeOK'
  <2> DEFINE x == txn[r]
  <2>1. /\ x \in TxRecords /\ x.id \in Trades /\ x.row \in Rows
        /\ x.row.seller \in Users
        /\ x.row.status = "PAID_AWAITING_ITEM" => x.row.buyer \in Users
        /\ x.row.buyer \in Users \cup {NoUser}
    BY <1>6 DEF CancelBySeller, TypeOK, TxRecords, Rows
  <2>2. Row("CANCELLED", x.row.seller, x.row.buyer) \in Rows
    BY <2>1 DEF Row, Rows
  <2>3. trade' \in [Trades -> Rows]
    BY <1>6, <2>2 DEF CancelBySeller, TypeOK
  <2>4. balance' \in [Users -> Int]
    <3>1. Price[x.id] \in Int
      BY <2>1, FeeBounds
    <3> QED
      BY <1>6, <2>1, <3>1, CreditType DEF CancelBySeller, TypeOK
  <2>5. txn' \in [Requests -> TxRecords \cup {NoTx}]
    BY <1>6, EndTxType DEF CancelBySeller
  <2>6. ledger' \in [Trades -> LedgerRows]
    BY <1>6 DEF CancelBySeller, TypeOK, LedgerRows
  <2> QED
    BY <1>6, <2>3, <2>4, <2>5, <2>6 DEF CancelBySeller, TypeOK
<1>7. ASSUME NEW r \in Requests, Rollback(r) PROVE TypeOK'
  BY <1>7 DEF Rollback, TypeOK
<1>8. CASE UNCHANGED vars
  BY <1>8 DEF vars, TypeOK
<1> QED
  BY <1>1, <1>2, <1>3, <1>4, <1>5, <1>6, <1>7, <1>8 DEF Next

-----------------------------------------------------------------------------
(* Snapshots. A transaction that can still commit has seen the rows it     *)
(* decides on as they are: the writes of others that touch them mark it.   *)

LEMMA SnapshotAfterCommit ==
  ASSUME TypeOK, SnapshotsCurrent,
         NEW r \in Requests, NEW t \in Trades, NEW W, EndTx(r, t, W),
         \A s \in Trades : s # t => trade'[s] = trade[s],
         \A u \in Users : u \notin W => balance'[u] = balance[u]
  PROVE  SnapshotsCurrent'
<1> SUFFICES ASSUME NEW q \in Requests, txn'[q] # NoTx, ~txn'[q].stale
             PROVE  /\ txn'[q].row = trade'[txn'[q].id]
                    /\ txn'[q].op = "pay" => txn'[q].funds = balance'[txn'[q].caller]
  BY DEF SnapshotsCurrent
<1>1. q # r /\ txn[q] # NoTx /\ txn[q] \in TxRecords
  BY DEF EndTx, TypeOK
<1>2. txn[q].id # t /\ WalletsOf(txn[q]) \cap W = {}
  <2> SUFFICES ASSUME txn[q].id = t \/ WalletsOf(txn[q]) \cap W # {} PROVE FALSE
    OBVIOUS
  <2>1. txn'[q] = [txn[q] EXCEPT !.stale = TRUE]
    BY <1>1 DEF EndTx
  <2>2. [txn[q] EXCEPT !.stale = TRUE].stale = TRUE
    BY <1>1 DEF TxRecords
  <2> QED
    BY <2>1, <2>2
<1>3. txn'[q] = txn[q]
  BY <1>1, <1>2 DEF EndTx
<1>4. txn[q].row = trade[txn[q].id] /\ (txn[q].op = "pay" => txn[q].funds = balance[txn[q].caller])
  BY <1>1, <1>3 DEF SnapshotsCurrent
<1>5. txn[q].id \in Trades /\ txn[q].caller \in Users
  BY <1>1 DEF TxRecords
<1>6. txn[q].op = "pay" => txn[q].caller \notin W
  BY <1>2 DEF WalletsOf
<1> QED
  BY <1>2, <1>3, <1>4, <1>5, <1>6

\* What a commit of r decides on is the state it commits to.
LEMMA CommitSeesState ==
  ASSUME TypeOK, SnapshotsCurrent, NEW r \in Requests, txn[r] # NoTx, NoConflict(r)
  PROVE  /\ txn[r] \in TxRecords /\ txn[r].id \in Trades /\ txn[r].caller \in Users
         /\ txn[r].row \in Rows
         /\ txn[r].row = trade[txn[r].id]
         /\ txn[r].op = "pay" => txn[r].funds = balance[txn[r].caller]
BY DEF TypeOK, SnapshotsCurrent, NoConflict, TxRecords

LEMMA SnapshotStep == TypeOK /\ SnapshotsCurrent /\ [Next]_vars => SnapshotsCurrent'
<1> SUFFICES ASSUME TypeOK, SnapshotsCurrent, [Next]_vars PROVE SnapshotsCurrent'
  OBVIOUS
<1>1. ASSUME NEW t \in Trades, Expire(t) PROVE SnapshotsCurrent'
  BY <1>1 DEF Expire, SnapshotsCurrent
<1>2. ASSUME NEW t \in Trades, NEW s \in Users, CreateTrade(t, s) PROVE SnapshotsCurrent'
  <2> SUFFICES ASSUME NEW q \in Requests, txn[q] # NoTx, ~txn[q].stale
               PROVE  /\ txn[q].row = trade'[txn[q].id]
                      /\ txn[q].op = "pay" => txn[q].funds = balance[txn[q].caller]
    BY <1>2 DEF CreateTrade, SnapshotsCurrent
  <2>1. txn[q].id \in Trades /\ txn[q].row.status # "NONE"
    BY DEF TypeOK, TxRecords
  <2>2. txn[q].id # t
    BY <1>2, <2>1 DEF CreateTrade, SnapshotsCurrent
  <2> QED
    BY <1>2, <2>1, <2>2 DEF CreateTrade, SnapshotsCurrent, TypeOK
<1>3. ASSUME NEW r \in Requests, NEW op \in Ops, NEW t \in Trades, NEW u \in Users,
             Begin(r, op, t, u)
      PROVE SnapshotsCurrent'
  BY <1>3 DEF Begin, SnapshotsCurrent, TypeOK
<1>4. ASSUME NEW r \in Requests, PayTrade(r) PROVE SnapshotsCurrent'
  <2> DEFINE x == txn[r]
  <2>1. x.id \in Trades /\ x.caller \in Users
    BY <1>4 DEF PayTrade, TypeOK, TxRecords
  <2>2. \A t \in Trades : t # x.id => trade'[t] = trade[t]
    BY <1>4 DEF PayTrade, TypeOK
  <2>3. \A u \in Users : u \notin {x.caller} => balance'[u] = balance[u]
    BY <1>4 DEF PayTrade, TypeOK, Credit
  <2>4. EndTx(r, x.id, {x.caller})
    BY <1>4 DEF PayTrade
  <2> QED
    BY <2>1, <2>2, <2>3, <2>4, SnapshotAfterCommit
<1>5. ASSUME NEW r \in Requests, ConfirmReceipt(r) PROVE SnapshotsCurrent'
  <2> DEFINE x == txn[r]
             W == {x.row.seller, Platform}
  <2>1. x.id \in Trades
    BY <1>5 DEF ConfirmReceipt, TypeOK, TxRecords
  <2>2. \A t \in Trades : t # x.id => trade'[t] = trade[t]
    BY <1>5 DEF ConfirmReceipt, TypeOK
  <2>3. \A u \in Users : u \notin W => balance'[u] = balance[u]
    BY <1>5 DEF ConfirmReceipt, TypeOK, Credit
  <2>4. EndTx(r, x.id, W)
    BY <1>5 DEF ConfirmReceipt
  <2> QED
    BY <2>1, <2>2, <2>3, <2>4, SnapshotAfterCommit
<1>6. ASSUME NEW r \in Requests, CancelBySeller(r) PROVE SnapshotsCurrent'
  <2> DEFINE x == txn[r]
             W == IF x.row.status = "PENDING_PAYMENT" THEN {} ELSE {x.row.buyer}
  <2>1. x.id \in Trades
    BY <1>6 DEF CancelBySeller, TypeOK, TxRecords
  <2>2. \A t \in Trades : t # x.id => trade'[t] = trade[t]
    BY <1>6 DEF CancelBySeller, TypeOK
  <2>3. \A u \in Users : u \notin W => balance'[u] = balance[u]
    BY <1>6 DEF CancelBySeller, TypeOK, Credit
  <2>4. EndTx(r, x.id, W)
    BY <1>6 DEF CancelBySeller
  <2> QED
    BY <2>1, <2>2, <2>3, <2>4, SnapshotAfterCommit
<1>7. ASSUME NEW r \in Requests, Rollback(r) PROVE SnapshotsCurrent'
  BY <1>7 DEF Rollback, SnapshotsCurrent, TypeOK
<1>8. CASE UNCHANGED vars
  BY <1>8 DEF vars, SnapshotsCurrent
<1> QED
  BY <1>1, <1>2, <1>3, <1>4, <1>5, <1>6, <1>7, <1>8 DEF Next

-----------------------------------------------------------------------------
(* Money: the ledger of a trade follows its status, and no payment takes   *)
(* more than the buyer has.                                                *)

LEMMA LedgerStep ==
  TypeOK /\ SnapshotsCurrent /\ LedgerMatchesStatus /\ [Next]_vars => LedgerMatchesStatus'
<1> SUFFICES ASSUME TypeOK, SnapshotsCurrent, LedgerMatchesStatus, [Next]_vars
             PROVE  LedgerMatchesStatus'
  OBVIOUS
<1> DEFINE Good(l, s, t) ==
      LET fee == IF Fee(t) > 0 THEN 1 ELSE 0
          held == [NoRows EXCEPT !.hold = 1]
      IN  /\ s \in {"NONE", "PENDING_PAYMENT"} => l = NoRows
          /\ s = "PAID_AWAITING_ITEM" => l = held
          /\ s = "COMPLETED" => l = [held EXCEPT !.seller = 1, !.platform = fee]
          /\ s = "CANCELLED" => l \in {NoRows, [held EXCEPT !.refund = 1]}
<1>a. \A t \in Trades : Good(ledger[t], trade[t].status, t)
  BY DEF LedgerMatchesStatus
<1>b. (\A t \in Trades : Good(ledger'[t], trade'[t].status, t)) => LedgerMatchesStatus'
  BY DEF LedgerMatchesStatus, Fee
<1>1. ASSUME NEW t \in Trades, Expire(t) PROVE LedgerMatchesStatus'
  BY <1>1 DEF Expire, LedgerMatchesStatus, Fee
<1>2. ASSUME NEW t \in Trades, NEW s \in Users, CreateTrade(t, s)
      PROVE LedgerMatchesStatus'
  <2>1. \A u \in Trades : Good(ledger'[u], trade'[u].status, u)
    BY <1>2, <1>a DEF CreateTrade, TypeOK, Row
  <2> QED
    BY <2>1, <1>b
<1>3. ASSUME NEW r \in Requests, NEW op \in Ops, NEW t \in Trades, NEW u \in Users,
             Begin(r, op, t, u)
      PROVE LedgerMatchesStatus'
  BY <1>3 DEF Begin, LedgerMatchesStatus, Fee
<1>4. ASSUME NEW r \in Requests, PayTrade(r) PROVE LedgerMatchesStatus'
  <2> DEFINE x == txn[r]
  <2>1. x.id \in Trades /\ x.row = trade[x.id]
    BY <1>4, CommitSeesState DEF PayTrade
  <2>2. ledger[x.id] = NoRows
    BY <1>4, <2>1, <1>a DEF PayTrade
  <2>3. ledger'[x.id] = [NoRows EXCEPT !.hold = 1]
    BY <1>4, <2>1, <2>2 DEF PayTrade, TypeOK, NoRows
  <2>4. trade'[x.id].status = "PAID_AWAITING_ITEM"
    BY <1>4, <2>1 DEF PayTrade, TypeOK, Row
  <2>5. \A t \in Trades : t # x.id => ledger'[t] = ledger[t] /\ trade'[t] = trade[t]
    BY <1>4, <2>1 DEF PayTrade, TypeOK
  <2>6. \A t \in Trades : Good(ledger'[t], trade'[t].status, t)
    BY <2>3, <2>4, <2>5, <1>a
  <2> QED
    BY <2>6, <1>b
<1>5. ASSUME NEW r \in Requests, ConfirmReceipt(r) PROVE LedgerMatchesStatus'
  <2> DEFINE x == txn[r]
             fee == IF Fee(x.id) > 0 THEN 1 ELSE 0
  <2>1. x.id \in Trades /\ x.row = trade[x.id]
    BY <1>5, CommitSeesState DEF ConfirmReceipt
  <2>2. ledger[x.id] = [NoRows EXCEPT !.hold = 1]
    BY <1>5, <2>1, <1>a DEF ConfirmReceipt
  <2>3. ledger'[x.id] = [[NoRows EXCEPT !.hold = 1] EXCEPT !.seller = 1, !.platform = fee]
    BY <1>5, <2>1, <2>2 DEF ConfirmReceipt, TypeOK, NoRows
  <2>4. trade'[x.id].status = "COMPLETED"
    BY <1>5, <2>1 DEF ConfirmReceipt, TypeOK, Row
  <2>5. \A t \in Trades : t # x.id => ledger'[t] = ledger[t] /\ trade'[t] = trade[t]
    BY <1>5, <2>1 DEF ConfirmReceipt, TypeOK
  <2>6. \A t \in Trades : Good(ledger'[t], trade'[t].status, t)
    BY <2>3, <2>4, <2>5, <1>a
  <2> QED
    BY <2>6, <1>b
<1>6. ASSUME NEW r \in Requests, CancelBySeller(r) PROVE LedgerMatchesStatus'
  <2> DEFINE x == txn[r]
  <2>1. x.id \in Trades /\ x.row = trade[x.id]
    BY <1>6, CommitSeesState DEF CancelBySeller
  <2>2. ledger'[x.id] \in {NoRows, [[NoRows EXCEPT !.hold = 1] EXCEPT !.refund = 1]}
    <3>1. CASE x.row.status = "PENDING_PAYMENT"
      BY <1>6, <2>1, <3>1, <1>a DEF CancelBySeller
    <3>2. CASE x.row.status = "PAID_AWAITING_ITEM"
      <4>1. ledger[x.id] = [NoRows EXCEPT !.hold = 1]
        BY <2>1, <3>2, <1>a
      <4> QED
        BY <1>6, <2>1, <3>2, <4>1 DEF CancelBySeller, TypeOK, NoRows
    <3> QED
      BY <1>6, <3>1, <3>2 DEF CancelBySeller
  <2>3. trade'[x.id].status = "CANCELLED"
    BY <1>6, <2>1 DEF CancelBySeller, TypeOK, Row
  <2>4. \A t \in Trades : t # x.id => ledger'[t] = ledger[t] /\ trade'[t] = trade[t]
    BY <1>6, <2>1 DEF CancelBySeller, TypeOK
  <2>5. \A t \in Trades : Good(ledger'[t], trade'[t].status, t)
    BY <2>2, <2>3, <2>4, <1>a
  <2> QED
    BY <2>5, <1>b
<1>7. ASSUME NEW r \in Requests, Rollback(r) PROVE LedgerMatchesStatus'
  BY <1>7 DEF Rollback, LedgerMatchesStatus, Fee
<1>8. CASE UNCHANGED vars
  BY <1>8 DEF vars, LedgerMatchesStatus, Fee
<1> QED
  BY <1>1, <1>2, <1>3, <1>4, <1>5, <1>6, <1>7, <1>8 DEF Next

LEMMA OverdraftStep ==
  TypeOK /\ SnapshotsCurrent /\ NoOverdraft /\ [Next]_vars => NoOverdraft'
<1> SUFFICES ASSUME TypeOK, SnapshotsCurrent, NoOverdraft, [Next]_vars,
                    NEW u \in Users
             PROVE  balance'[u] >= 0
  BY DEF NoOverdraft
<1>a. balance[u] \in Int /\ balance[u] >= 0
  BY DEF TypeOK, NoOverdraft
<1>1. ASSUME NEW r \in Requests, PayTrade(r) PROVE balance'[u] >= 0
  <2> DEFINE x == txn[r]
  <2>1. x.id \in Trades /\ x.caller \in Users /\ x.funds = balance[x.caller]
    BY <1>1, CommitSeesState DEF PayTrade
  <2>2. Price[x.id] \in Nat
    BY <2>1, FeeBounds
  <2> QED
    BY <1>1, <1>a, <2>1, <2>2 DEF PayTrade, Credit, TypeOK
<1>2. ASSUME NEW r \in Requests, ConfirmReceipt(r) PROVE balance'[u] >= 0
  <2> DEFINE x == txn[r]
  <2>1. x.id \in Trades
    BY <1>2, CommitSeesState DEF ConfirmReceipt
  <2>2. SellerNet(x.id) \in Nat /\ Fee(x.id) \in Nat
    BY <2>1, FeeBounds
  <2> QED
    BY <1>2, <1>a, <2>2 DEF ConfirmReceipt, Credit, TypeOK
<1>3. ASSUME NEW r \in Requests, CancelBySeller(r) PROVE balance'[u] >= 0
  <2> DEFINE x == txn[r]
  <2>1. x.id \in Trades
    BY <1>3, CommitSeesState DEF CancelBySeller
  <2>2. Price[x.id] \in Nat
    BY <2>1, FeeBounds
  <2> QED
    BY <1>3, <1>a, <2>2 DEF CancelBySeller, Credit, TypeOK
<1>4. ASSUME balance' = balance PROVE balance'[u] >= 0
  BY <1>4, <1>a
<1> QED
  BY <1>1, <1>2, <1>3, <1>4
     DEF Next, vars, Expire, CreateTrade, Begin, Rollback

-----------------------------------------------------------------------------
(* The invariant, inductive as a whole: the ledger and the balances need   *)
(* the snapshots, the snapshots need the types.                            *)

IInv == TypeOK /\ SnapshotsCurrent /\ LedgerMatchesStatus /\ NoOverdraft

LEMMA IInvInit == Init => IInv
<1> SUFFICES ASSUME Init PROVE IInv
  OBVIOUS
<1>1. SnapshotsCurrent
  BY DEF Init, SnapshotsCurrent
<1>2. LedgerMatchesStatus
  BY DEF Init, LedgerMatchesStatus, Row
<1>3. NoOverdraft
  BY FundsAssumption DEF Init, NoOverdraft
<1> QED
  BY <1>1, <1>2, <1>3, TypeInit DEF IInv

LEMMA IInvStep == IInv /\ [Next]_vars => IInv'
  BY TypeStep, SnapshotStep, LedgerStep, OverdraftStep DEF IInv

THEOREM IInvInvariant == Spec => []IInv
  BY IInvInit, IInvStep, PTL DEF Spec

\* The state of the trade service is well-typed: every row names its parties.
THEOREM TypeCorrect == Spec => []TypeOK
  BY IInvInvariant, PTL DEF IInv

\* A handler whose transaction can commit decides on the current rows.
THEOREM DecisionsAreCurrent == Spec => []SnapshotsCurrent
  BY IInvInvariant, PTL DEF IInv

\* A trade is held, released and refunded once, as its status says.
THEOREM BookedOnce == Spec => []LedgerMatchesStatus
  BY IInvInvariant, PTL DEF IInv

\* No interleaving of payments overdraws a wallet.
THEOREM NeverOverdrawn == Spec => []NoOverdraft
  BY IInvInvariant, PTL DEF IInv

-----------------------------------------------------------------------------
(* Refinement: a commit is one step of Escrow, anything else a stutter.    *)

\* Escrow's own copies of the operators of TradeData are the same functions.
LEMMA SameData ==
  ASSUME NEW t \in Trades
  PROVE  /\ E!Fee(t) = Fee(t)
         /\ E!SellerNet(t) = SellerNet(t)
  BY DEF Fee, E!Fee, SellerNet, E!SellerNet

LEMMA EscrowInit == Init => E!Init
  BY DEF Init, E!Init, Row, E!Row

LEMMA EscrowStep ==
  IInv /\ [Next]_vars => [E!Next]_<<trade, balance>>
<1> SUFFICES ASSUME IInv, [Next]_vars PROVE [E!Next]_<<trade, balance>>
  OBVIOUS
<1> USE DEF IInv
<1>1. ASSUME NEW t \in Trades, NEW s \in Users, CreateTrade(t, s) PROVE E!Next
  BY <1>1 DEF CreateTrade, E!Next, E!Create, Row, E!Row
<1>2. ASSUME NEW r \in Requests, PayTrade(r) PROVE E!Next
  <2> DEFINE x == txn[r]
  <2>1. /\ x.id \in Trades /\ x.caller \in Users
        /\ x.row = trade[x.id] /\ x.funds = balance[x.caller]
    BY <1>2, CommitSeesState DEF PayTrade
  <2>2. E!Pay(x.id, x.caller)
    BY <1>2, <2>1 DEF PayTrade, E!Pay, Row, E!Row, Credit, E!Credit
  <2> QED
    BY <2>1, <2>2 DEF E!Next
<1>3. ASSUME NEW r \in Requests, ConfirmReceipt(r) PROVE E!Next
  <2> DEFINE x == txn[r]
  <2>1. x.id \in Trades /\ x.row = trade[x.id]
    BY <1>3, CommitSeesState DEF ConfirmReceipt
  <2>2. E!Release(x.id)
    BY <1>3, <2>1, SameData
       DEF ConfirmReceipt, E!Release, Row, E!Row, Credit, E!Credit
  <2> QED
    BY <2>1, <2>2 DEF E!Next
<1>4. ASSUME NEW r \in Requests, CancelBySeller(r) PROVE E!Next
  <2> DEFINE x == txn[r]
  <2>1. x.id \in Trades /\ x.row = trade[x.id]
    BY <1>4, CommitSeesState DEF CancelBySeller
  <2>2. E!Cancel(x.id)
    BY <1>4, <2>1
       DEF CancelBySeller, E!Cancel, Row, E!Row, Credit, E!Credit
  <2> QED
    BY <2>1, <2>2 DEF E!Next
<1> QED
  BY <1>1, <1>2, <1>3, <1>4 DEF Next, vars, Expire, Begin, Rollback

\* The concurrent service implements the atomic escrow.
THEOREM Refinement == Spec => ImplementsEscrow
<1>1. Init => E!Init
  BY EscrowInit
<1>2. IInv /\ [Next]_vars => [E!Next]_<<trade, balance>>
  BY EscrowStep
<1> QED
  BY <1>1, <1>2, IInvInvariant, PTL DEF Spec, ImplementsEscrow, E!Spec
=============================================================================
