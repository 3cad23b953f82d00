----------------------------- MODULE TradeData -----------------------------
(***************************************************************************)
(* What the abstract and the detailed escrow share: the trades, the users, *)
(* the prices, the fee, and updates of wallets.                            *)
(***************************************************************************)
EXTENDS Integers

CONSTANTS
  Trades,    \* trade ids
  Users,     \* users with a wallet
  Platform,  \* the user whose wallet collects the fees
  Price,     \* Trade.amountCents of each trade
  Funds,     \* initial balance of each user
  NoUser     \* null buyer or seller

ASSUME PlatformAssumption == Platform \in Users
ASSUME NoUserAssumption == NoUser \notin Users
ASSUME PriceAssumption == Price \in [Trades -> Nat \ {0}]
ASSUME FundsAssumption == Funds \in [Users -> Nat]

\* 3% of the price, Math.round: half up.
Fee(t) == (3 * Price[t] + 50) \div 100
SellerNet(t) == Price[t] - Fee(t)

Row(status, seller, buyer) ==
  [status |-> status, seller |-> seller, buyer |-> buyer]

Rows ==
  {row \in [status : {"NONE", "PENDING_PAYMENT", "PAID_AWAITING_ITEM",
                      "COMPLETED", "CANCELLED"},
            seller : Users \cup {NoUser}, buyer : Users \cup {NoUser}] :
     /\ row.status # "NONE" => row.seller \in Users
     /\ row.status \in {"PAID_AWAITING_ITEM", "COMPLETED"} =>
          row.buyer \in Users /\ row.buyer # row.seller}

Credit(bal, u, amount) == [bal EXCEPT ![u] = @ + amount]
=============================================================================
