------------------------------ MODULE Payments ------------------------------
(***************************************************************************)
(* The parts of the payment platform that share no state, side by side: a  *)
(* behaviour is one of the part focus names, from its own Init, and the    *)
(* others stay as they begin.                                              *)
(***************************************************************************)
EXTENDS Marketplace

CONSTANTS
  Parts,  \* the parts a run is about
  RefundKeys, RefundAmounts, Platform, Credits,        \* Refund
  DepositIds, Route, Notifications,                    \* Deposit
  Disputes, DisputeAmount, DisputeFunds,               \* Dispute
  Users, WalletFunds, WalletRequests, WalletCalls, NoCall,  \* Wallets
  RideIds, Passenger, Driver, RidePlatform, Fares, Bps, Floor,
  Base, Commission, Tip, Workers                       \* Rides

VARIABLES
  focus,
  refundKey, refunds, refundJob,
  reached, depositKey, credited, depositJob, acked, failed,
  status, booked, disputeBalance, disputeKey, hook, disputeAdmin, late,
  walletBalance, walletLedger, call, told,
  ride, method, fare, finalizing, rideJob, abandoned

market == <<payoutKey, chargeKey, payer, balance, ledger, payouts, charges,
            job, admin, lost>>
refund == <<refundKey, refunds, refundJob>>
deposit == <<reached, depositKey, credited, depositJob, acked, failed>>
dispute == <<status, booked, disputeBalance, disputeKey, hook, disputeAdmin, late>>
rides == <<walletBalance, walletLedger, call, told,
           ride, method, fare, finalizing, rideJob, abandoned>>
allVars == <<focus, market, refund, deposit, dispute, rides>>

R == INSTANCE Refund WITH
       Keys <- RefundKeys, Amounts <- RefundAmounts,
       key <- refundKey, job <- refundJob
D == INSTANCE Deposit WITH
       Payments <- DepositIds, Handlers <- Notifications,
       key <- depositKey, job <- depositJob
X == INSTANCE Dispute WITH
       Amount <- DisputeAmount, Funds <- DisputeFunds, Handlers <- Requests,
       None <- NoJob, balance <- disputeBalance, key <- disputeKey,
       admin <- disputeAdmin
W == INSTANCE Rides WITH
       Funds <- WalletFunds, Requests <- WalletRequests, Calls <- WalletCalls,
       Platform <- RidePlatform,
       balance <- walletBalance, ledger <- walletLedger, job <- rideJob

ASSUME RefundAssumption ==
  R!CompositionAssumption /\ R!AmountsAssumption /\ R!NoJobAssumption
ASSUME DepositAssumption == D!RouteAssumption /\ D!NoJobAssumption
ASSUME DisputeAssumption == X!AmountAssumption /\ X!NoneAssumption
ASSUME RidesAssumption ==
  /\ W!FundsAssumption /\ W!RequestsAssumption
  /\ W!RidesAssumption /\ W!FaresAssumption /\ W!FloorAssumption
  /\ W!FinalizeAssumption /\ W!NoJobAssumption

Inits ==
  /\ focus \in Parts
  /\ Init /\ R!Init /\ D!Init /\ X!Init /\ W!Init

Nexts ==
  \/ /\ focus = "market"
     /\ UNCHANGED <<focus, refund, deposit, dispute, rides>>
     /\ Next
  \/ /\ focus = "refund"
     /\ UNCHANGED <<focus, market, deposit, dispute, rides>>
     /\ R!Next
  \/ /\ focus = "deposit"
     /\ UNCHANGED <<focus, market, refund, dispute, rides>>
     /\ D!Next
  \/ /\ focus = "dispute"
     /\ UNCHANGED <<focus, market, refund, deposit, rides>>
     /\ X!Next
  \/ /\ focus = "rides"
     /\ UNCHANGED <<focus, market, refund, deposit, dispute>>
     /\ W!Next

PaymentsSpec == Inits /\ [][Nexts]_allVars

-----------------------------------------------------------------------------
(* The parts' properties.                                                  *)

\* Refund: what the payer is credited is what the others are debited, to the
\* cent, and no party but the last pays more than its share.
RefundsAddUp == R!RefundsAddUp

\* Refund: a key refunds once, and a charge is exceeded only by a stale sum.
RefundsAreBounded == R!RefundsAreBounded

\* Deposit: a payment is credited once, only when it has succeeded, and before
\* the PSP is told so, failed calls apart.
CreditedAsTold == D!CreditedAsTold

\* Dispute: the ledger and the wallet are what the dispute's status says.
DisputeIsBooked == X!DisputeIsBooked

\* Wallets: the wallets, the ledger and what the clients were told agree, unless
\* a deposit or a fee was sent under a reference that a service builds.
WalletsAddUp == W!WalletsAddUp

\* Rides: a ride is settled once, to the cent; the answer that it was settled
\* before is true unless a client took its reference, and the one that it was
\* finalized before is true but for a failure.
RideIsBooked == W!RideIsBooked

\* Rides: settling a cash ride never takes the driver below the floor.
CashKeepsFloor == [][W!KeepsFloor]_rides
=============================================================================
