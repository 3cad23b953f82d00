SPECIFICATION PaymentsSpec
CONSTANTS
  Parts <- MCWallets
  Requests = {m1, m2}
  Admins = {w1, w2}
  PayoutKeys = {}
  ChargeKeys = {}
  NoKey = NoKey
  PayoutAmounts = {20, 40}
  ChargeAmounts = {60}
  Splits = {30}
  Funds = 70
  PayerFunds = 100
  NoJob = NoJob
  MaxLost = 1
  MaxRows = 2
  FlagThreshold = 30
  BlockThreshold = 70
  MaxChargesPerHour = 0
  MaxPayoutsPerDay = 1
  UnusualMultiplier = 1
  SpikeMultiplier = 3
  CardTestingThreshold = 1
  CardTestingMaxAmount = 60
  NewAccountMaxAmount = 60
  RefundKeys = {}
  RefundAmounts = {3, 4, 7}
  Platform = 4
  Credits <- MCCredits
  p1 = p1
  p2 = p2
  DepositIds = {p1, p2}
  Route <- MCRoute
  Notifications = {m1, m2, n3}
  d1 = d1
  d2 = d2
  Disputes = {d1, d2}
  DisputeAmount <- MCDisputeAmount
  DisputeFunds = 2
  Users = {anna, bob, plat}
  WalletFunds <- MCWalletFunds
  WalletRequests <- MCWalletRequests
  WalletCalls = {m1, m2}
  NoCall = NoCall
  RideIds = {ride1}
  Passenger <- MCPassenger
  Driver <- MCDriver
  RidePlatform = plat
  Fares = {100, 200}
  Bps = 50
  Floor <- MCFloor
  Base = 100
  Commission = 10
  Tip = 1
  Workers = {w1, w2}
  anna = anna
  bob = bob
  plat = plat
  ride1 = ride1
SYMMETRY WalletsSymmetry
CHECK_DEADLOCK FALSE
INVARIANTS
  WalletsAddUp
  RideIsBooked
  CreditedAsTold
  DisputeIsBooked
PROPERTY CashKeepsFloor
