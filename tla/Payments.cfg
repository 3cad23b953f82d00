SPECIFICATION PaymentsSpec
CONSTANTS
  Parts <- MCIntegrations
  Requests = {r1, r2}
  Admins = {a1, a2}
  PayoutKeys = {k1, k2}
  ChargeKeys = {c1, c2}
  NoKey = NoKey
  PayoutAmounts = {20, 40}
  ChargeAmounts = {60}
  Splits = {30}
  Funds = 70
  PayerFunds = 100
  NoJob = NoJob
  MaxLost = 1
  MaxRows = 2
  FlagThreshold = 30
  BlockThreshold = 70
  MaxChargesPerHour = 0
  MaxPayoutsPerDay = 1
  UnusualMultiplier = 1
  SpikeMultiplier = 3
  CardTestingThreshold = 1
  CardTestingMaxAmount = 60
  NewAccountMaxAmount = 60
  RefundKeys = {k1, k2}
  RefundAmounts = {3, 4, 7}
  Platform = 4
  Credits <- MCCredits
  p1 = p1
  p2 = p2
  DepositIds = {}
  Route <- MCRoute
  Notifications = {}
  d1 = d1
  d2 = d2
  Disputes = {}
  DisputeAmount <- MCDisputeAmount
  DisputeFunds = 2
  Users = {}
  WalletFunds <- MCWalletFunds
  WalletRequests = {}
  WalletCalls = {}
  NoCall = NoCall
  RideIds = {}
  Passenger <- MCPassenger
  Driver <- MCDriver
  RidePlatform = plat
  Fares = {100, 200}
  Bps = 50
  Floor <- MCFloor
  Base = 100
  Commission = 10
  Tip = 1
  Workers = {}
  anna = anna
  bob = bob
  plat = plat
  ride1 = ride1
SYMMETRY CallsSymmetry
CHECK_DEADLOCK FALSE
INVARIANTS
  MoneyIsExplained
  PaidOncePerKey
  RulesHoldButByOverlap
  RefundsAddUp
  RefundsAreBounded
PROPERTY SettledIsFinal
