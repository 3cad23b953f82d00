SPECIFICATION ClientsSpec
CONSTANTS
  Tabs = {t1, t2}
  Urls = {p}
  Null = Null
  NoConfig = NoConfig
  MaxSaves = 2
  MaxSessions = 2
  MaxVisits = 4
  MaxMishaps = 2
  Trades = {A, B}
  MaxJumps = 2
  MaxPresses = 2
  NoTrade = NoTrade
  Users = {u, v}
  PageSize = 1
  MaxPage = 2
  ExportMax = 3
  MaxRows = 3
  MaxTime = 2
  MaxUses = 3
  NoUser = NoUser
  Requests = {r1, r2, r3}
  Matches = {x1, x2}
  OldRoute = {x1}
  Players = {a, b}
  Keys = {k1}
  ApiMax = 2
  Limit = 2
  Window = 1
  MaxClock = 1
  MaxGatewayFaults = 1
  MatchOf <- MCMatchOf
  KeyOf <- MCKeyOf
  WinnerOf <- MCWinnerOf
  NoPlayer = NoPlayer
  Admin = u
  MaxKeys = 1
  Nobody = Nobody
  r1 = r1
  r2 = r2
  r3 = r3
  x1 = x1
  x2 = x2
  a = a
  b = b
  k1 = k1
CHECK_DEADLOCK FALSE
INVARIANTS
  FormTellsTheRow RepeatedOnlyUnseen ShownOtherOnlyBy ListIsExplained
  AnswersNameTheWinner PendingHasOneOwner GuardsAreApplied
PROPERTIES LiveSessionEndsBy RedirectsEnd RefusalEnds
