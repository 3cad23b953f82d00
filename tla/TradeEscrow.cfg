SPECIFICATION Spec
CONSTANTS
  t1 = t1
  t2 = t2
  Trades = {t1, t2}
  Users = {a, b, plat}
  Platform = plat
  Price <- MCPrice
  Funds <- MCFunds
  NoUser = NoUser
  NoTx = NoTx
  Requests = {r1, r2}
SYMMETRY Symmetry
INVARIANTS
  TypeOK
  NoOverdraft
  LedgerMatchesStatus
PROPERTY ImplementsEscrow
