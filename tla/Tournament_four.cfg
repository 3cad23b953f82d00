SPECIFICATION Spec
CONSTANTS
  Users = {p1, p2, p3, p4, org}
  Organizer = org
  MaxPlayers = 4
  EntryFee = 500
  Funds = 0
  NoUser = NoUser
  NoMatch = NoMatch
SYMMETRY Symmetry
CHECK_DEADLOCK FALSE
INVARIANTS
  BooksAreComplete
  PoolConserved
  BracketInStep
PROPERTIES
  AdvanceTakesEveryWinner
