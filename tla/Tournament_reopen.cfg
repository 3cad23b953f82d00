SPECIFICATION Spec
CONSTANTS
  Users = {p1, p2, org}
  Organizer = org
  MaxPlayers = 2
  EntryFee = 500
  Funds = 500
  NoUser = NoUser
  NoMatch = NoMatch
SYMMETRY Symmetry
CHECK_DEADLOCK FALSE
INVARIANT PrizePaidOnce
