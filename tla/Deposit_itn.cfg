SPECIFICATION Spec
CONSTANTS
  p1 = p1
  p2 = p2
  Payments = {p1, p2}
  Route <- MCRoute
  Handlers = {h1, h2, h3}
  NoJob = NoJob
SYMMETRY Symmetry
INVARIANTS
  ItnConfirmedIsCredited
