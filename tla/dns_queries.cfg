\* Two queries at once, two clients.
SPECIFICATION Spec
CONSTANTS
  Client = {c1, c2}
  Host = {n1, n2}
  Id = {q1, q2}
  None = None
  RetryDelay = 1
  Limit = 1
  MaxLate = 1
  MaxCopies = 2
  MaxSurplus = 0
SYMMETRY Symmetry
INVARIANTS TypeOK WaitersAlive QueriesIndexed DueIsQuery KnownNotAsked EventsAlive
