\* Two connections: moves to an idle one, refusals beside a busy one.
SPECIFICATION Spec
CONSTANTS
  Http = {h1, h2, h3}
  Backend = {b1, b2}
  Path = {p1, p2, p3}
  None = None
  maxBackend = 2
  ConnectFails = FALSE
  MaxCloses = 1
SYMMETRY Symmetry
INVARIANT IdleIsFree
PROPERTY InTurn
