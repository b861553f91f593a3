\* One connection: everything else waits for it.
SPECIFICATION Spec
CONSTANTS
  Http = {h1, h2, h3}
  Backend = {b1, b2}
  Path = {p1, p2, p3}
  None = None
  maxBackend = 1
  ConnectFails = TRUE
  MaxCloses = 2
SYMMETRY Symmetry
INVARIANTS TypeOK Links PoolBound NoIdleWhilePending OneDownloadPerPath WaitingIsWatched DoomedUnreferenced NoDangling SafeAborts
PROPERTY FifoPending
