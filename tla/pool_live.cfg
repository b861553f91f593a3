\* A client is answered and a path given back.
SPECIFICATION FairSpec
CONSTANTS
  Http = {h1, h2}
  Backend = {b1, b2}
  Path = {p1, p2}
  None = None
  maxBackend = 1
  ConnectFails = FALSE
  MaxCloses = 1
PROPERTY Released
