\* Timeouts and deletions under fairness.
SPECIFICATION FairSpec
CONSTANTS
  Client = {c1, c2}
  Host = {n1}
  Id = {q1}
  None = None
  RetryDelay = 1
  Limit = 1
  MaxLate = 0
  MaxCopies = 3
  MaxSurplus = 0
PROPERTIES TimesOut Reaped
