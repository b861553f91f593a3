\* Http.cpp:2047 against the code.
SPECIFICATION Spec
CONSTANTS
  Form <- Answers
  MaxDownloads = 3
  MaxHarmed = 2
INVARIANT OwnAnswer
