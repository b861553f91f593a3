\* Three downloads, the network cuts their answers anywhere.
SPECIFICATION Spec
CONSTANTS
  Form <- Answers
  MaxDownloads = 3
  MaxHarmed = 2
INVARIANTS TypeOK AnswerUnderstood NothingToWaitFor OnlyLastLineLeft WholeRequests AbortNeedsCut
