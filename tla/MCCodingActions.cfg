CONSTANTS
  Nobody = Nobody
  Task = {t1, t2, t3}
  Request = {r1}
  Change = {c1}
  Content = {a}
  MaxTyped = 1
SPECIFICATION FairSpec
INVARIANTS
  RunsOnce
  NoProcessLeft
  CloseIsQuiet
  CancelledHasNoResult
  AppliedOnce
  AnswerIsForThePrompt
PROPERTIES
  WaitsEnd
  CallsEnd
