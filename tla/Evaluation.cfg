\* Two workers, three batches, one retry, every cap enabled, a provider that may never
\* answer.
SPECIFICATION FairSpec
CONSTANTS
  Workers = {w1, w2}
  NumBatches = 3
  MaxRetries = 1
  BaseDelay = 1
  MaxDelay = 2
  RetryAmbiguous = FALSE
  RetryAfters = {0, 2}
  Deadline = 3
  MaxWeight = 2
  BatchTokens <- ThreeTokens
  BatchBytes <- ThreeBytes
  ReportedTokens = {0, 3}
  EnabledCaps <- TightCaps
  Price = 2
  PriceUnit = 3
  Adapter = "typesafe-direct"
  Statuses <- MCStatuses
  CauseDepths = {1, 5}
  QuestionKeys = {"e1", "e2"}
  Unasked = {"e3"}
  MaxAnswers = 3
INVARIANTS AccountMatchesLedger CapsHold BilledIsNotRepeated LossIsExplained
PROPERTIES QuietAfterStop RateLimitHolds Terminates
