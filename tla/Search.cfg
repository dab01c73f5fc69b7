SPECIFICATION Spec
CONSTANTS
  Files <- MCFiles
  Fragments <- MCFragments
  MaxLine = 4
  Cost <- MCCost
  Available = 8
  Contents = {1, 2}
  Disks <- MCDisks
  Answers <- MCAnswers
  Failures = {"INVALID_PROVIDER_RESPONSE", "PROVIDER_AUTH"}
  Threshold = 2
  Budget = 10
  ReportSizes = {6, 11}
  KeySize = 1
  MaxDelivered = 2
  Past <- MCPast
  Preparations <- MCPreparations
  None = None
  MaxSearches = 1
INVARIANTS
  ReportsBalance
  NoStaleEvidence
  ChosenFits
  TokenIsExact
PROPERTY
  SearchEnds
CHECK_DEADLOCK FALSE
