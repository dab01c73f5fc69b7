\* Up to four questions, of which some are joined at a cost.
SPECIFICATION PlanningSpec
CONSTANTS
  Questions <- MCQuestions
  MaxPending = 4
  StateTokens = 1
  StateBytes = 1
  EnvelopeBytes = 2
  TokenBudget = 5
  MaxItems = 3
  MaxBytes = 6
  MaxQuestion = 3
  CapChoices <- MCCaps
  Requests <- MCRequests
  Preparations <- MCPreparations
  Prices <- MCPrices
  PriceUnit = 2
  Reserves <- MCReserves
  None = None
INVARIANTS ClosedInTurn PlanIsTrue
\* A plan is made once.
CHECK_DEADLOCK FALSE
