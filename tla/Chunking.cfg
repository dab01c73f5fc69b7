\* Limits small enough for every rule to apply within four lines.
SPECIFICATION ChunkingSpec
CONSTANTS
  Sources <- MCSources
  TreeNodes <- MCNodes
  TargetTokens = 3
  MaxTokens = 4
  MaxBytes = 5
  TargetLines = 2
  MaxLines = 3
  OverlapLines = 1
  TinyTokens = 1
  HeaderTokens = 1
  MaxDepth = 2
  Nil = Nil
INVARIANTS EveryLineCovered FragmentsFit AttachedTogether
CHECK_DEADLOCK FALSE
