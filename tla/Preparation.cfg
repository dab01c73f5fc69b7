\* One or two changes of the tree, or reads hit by one.
SPECIFICATION PreparationSpec
CONSTANTS
  Names <- MCNames
  Root = "."
  Above <- MCAbove
  Tree <- MCTree
  Changes <- MCChanges
  DirClass <- MCDirClass
  FileClass <- MCFileClass
  Gitignore <- MCGitignore
  Narrowing <- MCNarrowing
  RulesOf <- MCRules
  Scopes <- MCScopes
  MaxFile = 2
  LimitSets <- MCLimits
  MaxChanges = 2
  Nothing = Nothing
INVARIANTS CompleteMeansAll CountsFit MatchesEligibility
CHECK_DEADLOCK FALSE
