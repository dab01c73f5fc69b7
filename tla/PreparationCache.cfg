\* Room for one remembered entry, and for one stored entry with a chunk record or two.
SPECIFICATION CacheSpec
CONSTANTS
  Files = {"a.ts", "b.md", "c.ts"}
  Content <- MCContent
  Identity <- MCIdentity
  VerdictOf <- MCVerdict
  Lines <- MCLines
  Versions = {1, 2}
  MaxMemory = 1
  MaxStored = 3
  Depth = 2
  MaxEvents = 1
  None = None
INVARIANTS OutcomeIsFresh RecordedIsKept
CHECK_DEADLOCK FALSE
