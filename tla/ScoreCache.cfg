\* Two processes, a name in each of two shards.
SPECIFICATION Spec
CONSTANTS
  Procs = {p1, p2}
  Names <- MCNames
  Ttl <- MCTtl
  Sizes = {1, 2}
  MaxBytes = 2
  None = None
  MaxTime = 2
  MaxPasses = 3
  MaxFaults = 1
SYMMETRY Symmetry
INVARIANTS StampsAreHonest WithinLimit ClearedAll
\* The passes allowed may all have been made.
CHECK_DEADLOCK FALSE
