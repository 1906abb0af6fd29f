SPECIFICATION Spec
CONSTANTS
  r1 = r1
  r2 = r2
  r3 = r3
  p1 = p1
  p2 = p2
  Requests = {r1, r2, r3}
  Loads <- MCLoads
  Procs = {p1, p2}
  Proc <- MCProc
  Part <- MCPart
  Parts = 2
  Seqs = 2
  MaxTime = 1
  MaxBlocks = 3
  Blocks <- MCBlocks
INVARIANTS TypeOK Exclusive OutboxAgrees AbortedLeavesNothing ScopeIsOfActive IdsIncrease
SYMMETRY MCSymmetry
CHECK_DEADLOCK FALSE
