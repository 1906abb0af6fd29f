SPECIFICATION Spec
INVARIANTS LateChildIsCreated
CONSTANTS
  main = main
  task = task
  Flows = {main, task}
  Root = main
  Workloads <- Mixed
  MaxSpans = 3
  MaxDepth = 2
  MaxRecords = 3
  MaxTraces = 2
CHECK_DEADLOCK FALSE
