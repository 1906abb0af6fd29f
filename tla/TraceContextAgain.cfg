SPECIFICATION Spec
INVARIANTS ArchivedStaysFinished
CONSTANTS
  main = main
  task = task
  Flows = {main, task}
  Root = main
  Workloads <- Nests
  MaxSpans = 3
  MaxDepth = 2
  MaxRecords = 3
  MaxTraces = 2
CHECK_DEADLOCK FALSE
