SPECIFICATION Spec
INVARIANTS TypeOK ArchivedComplete SpanTree SuppressionSticks TracesJoin
PROPERTIES ImplementsStore
CONSTANTS
  main = main
  task = task
  Flows = {main, task}
  Root = main
  Workloads <- All
  MaxSpans = 3
  MaxDepth = 2
  MaxRecords = 3
  MaxTraces = 2
CHECK_DEADLOCK FALSE
