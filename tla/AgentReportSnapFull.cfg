SPECIFICATION Spec
CONSTANTS
  Items <- AllItems
  Chan <- ItemChan
  Capacity <- Sizes
  Configs <- SnapshotConfigs
  MaxWait = 2
INVARIANT FullSnapshotQueueAbandons
CHECK_DEADLOCK FALSE
