SPECIFICATION EndlessSpec
CONSTANTS
  Items <- AllItems
  Chan <- ItemChan
  Capacity <- Sizes
  Configs <- LiveConfigs
  MaxWait = 2
PROPERTIES QueueDrains StopReturns CallEnds
CHECK_DEADLOCK FALSE
