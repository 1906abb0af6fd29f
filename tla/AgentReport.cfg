SPECIFICATION Spec
CONSTANTS
  Items <- AllItems
  Chan <- ItemChan
  Capacity <- Sizes
  Configs <- SafetyConfigs
  MaxWait = 2
INVARIANTS TypeOK JoinAccounts
PROPERTIES DeliveredInOrder ImplementsPipeline
CHECK_DEADLOCK FALSE
