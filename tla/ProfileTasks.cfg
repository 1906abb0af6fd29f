SPECIFICATION FairSpec
CONSTANTS
  Tasks <- MCTasks
  Start <- MCStart
  Finish <- MCFinish
  Valid <- MCTasks
  CacheSize = 4
  MaxCommands = 4
INVARIANTS TypeOK ExecutedOnce OneTaskProfiles NotifiedOnce ListComplete
PROPERTIES StoppedByRight TasksExecuted TasksFinish
CHECK_DEADLOCK FALSE
