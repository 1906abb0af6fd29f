SPECIFICATION Spec
CONSTANTS
  c1 = c1
  c2 = c2
  c3 = c3
  t1 = t1
  t2 = t2
  NoContext = NoContext
  Contexts = {c1, c3}
  Threads = {t1, t2}
  Runner <- MCRunnerLive
  MaxParallel = 1
  MaxSampling = 1
  MaxSnapshots = 1
INVARIANT TaskOutlivesTraces
CHECK_DEADLOCK FALSE
