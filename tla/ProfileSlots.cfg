SPECIFICATION Spec
CONSTANTS
  c1 = c1
  c2 = c2
  c3 = c3
  t1 = t1
  t2 = t2
  NoContext = NoContext
  Contexts = {c1, c2, c3}
  Threads = {t1, t2}
  Runner <- MCRunner
  MaxParallel = 2
  MaxSampling = 1
  MaxSnapshots = 1
INVARIANTS TypeOK CountIsExact ReservationFindsSlot OneSlotEach SlotIsWatched SamplingBounded
PROPERTIES SlotKept
SYMMETRY MCSymmetry
CHECK_DEADLOCK FALSE
