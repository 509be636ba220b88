SPECIFICATION ProducersSpec
CONSTANTS
  Ids = {t1, t2}
  Hash = 3
  InitialCapacity = 4
  MaxStarts = 2
  MaxProducers = 2
  Empty = Empty
  Reusable = Reusable
  None = None
CHECK_DEADLOCK FALSE
INVARIANTS ListenerSafe
