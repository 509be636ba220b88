SPECIFICATION MCSpec
CONSTANTS
  c1 = c1
  c2 = c2
  b1 = b1
  b2 = b2
  t3 = t3
  Consumers = {c1, c2}
  Blocks = {b1, b2}
  NoBlock = NoBlock
  BlockSize = 2
  InitialSize = 2
  MaxItems = 5
  MaxTickets = 6
  Threads = {c1, c2, f1}
  Nodes = {b1, b2}
  Null = Null
  Ids = {t1, t2, t3}
  Hash = 3
  InitialCapacity = 4
  MaxStarts = 5
  MaxProducers = 3
  Empty = Empty
  Reusable = Reusable
  None = None
SYMMETRY MCSymmetry
CHECK_DEADLOCK FALSE
INVARIANTS ClaimsCovered RightElement BlockOwned OnePlace NoneLost OneOwner TableNotFull CallbackSafe
PROPERTIES FailsExcused Implements
