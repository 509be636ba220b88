SPECIFICATION FairSpec
CONSTANTS
  h1 = h1
  h2 = h2
  h3 = h3
  Handlers = {h1}
  MaxRequests = 1
  MemoryFails = FALSE
CHECK_DEADLOCK FALSE
PROPERTIES ClosedReleased
