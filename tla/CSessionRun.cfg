SPECIFICATION FairSpec
CONSTANTS
  h1 = h1
  h2 = h2
  h3 = h3
  Handlers = {h1, h2, h3}
  MaxRequests = 3
  MemoryFails = TRUE
CHECK_DEADLOCK FALSE
INVARIANTS TypeOK NoLostReply RepliesAsked RepliesAccounted
PROPERTIES RepliesWritten ReaderReturns LateReplyEndsWriter
