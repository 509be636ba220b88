SPECIFICATION FairLifeSpec
CONSTANTS
  Sessions = {s1, s2, s3}
  SizeLimit = 8
CHECK_DEADLOCK FALSE
INVARIANTS LifeTypeOK ConnectionsExact RegistryExact OneCloser
PROPERTIES ClosedRemoved ExitEnds
