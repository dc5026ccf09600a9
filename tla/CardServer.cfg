CONSTANTS
  Handlers = {h1, h2}
  MaxReports = 2
  MaxHolds = 2
SPECIFICATION FairSpec
INVARIANTS
  TypeOK
  UniqueNumbers
  NothingDiscarded
  EndOnce
  LockLost
PROPERTIES
  ReportEnds
\* all wait when the lock was lost, and its owner has come to the bound
CHECK_DEADLOCK FALSE
