CONSTANTS
  Threads = {t1, t2}
SPECIFICATION FairSpec
INVARIANTS
  TypeOK
  OneManagerEach
  AssignedOutsideLock
  PairedWhenQuiet
PROPERTIES
  RequestsEnd
