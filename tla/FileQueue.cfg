CONSTANTS
  Clients = {c1, c2}
  VisibilityTimeout = 1
  MaxInt = 11
  Faults = {"crash", "interrupt", "io"}
  MaxPushes = 2
  MaxPulls = 2
  Horizon = 5
SPECIFICATION Spec
CONSTRAINT UntilBreached
SYMMETRY ClientSymmetry
INVARIANTS
  TypeOK
  OneInside
  LockOfSomebody
  NothingLost
  DeletedStays
  OldestFirst
  LeaseHeld
