CONSTANTS
  Threads = {t1, t2}
  MaxMessages = 3
  Horizon = 2
  Slack = 1
  QueueSize = 1
  ProcessTimeout = 1
  MaxFailCount = 0
  WaitTime = 0
SPECIFICATION Spec
SYMMETRY ThreadSymmetry
CONSTRAINT ThirdComesEarly
INVARIANTS
  TypeOK
  NoStrandedMessage
  Conservation
  BoundedOvershoot
  BoundedDeadLetters
PROPERTIES
  OnlySendsProlong
