CONSTANTS
  Threads = {t1, t2}
  MaxMessages = 1
  Horizon = 3
  Slack = 1
  QueueSize = 1
  ProcessTimeout = 1
  MaxFailCount = 0
  WaitTime = 1
SPECIFICATION FairSpec
PROPERTIES
  ReceiveAnswers
