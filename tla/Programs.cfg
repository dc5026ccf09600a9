CONSTANTS
  p1 = p1
  p2 = p2
  r1 = r1
  r2 = r2
  f1 = f1
  f2 = f2
  \* the proxies
  Processes = {p1, p2}
  Requests = {r1, r2}
  Path <- MCPath
  MaxStamp = 1
  \* a second logout sends the rest
  Files = {f1, f2}
  Size <- MCSize
  MaxLogouts = 2
  \* more queues than threads, and a map that resizes at the second put
  Queues = 3
  Pool = 2
  Threshold = 1
  Inputs <- MCInputs
  Expiry = 1
  MaxInputs = 3
  \* time enough for a second lease after the first
  Users = {t1, t2}
  Timeout = 1
  MaxPushes = 3
  MaxPulls = 2
  MaxTime = 4
  \* a queue with a limit and one without
  Threads = {t1, t2, t3}
  Capacities = {0, 1}
  MaxPuts = 3
  MaxWakes = 1
SPECIFICATION Spec
INVARIANTS
  TypeOK
  LinesWhole
  OneWriterGetsThrough
  TraceIsChain
  FilesArrive
  ServerSurvives
  StoreFresh
  LeaseKept
  DequesBounded
  NobodyForgotten
PROPERTIES
  CloseEnds
  QueuesGetThreads
\* the requests end, the server quits, and the bounds are reached
CHECK_DEADLOCK FALSE
