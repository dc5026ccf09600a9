------------------------------ MODULE Programs ------------------------------
(***************************************************************************)
(* The smaller programs of the repository in one model: which of them runs *)
(* is chosen in the initial state.  Each keeps its variables in s1 to s16, *)
(* and those it does not use stay 0.                                       *)
(***************************************************************************)
EXTENDS Naturals, Sequences, FiniteSets

CONSTANTS
  Processes, Requests, Path, MaxStamp,                        \* of the proxies
  Files, Size, MaxLogouts,                                    \* of the socket server
  Queues, Pool, Threshold, Inputs, Expiry, MaxInputs,         \* of the pollers
  Users, Timeout, MaxPushes, MaxPulls, MaxTime,               \* of the memory queue
  Threads, Capacities, MaxPuts, MaxWakes                      \* of the monitor queue

VARIABLES program, s1, s2, s3, s4, s5, s6, s7, s8, s9, s10, s11, s12, s13, s14, s15, s16

vars == <<program, s1, s2, s3, s4, s5, s6, s7, s8, s9, s10, s11, s12, s13, s14, s15, s16>>

-----------------------------------------------------------------------------
H == INSTANCE ProxyHistory WITH
  MaxTime <- MaxStamp,
  up <- s1, pc <- s2, stamp <- s3, file <- s4, holder <- s5, breached <- s6, now <- s7,
  torn <- s8

S == INSTANCE SocketServer WITH
  spc <- s1, name <- s2, left <- s3, listening <- s4, isStop <- s5, closing <- s6,
  received <- s7, conns <- s8, cpc <- s9, sending <- s10, sent <- s11, backup <- s12,
  logouts <- s13, truncated <- s14, lost <- s15, todo <- s16

P == INSTANCE Pollers WITH
  main <- s1, submitted <- s2, pc <- s3, free <- s4, store <- s5, given <- s6

Q == INSTANCE MemoryQueue WITH
  Threads <- Users,
  current <- s1, deques <- s2, visibleFrom <- s3, msgId <- s4, pushes <- s5, pulls <- s6,
  pc <- s7, deque <- s8, msg <- s9, at <- s10, leases <- s11, shared <- s12, now <- s13

W == INSTANCE MonitorQueue WITH
  queue <- s1, capacity <- s2, waiting <- s3, woken <- s4, puts <- s5, wakes <- s6

ASSUME Assumptions ==
  /\ H!ProxyAssumption /\ S!SocketAssumption /\ P!PollersAssumption
  /\ Q!MemoryAssumption /\ W!MonitorAssumption

-----------------------------------------------------------------------------
(* What the history, the pollers or the monitor, the memory queue leave.   *)
Rest13 == <<program, s14, s15, s16>>
Rest8  == <<Rest13, s9, s10, s11, s12, s13>>
Rest6  == <<Rest8, s7, s8>>

Blank13 == s14 = 0 /\ s15 = 0 /\ s16 = 0
Blank8  == Blank13 /\ s9 = 0 /\ s10 = 0 /\ s11 = 0 /\ s12 = 0 /\ s13 = 0
Blank6  == Blank8 /\ s7 = 0 /\ s8 = 0

Init ==
  \/ program = "history" /\ H!Init /\ Blank8
  \/ program = "socket"  /\ S!Init
  \/ program = "pollers" /\ P!Init /\ Blank6
  \/ program = "memory"  /\ Q!Init /\ Blank13
  \/ program = "monitor" /\ W!Init /\ Blank6

History == program = "history" /\ H!Next /\ UNCHANGED Rest8
Socket  == program = "socket"  /\ S!Next /\ UNCHANGED program
Pollers == program = "pollers" /\ P!Next /\ UNCHANGED Rest6
Memory  == program = "memory"  /\ Q!Next /\ UNCHANGED Rest13
Monitor == program = "monitor" /\ W!Next /\ UNCHANGED Rest6

Next == History \/ Socket \/ Pollers \/ Memory \/ Monitor

(* The fairness that the socket server and the pollers state, for the      *)
(* behaviours in which they run.                                           *)
Fairness ==
  /\ WF_vars(program = "socket" /\ S!Serve /\ UNCHANGED program)
  /\ WF_vars(program = "socket" /\ S!CloseSocket /\ UNCHANGED program)
  /\ WF_vars(program = "socket" /\ S!Send /\ UNCHANGED program)
  /\ WF_vars(program = "pollers" /\ P!Main /\ UNCHANGED Rest6)
  /\ \A q \in P!Q :
       /\ WF_vars(program = "pollers" /\ P!Dispatch(q) /\ UNCHANGED Rest6)
       /\ WF_vars(program = "pollers" /\ P!Work(q) /\ UNCHANGED Rest6)

Spec == Init /\ [][Next]_vars /\ Fairness

-----------------------------------------------------------------------------
TypeOK ==
  /\ program = "history" => H!TypeOK
  /\ program = "socket"  => S!TypeOK
  /\ program = "pollers" => P!TypeOK
  /\ program = "memory"  => Q!TypeOK
  /\ program = "monitor" => W!TypeOK

(* The lines that the proxies' processes write to proxy.txt stay whole.    *)
LinesWhole == program = "history" => H!LinesWhole

(* Handlers that overlap lose lines, but never all of theirs.              *)
OneWriterGetsThrough == program = "history" => H!OneWriterGetsThrough

(* The trace of a request with all its lines is the chain of its calls.    *)
TraceIsChain == program = "history" => H!TraceIsChain

(* A validation file in the backup has arrived, unless its connection has  *)
(* ended before it was read.                                               *)
FilesArrive == program = "socket" => S!FilesArrive

(* Once it listens, the socket server ends only by QUIT or by a file that  *)
(* was cut short.                                                          *)
ServerSurvives == program = "socket" => S!ServerSurvives

(* After QUIT the socket server ends.                                      *)
CloseEnds == program = "socket" /\ s5 ~> program = "socket" /\ S!Ended

(* The store of a worker holds what has not expired, and all of it.        *)
StoreFresh == program = "pollers" => P!StoreFresh

Waits(q) == program = "pollers" /\ P!Waits(q)

(* A poller gets a thread that another has left.                           *)
QueuesGetThreads ==
  \A q \in P!Q : []<>(program = "pollers" /\ P!Room) => (Waits(q) ~> ~ Waits(q))

(* The memory queue hands a message out again only after the timeout.      *)
LeaseKept == program = "memory" => Q!LeaseKept

(* Deques of the memory queue are replaced only by first pushes.           *)
DequesBounded == program = "memory" => Q!DequesBounded

(* Nobody waits in get of the monitor queue beside an element.             *)
NobodyForgotten == program = "monitor" => W!NobodyForgotten
=============================================================================
