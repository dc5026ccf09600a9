---------------------------- MODULE MessageQueue ----------------------------
(***************************************************************************)
(* One queue of the messaging service of 2021/SUB4 (MyQueueService,        *)
(* Message) with its dead letter queue, as the request handlers of         *)
(* MyServlet use it.  Every handler runs on a thread of the server's pool  *)
(* and no method of MyQueueService is synchronized, so a thread is a       *)
(* process whose steps are its accesses to the shared queue and to the     *)
(* fields of the shared Message objects.  A step makes one such access;    *)
(* what happens between two of them is local to the thread and belongs to  *)
(* the earlier one.  Fields are read and written in some global order (no  *)
(* access is torn or indefinitely delayed).                                *)
(*                                                                         *)
(* A message is the number of messages added before it plus one.  The      *)
(* queue appends at its tail and a message never re-enters it, so the      *)
(* queue is the SET of its messages and its order is the order of Nat.  An *)
(* iterator of ConcurrentLinkedQueue is the message it has returned last   *)
(* and the one it has read ahead, which it will return next even if it is  *)
(* removed meanwhile; the stream of popMessage does not read ahead.        *)
(***************************************************************************)
EXTENDS Integers, Sequences, FiniteSets

CONSTANTS Threads,         \* threads of the server's pool that run handlers
          MaxMessages,     \* bound: messages ever sent to the queue
          Horizon,         \* bound: no RECEIVE is issued from this time on
          Slack,           \* the tolerance of isProcessTimeout
          QueueSize, ProcessTimeout, MaxFailCount, WaitTime  \* the CREATE request

ASSUME ConstantsAssumption ==
  /\ Threads # {} /\ IsFiniteSet(Threads)
  /\ MaxMessages \in Nat /\ Horizon \in Nat
  /\ Slack \in Nat /\ QueueSize \in Nat
  /\ ProcessTimeout \in Nat /\ MaxFailCount \in Nat /\ WaitTime \in Nat

VARIABLES
  clock,               \* System.currentTimeMillis()
  queues,              \* messages in the queue
  deadLetters,         \* the -DLQ service's queue; one message may be in it twice
  sent,                \* messages added so far
  isVisible, processTimeoutFrom, failures,   \* fields of Message
  pc,                  \* what a thread does next
  job,                 \* the request a thread handles
  cur,                 \* the message a thread is at (0: none yet)
  ahead,               \* what its iterator has read ahead: at most one message
  nowTime,             \* the local nowTime of popMessage and processTimeoutMessages
  oldFailures,         \* the value failures++ has read
  waitingSince,        \* the local now of handleReceive (0: not waiting yet)
  known, acked, drained, dropped
     \* history: messages handed to a consumer, removed by an ACK, handed out
     \* by a DLQ request, lost because the dead letter queue was full

clients == <<known, acked, drained, dropped>>
fields  == <<isVisible, processTimeoutFrom, failures>>
loop    == <<cur, ahead, nowTime>>
locals  == <<job, loop, oldFailures, waitingSince>>
vars    == <<clock, queues, deadLetters, sent, fields, pc, locals, clients>>

Messages == 1 .. MaxMessages

Jobs   == {"none", "SEND", "RECEIVE", "ACK", "FAIL", "DLQ"}
Labels == {"idle", "add", "find", "remove",
           "timeouts", "isTimeout", "restore", "read", "write", "timer", "show",
           "overFailed", "unlink", "dlqSize", "dlqAdd",
           "pop", "popTimeout", "take", "arm", "sleep", "poll"}

Init ==
  /\ clock = 1
  /\ queues = {} /\ deadLetters = << >> /\ sent = 0
  /\ isVisible = [m \in Messages |-> TRUE]
  /\ processTimeoutFrom = [m \in Messages |-> 0]
  /\ failures = [m \in Messages |-> 0]
  /\ pc = [t \in Threads |-> "idle"]
  /\ job = [t \in Threads |-> "none"]
  /\ cur = [t \in Threads |-> 0]
  /\ ahead = [t \in Threads |-> {}]
  /\ nowTime = [t \in Threads |-> 0]
  /\ oldFailures = [t \in Threads |-> 0]
  /\ waitingSince = [t \in Threads |-> 0]
  /\ known = {} /\ acked = {} /\ drained = {} /\ dropped = {}

-----------------------------------------------------------------------------
(* Control of a thread.                                                    *)

At(t, label) == pc[t] = label
Goto(t, label) == pc' = [pc EXCEPT ![t] = label]

(* The handler answers its request and the thread goes back to the pool.   *)
Answer(t) ==
  /\ Goto(t, "idle")
  /\ job' = [job EXCEPT ![t] = "none"]
  /\ cur' = [cur EXCEPT ![t] = 0]
  /\ ahead' = [ahead EXCEPT ![t] = {}]
  /\ nowTime' = [nowTime EXCEPT ![t] = 0]
  /\ oldFailures' = [oldFailures EXCEPT ![t] = 0]
  /\ waitingSince' = [waitingSince EXCEPT ![t] = 0]

(* A loop over the queue starts at label, with the time it has just read   *)
(* and what its iterator, if it has one, reads ahead.                      *)
Scan(t, label, at, next) ==
  /\ Goto(t, label)
  /\ cur' = [cur EXCEPT ![t] = 0]
  /\ ahead' = [ahead EXCEPT ![t] = next]
  /\ nowTime' = [nowTime EXCEPT ![t] = at]

(* A loop over the queue, or a request, is at message m.                   *)
Visit(t, label, m, next) ==
  /\ Goto(t, label)
  /\ cur' = [cur EXCEPT ![t] = m]
  /\ ahead' = [ahead EXCEPT ![t] = next]

(* What follows c in the queue q, as a set of at most one message.         *)
Following(q, c) == {m \in q : m > c /\ \A n \in q : n > c => m <= n}

(* The first read of isProcessTimeout.                                     *)
TimerIsSet(m) == processTimeoutFrom[m] # 0

(* The second read of isProcessTimeout, for a timer the first read found   *)
(* running.                                                                *)
IsProcessTimeout(m, at) == processTimeoutFrom[m] - Slack < at

(* A message that has not failed too often may be restored and popped.     *)
Retryable(m) == failures[m] <= MaxFailCount

(* The tests of the two addMessage.                                        *)
HasRoomForOneMore == Cardinality(queues) <= QueueSize   \* mutant: off by one
HasRoom == Cardinality(queues) < QueueSize

DeadLettersHaveRoomForOneMore == Len(deadLetters) <= QueueSize   \* mutant
DeadLettersHaveRoom == Len(deadLetters) < QueueSize

(* processTimeoutMessages then processOverFailedMessages: how every        *)
(* handler but SEND goes on, from the queue q.                             *)
StartCleansing(t, q) == Scan(t, "timeouts", clock, Following(q, 0))

-----------------------------------------------------------------------------
(* handleSend: addMessage tests the size in one step and adds in another.  *)

Adding == {t \in Threads : At(t, "add")}

HandleSend(t) ==
  /\ At(t, "idle")
  /\ sent + Cardinality(Adding) < MaxMessages
  /\ HasRoom                                  \* otherwise answers "Queue Full"
  /\ Goto(t, "add")
  /\ job' = [job EXCEPT ![t] = "SEND"]
  /\ UNCHANGED <<clock, queues, deadLetters, sent, fields, loop,
                 oldFailures, waitingSince, clients>>

(* Mutant: two messages get the same number.                               *)
AddMessageUncounted(t) ==
  /\ At(t, "add")
  /\ queues' = queues \union {sent + 1}
  /\ Answer(t)
  /\ UNCHANGED <<clock, deadLetters, sent, fields, clients>>

AddMessage(t) ==
  /\ At(t, "add")
  /\ sent' = sent + 1
  /\ queues' = queues \union {sent + 1}
  /\ Answer(t)
  /\ UNCHANGED <<clock, deadLetters, fields, clients>>

-----------------------------------------------------------------------------
(* The other requests, up to their first access to the queue.              *)

HandleReceive(t) ==
  /\ At(t, "idle") /\ clock < Horizon
  /\ job' = [job EXCEPT ![t] = "RECEIVE"]
  /\ StartCleansing(t, queues)
  /\ UNCHANGED <<clock, queues, deadLetters, sent, fields, oldFailures,
                 waitingSince, clients>>

HandleDLQ(t) ==
  /\ At(t, "idle")
  /\ job' = [job EXCEPT ![t] = "DLQ"]
  /\ StartCleansing(t, queues)
  /\ UNCHANGED <<clock, queues, deadLetters, sent, fields, oldFailures,
                 waitingSince, clients>>

(* A message id is a random UUID: a client knows those it was handed.      *)
HandleAck(t) ==
  \E m \in known :
    /\ At(t, "idle")
    /\ Visit(t, "find", m, {})
    /\ job' = [job EXCEPT ![t] = "ACK"]
    /\ UNCHANGED <<clock, queues, deadLetters, sent, fields, nowTime,
                   oldFailures, waitingSince, clients>>

HandleFail(t) ==
  \E m \in known :
    /\ At(t, "idle")
    /\ Visit(t, "restore", m, {})
    /\ job' = [job EXCEPT ![t] = "FAIL"]
    /\ UNCHANGED <<clock, queues, deadLetters, sent, fields, nowTime,
                   oldFailures, waitingSince, clients>>

-----------------------------------------------------------------------------
(* removeMessage: the loop looks for the message by its id, which is one   *)
(* step, then removes it through the iterator, whether or not it is still  *)
(* there.                                                                  *)

RemoveFind(t) ==
  /\ At(t, "find")
  /\ \/ cur[t] \in queues /\ Goto(t, "remove") /\ UNCHANGED loop
     \/ cur[t] \notin queues /\ StartCleansing(t, queues)
  /\ UNCHANGED <<clock, queues, deadLetters, sent, fields, job, oldFailures,
                 waitingSince, clients>>

RemoveMessage(t) ==
  /\ At(t, "remove")
  /\ queues' = queues \ {cur[t]}
  /\ acked' = acked \union {cur[t]}
  /\ StartCleansing(t, queues')
  /\ UNCHANGED <<clock, deadLetters, sent, fields, job, oldFailures,
                 waitingSince, known, drained, dropped>>

-----------------------------------------------------------------------------
(* restoreMessage(cur[t]): the loop looks the message up by its id again   *)
(* and leaves the others alone; failures++ is a read and a write.          *)

(* Mutant: a restored message makes the cleansing start again.             *)
RestoreRestarts(t) == StartCleansing(t, queues)

(* A FAIL has no nowTime yet: its own restoreMessage comes before the      *)
(* cleansing, the other calls are made by processTimeoutMessages.          *)
RestoreReturns(t) ==
  IF nowTime[t] = 0 THEN StartCleansing(t, queues)
                    ELSE Goto(t, "timeouts") /\ UNCHANGED loop

(* Mutant: the limit on failures is off by one, here only.                 *)
RestoreFindStrictly(t) ==
  /\ At(t, "restore")
  /\ IF cur[t] \in queues /\ failures[cur[t]] < MaxFailCount
       THEN Goto(t, "read") /\ UNCHANGED loop
       ELSE RestoreReturns(t)
  /\ UNCHANGED <<clock, queues, deadLetters, sent, fields, job, oldFailures,
                 waitingSince, clients>>

RestoreFind(t) ==
  /\ At(t, "restore")
  /\ IF cur[t] \in queues /\ Retryable(cur[t])
       THEN Goto(t, "read") /\ UNCHANGED loop
       ELSE RestoreReturns(t)
  /\ UNCHANGED <<clock, queues, deadLetters, sent, fields, job, oldFailures,
                 waitingSince, clients>>

ReadFailures(t) ==
  /\ At(t, "read")
  /\ oldFailures' = [oldFailures EXCEPT ![t] = failures[cur[t]]]
  /\ Goto(t, "write")
  /\ UNCHANGED <<clock, queues, deadLetters, sent, fields, job, loop,
                 waitingSince, clients>>

WriteFailures(t) ==
  /\ At(t, "write")
  /\ failures' = [failures EXCEPT ![cur[t]] = oldFailures[t] + 1]
  /\ oldFailures' = [oldFailures EXCEPT ![t] = 0]
  /\ Goto(t, "timer")
  /\ UNCHANGED <<clock, queues, deadLetters, sent, isVisible,
                 processTimeoutFrom, job, loop, waitingSince, clients>>

(* Mutant: the timer is not reset.                                         *)
KeepTimer(t) ==
  /\ At(t, "timer")
  /\ Goto(t, "show")
  /\ UNCHANGED <<clock, queues, deadLetters, sent, fields, locals, clients>>

ClearTimer(t) ==
  /\ At(t, "timer")
  /\ processTimeoutFrom' = [processTimeoutFrom EXCEPT ![cur[t]] = 0]
  /\ Goto(t, "show")
  /\ UNCHANGED <<clock, queues, deadLetters, sent, isVisible, failures,
                 locals, clients>>

Show(t) ==
  /\ At(t, "show")
  /\ isVisible' = [isVisible EXCEPT ![cur[t]] = TRUE]
  /\ RestoreReturns(t)
  /\ UNCHANGED <<clock, queues, deadLetters, sent, processTimeoutFrom,
                 failures, job, oldFailures, waitingSince, clients>>

-----------------------------------------------------------------------------
(* processTimeoutMessages: isProcessTimeout reads the timer twice.         *)

(* Mutant: a timer of 0 is not recognized as one that is not running.      *)
ProcessAllMessages(t) ==
  /\ At(t, "timeouts")
  /\ \/ \E m \in ahead[t] :
          Visit(t, "isTimeout", m, Following(queues, m)) /\ UNCHANGED nowTime
     \/ ahead[t] = {} /\ Scan(t, "overFailed", 0, Following(queues, 0))
  /\ UNCHANGED <<clock, queues, deadLetters, sent, fields, job, oldFailures,
                 waitingSince, clients>>

ProcessTimeoutMessages(t) ==
  /\ At(t, "timeouts")
  /\ \/ \E m \in ahead[t] :
          /\ Visit(t, IF TimerIsSet(m) THEN "isTimeout" ELSE "timeouts", m,
                   Following(queues, m))
          /\ UNCHANGED nowTime
     \/ ahead[t] = {} /\ Scan(t, "overFailed", 0, Following(queues, 0))
  /\ UNCHANGED <<clock, queues, deadLetters, sent, fields, job, oldFailures,
                 waitingSince, clients>>

TestTimeout(t) ==
  /\ At(t, "isTimeout")
  /\ Goto(t, IF IsProcessTimeout(cur[t], nowTime[t]) THEN "restore" ELSE "timeouts")
  /\ UNCHANGED <<clock, queues, deadLetters, sent, fields, locals, clients>>

-----------------------------------------------------------------------------
(* processOverFailedMessages and moveMessageToDLQ.                         *)

(* After the cleansing: RECEIVE pops, DLQ polls, ACK and FAIL are done.    *)
AfterCleansing(t) ==
  CASE job[t] = "RECEIVE" -> /\ Scan(t, "pop", clock, {})
                             /\ UNCHANGED <<job, oldFailures, waitingSince>>
    [] job[t] = "DLQ"     -> /\ Scan(t, "poll", 0, {})
                             /\ UNCHANGED <<job, oldFailures, waitingSince>>
    [] OTHER              -> Answer(t)

ProcessOverFailedMessages(t) ==
  /\ At(t, "overFailed")
  /\ \/ \E m \in ahead[t] :
          /\ Visit(t, IF Retryable(m) THEN "overFailed" ELSE "unlink", m,
                   Following(queues, m))
          /\ UNCHANGED <<job, nowTime, oldFailures, waitingSince>>
     \/ ahead[t] = {} /\ AfterCleansing(t)
  /\ UNCHANGED <<clock, queues, deadLetters, sent, fields, clients>>

(* queues.remove(m); its result is not looked at.                          *)
MoveUnlink(t) ==
  /\ At(t, "unlink")
  /\ queues' = queues \ {cur[t]}
  /\ Goto(t, "dlqSize")
  /\ UNCHANGED <<clock, deadLetters, sent, fields, locals, clients>>

(* The DLQ's addMessage(Message) tests its size and adds; a "Queue Full"   *)
(* is not looked at either.                                                *)
MoveTestSize(t) ==
  /\ At(t, "dlqSize")
  /\ \/ /\ DeadLettersHaveRoom
        /\ Goto(t, "dlqAdd") /\ UNCHANGED dropped
     \/ /\ ~ DeadLettersHaveRoom
        /\ Goto(t, "overFailed") /\ dropped' = dropped \union {cur[t]}
  /\ UNCHANGED <<clock, queues, deadLetters, sent, fields, locals, known,
                 acked, drained>>

(* Mutant: the message is removed from the queue and added nowhere.        *)
MoveForgets(t) ==
  /\ At(t, "dlqAdd")
  /\ Goto(t, "overFailed")
  /\ UNCHANGED <<clock, queues, deadLetters, sent, fields, locals, clients>>

MoveAdd(t) ==
  /\ At(t, "dlqAdd")
  /\ deadLetters' = Append(deadLetters, cur[t])
  /\ Goto(t, "overFailed")
  /\ UNCHANGED <<clock, queues, sent, fields, locals, clients>>

PopMessageDLQ(t) ==
  /\ At(t, "poll")
  /\ \/ deadLetters = << >> /\ UNCHANGED <<deadLetters, drained>>
     \/ /\ deadLetters # << >>
        /\ deadLetters' = Tail(deadLetters)
        /\ drained' = drained \union {Head(deadLetters)}
  /\ Answer(t)
  /\ UNCHANGED <<clock, queues, sent, fields, known, acked, dropped>>

-----------------------------------------------------------------------------
(* popMessage: the filter tests visibility, timer and failures of one      *)
(* message after another, and the first that passes is taken.              *)

(* handleReceive's test to stop waiting.                                   *)
WaitIsOver(t) == waitingSince[t] > clock + WaitTime

(* "No Message": with a WaitTime the handler sleeps and pops again.        *)
NoMessage(t) ==
  \/ /\ WaitTime > 0 /\ ~ WaitIsOver(t)
     /\ Scan(t, "sleep", 0, {})
     /\ waitingSince' =
          [waitingSince EXCEPT ![t] = IF @ = 0 THEN clock ELSE @]
     /\ UNCHANGED <<job, oldFailures>>
  \/ /\ WaitTime = 0 \/ WaitIsOver(t)
     /\ Answer(t)

(* Mutant: the limit on failures is off by one, here only.                 *)
PopMessageStrictly(t) ==
  /\ At(t, "pop")
  /\ \/ \E m \in Following(queues, cur[t]) :
          /\ Visit(t, IF isVisible[m] /\ failures[m] < MaxFailCount
                      THEN "take" ELSE "pop", m, {})
          /\ UNCHANGED <<job, nowTime, oldFailures, waitingSince>>
     \/ Following(queues, cur[t]) = {} /\ NoMessage(t)
  /\ UNCHANGED <<clock, queues, deadLetters, sent, fields, clients>>

PopMessage(t) ==
  /\ At(t, "pop")
  /\ \/ \E m \in Following(queues, cur[t]) :
          /\ Visit(t, IF ~ isVisible[m] THEN "pop"
                      ELSE IF TimerIsSet(m) THEN "popTimeout"
                      ELSE IF Retryable(m) THEN "take" ELSE "pop", m, {})
          /\ UNCHANGED <<job, nowTime, oldFailures, waitingSince>>
     \/ Following(queues, cur[t]) = {} /\ NoMessage(t)
  /\ UNCHANGED <<clock, queues, deadLetters, sent, fields, clients>>

PopTestTimeout(t) ==
  /\ At(t, "popTimeout")
  /\ Goto(t, IF ~ IsProcessTimeout(cur[t], nowTime[t]) /\ Retryable(cur[t])
             THEN "take" ELSE "pop")
  /\ UNCHANGED <<clock, queues, deadLetters, sent, fields, locals, clients>>

(* Mutant: the timer is never started.                                     *)
TakeForEver(t) ==
  /\ At(t, "take")
  /\ isVisible' = [isVisible EXCEPT ![cur[t]] = FALSE]
  /\ Answer(t) /\ known' = known \union {cur[t]}
  /\ UNCHANGED <<clock, queues, deadLetters, sent, processTimeoutFrom,
                 failures, acked, drained, dropped>>

(* setVisible(false), then the timer if the queue has a ProcessTimeout.    *)
Take(t) ==
  /\ At(t, "take")
  /\ isVisible' = [isVisible EXCEPT ![cur[t]] = FALSE]
  /\ \/ /\ ProcessTimeout > 0
        /\ Goto(t, "arm") /\ UNCHANGED <<locals, known>>
     \/ /\ ProcessTimeout = 0
        /\ Answer(t) /\ known' = known \union {cur[t]}
  /\ UNCHANGED <<clock, queues, deadLetters, sent, processTimeoutFrom,
                 failures, acked, drained, dropped>>

SetProcessTimeoutFrom(t) ==
  /\ At(t, "arm")
  /\ processTimeoutFrom' =
       [processTimeoutFrom EXCEPT ![cur[t]] = clock + ProcessTimeout]
  /\ known' = known \union {cur[t]}
  /\ Answer(t)
  /\ UNCHANGED <<clock, queues, deadLetters, sent, isVisible, failures, acked,
                 drained, dropped>>

(* Thread.sleep(10) ends and the waiting handler calls popMessage again;   *)
(* it does not call the cleansing.                                         *)
WakeUp(t) ==
  /\ At(t, "sleep")
  /\ Scan(t, "pop", clock, {})
  /\ UNCHANGED <<clock, queues, deadLetters, sent, fields, job, oldFailures,
                 waitingSince, clients>>

-----------------------------------------------------------------------------
(* Time passes up to the horizon, and beyond it while a lease is running   *)
(* or a RECEIVE has waited for less than WaitTime.                         *)

LeaseRunning ==
  \E m \in queues : /\ processTimeoutFrom[m] # 0
                    /\ ~ IsProcessTimeout(m, clock)

WaitRunning ==
  \E t \in Threads : waitingSince[t] # 0 /\ clock <= waitingSince[t] + WaitTime

Tick ==
  /\ clock < Horizon \/ LeaseRunning \/ WaitRunning
  /\ clock' = clock + 1
  /\ UNCHANGED <<queues, deadLetters, sent, fields, pc, locals, clients>>

Request(t) ==
  \/ HandleSend(t) \/ HandleReceive(t) \/ HandleDLQ(t)
  \/ HandleAck(t)  \/ HandleFail(t)

Step(t) ==
  \/ AddMessage(t)
  \/ RemoveFind(t) \/ RemoveMessage(t)
  \/ RestoreFind(t) \/ ReadFailures(t) \/ WriteFailures(t) \/ ClearTimer(t) \/ Show(t)
  \/ ProcessTimeoutMessages(t) \/ TestTimeout(t)
  \/ ProcessOverFailedMessages(t) \/ MoveUnlink(t) \/ MoveTestSize(t) \/ MoveAdd(t)
  \/ PopMessageDLQ(t)
  \/ PopMessage(t) \/ PopTestTimeout(t) \/ Take(t) \/ SetProcessTimeoutFrom(t)
  \/ WakeUp(t)

Next == Tick \/ \E t \in Threads : Request(t) \/ Step(t)

Spec == Init /\ [][Next]_vars

(* Time passes, and a handler that has started is run by its thread.       *)
(* Whether a client sends another request is up to the client.             *)
FairSpec == Spec /\ WF_vars(Tick) /\ \A t \in Threads : WF_vars(Step(t))
-----------------------------------------------------------------------------
(* Properties.                                                             *)

(* Type invariant: a thread inside a request is at a message whenever its  *)
(* next step reads or writes one.                                          *)
NeedsMessage == {"find", "remove", "isTimeout", "restore", "read", "write", "timer",
                 "show", "unlink", "dlqSize", "dlqAdd", "popTimeout", "take", "arm"}

SharedTypeOK ==
  /\ clock \in Nat \ {0}
  /\ sent \in 0 .. MaxMessages
  /\ queues \subseteq 1 .. sent
  /\ deadLetters \in Seq(1 .. sent)

FieldTypeOK ==
  /\ isVisible \in [Messages -> BOOLEAN]
  /\ processTimeoutFrom \in [Messages -> Nat]
  /\ failures \in [Messages -> Nat]

ThreadTypeOK ==
  /\ pc \in [Threads -> Labels]
  /\ job \in [Threads -> Jobs]
  /\ cur \in [Threads -> 0 .. sent]
  /\ ahead \in [Threads -> SUBSET (1 .. sent)]
  /\ nowTime \in [Threads -> Nat]
  /\ oldFailures \in [Threads -> Nat]
  /\ waitingSince \in [Threads -> Nat]
  /\ \A t \in Threads : pc[t] \in NeedsMessage => cur[t] # 0

HistoryTypeOK ==
  /\ known \subseteq 1 .. sent /\ acked \subseteq 1 .. sent
  /\ drained \subseteq 1 .. sent /\ dropped \subseteq 1 .. sent

TypeOK == SharedTypeOK /\ FieldTypeOK /\ ThreadTypeOK /\ HistoryTypeOK

(* popMessage hides a message in one step and starts its timer in another; *)
(* restoreMessage stops the timer and then shows it.  However these steps  *)
(* of several threads interleave, a hidden message of the queue without a  *)
(* timer is one that a thread is still busy with: no message is stranded   *)
(* where neither popMessage nor processTimeoutMessages will ever find it.  *)
Attended(m) == \E t \in Threads : cur[t] = m /\ pc[t] \in {"arm", "show"}

NoStrandedMessage ==
  ProcessTimeout > 0 =>
    \A m \in queues : ~ isVisible[m] /\ processTimeoutFrom[m] = 0 => Attended(m)

(* An accepted message is accounted for: it is in the queue, or in the     *)
(* dead letter queue, or on its way there, or it was acknowledged, handed  *)
(* out as a dead letter, or refused by a full dead letter queue.           *)
InTransit(m) == \E t \in Threads : cur[t] = m /\ pc[t] \in {"dlqSize", "dlqAdd"}
InDeadLetters(m) == \E i \in 1 .. Len(deadLetters) : deadLetters[i] = m

Conservation ==
  \A m \in 1 .. sent :
    \/ m \in queues \union acked \union drained \union dropped
    \/ InDeadLetters(m)
    \/ InTransit(m)

(* addMessage tests the size before it adds, so concurrent SENDs can push  *)
(* the queue over QueueSize, but by no more than the other threads there   *)
(* are: the size and the adds already granted stay under this bound.       *)
BoundedOvershoot ==
  Cardinality(queues) + Cardinality(Adding) <= QueueSize + Cardinality(Threads) - 1

(* The same for the dead letter queue, which moveMessageToDLQ fills.       *)
BoundedDeadLetters ==
  Len(deadLetters) <= QueueSize + Cardinality(Threads) - 1

(* Without a ProcessTimeout a message that was handed out stays hidden     *)
(* until its consumer says FAIL: the cleansing that every other request    *)
(* does never takes it for one whose lease is over.                        *)
OnlyFailRestores ==
  [][\A m \in Messages :
       ProcessTimeout = 0 /\ ~ isVisible[m] /\ isVisible'[m] =>
         \E t \in Threads : cur[t] = m /\ At(t, "show") /\ job[t] = "FAIL"]_isVisible

(* What is left to do of a request, counted in steps at most: the passes   *)
(* over the queue that are to come, the messages that are left in this     *)
(* one, which the iterator will return though they may be removed, and     *)
(* what is left at the message itself.                                     *)
ToVisit(t) ==
  IF At(t, "pop") \/ At(t, "popTimeout")
    THEN {m \in queues : m > cur[t]}
    ELSE ahead[t] \union {m \in queues : \E a \in ahead[t] : m > a}

LastPass   == 4 * Cardinality(queues) + 1
LastPasses == LastPass + 4 * Cardinality(queues) + 1
AllPasses  == LastPasses + 7 * Cardinality(queues) + 1

AtMessage(t) ==
  CASE pc[t] \in {"show", "dlqAdd", "arm"}         -> 1
    [] pc[t] \in {"timer", "dlqSize", "take"}      -> 2
    [] pc[t] \in {"write", "unlink", "popTimeout"} -> 3
    [] pc[t] = "read"      -> 4
    [] pc[t] = "restore"   -> 5
    [] pc[t] = "isTimeout" -> 6
    [] OTHER               -> 0

Work(t) ==
  CASE pc[t] \in {"find", "remove"} -> AllPasses + (IF At(t, "find") THEN 2 ELSE 1)
    [] job[t] = "FAIL" /\ nowTime[t] = 0 /\ pc[t] \in {"restore", "read", "write", "timer", "show"}
                                    -> AllPasses + AtMessage(t)
    [] pc[t] \in {"timeouts", "isTimeout", "restore", "read", "write", "timer", "show"}
                                    -> LastPasses + 7 * Cardinality(ToVisit(t)) + AtMessage(t) + 1
    [] pc[t] \in {"overFailed", "unlink", "dlqSize", "dlqAdd"}
                                    -> LastPass + 4 * Cardinality(ToVisit(t)) + AtMessage(t) + 1
    [] pc[t] \in {"pop", "popTimeout"} -> 4 * Cardinality(ToVisit(t)) + AtMessage(t) + 1
    [] pc[t] \in {"take", "arm", "poll", "add"} -> AtMessage(t) + 1
    [] OTHER                        -> 0

(* No loop over the shared queue can be kept busy for ever by restores,    *)
(* moves and removals of other threads: every step of a handler brings it  *)
(* nearer to its answer (without a WaitTime), and nothing that another     *)
(* thread does takes it farther away, but for a SEND, which adds to what   *)
(* an iterator has before it.                                              *)
OnlySendsProlong ==
  [][WaitTime = 0 /\ sent' = sent =>
       \A t \in Threads : job[t] # "none" =>
         /\ Work(t)' <= Work(t)
         /\ <<pc[t], cur[t], ahead[t]>>' # <<pc[t], cur[t], ahead[t]>> => Work(t)' < Work(t)]_vars

-----------------------------------------------------------------------------
(* Liveness.                                                               *)

(* As long as requests that cleanse the queue keep coming, a message that  *)
(* was handed out becomes available again or leaves the queue, even if its *)
(* consumer never answers and whatever the other handlers do meanwhile.    *)
Leased(m) == m \in queues /\ ~ isVisible[m]
CleansingStarts == \E t \in Threads : At(t, "timeouts") /\ cur[t] = 0

LeaseEnds ==
  []<> CleansingStarts => \A m \in Messages : Leased(m) ~> ~ Leased(m)

(* A waiting RECEIVE finds an available message, or somebody else takes it *)
Available(m) == /\ m \in queues /\ isVisible[m] /\ processTimeoutFrom[m] = 0
                /\ failures[m] <= MaxFailCount
Waiting(t) == job[t] = "RECEIVE" /\ pc[t] \in {"sleep", "pop", "popTimeout"}

WaiterServed ==
  \A t \in Threads, m \in Messages :
    Waiting(t) /\ Available(m) ~> ~ Waiting(t) \/ ~ Available(m)

-----------------------------------------------------------------------------
(* What the service's description (quest.txt) says and concurrent handlers *)
(* do not keep.                                                            *)

(* SUB3/quest.txt:26: a received message cannot be received by another     *)
(* consumer.                                                               *)
OneConsumer ==
  \A t, u \in Threads :
    t # u /\ At(t, "take") /\ pc[u] \in {"take", "arm"} => cur[t] # cur[u]

(* SUB4/quest.txt:42-44: a message that failed too often is moved to the   *)
(* dead letter queue, where it stays until a DLQ request takes it.         *)
DeadLettersKept ==
  \A m \in dropped : InDeadLetters(m) \/ InTransit(m) \/ m \in drained

(* SUB4/quest.txt:57-59: a RECEIVE waits WaitTime seconds at most.         *)
ReceiveAnswers == \A t \in Threads : Waiting(t) ~> At(t, "idle")
=============================================================================
