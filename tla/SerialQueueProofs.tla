--------------------------- MODULE SerialQueueProofs ---------------------------
(***************************************************************************)
(* One thread keeps the promise of LeaseQueue: every step of it is an      *)
(* event of LeaseQueue or changes nothing there, for any sizes, timeouts,  *)
(* limits and waiting times.                                               *)
(***************************************************************************)
EXTENDS SerialQueue, MessageQueueProofs, WellFoundedInduction

-----------------------------------------------------------------------------
(* The inductive invariant: what holds at the labels of the one thread.    *)

(* A timer runs only for hidden messages, and nothing has happened to a    *)
(* message that was not added yet.                                         *)
MessagesSound ==
  \A m \in Messages :
    /\ processTimeoutFrom[m] # 0 => ~ isVisible[m]
    /\ m > sent => isVisible[m] /\ failures[m] = 0

(* What has been read is still so, as nobody else works on the queue.      *)
SendSound(t) == At(t, "add") => HasRoom

AckSound(t) == pc[t] = "remove" => cur[t] \in queues

(* A FAIL comes before the cleansing, which has a nowTime, and so has every *)
(* restoreMessage of the cleansing, of a message whose lease is over.      *)
TimesSound(t) ==
  /\ nowTime[t] <= clock
  /\ pc[t] \in {"idle", "add", "find", "remove"} => nowTime[t] = 0
  /\ pc[t] \in {"timeouts", "isTimeout"} => nowTime[t] # 0
  /\ pc[t] = "isTimeout" => TimerIsSet(cur[t])
  /\ pc[t] \in {"restore", "read", "write"} =>
       IF nowTime[t] = 0
         THEN job[t] = "FAIL"
         ELSE TimerIsSet(cur[t]) /\ IsProcessTimeout(cur[t], nowTime[t])

RestoreSound(t) ==
  /\ pc[t] \in {"read", "write"} => cur[t] \in queues /\ Retryable(cur[t])
  /\ pc[t] = "write" => oldFailures[t] = failures[cur[t]]
  /\ pc[t] = "show" => ~ TimerIsSet(cur[t])

(* Outside the cleansing and what a FAIL adds no dead message is stored.   *)
Clean(t) ==
  \/ pc[t] \in {"idle", "add", "find", "remove", "pop", "take", "arm", "sleep", "poll"}
  \/ pc[t] \in {"restore", "read", "write"} /\ nowTime[t] = 0
CleanSound(t) == Clean(t) => \A m \in queues : Retryable(m)

(* The dead messages that processOverFailedMessages has not moved yet are  *)
(* those it has not come to.                                               *)
MoveSound(t) ==
  pc[t] \in {"overFailed", "unlink", "dlqSize", "dlqAdd"} =>
    /\ ahead[t] = Following(queues, cur[t])
    /\ \A m \in queues : ~ Retryable(m) => m > cur[t] \/ (m = cur[t] /\ pc[t] = "unlink")
    /\ pc[t] = "unlink" => cur[t] \in queues
    /\ pc[t] \in {"dlqSize", "dlqAdd"} => cur[t] \notin queues
    /\ pc[t] \in {"unlink", "dlqSize", "dlqAdd"} => ~ Retryable(cur[t])
    /\ pc[t] = "dlqAdd" => DeadLettersHaveRoom

(* The messages that popMessage has passed are not available, and the one  *)
(* it takes is.                                                            *)
PopSound(t) ==
  /\ pc[t] # "popTimeout"
  /\ pc[t] \in {"take", "arm"} => cur[t] \in queues /\ Retryable(cur[t])
  /\ pc[t] = "take" => isVisible[cur[t]]
  /\ pc[t] = "arm" => ~ isVisible[cur[t]] /\ ProcessTimeout > 0
  /\ pc[t] \in {"pop", "take", "arm"} =>
       \A m \in queues : isVisible[m] /\ Retryable(m) =>
         m > cur[t] \/ (m = cur[t] /\ pc[t] # "pop")

Sound(t) ==
  /\ SendSound(t) /\ AckSound(t) /\ TimesSound(t) /\ RestoreSound(t)
  /\ CleanSound(t) /\ MoveSound(t) /\ PopSound(t)

Serial == MessagesSound /\ \A t \in Threads : Sound(t)

-----------------------------------------------------------------------------
(* The one thread, its types, and what a step does to it.                  *)

LEMMA Alone == ASSUME NEW t \in Threads, NEW u \in Threads PROVE t = u
  BY OneThread

LEMMA Typing ==
  ASSUME TypeOK, NEW t \in Threads
  PROVE  /\ pc[t] \in Labels /\ cur[t] \in 0 .. sent /\ nowTime[t] \in Nat
         /\ ahead[t] \subseteq 1 .. sent /\ sent \in Nat /\ MaxMessages \in Nat
         /\ queues \subseteq 1 .. sent /\ 1 .. sent \subseteq Messages
         /\ clock \in Nat /\ clock # 0 /\ MaxFailCount \in Nat /\ Slack \in Nat
         /\ pc[t] \in NeedsMessage => cur[t] \in 1 .. sent /\ cur[t] \in Messages
         /\ \A m \in Messages : /\ processTimeoutFrom[m] \in Nat /\ failures[m] \in Nat
                                /\ isVisible[m] \in BOOLEAN
<1>1. /\ pc[t] \in Labels /\ cur[t] \in 0 .. sent /\ nowTime[t] \in Nat
      /\ ahead[t] \subseteq 1 .. sent
      /\ pc[t] \in NeedsMessage => cur[t] # 0
  BY DEF TypeOK, ThreadTypeOK
<1>2. /\ sent \in Nat /\ MaxMessages \in Nat /\ sent <= MaxMessages
      /\ MaxFailCount \in Nat /\ Slack \in Nat
      /\ queues \subseteq 1 .. sent /\ clock \in Nat /\ clock # 0
  BY ConstantsAssumption DEF TypeOK, SharedTypeOK
<1>3. 1 .. sent \subseteq Messages
  BY <1>2 DEF Messages
<1>4. \A m \in Messages : /\ processTimeoutFrom[m] \in Nat /\ failures[m] \in Nat
                          /\ isVisible[m] \in BOOLEAN
  BY DEF TypeOK, FieldTypeOK
<1> QED
  BY <1>1, <1>2, <1>3, <1>4

LEMMA AnswerLands ==
  ASSUME TypeOK, NEW t \in Threads, Answer(t)
  PROVE  /\ pc'[t] = "idle" /\ job'[t] = "none" /\ cur'[t] = 0
         /\ ahead'[t] = {} /\ nowTime'[t] = 0
  BY DEF Answer, Goto, TypeOK, ThreadTypeOK

LEMMA ScanLands ==
  ASSUME TypeOK, NEW t \in Threads, NEW label, NEW at, NEW next, Scan(t, label, at, next)
  PROVE  pc'[t] = label /\ cur'[t] = 0 /\ ahead'[t] = next /\ nowTime'[t] = at
  BY DEF Scan, Goto, TypeOK, ThreadTypeOK

LEMMA VisitLands ==
  ASSUME TypeOK, NEW t \in Threads, NEW label, NEW m, NEW next, Visit(t, label, m, next)
  PROVE  pc'[t] = label /\ cur'[t] = m /\ ahead'[t] = next
  BY DEF Visit, Goto, TypeOK, ThreadTypeOK

LEMMA GotoLands ==
  ASSUME TypeOK, NEW t \in Threads, NEW label, Goto(t, label)
  PROVE  pc'[t] = label
  BY DEF Goto, TypeOK, ThreadTypeOK

(* A request that ends, and one that starts to cleanse.                    *)
LEMMA IdleSound ==
  ASSUME TypeOK, TypeOK', NEW t \in Threads, Answer(t),
         \A m \in queues' : failures'[m] <= MaxFailCount
  PROVE  Sound(t)'
<1>1. pc'[t] = "idle" /\ nowTime'[t] = 0
  BY AnswerLands
<1>2. clock' \in Nat
  BY Typing DEF TypeOK, SharedTypeOK
<1> QED
  BY <1>1, <1>2 DEF Sound, SendSound, AckSound, TimesSound, RestoreSound, CleanSound, Clean,
                    MoveSound, PopSound, At, Retryable

LEMMA CleansingSound ==
  ASSUME TypeOK, NEW t \in Threads, NEW q, StartCleansing(t, q), clock' = clock
  PROVE  Sound(t)'
<1>1. pc'[t] = "timeouts" /\ nowTime'[t] = clock
  BY ScanLands DEF StartCleansing
<1>2. clock \in Nat /\ clock # 0
  BY Typing
<1> QED
  BY <1>1, <1>2 DEF Sound, SendSound, AckSound, TimesSound, RestoreSound, CleanSound, Clean,
                    MoveSound, PopSound, At

(* Behind the last message that follows c there is none.                   *)
LEMMA FollowingEmpty ==
  ASSUME NEW q, q \subseteq Nat, NEW c \in Nat, Following(q, c) = {}
  PROVE  \A m \in q : m <= c
<1> DEFINE T == {m \in q : m > c}
           R == {p \in Nat \X Nat : p[1] < p[2]}
<1>1. IsWellFoundedOn(R, Nat)
  BY NatLessThanWellFounded DEF OpToRel
<1> SUFFICES ASSUME T # {}
             PROVE  FALSE
  OBVIOUS
<1>2. T \subseteq Nat
  OBVIOUS
<1>3. PICK x \in T : \A y \in T : ~ (<<y, x>> \in R)
  <2> HIDE DEF T, R
  <2> QED
    BY <1>1, <1>2, WFMin
<1>4. ASSUME NEW n \in q, n > c
      PROVE  x <= n
  <2>1. n \in T /\ n \in Nat /\ x \in Nat /\ ~ (<<n, x>> \in R)
    BY <1>3, <1>4
  <2>2. ~ (n < x)
    BY <2>1
  <2> QED
    BY <2>1, <2>2
<1> QED
  BY <1>3, <1>4 DEF Following

-----------------------------------------------------------------------------
(* The steps, one request after the other.                                 *)

LEMMA RequestSound ==
  ASSUME TypeOK, TypeOK', Serial, NEW t \in Threads, Request(t)
  PROVE  MessagesSound' /\ Sound(t)'
<1>0. /\ MessagesSound /\ TimesSound(t) /\ CleanSound(t)
      /\ pc[t] = "idle" /\ clock' = clock /\ nowTime[t] = 0
      /\ \A m \in queues : Retryable(m)
  <2>1. MessagesSound /\ TimesSound(t) /\ CleanSound(t)
    BY DEF Serial, Sound
  <2>2. pc[t] = "idle" /\ clock' = clock
    BY DEF Request, HandleSend, HandleReceive, HandleDLQ, HandleAck, HandleFail, At
  <2> QED
    BY <2>1, <2>2 DEF TimesSound, CleanSound, Clean
<1>1. MessagesSound'
  <2>1. UNCHANGED <<fields, sent>>
    BY DEF Request, HandleSend, HandleReceive, HandleDLQ, HandleAck, HandleFail
  <2> QED
    BY <1>0, <2>1 DEF MessagesSound, fields
<1>2. CASE HandleSend(t)
  <2>1. pc'[t] = "add" /\ nowTime'[t] = 0 /\ HasRoom' /\ queues' = queues /\ failures' = failures
    BY <1>0, <1>2, GotoLands DEF HandleSend, HasRoom, loop, fields
  <2> QED
    BY <1>0, <1>1, <2>1, Typing
       DEF Sound, SendSound, AckSound, TimesSound, RestoreSound, CleanSound, Clean,
           MoveSound, PopSound, At, Retryable
<1>3. CASE HandleReceive(t) \/ HandleDLQ(t)
  BY <1>0, <1>1, <1>3, CleansingSound DEF HandleReceive, HandleDLQ
<1>4. CASE HandleAck(t)
  <2>1. pc'[t] = "find" /\ nowTime'[t] = 0 /\ queues' = queues /\ failures' = failures
    BY <1>0, <1>4, VisitLands DEF HandleAck, fields
  <2> QED
    BY <1>0, <1>1, <2>1, Typing
       DEF Sound, SendSound, AckSound, TimesSound, RestoreSound, CleanSound, Clean,
           MoveSound, PopSound, At, Retryable
<1>5. CASE HandleFail(t)
  <2>1. pc'[t] = "restore" /\ nowTime'[t] = 0 /\ queues' = queues /\ failures' = failures
    BY <1>0, <1>5, VisitLands DEF HandleFail, fields
  <2>2. job'[t] = "FAIL"
    BY <1>5 DEF HandleFail, TypeOK, ThreadTypeOK
  <2> QED
    BY <1>0, <1>1, <2>1, <2>2, Typing
       DEF Sound, SendSound, AckSound, TimesSound, RestoreSound, CleanSound, Clean,
           MoveSound, PopSound, At, Retryable
<1> QED
  BY <1>1, <1>2, <1>3, <1>4, <1>5 DEF Request

LEMMA AddSound ==
  ASSUME TypeOK, TypeOK', Serial, NEW t \in Threads, AddMessage(t)
  PROVE  MessagesSound' /\ Sound(t)'
<1>1. sent' = sent + 1 /\ queues' = queues \union {sent + 1} /\ Answer(t)
      /\ isVisible' = isVisible /\ failures' = failures
      /\ processTimeoutFrom' = processTimeoutFrom
  BY DEF AddMessage, fields
<1>2. MessagesSound /\ \A m \in queues : Retryable(m)
  BY DEF Serial, Sound, CleanSound, Clean, AddMessage, At
<1>3. sent + 1 \in Messages /\ sent \in Nat
  BY <1>1, Typing DEF TypeOK, SharedTypeOK, Messages
<1>4. failures[sent + 1] = 0 /\ MaxFailCount \in Nat
  BY <1>2, <1>3, Typing DEF MessagesSound
<1>5. MessagesSound'
  BY <1>1, <1>2, <1>3 DEF MessagesSound, Messages
<1>6. Sound(t)'
  BY <1>1, <1>2, <1>4, IdleSound DEF Retryable
<1> QED
  BY <1>5, <1>6

LEMMA AckStepsSound ==
  ASSUME TypeOK, TypeOK', Serial, NEW t \in Threads, RemoveFind(t) \/ RemoveMessage(t)
  PROVE  MessagesSound' /\ Sound(t)'
<1>0. MessagesSound /\ TimesSound(t) /\ CleanSound(t)
  BY DEF Serial, Sound
<1>1. MessagesSound'
  <2>1. UNCHANGED <<fields, sent>>
    BY DEF RemoveFind, RemoveMessage
  <2> QED
    BY <1>0, <2>1 DEF MessagesSound, fields
<1>2. CASE RemoveMessage(t)
  BY <1>1, <1>2, CleansingSound DEF RemoveMessage
<1>3. CASE RemoveFind(t) /\ cur[t] \notin queues
  BY <1>1, <1>3, CleansingSound DEF RemoveFind
<1>4. CASE RemoveFind(t) /\ cur[t] \in queues
  <2>1. /\ pc[t] = "find" /\ pc'[t] = "remove" /\ nowTime' = nowTime /\ clock' = clock
        /\ queues' = queues /\ failures' = failures /\ cur' = cur
    BY <1>4, GotoLands DEF RemoveFind, At, loop, fields
  <2> QED
    BY <1>0, <1>1, <1>4, <2>1
       DEF Sound, SendSound, AckSound, TimesSound, RestoreSound, CleanSound, Clean,
           MoveSound, PopSound, At, Retryable
<1> QED
  BY <1>1, <1>2, <1>3, <1>4

(* restoreMessage                                                          *)
LEMMA RestoreReturnsSound ==
  ASSUME TypeOK, NEW t \in Threads, RestoreReturns(t), clock' = clock, nowTime[t] <= clock
  PROVE  Sound(t)'
<1>1. CASE nowTime[t] = 0
  BY <1>1, CleansingSound DEF RestoreReturns
<1>2. CASE nowTime[t] # 0
  <2>1. pc'[t] = "timeouts" /\ nowTime' = nowTime
    BY <1>2, GotoLands DEF RestoreReturns, loop
  <2> QED
    BY <1>2, <2>1 DEF Sound, SendSound, AckSound, TimesSound, RestoreSound, CleanSound, Clean,
                      MoveSound, PopSound, At
<1> QED
  BY <1>1, <1>2

LEMMA RestoreStepsSound ==
  ASSUME TypeOK, TypeOK', Serial, NEW t \in Threads, RestoreFind(t) \/ ReadFailures(t)
  PROVE  MessagesSound' /\ Sound(t)'
<1>0. MessagesSound /\ TimesSound(t) /\ CleanSound(t) /\ RestoreSound(t)
  BY DEF Serial, Sound
<1>1. UNCHANGED <<clock, queues, fields, job, sent>>
  BY DEF RestoreFind, ReadFailures
<1>2. MessagesSound'
  BY <1>0, <1>1 DEF MessagesSound, fields
<1>3. CASE RestoreFind(t) /\ ~ (cur[t] \in queues /\ Retryable(cur[t]))
  BY <1>0, <1>1, <1>2, <1>3, RestoreReturnsSound DEF RestoreFind, TimesSound
<1>4. CASE RestoreFind(t) /\ cur[t] \in queues /\ Retryable(cur[t])
  <2>1. pc[t] = "restore" /\ pc'[t] = "read" /\ nowTime' = nowTime /\ cur' = cur
    BY <1>4, GotoLands DEF RestoreFind, At, loop
  <2> QED
    BY <1>0, <1>1, <1>2, <1>4, <2>1
       DEF Sound, SendSound, AckSound, TimesSound, RestoreSound, CleanSound, Clean,
           MoveSound, PopSound, At, Retryable, fields, TimerIsSet, IsProcessTimeout
<1>5. CASE ReadFailures(t)
  <2>1. /\ pc[t] = "read" /\ pc'[t] = "write" /\ nowTime' = nowTime /\ cur' = cur
        /\ oldFailures'[t] = failures[cur[t]]
    BY <1>5, GotoLands DEF ReadFailures, At, loop, TypeOK, ThreadTypeOK
  <2> QED
    BY <1>0, <1>1, <1>2, <2>1
       DEF Sound, SendSound, AckSound, TimesSound, RestoreSound, CleanSound, Clean,
           MoveSound, PopSound, At, Retryable, fields, TimerIsSet, IsProcessTimeout
<1> QED
  BY <1>2, <1>3, <1>4, <1>5

LEMMA WriteSound ==
  ASSUME TypeOK, TypeOK', Serial, NEW t \in Threads,
         WriteFailures(t) \/ ClearTimer(t) \/ Show(t)
  PROVE  MessagesSound' /\ Sound(t)'
<1>0. MessagesSound /\ TimesSound(t) /\ RestoreSound(t)
  BY DEF Serial, Sound
<1>1. clock' = clock /\ sent' = sent /\ pc[t] \in {"write", "timer", "show"}
  BY DEF WriteFailures, ClearTimer, Show, At
<1>2. cur[t] \in 1 .. sent /\ cur[t] \in Messages /\ sent \in Nat
  BY <1>1, Typing DEF NeedsMessage
<1>3. CASE WriteFailures(t)
  <2>1. /\ pc'[t] = "timer" /\ nowTime' = nowTime
        /\ \A m \in Messages : m # cur[t] => failures'[m] = failures[m]
        /\ isVisible' = isVisible /\ processTimeoutFrom' = processTimeoutFrom
    BY <1>3, GotoLands DEF WriteFailures, loop, TypeOK, FieldTypeOK
  <2>2. MessagesSound'
    BY <1>0, <1>1, <1>2, <2>1 DEF MessagesSound
  <2> QED
    BY <1>0, <1>1, <2>1, <2>2
       DEF Sound, SendSound, AckSound, TimesSound, RestoreSound, CleanSound, Clean,
           MoveSound, PopSound, At
<1>4. CASE ClearTimer(t)
  <2>1. /\ pc'[t] = "show" /\ nowTime' = nowTime /\ cur' = cur
        /\ \A m \in Messages : m # cur[t] => processTimeoutFrom'[m] = processTimeoutFrom[m]
        /\ processTimeoutFrom'[cur[t]] = 0
        /\ isVisible' = isVisible /\ failures' = failures
    BY <1>2, <1>4, GotoLands DEF ClearTimer, locals, loop, TypeOK, FieldTypeOK
  <2>2. MessagesSound'
    BY <1>0, <1>1, <2>1 DEF MessagesSound
  <2> QED
    BY <1>0, <1>1, <2>1, <2>2
       DEF Sound, SendSound, AckSound, TimesSound, RestoreSound, CleanSound, Clean,
           MoveSound, PopSound, At, TimerIsSet
<1>5. CASE Show(t)
  <2>1. /\ \A m \in Messages : m # cur[t] => isVisible'[m] = isVisible[m]
        /\ isVisible'[cur[t]] = TRUE
        /\ failures' = failures /\ processTimeoutFrom' = processTimeoutFrom
        /\ processTimeoutFrom[cur[t]] = 0
    BY <1>0, <1>2, <1>5 DEF Show, TypeOK, FieldTypeOK, RestoreSound, TimerIsSet, At
  <2>2. MessagesSound'
    BY <1>0, <1>1, <1>2, <2>1 DEF MessagesSound
  <2>3. Sound(t)'
    BY <1>0, <1>1, <1>5, RestoreReturnsSound DEF Show, TimesSound
  <2> QED
    BY <2>2, <2>3
<1> QED
  BY <1>3, <1>4, <1>5

(* processTimeoutMessages                                                  *)
LEMMA TimeoutStepsSound ==
  ASSUME TypeOK, TypeOK', Serial, NEW t \in Threads,
         ProcessTimeoutMessages(t) \/ TestTimeout(t)
  PROVE  MessagesSound' /\ Sound(t)'
<1>0. MessagesSound /\ TimesSound(t)
  BY DEF Serial, Sound
<1>1. UNCHANGED <<clock, queues, fields, sent>>
  BY DEF ProcessTimeoutMessages, TestTimeout
<1>2. MessagesSound'
  BY <1>0, <1>1 DEF MessagesSound, fields
<1>3. CASE TestTimeout(t)
  <2>1. /\ pc[t] = "isTimeout" /\ nowTime' = nowTime /\ cur' = cur
        /\ \/ pc'[t] = "timeouts"
           \/ pc'[t] = "restore" /\ IsProcessTimeout(cur[t], nowTime[t])
    BY <1>3, GotoLands DEF TestTimeout, At, locals, loop
  <2> QED
    BY <1>0, <1>1, <1>2, <2>1
       DEF Sound, SendSound, AckSound, TimesSound, RestoreSound, CleanSound, Clean,
           MoveSound, PopSound, At, fields, TimerIsSet, IsProcessTimeout
<1>4. CASE ProcessTimeoutMessages(t) /\ ahead[t] = {}
  <2>1. /\ pc'[t] = "overFailed" /\ nowTime'[t] = 0 /\ cur'[t] = 0
        /\ ahead'[t] = Following(queues, 0)
    BY <1>4, ScanLands DEF ProcessTimeoutMessages
  <2>2. ahead'[t] = Following(queues', cur'[t])
    BY <1>1, <2>1
  <2>3. \A m \in queues' : m > cur'[t]
    BY <1>1, <2>1, Typing
  <2>4. 0 <= clock'
    BY <1>1, Typing
  <2> QED
    BY <1>2, <2>1, <2>2, <2>3, <2>4
       DEF Sound, SendSound, AckSound, TimesSound, RestoreSound, CleanSound, Clean,
           MoveSound, PopSound, At
<1>5. CASE ProcessTimeoutMessages(t) /\ ahead[t] # {}
  <2>1. PICK m \in ahead[t] :
          /\ Visit(t, IF TimerIsSet(m) THEN "isTimeout" ELSE "timeouts", m,
                   Following(queues, m))
          /\ UNCHANGED nowTime
    BY <1>5 DEF ProcessTimeoutMessages
  <2>2. /\ pc[t] = "timeouts" /\ cur'[t] = m /\ nowTime' = nowTime
        /\ pc'[t] = "timeouts" \/ (pc'[t] = "isTimeout" /\ TimerIsSet(m))
    BY <1>5, <2>1, VisitLands DEF ProcessTimeoutMessages, At
  <2> QED
    BY <1>0, <1>1, <1>2, <2>2
       DEF Sound, SendSound, AckSound, TimesSound, RestoreSound, CleanSound, Clean,
           MoveSound, PopSound, At, fields, TimerIsSet
<1> QED
  BY <1>3, <1>4, <1>5

(* processOverFailedMessages: behind its last message no dead one is left. *)
LEMMA OverFailedSound ==
  ASSUME TypeOK, TypeOK', Serial, NEW t \in Threads, ProcessOverFailedMessages(t)
  PROVE  MessagesSound' /\ Sound(t)'
<1>0. MessagesSound /\ TimesSound(t) /\ MoveSound(t) /\ pc[t] = "overFailed"
  BY DEF Serial, Sound, ProcessOverFailedMessages, At
<1>1. UNCHANGED <<clock, queues, fields, sent>>
  BY DEF ProcessOverFailedMessages
<1>2. MessagesSound'
  BY <1>0, <1>1 DEF MessagesSound, fields
<1>3. /\ ahead[t] = Following(queues, cur[t]) /\ cur[t] \in Nat /\ queues \subseteq Nat
      /\ \A m \in queues : ~ Retryable(m) => m > cur[t]
  BY <1>0, Typing DEF MoveSound
<1>4. CASE ahead[t] = {}
  <2>1. \A m \in queues : m <= cur[t]
    BY <1>3, <1>4, FollowingEmpty
  <2>2. \A m \in queues : Retryable(m)
    <3> TAKE m \in queues
    <3>1. m <= cur[t] /\ m \in Nat /\ cur[t] \in Nat
      BY <1>3, <2>1
    <3>2. ~ (m > cur[t])
      BY <3>1
    <3> QED
      BY <1>3, <3>2
  <2>3. AfterCleansing(t)
    BY <1>4 DEF ProcessOverFailedMessages
  <2>4. CASE Answer(t)
    BY <1>1, <1>2, <2>2, <2>4, IdleSound DEF fields, Retryable
  <2>5. CASE ~ Answer(t)
    <3>1. Scan(t, "pop", clock, {}) \/ Scan(t, "poll", 0, {})
      BY <2>3, <2>5 DEF AfterCleansing
    <3>2. /\ pc'[t] \in {"pop", "poll"} /\ cur'[t] = 0
          /\ nowTime'[t] = clock \/ nowTime'[t] = 0
      BY <3>1, ScanLands
    <3>3. (\A m \in queues' : Retryable(m)') /\ (\A m \in queues' : m > cur'[t])
      BY <1>1, <2>2, <3>2, Typing DEF Retryable, fields
    <3>4. nowTime'[t] <= clock'
      BY <1>1, <3>2, Typing
    <3> QED
      BY <1>2, <3>2, <3>3, <3>4
         DEF Sound, SendSound, AckSound, TimesSound, RestoreSound, CleanSound, Clean,
             MoveSound, PopSound, At
  <2> QED
    BY <2>4, <2>5
<1>5. CASE ahead[t] # {}
  <2>1. PICK m \in ahead[t] :
          /\ Visit(t, IF Retryable(m) THEN "overFailed" ELSE "unlink", m,
                   Following(queues, m))
          /\ UNCHANGED nowTime
    BY <1>5 DEF ProcessOverFailedMessages
  <2>2. /\ cur'[t] = m /\ nowTime' = nowTime /\ ahead'[t] = Following(queues, m)
        /\ \/ pc'[t] = "overFailed" /\ Retryable(m)
           \/ pc'[t] = "unlink" /\ ~ Retryable(m)
    BY <2>1, VisitLands
  <2>3. m \in queues /\ m \in Nat /\ \A n \in queues : n > cur[t] => m <= n
    BY <1>3, <2>1 DEF Following
  <2>4. ASSUME NEW n \in queues, ~ Retryable(n)
        PROVE  n > m \/ (n = m /\ pc'[t] = "unlink")
    <3>1. n \in Nat /\ m <= n
      BY <1>3, <2>3, <2>4
    <3>2. n = m => pc'[t] = "unlink"
      BY <2>2, <2>4
    <3> QED
      BY <2>3, <3>1, <3>2
  <2>5. MoveSound(t)'
    BY <1>1, <2>2, <2>3, <2>4 DEF MoveSound, Retryable, fields
  <2> QED
    BY <1>0, <1>1, <1>2, <2>2, <2>5
       DEF Sound, SendSound, AckSound, TimesSound, RestoreSound, CleanSound, Clean, PopSound, At
<1> QED
  BY <1>4, <1>5

LEMMA MoveStepsSound ==
  ASSUME TypeOK, TypeOK', Serial, NEW t \in Threads,
         MoveUnlink(t) \/ MoveTestSize(t) \/ MoveAdd(t)
  PROVE  MessagesSound' /\ Sound(t)'
<1>0. MessagesSound /\ TimesSound(t) /\ MoveSound(t)
  BY DEF Serial, Sound
<1>1. UNCHANGED <<clock, fields, sent, locals>>
  BY DEF MoveUnlink, MoveTestSize, MoveAdd
<1>2. MessagesSound'
  BY <1>0, <1>1 DEF MessagesSound, fields
<1>3. /\ pc[t] \in {"unlink", "dlqSize", "dlqAdd"}
      /\ queues \subseteq Nat /\ cur[t] \in Nat
  BY Typing DEF MoveUnlink, MoveTestSize, MoveAdd, At
<1>4. /\ ahead[t] = Following(queues, cur[t]) /\ ~ Retryable(cur[t])
      /\ \A m \in queues : ~ Retryable(m) => m > cur[t] \/ (m = cur[t] /\ pc[t] = "unlink")
      /\ pc[t] # "unlink" => cur[t] \notin queues
  BY <1>0, <1>3 DEF MoveSound
<1>5. CASE MoveUnlink(t)
  <2>1. pc'[t] = "dlqSize" /\ queues' = queues \ {cur[t]} /\ cur' = cur /\ nowTime' = nowTime
    BY <1>1, <1>5, GotoLands DEF MoveUnlink, locals, loop
  <2>2. Following(queues', cur[t]) = Following(queues, cur[t])
    BY <1>3, <2>1 DEF Following
  <2>3. MoveSound(t)'
    BY <1>1, <1>4, <2>1, <2>2 DEF MoveSound, Retryable, fields, locals, loop
  <2> QED
    BY <1>0, <1>1, <1>2, <2>1, <2>3
       DEF Sound, SendSound, AckSound, TimesSound, RestoreSound, CleanSound, Clean, PopSound, At
<1>6. CASE MoveTestSize(t) \/ MoveAdd(t)
  <2>1. /\ queues' = queues /\ cur' = cur /\ nowTime' = nowTime /\ ahead' = ahead
        /\ pc[t] # "unlink"
        /\ pc'[t] = "overFailed" \/ (pc'[t] = "dlqAdd" /\ DeadLettersHaveRoom')
    BY <1>1, <1>6, GotoLands
       DEF MoveTestSize, MoveAdd, At, locals, loop, DeadLettersHaveRoom
  <2>2. MoveSound(t)'
    BY <1>1, <1>4, <2>1 DEF MoveSound, Retryable, fields
  <2> QED
    BY <1>0, <1>1, <1>2, <2>1, <2>2
       DEF Sound, SendSound, AckSound, TimesSound, RestoreSound, CleanSound, Clean, PopSound, At
<1> QED
  BY <1>5, <1>6 DEF MoveUnlink, MoveTestSize, MoveAdd

(* popMessage and what RECEIVE does around it.                             *)
LEMMA PopSteps ==
  ASSUME TypeOK, TypeOK', Serial, NEW t \in Threads,
         PopMessageDLQ(t) \/ PopMessage(t) \/ PopTestTimeout(t) \/ WakeUp(t)
  PROVE  MessagesSound' /\ Sound(t)'
<1>0. /\ MessagesSound /\ TimesSound(t) /\ PopSound(t)
      /\ \A m \in queues : Retryable(m)
  <2>1. MessagesSound /\ TimesSound(t) /\ PopSound(t) /\ CleanSound(t)
    BY DEF Serial, Sound
  <2>2. pc[t] \in {"poll", "pop", "sleep"}
    BY <2>1 DEF PopMessageDLQ, PopMessage, PopTestTimeout, WakeUp, At, PopSound
  <2> QED
    BY <2>1, <2>2 DEF CleanSound, Clean
<1>1. UNCHANGED <<clock, queues, fields, sent>>
  BY DEF PopMessageDLQ, PopMessage, PopTestTimeout, WakeUp
<1>2. MessagesSound'
  BY <1>0, <1>1 DEF MessagesSound, fields
<1>3. (\A m \in queues' : Retryable(m)') /\ (\A m \in queues' : failures'[m] <= MaxFailCount)
  BY <1>0, <1>1 DEF Retryable, fields
<1>4. ASSUME Answer(t) PROVE Sound(t)'
  BY <1>3, <1>4, IdleSound
<1>5. ASSUME NEW at \in {0, clock}, NEW label \in {"pop", "sleep"}, Scan(t, label, at, {})
      PROVE  Sound(t)'
  <2>1. pc'[t] = label /\ cur'[t] = 0 /\ nowTime'[t] = at
    BY <1>5, ScanLands
  <2>2. \A m \in queues' : m > cur'[t]
    BY <1>1, <2>1, Typing
  <2>3. nowTime'[t] <= clock'
    BY <1>1, <2>1, Typing
  <2> QED
    BY <1>3, <2>1, <2>2, <2>3
       DEF Sound, SendSound, AckSound, TimesSound, RestoreSound, CleanSound, Clean,
           MoveSound, PopSound, At
<1>6. CASE PopMessageDLQ(t)
  BY <1>2, <1>4, <1>6 DEF PopMessageDLQ
<1>7. CASE WakeUp(t)
  BY <1>2, <1>5, <1>7 DEF WakeUp
<1>8. CASE PopMessage(t) /\ Following(queues, cur[t]) = {}
  BY <1>2, <1>4, <1>5, <1>8 DEF PopMessage, NoMessage
<1>9. CASE PopMessage(t) /\ Following(queues, cur[t]) # {}
  <2>1. PICK m \in Following(queues, cur[t]) :
          /\ Visit(t, IF ~ isVisible[m] THEN "pop"
                      ELSE IF TimerIsSet(m) THEN "popTimeout"
                      ELSE IF Retryable(m) THEN "take" ELSE "pop", m, {})
          /\ UNCHANGED nowTime
    BY <1>9 DEF PopMessage
  <2>2. /\ m \in queues /\ m \in Nat /\ m \in Messages /\ m > cur[t] /\ cur[t] \in Nat
        /\ \A n \in queues : n \in Nat /\ (n > cur[t] => m <= n)
    BY Typing DEF Following
  <2>3. isVisible[m] => ~ TimerIsSet(m)
    BY <1>0, <2>2 DEF MessagesSound, TimerIsSet
  <2>4. /\ cur'[t] = m /\ nowTime' = nowTime
        /\ \/ pc'[t] = "pop" /\ ~ isVisible[m]
           \/ pc'[t] = "take" /\ isVisible[m]
    BY <1>0, <2>1, <2>2, <2>3, VisitLands
  <2>5. pc[t] = "pop"
    BY <1>9 DEF PopMessage, At
  <2>6. ASSUME NEW n \in queues, isVisible[n]
        PROVE  n > m \/ (n = m /\ pc'[t] # "pop")
    <3>1. n > cur[t]
      BY <1>0, <2>5, <2>6 DEF PopSound
    <3>2. n \in Nat /\ m <= n
      BY <2>2, <2>6, <3>1
    <3>3. n = m => pc'[t] = "take"
      BY <2>4, <2>6
    <3> QED
      BY <2>2, <3>2, <3>3
  <2>7. PopSound(t)'
    BY <1>1, <1>3, <2>2, <2>4, <2>6 DEF PopSound, fields
  <2> QED
    BY <1>0, <1>1, <1>2, <1>3, <2>4, <2>7
       DEF Sound, SendSound, AckSound, TimesSound, RestoreSound, CleanSound, Clean,
           MoveSound, At
<1>10. ~ PopTestTimeout(t)
  BY <1>0 DEF PopTestTimeout, At, PopSound
<1> QED
  BY <1>6, <1>7, <1>8, <1>9, <1>10

LEMMA TakeSteps ==
  ASSUME TypeOK, TypeOK', Serial, NEW t \in Threads, Take(t) \/ SetProcessTimeoutFrom(t)
  PROVE  MessagesSound' /\ Sound(t)'
<1>0. /\ MessagesSound /\ TimesSound(t) /\ PopSound(t)
      /\ \A m \in queues : Retryable(m)
  <2>1. MessagesSound /\ TimesSound(t) /\ PopSound(t) /\ CleanSound(t)
    BY DEF Serial, Sound
  <2>2. pc[t] \in {"take", "arm"}
    BY <2>1 DEF Take, SetProcessTimeoutFrom, At
  <2> QED
    BY <2>1, <2>2 DEF CleanSound, Clean
<1>1. UNCHANGED <<clock, queues, failures, sent>> /\ pc[t] \in {"take", "arm"}
  BY DEF Take, SetProcessTimeoutFrom, At
<1>2. cur[t] \in 1 .. sent /\ cur[t] \in Messages /\ sent \in Nat
  BY <1>1, Typing DEF NeedsMessage
<1>3. MessagesSound'
  <2>1. CASE Take(t)
    <3>1. /\ \A m \in Messages : m # cur[t] => isVisible'[m] = isVisible[m]
          /\ isVisible'[cur[t]] = FALSE /\ processTimeoutFrom' = processTimeoutFrom
      BY <1>2, <2>1 DEF Take, TypeOK, FieldTypeOK
    <3> QED
      BY <1>0, <1>1, <1>2, <3>1 DEF MessagesSound
  <2>2. CASE SetProcessTimeoutFrom(t)
    <3>1. /\ \A m \in Messages : m # cur[t] => processTimeoutFrom'[m] = processTimeoutFrom[m]
          /\ isVisible' = isVisible /\ ~ isVisible[cur[t]]
      BY <1>0, <1>2, <2>2 DEF SetProcessTimeoutFrom, TypeOK, FieldTypeOK, PopSound, At
    <3> QED
      BY <1>0, <1>1, <1>2, <3>1 DEF MessagesSound
  <2> QED
    BY <2>1, <2>2
<1>4. (\A m \in queues' : Retryable(m)') /\ (\A m \in queues' : failures'[m] <= MaxFailCount)
  BY <1>0, <1>1 DEF Retryable
<1>5. CASE Answer(t)
  BY <1>3, <1>4, <1>5, IdleSound
<1>6. CASE ~ Answer(t)
  <2>1. /\ Take(t) /\ pc[t] = "take" /\ pc'[t] = "arm" /\ cur' = cur /\ nowTime' = nowTime
        /\ ProcessTimeout > 0
        /\ \A m \in Messages : m # cur[t] => isVisible'[m] = isVisible[m]
        /\ isVisible'[cur[t]] = FALSE
    BY <1>2, <1>6, GotoLands DEF Take, SetProcessTimeoutFrom, At, locals, loop,
                                 TypeOK, FieldTypeOK
  <2>2. \A m \in queues : isVisible[m] => m > cur[t] \/ m = cur[t]
    BY <1>0, <2>1 DEF PopSound
  <2>3. cur[t] \in queues /\ queues \subseteq Messages
    BY <1>0, <2>1, Typing DEF PopSound
  <2>4. PopSound(t)'
    BY <1>1, <1>4, <2>1, <2>2, <2>3 DEF PopSound
  <2> QED
    BY <1>0, <1>1, <1>3, <1>4, <2>1, <2>4
       DEF Sound, SendSound, AckSound, TimesSound, RestoreSound, CleanSound, Clean,
           MoveSound, At
<1> QED
  BY <1>5, <1>6

-----------------------------------------------------------------------------
(* The invariant.                                                          *)

LEMMA SerialStep ==
  ASSUME TypeOK, TypeOK', Serial, NEW t \in Threads, Request(t) \/ Step(t)
  PROVE  Serial'
<1>1. MessagesSound' /\ Sound(t)'
  BY RequestSound, AddSound, AckStepsSound, RestoreStepsSound, WriteSound, TimeoutStepsSound,
     OverFailedSound, MoveStepsSound, PopSteps, TakeSteps
     DEF Step
<1>2. \A u \in Threads : u = t
  BY Alone
<1> QED
  BY <1>1, <1>2 DEF Serial

LEMMA SerialTick ==
  ASSUME TypeOK, Serial, Tick \/ UNCHANGED vars
  PROVE  Serial'
<1>1. /\ UNCHANGED <<queues, deadLetters, sent, fields, pc, locals>>
      /\ clock \in Nat /\ clock' \in Nat /\ clock <= clock'
  BY Typing, OneThread DEF Tick, vars
<1>2. ASSUME NEW t \in Threads PROVE TimesSound(t)'
  <2>1. TimesSound(t) /\ nowTime[t] \in Nat
    BY Typing DEF Serial, Sound
  <2>2. nowTime'[t] <= clock'
    BY <1>1, <2>1 DEF TimesSound, locals, loop
  <2> QED
    BY <1>1, <2>1, <2>2 DEF TimesSound, locals, loop, fields, TimerIsSet, IsProcessTimeout
<1>3. ASSUME NEW t \in Threads PROVE (SendSound(t) /\ AckSound(t) /\ RestoreSound(t))'
  BY <1>1 DEF Serial, Sound, SendSound, AckSound, RestoreSound, locals, loop, fields,
              At, HasRoom, Retryable, TimerIsSet
<1>4. ASSUME NEW t \in Threads PROVE (CleanSound(t) /\ MoveSound(t) /\ PopSound(t))'
  BY <1>1 DEF Serial, Sound, CleanSound, Clean, MoveSound, PopSound, locals, loop, fields,
              Retryable, DeadLettersHaveRoom
<1>5. MessagesSound'
  BY <1>1 DEF Serial, MessagesSound, fields
<1> QED
  BY <1>2, <1>3, <1>4, <1>5 DEF Serial, Sound

LEMMA SerialInit == Init => Serial
<1> SUFFICES ASSUME Init PROVE Serial
  OBVIOUS
<1>1. \A t \in Threads : pc[t] = "idle" /\ nowTime[t] = 0
  BY DEF Init
<1>2. clock = 1 /\ queues = {} /\ MessagesSound
  BY DEF Init, MessagesSound
<1> QED
  BY <1>1, <1>2
     DEF Serial, Sound, SendSound, AckSound, TimesSound, RestoreSound, CleanSound, Clean,
         MoveSound, PopSound, At

LEMMA SerialInvariant == Spec => [](TypeOK /\ WithinBound /\ Serial)
<1>1. TypeOK /\ WithinBound /\ Serial /\ (TypeOK /\ WithinBound)' /\ [Next]_vars => Serial'
  BY SerialStep, SerialTick DEF Next
<1>2. Init => Serial
  BY SerialInit
<1>3. Spec => [](TypeOK /\ WithinBound)
  BY TypeCorrect
<1> QED
  BY <1>1, <1>2, <1>3, PTL DEF Spec

-----------------------------------------------------------------------------
(* The refinement.  With one thread the status of a message is a matter of *)
(* its fields and of what that thread is doing.                            *)

IsStored(t, m) == m \in queues \/ (m = cur[t] /\ pc[t] \in {"dlqSize", "dlqAdd"})
IsFree(t, m)   == isVisible[m] \/ (m = cur[t] /\ pc[t] \in {"arm", "timer", "show"})
IsReady(t, m)  == IsStored(t, m) /\ Retryable(m) /\ IsFree(t, m)
IsLeased(t, m) == IsStored(t, m) /\ Retryable(m) /\ ~ IsFree(t, m)
IsDead(t, m)   == IsStored(t, m) /\ ~ Retryable(m)

Pending(t) == job[t] = "FAIL" /\ nowTime[t] = 0 /\ pc[t] \in {"restore", "read", "write"}

StatusOf(t) ==
  /\ Ready = {m \in Messages : IsReady(t, m)}
  /\ Leased_ = {m \in Messages : IsLeased(t, m)}
  /\ Dead = {m \in Messages : IsDead(t, m)}
  /\ Due = [m \in Messages |-> IF IsLeased(t, m) THEN processTimeoutFrom[m] ELSE 0]
  /\ Failing = IF Pending(t) THEN cur[t] ELSE 0

Statuses == \A t \in Threads : StatusOf(t)

LEMMA StatusNow == TypeOK => Statuses
<1> SUFFICES ASSUME TypeOK, NEW t \in Threads PROVE StatusOf(t)
  BY DEF Statuses
<1>1. /\ pc[t] \in {"dlqSize", "dlqAdd", "restore", "read", "write"} =>
           cur[t] \in 1 .. sent /\ cur[t] \in Messages
      /\ queues \subseteq Messages /\ 1 .. sent \subseteq Messages /\ MaxFailCount \in Nat
      /\ queues \subseteq 1 .. sent
  BY Typing DEF NeedsMessage
<1>2. \A m \in Messages : failures[m] > MaxFailCount <=> ~ Retryable(m)
  BY <1>1, Typing DEF Retryable
<1>3. \A u \in Threads : u = t
  BY Alone
<1>4. Stored = {m \in Messages : IsStored(t, m)}
  <2>1. \A m : InTransit(m) <=> (cur[t] = m /\ pc[t] \in {"dlqSize", "dlqAdd"})
    BY <1>3 DEF InTransit
  <2> QED
    BY <1>1, <2>1 DEF Stored, IsStored
<1>5. Dead = {m \in Messages : IsDead(t, m)}
  BY <1>2, <1>4 DEF Dead, IsDead
<1>6. Leased_ = {m \in Messages : IsLeased(t, m)}
  <2>1. \A m : BeingTaken(m) \/ BeingRestored(m) <=>
                 (m = cur[t] /\ pc[t] \in {"arm", "timer", "show"})
    BY <1>3 DEF BeingTaken, BeingRestored
  <2> QED
    BY <1>4, <1>5, <2>1 DEF Leased_, IsDead, IsLeased, IsFree
<1>7. Ready = {m \in Messages : IsReady(t, m)}
  BY <1>4, <1>5, <1>6 DEF Ready, IsReady, IsDead, IsLeased
<1>8. Failing = IF Pending(t) THEN cur[t] ELSE 0
  <2>1. \A m : FailPending(m) <=> (Pending(t) /\ cur[t] = m)
    BY <1>3 DEF FailPending, Pending
  <2>2. CASE Pending(t)
    <3>1. cur[t] \in Messages
      BY <1>1, <2>2 DEF Pending
    <3> QED
      BY <2>1, <2>2, <3>1 DEF Failing
  <2>3. CASE ~ Pending(t)
    BY <2>1, <2>3 DEF Failing
  <2> QED
    BY <2>2, <2>3
<1> QED
  BY <1>5, <1>6, <1>7, <1>8 DEF StatusOf, Due

LEMMA StatusNext == TypeOK' => Statuses'
  BY StatusNow, PTL

(* A step that changes no status and no due time is not seen.              *)
LEMMA Unseen ==
  ASSUME TypeOK, TypeOK', NEW t \in Threads,
         UNCHANGED <<clock, sent, failures, deadLetters>>,
         \A m \in Messages : IsStored(t, m)' <=> IsStored(t, m),
         \A m \in Messages : IsStored(t, m) =>
           /\ IsFree(t, m)' <=> IsFree(t, m)
           /\ IsLeased(t, m) => processTimeoutFrom'[m] = processTimeoutFrom[m],
         Pending(t)' <=> Pending(t),
         Pending(t) => cur'[t] = cur[t]
  PROVE  UNCHANGED Lease!leaseVars
<1>1. StatusOf(t) /\ StatusOf(t)'
  BY StatusNow, StatusNext DEF Statuses
<1>2. \A m \in Messages : /\ IsReady(t, m)' <=> IsReady(t, m)
                          /\ IsLeased(t, m)' <=> IsLeased(t, m)
                          /\ IsDead(t, m)' <=> IsDead(t, m)
  BY DEF IsReady, IsLeased, IsDead, Retryable
<1>3. Ready' = Ready /\ Leased_' = Leased_ /\ Dead' = Dead
  BY <1>1, <1>2 DEF StatusOf
<1>4. Due' = Due
  <2>1. \A m \in Messages : IsLeased(t, m) => processTimeoutFrom'[m] = processTimeoutFrom[m]
    BY DEF IsLeased
  <2> QED
    BY <1>1, <1>2, <2>1 DEF StatusOf
<1>5. Failing' = Failing
  BY <1>1 DEF StatusOf
<1> QED
  BY <1>3, <1>4, <1>5 DEF Lease!leaseVars

(* Nor is one that leaves messages alone, at labels that say nothing of a  *)
(* message.                                                                *)
Special == {"dlqSize", "dlqAdd", "arm", "timer", "show"}

LEMMA Silent ==
  ASSUME TypeOK, TypeOK', NEW t \in Threads,
         UNCHANGED <<clock, sent, fields, deadLetters, queues>>,
         pc[t] \notin Special, pc'[t] \notin Special,
         Pending(t)' <=> Pending(t),
         Pending(t) => cur'[t] = cur[t]
  PROVE  UNCHANGED Lease!leaseVars
<1>1. \A m \in Messages : /\ IsStored(t, m)' <=> IsStored(t, m)
                          /\ IsFree(t, m)' <=> IsFree(t, m)
  BY DEF IsStored, IsFree, Special, fields
<1>2. processTimeoutFrom' = processTimeoutFrom /\ failures' = failures
  BY DEF fields
<1> QED
  BY <1>1, <1>2, Unseen

LEMMA RequestRefines ==
  ASSUME TypeOK, TypeOK', Serial, NEW t \in Threads, Request(t)
  PROVE  [Lease!Next]_(Lease!leaseVars)
<1>1. /\ UNCHANGED <<clock, sent, fields, deadLetters, queues>> /\ pc[t] = "idle"
  BY DEF Request, HandleSend, HandleReceive, HandleDLQ, HandleAck, HandleFail, At
<1>2. CASE HandleSend(t)
  <2>1. pc'[t] = "add"
    BY <1>2, GotoLands DEF HandleSend
  <2> QED
    BY <1>1, <2>1, Silent DEF Special, Pending
<1>3. CASE HandleReceive(t) \/ HandleDLQ(t)
  <2>1. pc'[t] = "timeouts"
    BY <1>3, ScanLands DEF HandleReceive, HandleDLQ, StartCleansing
  <2> QED
    BY <1>1, <2>1, Silent DEF Special, Pending
<1>4. CASE HandleAck(t)
  <2>1. pc'[t] = "find"
    BY <1>4, VisitLands DEF HandleAck
  <2> QED
    BY <1>1, <2>1, Silent DEF Special, Pending
<1>5. CASE HandleFail(t)
  <2>1. PICK m \in known : Visit(t, "restore", m, {}) /\ job' = [job EXCEPT ![t] = "FAIL"]
                           /\ UNCHANGED nowTime
    BY <1>5 DEF HandleFail
  <2>2. pc'[t] = "restore" /\ cur'[t] = m /\ job'[t] = "FAIL" /\ nowTime'[t] = 0
    BY <1>1, <2>1, VisitLands DEF TypeOK, ThreadTypeOK, Serial, Sound, TimesSound
  <2>3. m \in 1 .. MaxMessages
    BY <2>1, Typing DEF TypeOK, HistoryTypeOK, Messages
  <2>4. StatusOf(t) /\ StatusOf(t)'
    BY StatusNow, StatusNext DEF Statuses
  <2>5. Failing = 0 /\ Failing' = m
    BY <1>1, <2>2, <2>4 DEF StatusOf, Pending
  <2>6. \A n \in Messages : /\ IsReady(t, n)' <=> IsReady(t, n)
                            /\ IsLeased(t, n)' <=> IsLeased(t, n)
                            /\ IsDead(t, n)' <=> IsDead(t, n)
                            /\ processTimeoutFrom'[n] = processTimeoutFrom[n]
    BY <1>1, <2>2 DEF IsReady, IsLeased, IsDead, IsStored, IsFree, Retryable, fields
  <2>7. Ready' = Ready /\ Leased_' = Leased_ /\ Dead' = Dead /\ Due' = Due
    BY <2>4, <2>6 DEF StatusOf
  <2>8. Lease!FailRequest(m)
    BY <1>1, <2>5, <2>7 DEF Lease!FailRequest, fields
  <2> QED
    BY <2>3, <2>8 DEF Lease!Next
<1> QED
  BY <1>2, <1>3, <1>4, <1>5 DEF Request

(* The steps of the cleansing, of a RECEIVE and of a DLQ request that only *)
(* look.                                                                   *)
LEMMA LookingRefines ==
  ASSUME TypeOK, TypeOK', Serial, NEW t \in Threads,
         \/ RemoveFind(t) \/ ProcessTimeoutMessages(t) \/ TestTimeout(t)
         \/ ProcessOverFailedMessages(t) \/ PopMessage(t) \/ PopTestTimeout(t) \/ WakeUp(t)
  PROVE  UNCHANGED Lease!leaseVars
<1>0. TimesSound(t) /\ PopSound(t)
  BY DEF Serial, Sound
<1>1. UNCHANGED <<clock, sent, fields, deadLetters, queues>>
  BY DEF RemoveFind, ProcessTimeoutMessages, TestTimeout, ProcessOverFailedMessages,
         PopMessage, PopTestTimeout, WakeUp
<1>2. pc[t] \in {"find", "timeouts", "isTimeout", "overFailed", "pop", "sleep"}
  BY <1>0 DEF RemoveFind, ProcessTimeoutMessages, TestTimeout, ProcessOverFailedMessages,
         PopMessage, PopTestTimeout, WakeUp, At, PopSound
<1>3. pc'[t] \notin Special \union {"restore", "read", "write"}
      \/ (pc'[t] = "restore" /\ nowTime'[t] # 0)
  <2>1. CASE RemoveFind(t)
    BY <2>1, GotoLands, ScanLands DEF RemoveFind, StartCleansing, Special
  <2>2. CASE ProcessTimeoutMessages(t)
    BY <2>2, VisitLands, ScanLands DEF ProcessTimeoutMessages, Special
  <2>3. CASE TestTimeout(t)
    BY <1>0, <2>3, GotoLands DEF TestTimeout, Special, TimesSound, At, locals, loop
  <2>4. CASE ProcessOverFailedMessages(t)
    BY <2>4, VisitLands, ScanLands, AnswerLands
       DEF ProcessOverFailedMessages, AfterCleansing, Special
  <2>5. CASE PopMessage(t) \/ PopTestTimeout(t) \/ WakeUp(t)
    BY <2>5, VisitLands, GotoLands, ScanLands, AnswerLands
       DEF PopMessage, PopTestTimeout, WakeUp, NoMessage, Special
  <2> QED
    BY <2>1, <2>2, <2>3, <2>4, <2>5
<1>4. ~ Pending(t) /\ ~ Pending(t)'
  BY <1>2, <1>3 DEF Pending
<1>5. pc[t] \notin Special /\ pc'[t] \notin Special
  BY <1>2, <1>3 DEF Special
<1> QED
  BY <1>1, <1>4, <1>5, Silent

(* addMessage is a Send: the size that was tested is still the size.       *)
LEMMA AddRefines ==
  ASSUME TypeOK, TypeOK', Serial, NEW t \in Threads, AddMessage(t)
  PROVE  Lease!Send
<1>1. /\ pc[t] = "add" /\ pc'[t] = "idle"
      /\ sent' = sent + 1 /\ queues' = queues \union {sent + 1}
      /\ UNCHANGED <<clock, deadLetters, isVisible, processTimeoutFrom, failures>>
  BY AnswerLands DEF AddMessage, At, fields
<1>2. sent + 1 \in Messages /\ sent \in Nat /\ sent < MaxMessages /\ queues \subseteq 1 .. sent
  BY <1>1, Typing DEF TypeOK, SharedTypeOK, Messages
<1>3. isVisible[sent + 1] /\ Retryable(sent + 1)
  BY <1>2, Typing DEF Serial, MessagesSound, Retryable
<1>4. \A m \in queues : Retryable(m)
  BY <1>1 DEF Serial, Sound, CleanSound, Clean
<1>5. HasRoom
  BY <1>1 DEF Serial, Sound, SendSound, At
<1>6. StatusOf(t) /\ StatusOf(t)'
  BY StatusNow, StatusNext DEF Statuses
<1>7. \A m \in Messages : /\ IsReady(t, m)' <=> IsReady(t, m) \/ m = sent + 1
                          /\ IsLeased(t, m)' <=> IsLeased(t, m)
                          /\ IsDead(t, m)' <=> IsDead(t, m)
                          /\ IsReady(t, m) \/ IsLeased(t, m) \/ IsDead(t, m) <=> m \in queues
  BY <1>1, <1>2, <1>3 DEF IsReady, IsLeased, IsDead, IsStored, IsFree, Retryable
<1>8. Ready' = Ready \union {sent + 1} /\ Leased_' = Leased_ /\ Dead' = Dead /\ Due' = Due
  BY <1>1, <1>2, <1>6, <1>7 DEF StatusOf
<1>9. Failing = 0 /\ Failing' = 0
  BY <1>1, <1>6 DEF StatusOf, Pending
<1>10. Lease!Stored = queues
  <2>1. queues \subseteq Messages
    BY <1>2, Typing
  <2> QED
    BY <1>6, <1>7, <2>1 DEF StatusOf, Lease!Stored
<1>11. Lease!Cardinality(queues) = Cardinality(queues)
  BY DEF Lease!Cardinality, Cardinality
<1> QED
  BY <1>1, <1>2, <1>5, <1>8, <1>9, <1>10, <1>11 DEF Lease!Send, HasRoom

(* remove through the iterator is an Ack.                                  *)
LEMMA RemoveRefines ==
  ASSUME TypeOK, TypeOK', Serial, NEW t \in Threads, RemoveMessage(t)
  PROVE  cur[t] \in Messages /\ Lease!Ack(cur[t])
<1>1. /\ pc[t] = "remove" /\ pc'[t] = "timeouts"
      /\ queues' = queues \ {cur[t]}
      /\ UNCHANGED <<clock, deadLetters, sent, isVisible, processTimeoutFrom, failures>>
  BY ScanLands DEF RemoveMessage, At, fields, StartCleansing
<1>2. cur[t] \in queues /\ cur[t] \in Messages /\ Retryable(cur[t])
  BY <1>1, Typing DEF Serial, Sound, AckSound, CleanSound, Clean
<1>3. StatusOf(t) /\ StatusOf(t)'
  BY StatusNow, StatusNext DEF Statuses
<1>4. \A m \in Messages : /\ IsReady(t, m)' <=> IsReady(t, m) /\ m # cur[t]
                          /\ IsLeased(t, m)' <=> IsLeased(t, m) /\ m # cur[t]
                          /\ IsDead(t, m)' <=> IsDead(t, m)
  BY <1>1, <1>2 DEF IsReady, IsLeased, IsDead, IsStored, IsFree, Retryable
<1>5. IsReady(t, cur[t]) \/ IsLeased(t, cur[t])
  BY <1>2 DEF IsReady, IsLeased, IsStored
<1>6. /\ Ready' = Ready \ {cur[t]} /\ Leased_' = Leased_ \ {cur[t]} /\ Dead' = Dead
      /\ Due' = [Due EXCEPT ![cur[t]] = 0]
  BY <1>1, <1>2, <1>3, <1>4 DEF StatusOf
<1>7. Failing = 0 /\ Failing' = 0
  BY <1>1, <1>3 DEF StatusOf, Pending
<1>8. cur[t] \in Ready \union Leased_
  BY <1>2, <1>3, <1>5 DEF StatusOf
<1> QED
  BY <1>1, <1>2, <1>6, <1>7, <1>8 DEF Lease!Ack

(* restoreMessage: a FAIL of a message that has left the queue ends here,  *)
(* any other call goes on to count the failure.                            *)
LEMMA RestoreRefines ==
  ASSUME TypeOK, TypeOK', Serial, NEW t \in Threads, RestoreFind(t) \/ ReadFailures(t)
  PROVE  Lease!FailOfUnstored \/ UNCHANGED Lease!leaseVars
<1>1. UNCHANGED <<clock, sent, fields, deadLetters, queues, job>>
  BY DEF RestoreFind, ReadFailures
<1>2. TimesSound(t) /\ CleanSound(t)
  BY DEF Serial, Sound
<1>3. CASE ReadFailures(t)
  <2>1. pc[t] = "read" /\ pc'[t] = "write" /\ cur' = cur /\ nowTime' = nowTime
    BY <1>3, GotoLands DEF ReadFailures, At, loop
  <2> QED
    BY <1>1, <2>1, Silent DEF Pending, Special
<1>4. CASE RestoreFind(t) /\ cur[t] \in queues /\ Retryable(cur[t])
  <2>1. pc[t] = "restore" /\ pc'[t] = "read" /\ cur' = cur /\ nowTime' = nowTime
    BY <1>4, GotoLands DEF RestoreFind, At, loop
  <2> QED
    BY <1>1, <2>1, Silent DEF Pending, Special
<1>5. CASE /\ RestoreFind(t) /\ ~ (cur[t] \in queues /\ Retryable(cur[t]))
           /\ nowTime[t] # 0
  <2>1. pc[t] = "restore" /\ pc'[t] = "timeouts"
    BY <1>5, GotoLands DEF RestoreFind, RestoreReturns, At
  <2> QED
    BY <1>1, <1>5, <2>1, Silent DEF Pending, Special
<1>6. CASE /\ RestoreFind(t) /\ ~ (cur[t] \in queues /\ Retryable(cur[t]))
           /\ nowTime[t] = 0
  <2>1. pc[t] = "restore" /\ pc'[t] = "timeouts" /\ job[t] = "FAIL"
    BY <1>2, <1>6, ScanLands DEF RestoreFind, RestoreReturns, StartCleansing, At, TimesSound
  <2>2. cur[t] \notin queues
    BY <1>2, <1>6, <2>1 DEF CleanSound, Clean
  <2>3. cur[t] \in Messages /\ cur[t] # 0
    BY <2>1, Typing DEF NeedsMessage
  <2>4. StatusOf(t) /\ StatusOf(t)'
    BY StatusNow, StatusNext DEF Statuses
  <2>5. Failing = cur[t] /\ Failing' = 0
    BY <1>6, <2>1, <2>4 DEF StatusOf, Pending
  <2>6. \A m \in Messages : /\ IsReady(t, m)' <=> IsReady(t, m)
                            /\ IsLeased(t, m)' <=> IsLeased(t, m)
                            /\ IsDead(t, m)' <=> IsDead(t, m)
                            /\ processTimeoutFrom'[m] = processTimeoutFrom[m]
    BY <1>1, <2>1 DEF IsReady, IsLeased, IsDead, IsStored, IsFree, Retryable, fields
  <2>7. Ready' = Ready /\ Leased_' = Leased_ /\ Dead' = Dead /\ Due' = Due
    BY <2>4, <2>6 DEF StatusOf
  <2>8. cur[t] \notin Ready \union Leased_ \union Dead
    BY <2>1, <2>2, <2>4 DEF StatusOf, IsReady, IsLeased, IsDead, IsStored
  <2> QED
    BY <1>1, <2>3, <2>5, <2>7, <2>8 DEF Lease!FailOfUnstored, Lease!Stored, fields
<1> QED
  BY <1>3, <1>4, <1>5, <1>6

(* The write of failures++ counts the failure of a FAIL or of a lease that *)
(* is over.                                                                *)
LEMMA WriteRefines ==
  ASSUME TypeOK, TypeOK', Serial, NEW t \in Threads, WriteFailures(t)
  PROVE  cur[t] \in Messages /\ (Lease!Fail \/ Lease!Expire(cur[t]))
<1>1. /\ pc[t] = "write" /\ pc'[t] = "timer" /\ cur' = cur /\ nowTime' = nowTime
      /\ failures' = [failures EXCEPT ![cur[t]] = oldFailures[t] + 1]
      /\ UNCHANGED <<clock, sent, deadLetters, queues, isVisible, processTimeoutFrom, job>>
  BY GotoLands DEF WriteFailures, At, loop
<1>2. cur[t] \in Messages /\ cur[t] # 0 /\ MaxFailCount \in Nat
  BY <1>1, Typing DEF NeedsMessage
<1>3. TimesSound(t) /\ RestoreSound(t) /\ MessagesSound
  BY DEF Serial, Sound
<1>4. cur[t] \in queues /\ Retryable(cur[t]) /\ oldFailures[t] = failures[cur[t]]
  BY <1>1, <1>3 DEF RestoreSound
<1>5. /\ failures' = [failures EXCEPT ![cur[t]] = @ + 1]
      /\ failures \in [Messages -> Nat]
  BY <1>1, <1>4 DEF TypeOK, FieldTypeOK
<1>6. failures[cur[t]] < MaxFailCount <=> Retryable(cur[t])'
  <2>1. failures[cur[t]] \in Nat /\ failures'[cur[t]] = failures[cur[t]] + 1
    BY <1>2, <1>5
  <2> QED
    BY <1>1, <1>2, <2>1 DEF Retryable
<1>7. StatusOf(t) /\ StatusOf(t)'
  BY StatusNow, StatusNext DEF Statuses
<1>8. \A m \in Messages \ {cur[t]} : /\ IsReady(t, m)' <=> IsReady(t, m)
                                     /\ IsLeased(t, m)' <=> IsLeased(t, m)
                                     /\ IsDead(t, m)' <=> IsDead(t, m)
  BY <1>1, <1>5 DEF IsReady, IsLeased, IsDead, IsStored, IsFree, Retryable
<1>9. /\ ~ IsDead(t, cur[t]) /\ (IsReady(t, cur[t]) \/ IsLeased(t, cur[t]))
      /\ ~ IsLeased(t, cur[t])'
      /\ IsReady(t, cur[t])' <=> Retryable(cur[t])'
      /\ IsDead(t, cur[t])' <=> ~ Retryable(cur[t])'
  BY <1>1, <1>4 DEF IsReady, IsLeased, IsDead, IsStored, IsFree
<1>10. Due' = [Due EXCEPT ![cur[t]] = 0] /\ Leased_' = Leased_ \ {cur[t]}
  BY <1>1, <1>2, <1>7, <1>8, <1>9 DEF StatusOf
<1>11. IF failures[cur[t]] < MaxFailCount
         THEN Ready' = Ready \union {cur[t]} /\ Dead' = Dead
         ELSE Ready' = Ready \ {cur[t]} /\ Dead' = Dead \union {cur[t]}
  <2>1. CASE Retryable(cur[t])'
    <3>1. \A m \in Messages : /\ IsReady(t, m)' <=> IsReady(t, m) \/ m = cur[t]
                              /\ IsDead(t, m)' <=> IsDead(t, m)
      BY <1>1, <1>4, <1>8, <2>1 DEF IsReady, IsDead, IsStored, IsFree
    <3>2. Ready' = Ready \union {cur[t]} /\ Dead' = Dead
      BY <1>2, <1>7, <3>1 DEF StatusOf
    <3> QED
      BY <1>6, <2>1, <3>2
  <2>2. CASE ~ Retryable(cur[t])'
    <3>1. \A m \in Messages : /\ IsReady(t, m)' <=> IsReady(t, m) /\ m # cur[t]
                              /\ IsDead(t, m)' <=> IsDead(t, m) \/ m = cur[t]
      BY <1>1, <1>4, <1>8, <2>2 DEF IsReady, IsDead, IsStored, IsFree
    <3>2. Ready' = Ready \ {cur[t]} /\ Dead' = Dead \union {cur[t]}
      BY <1>2, <1>7, <3>1 DEF StatusOf
    <3> QED
      BY <1>6, <2>2, <3>2
  <2> QED
    BY <2>1, <2>2
<1>12. Lease!Failed(cur[t])
  BY <1>5, <1>10, <1>11 DEF Lease!Failed
<1>13. CASE nowTime[t] = 0
  <2>1. job[t] = "FAIL"
    BY <1>1, <1>3, <1>13 DEF TimesSound
  <2>2. Failing = cur[t] /\ Failing' = 0
    BY <1>1, <1>7, <1>13, <2>1 DEF StatusOf, Pending
  <2>3. cur[t] \in Ready \union Leased_
    BY <1>2, <1>7, <1>9 DEF StatusOf
  <2> QED
    BY <1>1, <1>2, <1>12, <2>2, <2>3 DEF Lease!Fail
<1>14. CASE nowTime[t] # 0
  <2>1. TimerIsSet(cur[t]) /\ IsProcessTimeout(cur[t], nowTime[t]) /\ nowTime[t] <= clock
    BY <1>1, <1>3, <1>14 DEF TimesSound
  <2>2. ~ isVisible[cur[t]]
    BY <1>2, <1>3, <2>1 DEF MessagesSound, TimerIsSet
  <2>3. IsLeased(t, cur[t])
    BY <1>1, <1>4, <2>2 DEF IsLeased, IsStored, IsFree
  <2>4. cur[t] \in Leased_ /\ Due[cur[t]] = processTimeoutFrom[cur[t]]
    BY <1>2, <1>7, <2>3 DEF StatusOf
  <2>5. processTimeoutFrom[cur[t]] - Slack < clock
    <3>1. /\ processTimeoutFrom[cur[t]] \in Nat /\ Slack \in Nat
          /\ nowTime[t] \in Nat /\ clock \in Nat
      BY <1>2, Typing
    <3> QED
      BY <2>1, <3>1 DEF IsProcessTimeout
  <2>6. Failing = 0 /\ Failing' = 0
    BY <1>1, <1>7, <1>14 DEF StatusOf, Pending
  <2> QED
    BY <1>1, <1>2, <1>12, <2>1, <2>4, <2>5, <2>6 DEF Lease!Expire, TimerIsSet
<1> QED
  BY <1>2, <1>13, <1>14

(* The message whose failure has just been counted is available already.   *)
LEMMA ShowRefines ==
  ASSUME TypeOK, TypeOK', Serial, NEW t \in Threads, ClearTimer(t) \/ Show(t)
  PROVE  UNCHANGED Lease!leaseVars
<1>1. UNCHANGED <<clock, sent, failures, deadLetters, queues>>
  BY DEF ClearTimer, Show
<1>2. CASE ClearTimer(t)
  <2>1. /\ pc[t] = "timer" /\ pc'[t] = "show" /\ cur' = cur /\ isVisible' = isVisible
        /\ \A m \in Messages : m # cur[t] => processTimeoutFrom'[m] = processTimeoutFrom[m]
    BY <1>2, GotoLands DEF ClearTimer, At, locals, loop, TypeOK, FieldTypeOK
  <2>2. \A m \in Messages : /\ IsStored(t, m)' <=> IsStored(t, m)
                            /\ IsFree(t, m)' <=> IsFree(t, m)
                            /\ IsLeased(t, m) => m # cur[t]
    BY <1>1, <2>1 DEF IsStored, IsFree, IsLeased
  <2>3. ~ Pending(t) /\ ~ Pending(t)'
    BY <2>1 DEF Pending
  <2> QED
    BY <1>1, <2>1, <2>2, <2>3, Unseen
<1>3. CASE Show(t)
  <2>1. pc[t] = "show" /\ pc'[t] = "timeouts" /\ processTimeoutFrom' = processTimeoutFrom
    BY <1>3, GotoLands, ScanLands DEF Show, At, RestoreReturns, StartCleansing
  <2>2. cur[t] \in Messages
    BY <2>1, Typing DEF NeedsMessage
  <2>3. /\ \A m \in Messages : m # cur[t] => isVisible'[m] = isVisible[m]
        /\ isVisible'[cur[t]] = TRUE
    BY <1>3, <2>2 DEF Show, TypeOK, FieldTypeOK
  <2>4. \A m \in Messages : /\ IsStored(t, m)' <=> IsStored(t, m)
                            /\ IsFree(t, m)' <=> IsFree(t, m)
    BY <1>1, <2>1, <2>3 DEF IsStored, IsFree
  <2>5. ~ Pending(t) /\ ~ Pending(t)'
    BY <2>1 DEF Pending
  <2> QED
    BY <1>1, <2>1, <2>4, <2>5, Unseen
<1> QED
  BY <1>2, <1>3

(* popMessage hands out the oldest message that is ready when its lease    *)
(* starts: with setVisible if the queue has no ProcessTimeout, else with   *)
(* its timer.                                                              *)
LEMMA TakeRefines ==
  ASSUME TypeOK, TypeOK', Serial, NEW t \in Threads, Take(t) \/ SetProcessTimeoutFrom(t)
  PROVE  (cur[t] \in Messages /\ Lease!Receive(cur[t])) \/ UNCHANGED Lease!leaseVars
<1>1. UNCHANGED <<clock, sent, failures, deadLetters, queues>> /\ pc[t] \in {"take", "arm"}
  BY DEF Take, SetProcessTimeoutFrom, At
<1>2. PopSound(t) /\ MessagesSound
  BY DEF Serial, Sound
<1>3. cur[t] \in Messages /\ cur[t] \in queues /\ Retryable(cur[t]) /\ cur[t] \in Nat
  BY <1>1, <1>2, Typing DEF PopSound, NeedsMessage
<1>4. StatusOf(t) /\ StatusOf(t)'
  BY StatusNow, StatusNext DEF Statuses
<1>5. IsReady(t, cur[t])
  BY <1>1, <1>2, <1>3 DEF IsReady, IsStored, IsFree, PopSound
<1>6. \A m \in Ready : cur[t] <= m
  <2>1. ASSUME NEW m \in Ready PROVE m > cur[t] \/ m = cur[t]
    <3>1. IsReady(t, m)
      BY <1>4 DEF StatusOf
    <3>2. m \in queues /\ Retryable(m) /\ (isVisible[m] \/ m = cur[t])
      BY <1>1, <3>1 DEF IsReady, IsStored, IsFree
    <3> QED
      BY <1>1, <1>2, <3>2 DEF PopSound
  <2>2. Ready \subseteq Nat
    BY <1>4 DEF StatusOf, Messages
  <2> QED
    BY <1>3, <2>1, <2>2
<1>7. CASE Answer(t)
  <2>1. pc'[t] = "idle"
    BY <1>7, AnswerLands
  <2>2. /\ \A m \in Messages : m # cur[t] => /\ isVisible'[m] = isVisible[m]
                                             /\ processTimeoutFrom'[m] = processTimeoutFrom[m]
        /\ ~ isVisible'[cur[t]]
    BY <1>2, <1>3 DEF Take, SetProcessTimeoutFrom, PopSound, At, TypeOK, FieldTypeOK
  <2>3. processTimeoutFrom'[cur[t]] = IF ProcessTimeout > 0 THEN clock + ProcessTimeout ELSE 0
    <3>1. CASE SetProcessTimeoutFrom(t)
      BY <1>2, <1>3, <3>1 DEF SetProcessTimeoutFrom, PopSound, At, TypeOK, FieldTypeOK
    <3>2. CASE Take(t)
      <4>1. pc[t] = "take" /\ pc'[t] = "idle"
        BY <2>1, <3>2 DEF Take, At
      <4>2. ~ (ProcessTimeout > 0) /\ processTimeoutFrom' = processTimeoutFrom
        BY <3>2, <4>1, GotoLands DEF Take
      <4>3. isVisible[cur[t]]
        BY <1>2, <4>1 DEF PopSound
      <4>4. processTimeoutFrom[cur[t]] = 0
        BY <1>2, <1>3, <4>3 DEF MessagesSound
      <4> QED
        BY <4>2, <4>4
    <3> QED
      BY <3>1, <3>2
  <2>4. \A m \in Messages : /\ IsReady(t, m)' <=> IsReady(t, m) /\ m # cur[t]
                            /\ IsLeased(t, m)' <=> IsLeased(t, m) \/ m = cur[t]
                            /\ IsDead(t, m)' <=> IsDead(t, m)
    BY <1>1, <1>3, <2>1, <2>2 DEF IsReady, IsLeased, IsDead, IsStored, IsFree, Retryable
  <2>5. Ready' = Ready \ {cur[t]} /\ Leased_' = Leased_ \union {cur[t]} /\ Dead' = Dead
    BY <1>3, <1>4, <2>4 DEF StatusOf
  <2>6. Due' = [Due EXCEPT ![cur[t]] = IF ProcessTimeout > 0 THEN clock + ProcessTimeout ELSE 0]
    BY <1>3, <1>4, <2>2, <2>3, <2>4 DEF StatusOf
  <2>7. Failing = 0 /\ Failing' = 0
    BY <1>1, <1>4, <2>1 DEF StatusOf, Pending
  <2>8. cur[t] \in Ready
    BY <1>3, <1>4, <1>5 DEF StatusOf
  <2>9. Lease!Receive(cur[t])
    BY <1>1, <1>6, <2>5, <2>6, <2>7, <2>8 DEF Lease!Receive
  <2> QED
    BY <1>3, <2>9
<1>8. CASE ~ Answer(t)
  <2>1. /\ pc[t] = "take" /\ pc'[t] = "arm" /\ cur' = cur
        /\ processTimeoutFrom' = processTimeoutFrom
        /\ \A m \in Messages : m # cur[t] => isVisible'[m] = isVisible[m]
    BY <1>3, <1>8, GotoLands
       DEF Take, SetProcessTimeoutFrom, At, locals, loop, TypeOK, FieldTypeOK
  <2>2. isVisible[cur[t]]
    BY <1>2, <2>1 DEF PopSound
  <2>3. \A m \in Messages : /\ IsStored(t, m)' <=> IsStored(t, m)
                            /\ IsFree(t, m)' <=> IsFree(t, m)
    BY <1>1, <2>1, <2>2 DEF IsStored, IsFree
  <2>4. ~ Pending(t) /\ ~ Pending(t)'
    BY <2>1 DEF Pending
  <2> QED
    BY <1>1, <2>1, <2>3, <2>4, Unseen
<1> QED
  BY <1>7, <1>8

(* A dead message is stored until it is in the dead letter queue, or       *)
(* refused by it.                                                          *)
LEMMA MoveRefines ==
  ASSUME TypeOK, TypeOK', Serial, NEW t \in Threads,
         MoveUnlink(t) \/ MoveTestSize(t) \/ MoveAdd(t)
  PROVE  (cur[t] \in Messages /\ Lease!Bury(cur[t])) \/ UNCHANGED Lease!leaseVars
<1>1. /\ UNCHANGED <<clock, sent, fields, locals>>
      /\ pc[t] \in {"unlink", "dlqSize", "dlqAdd"}
  BY DEF MoveUnlink, MoveTestSize, MoveAdd, At
<1>2. MoveSound(t)
  BY DEF Serial, Sound
<1>3. cur[t] \in Messages /\ ~ Retryable(cur[t]) /\ (pc[t] = "unlink" => cur[t] \in queues)
  BY <1>1, <1>2, Typing DEF MoveSound, NeedsMessage
<1>4. CASE MoveUnlink(t) \/ (MoveTestSize(t) /\ DeadLettersHaveRoom)
  <2>1. /\ pc[t] \in {"unlink", "dlqSize"} /\ pc'[t] \in {"dlqSize", "dlqAdd"}
        /\ pc[t] = "unlink" => queues' = queues \ {cur[t]}
        /\ pc[t] = "dlqSize" => queues' = queues
        /\ deadLetters' = deadLetters
    BY <1>4, GotoLands DEF MoveUnlink, MoveTestSize, At
  <2>2. \A m \in Messages : /\ IsStored(t, m)' <=> IsStored(t, m)
                            /\ IsFree(t, m)' <=> IsFree(t, m)
    BY <1>1, <1>3, <2>1 DEF IsStored, IsFree, fields, locals, loop
  <2>3. ~ Pending(t) /\ ~ Pending(t)'
    BY <2>1 DEF Pending
  <2> QED
    BY <1>1, <2>1, <2>2, <2>3, Unseen DEF fields
<1>5. CASE (MoveTestSize(t) /\ ~ DeadLettersHaveRoom) \/ MoveAdd(t)
  <2>1. /\ pc[t] \in {"dlqSize", "dlqAdd"} /\ pc'[t] = "overFailed" /\ queues' = queues
        /\ deadLetters' = IF Len(deadLetters) < QueueSize
                            THEN Append(deadLetters, cur[t]) ELSE deadLetters
    BY <1>2, <1>5, GotoLands DEF MoveTestSize, MoveAdd, At, MoveSound, DeadLettersHaveRoom
  <2>2. cur[t] \notin queues
    BY <1>2, <2>1 DEF MoveSound
  <2>3. StatusOf(t) /\ StatusOf(t)'
    BY StatusNow, StatusNext DEF Statuses
  <2>4. \A m \in Messages : /\ IsReady(t, m)' <=> IsReady(t, m)
                            /\ IsLeased(t, m)' <=> IsLeased(t, m)
                            /\ IsDead(t, m)' <=> IsDead(t, m) /\ m # cur[t]
                            /\ processTimeoutFrom'[m] = processTimeoutFrom[m]
    BY <1>1, <1>3, <2>1, <2>2
       DEF IsReady, IsLeased, IsDead, IsStored, IsFree, Retryable, fields, locals, loop
  <2>5. Ready' = Ready /\ Leased_' = Leased_ /\ Dead' = Dead \ {cur[t]} /\ Due' = Due
    BY <1>3, <2>3, <2>4 DEF StatusOf
  <2>6. Failing = 0 /\ Failing' = 0
    BY <2>1, <2>3 DEF StatusOf, Pending
  <2>7. cur[t] \in Dead
    BY <1>3, <2>1, <2>3 DEF StatusOf, IsDead, IsStored
  <2>8. Lease!Bury(cur[t])
    BY <1>1, <2>1, <2>5, <2>6, <2>7 DEF Lease!Bury, Lease!Len, Lease!Append, fields
  <2> QED
    BY <1>3, <2>8
<1> QED
  BY <1>4, <1>5

LEMMA PollRefines ==
  ASSUME TypeOK, TypeOK', Serial, NEW t \in Threads, PopMessageDLQ(t)
  PROVE  Lease!ReceiveDead \/ UNCHANGED Lease!leaseVars
<1>1. /\ UNCHANGED <<clock, sent, fields, queues>> /\ pc[t] = "poll" /\ pc'[t] = "idle"
      /\ deadLetters' = deadLetters \/ (deadLetters # << >> /\ deadLetters' = Tail(deadLetters))
  BY AnswerLands DEF PopMessageDLQ, At
<1>2. StatusOf(t) /\ StatusOf(t)'
  BY StatusNow, StatusNext DEF Statuses
<1>3. \A m \in Messages : /\ IsReady(t, m)' <=> IsReady(t, m)
                          /\ IsLeased(t, m)' <=> IsLeased(t, m)
                          /\ IsDead(t, m)' <=> IsDead(t, m)
                          /\ processTimeoutFrom'[m] = processTimeoutFrom[m]
  BY <1>1 DEF IsReady, IsLeased, IsDead, IsStored, IsFree, Retryable, fields
<1>4. Ready' = Ready /\ Leased_' = Leased_ /\ Dead' = Dead /\ Due' = Due
  BY <1>2, <1>3 DEF StatusOf
<1>5. Failing' = Failing
  BY <1>1, <1>2 DEF StatusOf, Pending
<1> QED
  BY <1>1, <1>4, <1>5 DEF Lease!ReceiveDead, Lease!leaseVars, fields, Lease!Tail

LEMMA StepRefines ==
  ASSUME TypeOK, TypeOK', Serial, Next
  PROVE  [Lease!Next]_(Lease!leaseVars)
<1>0. Messages = 1 .. MaxMessages
  BY DEF Messages
<1>1. CASE Tick
  <2>1. PICK t \in Threads : TRUE
    BY OneThread
  <2>2. UNCHANGED <<queues, deadLetters, sent, fields, pc, locals>> /\ clock' = clock + 1
    BY <1>1 DEF Tick
  <2>3. StatusOf(t) /\ StatusOf(t)'
    BY StatusNow, StatusNext DEF Statuses
  <2>4. \A m \in Messages : /\ IsReady(t, m)' <=> IsReady(t, m)
                            /\ IsLeased(t, m)' <=> IsLeased(t, m)
                            /\ IsDead(t, m)' <=> IsDead(t, m)
                            /\ processTimeoutFrom'[m] = processTimeoutFrom[m]
    BY <2>2 DEF IsReady, IsLeased, IsDead, IsStored, IsFree, Retryable, fields, locals, loop
  <2>5. Ready' = Ready /\ Leased_' = Leased_ /\ Dead' = Dead /\ Due' = Due
    BY <2>3, <2>4 DEF StatusOf
  <2>6. Failing' = Failing
    BY <2>2, <2>3 DEF StatusOf, Pending, locals, loop
  <2>7. Lease!Pass
    BY <2>2, <2>5, <2>6 DEF Lease!Pass, fields
  <2> QED
    BY <2>7 DEF Lease!Next
<1>2. ASSUME NEW t \in Threads, Request(t) \/ Step(t)
      PROVE  [Lease!Next]_(Lease!leaseVars)
  <2>1. CASE Request(t)
    BY <2>1, RequestRefines
  <2>2. CASE AddMessage(t) \/ RemoveMessage(t) \/ WriteFailures(t)
    BY <1>0, <2>2, AddRefines, RemoveRefines, WriteRefines DEF Lease!Next
  <2>3. CASE RestoreFind(t) \/ ReadFailures(t) \/ ClearTimer(t) \/ Show(t)
    BY <2>3, RestoreRefines, ShowRefines DEF Lease!Next
  <2>4. CASE \/ RemoveFind(t) \/ ProcessTimeoutMessages(t) \/ TestTimeout(t)
             \/ ProcessOverFailedMessages(t) \/ PopMessage(t) \/ PopTestTimeout(t)
             \/ WakeUp(t)
    BY <2>4, LookingRefines
  <2>5. CASE \/ MoveUnlink(t) \/ MoveTestSize(t) \/ MoveAdd(t)
             \/ Take(t) \/ SetProcessTimeoutFrom(t) \/ PopMessageDLQ(t)
    BY <1>0, <2>5, MoveRefines, TakeRefines, PollRefines DEF Lease!Next
  <2> QED
    BY <1>2, <2>1, <2>2, <2>3, <2>4, <2>5 DEF Step
<1> QED
  BY <1>1, <1>2 DEF Next

LEMMA InitRefines == ASSUME Init PROVE Lease!Init
<1>1. TypeOK
  BY TypeInit
<1>2. PICK t \in Threads : StatusOf(t)
  BY <1>1, StatusNow, OneThread DEF Statuses
<1>3. /\ queues = {} /\ deadLetters = << >> /\ sent = 0 /\ clock = 1
      /\ failures = [m \in 1 .. MaxMessages |-> 0]
      /\ pc[t] = "idle"
  BY DEF Init, Messages
<1>4. \A m \in Messages : ~ IsReady(t, m) /\ ~ IsLeased(t, m) /\ ~ IsDead(t, m)
  BY <1>3 DEF IsReady, IsLeased, IsDead, IsStored
<1>5. /\ Ready = {} /\ Leased_ = {} /\ Dead = {} /\ Failing = 0
      /\ Due = [m \in 1 .. MaxMessages |-> 0]
  BY <1>2, <1>3, <1>4 DEF StatusOf, Pending, Messages
<1> QED
  BY <1>3, <1>5 DEF Lease!Init

(* Clients that wait for an answer before the next request is sent see a   *)
(* queue that keeps the promise of LeaseQueue, whatever its size, timeout, *)
(* limit of failures and waiting time: all the steps of a handler between  *)
(* two accesses to the queue amount to one event of LeaseQueue, or none.   *)
THEOREM OneThreadKeepsPromise == Spec => KeepsPromise
<1>1. Init => Lease!Init
  BY InitRefines
<1>2. TypeOK /\ TypeOK' /\ Serial /\ [Next]_vars => [Lease!Next]_(Lease!leaseVars)
  <2>1. ASSUME TypeOK, TypeOK', UNCHANGED vars PROVE UNCHANGED Lease!leaseVars
    <3>1. PICK t \in Threads : TRUE
      BY OneThread
    <3>2. \A m \in Messages : /\ IsStored(t, m)' <=> IsStored(t, m)
                              /\ IsFree(t, m)' <=> IsFree(t, m)
      BY <2>1 DEF vars, IsStored, IsFree, fields, locals, loop
    <3>3. (Pending(t)' <=> Pending(t)) /\ cur'[t] = cur[t]
      BY <2>1 DEF vars, Pending, locals, loop
    <3> QED
      BY <2>1, <3>2, <3>3, Unseen DEF vars, fields
  <2> QED
    BY <2>1, StepRefines
<1>3. Spec => [](TypeOK /\ Serial)
  BY SerialInvariant, PTL
<1> QED
  BY <1>1, <1>2, <1>3, PTL DEF Spec, KeepsPromise, Lease!Promise
=============================================================================
