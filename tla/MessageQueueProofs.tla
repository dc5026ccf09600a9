------------------------- MODULE MessageQueueProofs -------------------------
(* Theorems about MessageQueue, for any threads, sizes, timeouts and bounds. *)
EXTENDS MessageQueue, FiniteSetTheorems, TLAPS

-----------------------------------------------------------------------------
(* The four ways in which a step changes what belongs to its thread, and    *)
(* that each keeps it well typed.                                           *)

LEMMA AnswerType ==
  ASSUME ThreadTypeOK, NEW t \in Threads, Answer(t),
         sent \in Nat, sent' \in Nat, sent <= sent'
  PROVE  ThreadTypeOK'
<1> USE DEF ThreadTypeOK, Answer, Goto
<1>1. pc' \in [Threads -> Labels]
  BY DEF Labels
<1>2. job' \in [Threads -> Jobs]
  BY DEF Jobs
<1>3. cur' \in [Threads -> 0 .. sent']
  <2>1. 0 .. sent \subseteq 0 .. sent' /\ 0 \in 0 .. sent'
    OBVIOUS
  <2>2. QED
    BY <2>1
<1>4. ahead' \in [Threads -> SUBSET (1 .. sent')]
  <2>1. 1 .. sent \subseteq 1 .. sent'
    OBVIOUS
  <2>2. QED
    BY <2>1
<1>5. \A u \in Threads : pc'[u] \in NeedsMessage => cur'[u] # 0
  BY DEF NeedsMessage
<1>6. QED
  BY <1>1, <1>2, <1>3, <1>4, <1>5

LEMMA ScanType ==
  ASSUME ThreadTypeOK, NEW t \in Threads, NEW label \in Labels \ NeedsMessage,
         NEW at \in Nat, NEW next \in SUBSET (1 .. sent), Scan(t, label, at, next),
         sent \in Nat, UNCHANGED <<oldFailures, sent>>,
         UNCHANGED job \/ job' \in [Threads -> Jobs],
         UNCHANGED waitingSince \/ waitingSince' \in [Threads -> Nat]
  PROVE  ThreadTypeOK'
<1>1. cur' \in [Threads -> 0 .. sent']
  BY DEF ThreadTypeOK, Scan
<1>2. pc' \in [Threads -> Labels] /\ nowTime' \in [Threads -> Nat]
  BY DEF ThreadTypeOK, Scan, Goto
<1>3. ahead' \in [Threads -> SUBSET (1 .. sent')]
  BY DEF ThreadTypeOK, Scan
<1>4. \A u \in Threads : pc'[u] \in NeedsMessage => cur'[u] # 0
  BY DEF ThreadTypeOK, Scan, Goto
<1>5. QED
  BY <1>1, <1>2, <1>3, <1>4 DEF ThreadTypeOK

LEMMA ScanLabels ==
  {"idle", "add", "timeouts", "overFailed", "pop", "sleep", "poll"} \subseteq Labels \ NeedsMessage
BY DEF Labels, NeedsMessage

LEMMA MessageLabels == NeedsMessage \subseteq Labels
BY DEF Labels, NeedsMessage

LEMMA CleansingType ==
  ASSUME ThreadTypeOK, NEW t \in Threads, NEW q \in SUBSET (1 .. sent),
         StartCleansing(t, q), sent \in Nat, clock \in Nat,
         UNCHANGED <<oldFailures, waitingSince, sent>>,
         UNCHANGED job \/ job' \in [Threads -> Jobs]
  PROVE  ThreadTypeOK'
<1>1. Following(q, 0) \in SUBSET (1 .. sent)
  BY DEF Following
<1>2. QED
  BY <1>1, ScanLabels, ScanType DEF StartCleansing

LEMMA GotoType ==
  ASSUME ThreadTypeOK, NEW t \in Threads, NEW label \in Labels, Goto(t, label),
         label \in NeedsMessage => cur[t] # 0,
         UNCHANGED <<loop, waitingSince, sent>>,
         UNCHANGED job \/ job' \in [Threads -> Jobs],
         UNCHANGED oldFailures \/ oldFailures' \in [Threads -> Nat]
  PROVE  ThreadTypeOK'
BY DEF ThreadTypeOK, Goto, loop

LEMMA VisitType ==
  ASSUME ThreadTypeOK, NEW t \in Threads, NEW label \in Labels,
         NEW m \in 1 .. sent, NEW next \in SUBSET (1 .. sent), sent \in Nat,
         Visit(t, label, m, next),
         UNCHANGED <<nowTime, oldFailures, waitingSince, sent>>,
         UNCHANGED job \/ job' \in [Threads -> Jobs]
  PROVE  ThreadTypeOK'
<1>1. cur' \in [Threads -> 0 .. sent']
  BY DEF ThreadTypeOK, Visit
<1>2. pc' \in [Threads -> Labels]
  BY DEF ThreadTypeOK, Visit, Goto
<1>3. ahead' \in [Threads -> SUBSET (1 .. sent')]
  BY DEF ThreadTypeOK, Visit
<1>4. \A u \in Threads : pc'[u] \in NeedsMessage => cur'[u] # 0
  BY DEF ThreadTypeOK, Visit, Goto
<1>5. QED
  BY <1>1, <1>2, <1>3, <1>4 DEF ThreadTypeOK

LEMMA FollowingType ==
  ASSUME SharedTypeOK, NEW c
  PROVE  Following(queues, c) \subseteq queues /\ Following(queues, c) \in SUBSET (1 .. sent)
BY DEF Following, SharedTypeOK

LEMMA AheadType ==
  ASSUME ThreadTypeOK, NEW t \in Threads, NEW m \in ahead[t]
  PROVE  m \in 1 .. sent
BY DEF ThreadTypeOK

-----------------------------------------------------------------------------
(* The messages accepted and those about to be added stay within the bound. *)
WithinBound == sent + Cardinality(Adding) <= MaxMessages

(* Adding is finite, and not empty when some thread is about to add.        *)
LEMMA AddingFinite ==
  /\ IsFiniteSet(Adding)
  /\ Cardinality(Adding) \in Nat
  /\ \A t \in Threads : At(t, "add") => Cardinality(Adding) >= 1
<1>1. Adding \subseteq Threads
  BY DEF Adding
<1>2. IsFiniteSet(Adding)
  BY <1>1, ConstantsAssumption, FS_Subset
<1>3. Cardinality(Adding) \in Nat
  BY <1>2, FS_CardinalityType
<1>4. ASSUME NEW t \in Threads, At(t, "add") PROVE Cardinality(Adding) # 0
  BY <1>2, <1>4, FS_EmptySet DEF Adding
<1>5. QED
  BY <1>2, <1>3, <1>4

LEMMA TypeInit == Init => TypeOK
BY ConstantsAssumption
   DEF Init, TypeOK, SharedTypeOK, FieldTypeOK, ThreadTypeOK, HistoryTypeOK,
       Messages, Labels, Jobs, NeedsMessage

LEMMA TypeStep ==
  ASSUME TypeOK, WithinBound, Next
  PROVE  TypeOK'
<1> USE ConstantsAssumption
    DEF TypeOK, SharedTypeOK, HistoryTypeOK, fields, clients
<1>1. ASSUME Tick PROVE TypeOK'
  BY <1>1 DEF Tick, FieldTypeOK, ThreadTypeOK, locals, loop
<1>2. ASSUME NEW t \in Threads, HandleSend(t) PROVE TypeOK'
  <2>1. job' \in [Threads -> Jobs]
    BY <1>2 DEF HandleSend, ThreadTypeOK, Jobs
  <2>2. ThreadTypeOK'
    BY <1>2, <2>1, ScanLabels, GotoType DEF HandleSend
  <2>3. QED
    BY <1>2, <2>2 DEF HandleSend, FieldTypeOK
<1>3. ASSUME NEW t \in Threads, HandleReceive(t) \/ HandleDLQ(t) PROVE TypeOK'
  <2>1. job' \in [Threads -> Jobs]
    BY <1>3 DEF HandleReceive, HandleDLQ, ThreadTypeOK, Jobs
  <2>2. ThreadTypeOK'
    BY <1>3, <2>1, CleansingType DEF HandleReceive, HandleDLQ
  <2>3. QED
    BY <1>3, <2>2 DEF HandleReceive, HandleDLQ, FieldTypeOK
<1>4. ASSUME NEW t \in Threads, HandleAck(t) \/ HandleFail(t) PROVE TypeOK'
  <2>1. PICK m \in known, label \in {"find", "restore"} :
          Visit(t, label, m, {})
    BY <1>4 DEF HandleAck, HandleFail
  <2>2. job' \in [Threads -> Jobs]
    BY <1>4 DEF HandleAck, HandleFail, ThreadTypeOK, Jobs
  <2>3. label \in Labels
    BY <2>1 DEF Labels
  <2>4. UNCHANGED <<sent, nowTime, oldFailures, waitingSince>>
    BY <1>4 DEF HandleAck, HandleFail
  <2>5. ThreadTypeOK'
    BY <2>1, <2>2, <2>3, <2>4, VisitType
  <2>6. QED
    BY <1>4, <2>5 DEF HandleAck, HandleFail, FieldTypeOK
<1>5. ASSUME NEW t \in Threads, AddMessage(t) PROVE TypeOK'
  <2>1. /\ sent' = sent + 1
        /\ sent' \in 1 .. MaxMessages
    BY <1>5, AddingFinite DEF AddMessage, WithinBound
  <2>2. 1 .. sent \subseteq 1 .. sent'
    BY <2>1
  <2>3. ThreadTypeOK'
    BY <1>5, <2>1, AnswerType DEF AddMessage
  <2>4. queues' \subseteq 1 .. sent'
    BY <1>5, <2>1, <2>2 DEF AddMessage
  <2>5. deadLetters' \in Seq(1 .. sent')
    BY <1>5, <2>2 DEF AddMessage
  <2>6. HistoryTypeOK'
    BY <1>5, <2>2 DEF AddMessage
  <2>7. QED
    BY <1>5, <2>1, <2>3, <2>4, <2>5, <2>6 DEF AddMessage, FieldTypeOK
<1>6. ASSUME NEW t \in Threads, RemoveFind(t) PROVE TypeOK'
  <2>1. ThreadTypeOK'
    <3>1. CASE cur[t] \in queues
      BY <1>6, <3>1, GotoType
      DEF RemoveFind, ThreadTypeOK, Labels, NeedsMessage, At
    <3>2. CASE cur[t] \notin queues
      BY <1>6, <3>2, CleansingType DEF RemoveFind
    <3>3. QED
      BY <3>1, <3>2
  <2>2. QED
    BY <1>6, <2>1 DEF RemoveFind, FieldTypeOK
<1>7. ASSUME NEW t \in Threads, RemoveMessage(t) PROVE TypeOK'
  <2>1. ThreadTypeOK'
    BY <1>7, CleansingType DEF RemoveMessage
  <2>2. cur[t] \in 1 .. sent
    BY <1>7 DEF RemoveMessage, At, ThreadTypeOK, NeedsMessage
  <2>3. QED
    BY <1>7, <2>1, <2>2 DEF RemoveMessage, FieldTypeOK
<1>8. ASSUME NEW t \in Threads, RestoreReturns(t),
             UNCHANGED <<job, oldFailures, waitingSince, sent>>, clock \in Nat
      PROVE  ThreadTypeOK'
  <2>1. CASE nowTime[t] = 0
    BY <1>8, <2>1, CleansingType DEF RestoreReturns
  <2>2. CASE nowTime[t] # 0
    BY <1>8, <2>2, GotoType DEF RestoreReturns, ThreadTypeOK, Labels, NeedsMessage
  <2>3. QED
    BY <2>1, <2>2
<1>9. ASSUME NEW t \in Threads, RestoreFind(t) PROVE TypeOK'
  <2>1. ThreadTypeOK'
    <3>1. CASE cur[t] \in queues /\ Retryable(cur[t])
      BY <1>9, <3>1, GotoType
      DEF RestoreFind, ThreadTypeOK, Labels, NeedsMessage, At
    <3>2. CASE ~ (cur[t] \in queues /\ Retryable(cur[t]))
      BY <1>8, <1>9, <3>2 DEF RestoreFind
    <3>3. QED
      BY <3>1, <3>2
  <2>2. QED
    BY <1>9, <2>1 DEF RestoreFind, FieldTypeOK
<1>10. ASSUME NEW t \in Threads, ReadFailures(t) PROVE TypeOK'
  <2>1. cur[t] \in Messages
    BY <1>10 DEF ReadFailures, At, ThreadTypeOK, NeedsMessage, Messages
  <2>2. oldFailures' \in [Threads -> Nat]
    BY <1>10, <2>1 DEF ReadFailures, ThreadTypeOK, FieldTypeOK
  <2>3. ThreadTypeOK'
    BY <1>10, <2>2, GotoType
    DEF ReadFailures, ThreadTypeOK, Labels, NeedsMessage, At
  <2>4. QED
    BY <1>10, <2>3 DEF ReadFailures, FieldTypeOK
<1>11. ASSUME NEW t \in Threads, WriteFailures(t) PROVE TypeOK'
  <2>1. oldFailures' \in [Threads -> Nat] /\ oldFailures[t] + 1 \in Nat
    BY <1>11 DEF WriteFailures, ThreadTypeOK
  <2>2. ThreadTypeOK'
    BY <1>11, <2>1, GotoType
    DEF WriteFailures, ThreadTypeOK, Labels, NeedsMessage, At
  <2>3. QED
    BY <1>11, <2>1, <2>2 DEF WriteFailures, FieldTypeOK
<1>12. ASSUME NEW t \in Threads, ClearTimer(t) PROVE TypeOK'
  <2>1. ThreadTypeOK'
    BY <1>12, GotoType DEF ClearTimer, ThreadTypeOK, locals, loop, Labels, NeedsMessage, At
  <2>2. QED
    BY <1>12, <2>1 DEF ClearTimer, FieldTypeOK
<1>13. ASSUME NEW t \in Threads, Show(t) PROVE TypeOK'
  <2>1. ThreadTypeOK'
    BY <1>8, <1>13 DEF Show
  <2>2. QED
    BY <1>13, <2>1 DEF Show, FieldTypeOK
<1>14. ASSUME NEW t \in Threads, ProcessTimeoutMessages(t) PROVE TypeOK'
  <2>1. ThreadTypeOK'
    <3>1. CASE ahead[t] = {}
      BY <1>14, <3>1, ScanLabels, FollowingType, ScanType DEF ProcessTimeoutMessages
    <3>2. ASSUME NEW m \in ahead[t], NEW label \in {"timeouts", "isTimeout"},
                 Visit(t, label, m, Following(queues, m)), UNCHANGED nowTime
          PROVE  ThreadTypeOK'
      <4>1. m \in 1 .. sent /\ label \in Labels /\ Following(queues, m) \in SUBSET (1 .. sent)
        BY AheadType, FollowingType DEF Labels
      <4>2. UNCHANGED <<sent, job, oldFailures, waitingSince>>
        BY <1>14 DEF ProcessTimeoutMessages
      <4>3. QED
        BY <3>2, <4>1, <4>2, VisitType
    <3>3. QED
      BY <1>14, <3>1, <3>2 DEF ProcessTimeoutMessages
  <2>2. QED
    BY <1>14, <2>1 DEF ProcessTimeoutMessages, FieldTypeOK
<1>15. ASSUME NEW t \in Threads, TestTimeout(t) PROVE TypeOK'
  <2>1. ThreadTypeOK'
    BY <1>15, GotoType DEF TestTimeout, ThreadTypeOK, locals, loop, Labels, NeedsMessage, At
  <2>2. QED
    BY <1>15, <2>1 DEF TestTimeout, FieldTypeOK
<1>16. ASSUME NEW t \in Threads, ProcessOverFailedMessages(t) PROVE TypeOK'
  <2>1. ThreadTypeOK'
    <3>1. ASSUME NEW m \in ahead[t], NEW label \in {"unlink", "overFailed"},
                 Visit(t, label, m, Following(queues, m)),
                 UNCHANGED <<job, nowTime, oldFailures, waitingSince>>
          PROVE  ThreadTypeOK'
      <4>1. m \in 1 .. sent /\ label \in Labels /\ Following(queues, m) \in SUBSET (1 .. sent)
        BY AheadType, FollowingType DEF Labels
      <4>2. UNCHANGED sent
        BY <1>16 DEF ProcessOverFailedMessages
      <4>3. QED
        BY <3>1, <4>1, <4>2, VisitType
    <3>2. ASSUME NEW label \in {"pop", "poll"}, NEW at \in Nat, Scan(t, label, at, {}),
                 UNCHANGED <<job, oldFailures, waitingSince>>
          PROVE  ThreadTypeOK'
      BY <1>16, <3>2, ScanLabels, ScanType DEF ProcessOverFailedMessages
    <3>3. ASSUME Answer(t) PROVE ThreadTypeOK'
      BY <1>16, <3>3, AnswerType DEF ProcessOverFailedMessages
    <3>4. QED
      BY <1>16, <3>1, <3>2, <3>3 DEF ProcessOverFailedMessages, AfterCleansing
  <2>2. QED
    BY <1>16, <2>1 DEF ProcessOverFailedMessages, FieldTypeOK
<1>17. ASSUME NEW t \in Threads, MoveUnlink(t) PROVE TypeOK'
  <2>1. ThreadTypeOK'
    BY <1>17, GotoType DEF MoveUnlink, ThreadTypeOK, locals, loop, Labels, NeedsMessage, At
  <2>2. QED
    BY <1>17, <2>1 DEF MoveUnlink, FieldTypeOK
<1>18. ASSUME NEW t \in Threads, MoveTestSize(t) PROVE TypeOK'
  <2>1. ThreadTypeOK'
    BY <1>18, GotoType DEF MoveTestSize, ThreadTypeOK, locals, loop, Labels, NeedsMessage, At
  <2>2. cur[t] \in 1 .. sent
    BY <1>18 DEF MoveTestSize, At, ThreadTypeOK, NeedsMessage
  <2>3. QED
    BY <1>18, <2>1, <2>2 DEF MoveTestSize, FieldTypeOK
<1>19. ASSUME NEW t \in Threads, MoveAdd(t) PROVE TypeOK'
  <2>1. ThreadTypeOK'
    BY <1>19, GotoType DEF MoveAdd, ThreadTypeOK, locals, loop, Labels, NeedsMessage, At
  <2>2. cur[t] \in 1 .. sent
    BY <1>19 DEF MoveAdd, At, ThreadTypeOK, NeedsMessage
  <2>3. QED
    BY <1>19, <2>1, <2>2 DEF MoveAdd, FieldTypeOK
<1>20. ASSUME NEW t \in Threads, PopMessageDLQ(t) PROVE TypeOK'
  <2>1. ThreadTypeOK'
    BY <1>20, AnswerType DEF PopMessageDLQ
  <2>2. deadLetters' \in Seq(1 .. sent) /\ drained' \subseteq 1 .. sent
    <3>1. CASE deadLetters = << >>
      BY <1>20, <3>1 DEF PopMessageDLQ
    <3>2. CASE deadLetters # << >>
      <4>1. Head(deadLetters) \in 1 .. sent /\ Tail(deadLetters) \in Seq(1 .. sent)
        BY <3>2
      <4>2. QED
        BY <1>20, <3>2, <4>1 DEF PopMessageDLQ
    <3>3. QED
      BY <3>1, <3>2
  <2>3. QED
    BY <1>20, <2>1, <2>2 DEF PopMessageDLQ, FieldTypeOK
<1>21. ASSUME NEW t \in Threads, PopMessage(t) PROVE TypeOK'
  <2>1. ThreadTypeOK'
    <3>1. ASSUME NEW m \in Following(queues, cur[t]),
                 NEW label \in {"pop", "popTimeout", "take"}, Visit(t, label, m, {}),
                 UNCHANGED <<job, nowTime, oldFailures, waitingSince>>
          PROVE  ThreadTypeOK'
      <4>1. m \in 1 .. sent /\ label \in Labels
        BY FollowingType DEF Labels
      <4>2. UNCHANGED sent
        BY <1>21 DEF PopMessage
      <4>3. QED
        BY <3>1, <4>1, <4>2, VisitType
    <3>2. ASSUME Scan(t, "sleep", 0, {}), UNCHANGED <<job, oldFailures>>,
                 waitingSince' = [waitingSince EXCEPT ![t] = IF @ = 0 THEN clock ELSE @]
          PROVE  ThreadTypeOK'
      <4>1. waitingSince' \in [Threads -> Nat]
        BY <3>2 DEF ThreadTypeOK
      <4>2. QED
        BY <1>21, <3>2, <4>1, ScanLabels, ScanType DEF PopMessage
    <3>3. ASSUME Answer(t) PROVE ThreadTypeOK'
      BY <1>21, <3>3, AnswerType DEF PopMessage
    <3>4. QED
      BY <1>21, <3>1, <3>2, <3>3 DEF PopMessage, NoMessage
  <2>2. QED
    BY <1>21, <2>1 DEF PopMessage, FieldTypeOK
<1>22. ASSUME NEW t \in Threads, PopTestTimeout(t) PROVE TypeOK'
  <2>1. ThreadTypeOK'
    BY <1>22, GotoType DEF PopTestTimeout, ThreadTypeOK, locals, loop, Labels, NeedsMessage, At
  <2>2. QED
    BY <1>22, <2>1 DEF PopTestTimeout, FieldTypeOK
<1>23. ASSUME NEW t \in Threads, Take(t) PROVE TypeOK'
  <2>1. cur[t] \in 1 .. sent
    BY <1>23 DEF Take, At, ThreadTypeOK, NeedsMessage
  <2>2. ThreadTypeOK'
    <3>1. CASE ProcessTimeout > 0
      BY <1>23, <2>1, <3>1, MessageLabels, GotoType DEF Take, locals, loop, NeedsMessage
    <3>2. CASE ProcessTimeout = 0
      BY <1>23, <3>2, AnswerType DEF Take
    <3>3. QED
      BY <3>1, <3>2
  <2>3. FieldTypeOK'
    BY <1>23 DEF Take, FieldTypeOK
  <2>4. QED
    BY <1>23, <2>1, <2>2, <2>3 DEF Take
<1>24. ASSUME NEW t \in Threads, SetProcessTimeoutFrom(t) PROVE TypeOK'
  <2>1. cur[t] \in 1 .. sent /\ clock + ProcessTimeout \in Nat
    BY <1>24 DEF SetProcessTimeoutFrom, At, ThreadTypeOK, NeedsMessage
  <2>2. ThreadTypeOK'
    BY <1>24, AnswerType DEF SetProcessTimeoutFrom
  <2>3. FieldTypeOK'
    BY <1>24, <2>1 DEF SetProcessTimeoutFrom, FieldTypeOK
  <2>4. QED
    BY <1>24, <2>1, <2>2, <2>3 DEF SetProcessTimeoutFrom
<1>25. ASSUME NEW t \in Threads, WakeUp(t) PROVE TypeOK'
  <2>1. ThreadTypeOK'
    BY <1>25, ScanLabels, ScanType DEF WakeUp
  <2>2. QED
    BY <1>25, <2>1 DEF WakeUp, FieldTypeOK
<1>26. QED
  BY <1>1, <1>2, <1>3, <1>4, <1>5, <1>6, <1>7, <1>9, <1>10, <1>11, <1>12, <1>13,
     <1>14, <1>15, <1>16, <1>17, <1>18, <1>19, <1>20, <1>21, <1>22, <1>23, <1>24,
     <1>25 DEF Next, Request, Step

-----------------------------------------------------------------------------
(* What a step leaves alone.                                                *)

LEMMA OwnThread ==
  ASSUME TypeOK, NEW t \in Threads, Request(t) \/ Step(t)
  PROVE  /\ \E label : Goto(t, label)
         /\ \A u \in Threads : u # t => pc'[u] = pc[u] /\ cur'[u] = cur[u]
<1> DEFINE Own(label, m) == /\ pc' = [pc EXCEPT ![t] = label]
                            /\ UNCHANGED cur \/ cur' = [cur EXCEPT ![t] = m]
<1> SUFFICES \E label, m : Own(label, m)
  BY DEF TypeOK, ThreadTypeOK, Goto
<1> USE DEF Goto, Answer, Scan, StartCleansing, Visit, locals, loop
<1>1. ASSUME Request(t) PROVE \E label, m : Own(label, m)
  BY <1>1 DEF Request, HandleSend, HandleReceive, HandleDLQ, HandleAck, HandleFail
<1>2. ASSUME Step(t) PROVE \E label, m : Own(label, m)
  <2>1. CASE \/ AddMessage(t) \/ RemoveFind(t) \/ RemoveMessage(t) \/ RestoreFind(t)
             \/ ReadFailures(t) \/ WriteFailures(t) \/ ClearTimer(t) \/ Show(t)
    BY <2>1 DEF AddMessage, RemoveFind, RemoveMessage, RestoreFind, RestoreReturns,
                ReadFailures, WriteFailures, ClearTimer, Show
  <2>2. CASE \/ ProcessTimeoutMessages(t) \/ TestTimeout(t)
             \/ ProcessOverFailedMessages(t) \/ MoveUnlink(t) \/ MoveTestSize(t) \/ MoveAdd(t)
    BY <2>2 DEF ProcessTimeoutMessages, TestTimeout, ProcessOverFailedMessages,
                AfterCleansing, MoveUnlink, MoveTestSize, MoveAdd
  <2>3. CASE \/ PopMessageDLQ(t) \/ PopMessage(t) \/ PopTestTimeout(t) \/ Take(t)
             \/ SetProcessTimeoutFrom(t) \/ WakeUp(t)
    BY <2>3 DEF PopMessageDLQ, PopMessage, NoMessage, PopTestTimeout, Take,
                SetProcessTimeoutFrom, WakeUp
  <2>4. QED
    BY <1>2, <2>1, <2>2, <2>3 DEF Step
<1> HIDE DEF Own
<1>3. QED
  BY <1>1, <1>2

(* Only SEND enters or leaves "add" or adds to the queue; no other step     *)
(* changes sent.                                                            *)
LEMMA SendOnly ==
  ASSUME TypeOK, NEW t \in Threads, Request(t) \/ Step(t),
         ~ HandleSend(t), ~ AddMessage(t)
  PROVE  /\ pc[t] # "add" /\ pc'[t] # "add"
         /\ queues' \subseteq queues
         /\ sent' = sent
<1> USE DEF Goto, Answer, Scan, StartCleansing, Visit, TypeOK, ThreadTypeOK, At
<1>1. CASE Request(t)
  BY <1>1 DEF Request, HandleReceive, HandleDLQ, HandleAck, HandleFail
<1>2. CASE \/ RemoveFind(t) \/ RemoveMessage(t) \/ RestoreFind(t)
           \/ ReadFailures(t) \/ WriteFailures(t) \/ ClearTimer(t) \/ Show(t)
  BY <1>2 DEF RemoveFind, RemoveMessage, RestoreFind, RestoreReturns,
              ReadFailures, WriteFailures, ClearTimer, Show
<1>3. CASE \/ ProcessTimeoutMessages(t) \/ TestTimeout(t)
           \/ ProcessOverFailedMessages(t) \/ MoveUnlink(t) \/ MoveTestSize(t) \/ MoveAdd(t)
  BY <1>3 DEF ProcessTimeoutMessages, TestTimeout, ProcessOverFailedMessages,
              AfterCleansing, MoveUnlink, MoveTestSize, MoveAdd
<1>4. CASE \/ PopMessageDLQ(t) \/ PopMessage(t) \/ PopTestTimeout(t) \/ Take(t)
           \/ SetProcessTimeoutFrom(t) \/ WakeUp(t)
  BY <1>4 DEF PopMessageDLQ, PopMessage, NoMessage, PopTestTimeout, Take,
              SetProcessTimeoutFrom, WakeUp
<1>5. QED
  BY <1>1, <1>2, <1>3, <1>4 DEF Step

-----------------------------------------------------------------------------
(* The bounds on what SEND adds.                                            *)

LEMMA AddingStep ==
  ASSUME TypeOK, NEW t \in Threads, Request(t) \/ Step(t)
  PROVE  /\ HandleSend(t) => Cardinality(Adding') = Cardinality(Adding) + 1
         /\ AddMessage(t) => Cardinality(Adding') = Cardinality(Adding) - 1
         /\ ~ HandleSend(t) /\ ~ AddMessage(t) => Adding' = Adding
<1>1. ASSUME HandleSend(t) PROVE Cardinality(Adding') = Cardinality(Adding) + 1
  <2>1. Adding' = Adding \union {t} /\ t \notin Adding
    BY <1>1 DEF HandleSend, Adding, At, Goto, TypeOK, ThreadTypeOK
  <2>2. QED
    BY <2>1, AddingFinite, FS_AddElement
<1>2. ASSUME AddMessage(t) PROVE Cardinality(Adding') = Cardinality(Adding) - 1
  <2>1. Adding' = Adding \ {t} /\ t \in Adding
    BY <1>2 DEF AddMessage, Answer, Adding, At, Goto, TypeOK, ThreadTypeOK
  <2>2. QED
    BY <2>1, AddingFinite, FS_RemoveElement
<1>3. ASSUME ~ HandleSend(t), ~ AddMessage(t) PROVE Adding' = Adding
  <2>1. \A u \in Threads : pc'[u] = "add" <=> pc[u] = "add"
    BY <1>3, OwnThread, SendOnly
  <2>2. QED
    BY <2>1 DEF Adding, At
<1>4. QED
  BY <1>1, <1>2, <1>3

LEMMA WithinBoundInit == Init => WithinBound
<1>1. ASSUME Init PROVE Adding = {}
  BY <1>1 DEF Init, Adding, At
<1>2. ASSUME Init PROVE Cardinality(Adding) = 0
  BY <1>1, <1>2, FS_EmptySet
<1>3. QED
  BY <1>2, ConstantsAssumption DEF Init, WithinBound

LEMMA WithinBoundStep ==
  ASSUME TypeOK, WithinBound, Next
  PROVE  WithinBound'
<1> USE ConstantsAssumption, AddingFinite DEF WithinBound, TypeOK, SharedTypeOK
<1>1. CASE Tick
  BY <1>1 DEF Tick, Adding, At
<1>2. ASSUME NEW t \in Threads, Request(t) \/ Step(t) PROVE WithinBound'
  <2>1. CASE HandleSend(t)
    <3>1. sent + Cardinality(Adding) < MaxMessages /\ sent' = sent
      BY <2>1 DEF HandleSend
    <3>2. Cardinality(Adding') = Cardinality(Adding) + 1
      BY <1>2, <2>1, AddingStep
    <3>3. QED
      BY <3>1, <3>2
  <2>2. CASE AddMessage(t)
    BY <1>2, <2>2, AddingStep DEF AddMessage
  <2>3. CASE ~ HandleSend(t) /\ ~ AddMessage(t)
    BY <1>2, <2>3, AddingStep, SendOnly
  <2>4. QED
    BY <2>1, <2>2, <2>3
<1>3. QED
  BY <1>1, <1>2 DEF Next

LEMMA TypeStutter == TypeOK /\ WithinBound /\ UNCHANGED vars => TypeOK' /\ WithinBound'
BY DEF TypeOK, SharedTypeOK, FieldTypeOK, ThreadTypeOK, HistoryTypeOK, WithinBound,
       Adding, At, vars, fields, locals, loop, clients

(* Type correctness of the concurrent queue: every field a handler reads    *)
(* through its message is that of a message that was accepted.              *)
THEOREM TypeCorrect == Spec => [](TypeOK /\ WithinBound)
<1>1. Init => TypeOK /\ WithinBound
  BY TypeInit, WithinBoundInit
<1>2. TypeOK /\ WithinBound /\ [Next]_vars => (TypeOK /\ WithinBound)'
  BY TypeStep, WithinBoundStep, TypeStutter
<1>3. QED
  BY <1>1, <1>2, PTL DEF Spec

-----------------------------------------------------------------------------
(* The queue's size, which a SEND has tested before it adds.                *)

LEMMA QueueFinite ==
  ASSUME SharedTypeOK
  PROVE  IsFiniteSet(queues) /\ Cardinality(queues) \in Nat
<1>1. IsFiniteSet(1 .. sent)
  BY FS_Interval DEF SharedTypeOK
<1>2. IsFiniteSet(queues)
  BY <1>1, FS_Subset DEF SharedTypeOK
<1>3. QED
  BY <1>2, FS_CardinalityType

LEMMA OvershootInit == Init => BoundedOvershoot
<1>1. ASSUME Init PROVE Cardinality(queues) = 0 /\ Cardinality(Adding) = 0
  <2>1. queues = {} /\ Adding = {}
    BY <1>1 DEF Init, Adding, At
  <2>2. QED
    BY <2>1, FS_EmptySet
<1>2. Cardinality(Threads) \in Nat /\ Cardinality(Threads) # 0
  BY ConstantsAssumption, FS_CardinalityType, FS_EmptySet
<1>3. QED
  BY <1>1, <1>2, ConstantsAssumption DEF BoundedOvershoot

LEMMA OvershootStep ==
  ASSUME TypeOK, BoundedOvershoot, Next
  PROVE  BoundedOvershoot'
<1>1. Cardinality(Threads) \in Nat
  BY ConstantsAssumption, FS_CardinalityType
<1>2. SharedTypeOK /\ IsFiniteSet(queues) /\ Cardinality(queues) \in Nat
  BY QueueFinite DEF TypeOK
<1> USE <1>1, <1>2, ConstantsAssumption, AddingFinite DEF BoundedOvershoot
<1>3. CASE Tick
  BY <1>3 DEF Tick, Adding, At
<1>4. ASSUME NEW t \in Threads, HandleSend(t) PROVE BoundedOvershoot'
  <2>1. /\ Cardinality(Adding') = Cardinality(Adding) + 1
        /\ queues' = queues /\ Cardinality(queues) < QueueSize
    BY <1>4, AddingStep DEF HandleSend, HasRoom, Request
  <2>2. t \notin Adding /\ Adding \subseteq Threads
    BY <1>4 DEF HandleSend, Adding, At
  <2>3. Cardinality(Adding) + 1 <= Cardinality(Threads)
    <3>1. Cardinality(Adding \union {t}) = Cardinality(Adding) + 1
      BY <2>2, FS_AddElement
    <3>2. Adding \union {t} \subseteq Threads
      BY <2>2
    <3>3. QED
      BY <3>1, <3>2, FS_Subset
  <2>4. QED
    BY <2>1, <2>3
<1>5. ASSUME NEW t \in Threads, AddMessage(t) PROVE BoundedOvershoot'
  <2>1. Cardinality(Adding') = Cardinality(Adding) - 1
    BY <1>5, AddingStep DEF Step
  <2>2. queues' = queues \union {sent + 1} /\ sent + 1 \notin queues
    BY <1>5 DEF AddMessage, SharedTypeOK
  <2>3. Cardinality(queues') = Cardinality(queues) + 1
    BY <2>2, FS_AddElement
  <2>4. QED
    BY <2>1, <2>3
<1>6. ASSUME NEW t \in Threads, Request(t) \/ Step(t), ~ HandleSend(t), ~ AddMessage(t)
      PROVE  BoundedOvershoot'
  <2>1. Adding' = Adding /\ queues' \subseteq queues
    BY <1>6, AddingStep, SendOnly
  <2>2. Cardinality(queues') \in Nat /\ Cardinality(queues') <= Cardinality(queues)
    BY <2>1, FS_Subset, FS_CardinalityType
  <2>3. QED
    BY <2>1, <2>2
<1>7. QED
  BY <1>3, <1>4, <1>5, <1>6 DEF Next

(* However many SENDs pass the size test before any of them adds, the queue *)
(* exceeds QueueSize by less than the number of threads.                    *)
THEOREM OvershootBounded == Spec => []BoundedOvershoot
<1>1. Init => BoundedOvershoot
  BY OvershootInit
<1>2. TypeOK /\ BoundedOvershoot /\ [Next]_vars => BoundedOvershoot'
  <2>1. ASSUME BoundedOvershoot, UNCHANGED vars PROVE BoundedOvershoot'
    BY <2>1 DEF BoundedOvershoot, Adding, At, vars
  <2>2. QED
    BY <2>1, OvershootStep
<1>3. Spec => []TypeOK
  BY TypeCorrect, PTL
<1>4. QED
  BY <1>1, <1>2, <1>3, PTL DEF Spec

-----------------------------------------------------------------------------
(* No message is stranded.  A message that enters the queue must be         *)
(* visible, so nothing may have hidden it before it was added.              *)

Fresh == \A m \in Messages : m > sent => isVisible[m]

(* The steps that write neither flag nor timer are not taken at the labels  *)
(* at which a thread attends a message.                                     *)
LEMMA FieldsAlone ==
  ASSUME TypeOK, NEW t \in Threads, Request(t) \/ Step(t), ~ AddMessage(t),
         ~ ClearTimer(t), ~ Show(t), ~ Take(t), ~ SetProcessTimeoutFrom(t)
  PROVE  /\ UNCHANGED <<isVisible, processTimeoutFrom>>
         /\ queues' \subseteq queues /\ sent' = sent
         /\ pc[t] \notin {"arm", "show"}
<1> USE DEF At, fields
<1>1. CASE Request(t)
  BY <1>1 DEF Request, HandleSend, HandleReceive, HandleDLQ, HandleAck, HandleFail
<1>2. CASE \/ RemoveFind(t) \/ RemoveMessage(t) \/ RestoreFind(t)
           \/ ReadFailures(t) \/ WriteFailures(t)
  BY <1>2 DEF RemoveFind, RemoveMessage, RestoreFind, ReadFailures, WriteFailures
<1>3. CASE \/ ProcessTimeoutMessages(t) \/ TestTimeout(t)
           \/ ProcessOverFailedMessages(t) \/ MoveUnlink(t) \/ MoveTestSize(t) \/ MoveAdd(t)
  BY <1>3 DEF ProcessTimeoutMessages, TestTimeout, ProcessOverFailedMessages,
              MoveUnlink, MoveTestSize, MoveAdd
<1>4. CASE PopMessageDLQ(t) \/ PopMessage(t) \/ PopTestTimeout(t) \/ WakeUp(t)
  BY <1>4 DEF PopMessageDLQ, PopMessage, PopTestTimeout, WakeUp
<1>5. QED
  BY <1>1, <1>2, <1>3, <1>4 DEF Step

LEMMA AttendedByOther ==
  ASSUME TypeOK, NEW t \in Threads, Request(t) \/ Step(t), NEW m, Attended(m),
         pc[t] \in {"arm", "show"} => cur[t] # m
  PROVE  Attended(m)'
<1>1. PICK u \in Threads : cur[u] = m /\ pc[u] \in {"arm", "show"}
  BY DEF Attended
<1>2. cur'[u] = cur[u] /\ pc'[u] = pc[u]
  BY <1>1, OwnThread
<1>3. QED
  BY <1>1, <1>2 DEF Attended

LEMMA FreshStep ==
  ASSUME TypeOK, Fresh, NEW t \in Threads, Request(t) \/ Step(t)
  PROVE  Fresh'
<1> USE DEF Fresh, TypeOK, SharedTypeOK
<1>1. CASE AddMessage(t)
  BY <1>1 DEF AddMessage, fields, Messages
<1>2. CASE Show(t) \/ Take(t)
  <2>1. cur[t] \in 1 .. sent /\ sent' = sent
    BY <1>2 DEF Show, Take, At, ThreadTypeOK, NeedsMessage
  <2>2. \A m \in Messages : m # cur[t] => isVisible'[m] = isVisible[m]
    BY <1>2 DEF Show, Take, FieldTypeOK
  <2>3. QED
    BY <2>1, <2>2 DEF Messages
<1>3. CASE ClearTimer(t) \/ SetProcessTimeoutFrom(t)
  BY <1>3 DEF ClearTimer, SetProcessTimeoutFrom
<1>4. QED
  BY <1>1, <1>2, <1>3, FieldsAlone

LEMMA StrandedStep ==
  ASSUME TypeOK, WithinBound, NoStrandedMessage, Fresh, NEW t \in Threads, Request(t) \/ Step(t)
  PROVE  NoStrandedMessage'
<1> SUFFICES ASSUME ProcessTimeout > 0, NEW m \in queues',
                    ~ isVisible'[m], processTimeoutFrom'[m] = 0
             PROVE  Attended(m)'
  BY DEF NoStrandedMessage
<1>1. ASSUME m \in queues, ~ isVisible[m], processTimeoutFrom[m] = 0
      PROVE  Attended(m)
  BY <1>1 DEF NoStrandedMessage
<1>2. cur[t] \in 0 .. sent /\ (pc[t] \in NeedsMessage => cur[t] \in Messages)
  BY ConstantsAssumption DEF TypeOK, ThreadTypeOK, SharedTypeOK, Messages
<1>3. ASSUME AddMessage(t) PROVE Attended(m)'
  <2>1. m \in queues
    <3>1. m # sent + 1
      <4>1. sent + 1 \in Messages /\ sent + 1 > sent
        BY <1>3, AddingFinite, ConstantsAssumption
        DEF AddMessage, WithinBound, Messages, TypeOK, SharedTypeOK
      <4>2. QED
        BY <1>3, <4>1 DEF AddMessage, Fresh, fields
    <3>2. QED
      BY <1>3, <3>1 DEF AddMessage
  <2>2. Attended(m) /\ pc[t] \notin {"arm", "show"}
    BY <1>1, <1>3, <2>1 DEF AddMessage, At, fields
  <2>3. QED
    BY <2>2, AttendedByOther
<1>4. ASSUME ClearTimer(t) \/ Take(t) PROVE Attended(m)'
  <2>1. queues' = queues /\ pc[t] \notin {"arm", "show"} /\ cur[t] \in Messages
    BY <1>2, <1>4 DEF ClearTimer, Take, At, NeedsMessage
  <2>2. cur' = cur /\ pc'[t] \in {"arm", "show"}
    BY <1>4 DEF ClearTimer, Take, Goto, locals, loop, TypeOK, ThreadTypeOK
  <2>3. CASE m = cur[t]
    BY <2>2, <2>3 DEF Attended
  <2>4. CASE m # cur[t]
    <3>1. m \in Messages
      BY <2>1, ConstantsAssumption DEF TypeOK, SharedTypeOK, Messages
    <3>2. isVisible'[m] = isVisible[m] /\ processTimeoutFrom'[m] = processTimeoutFrom[m]
      BY <1>4, <2>4, <3>1 DEF ClearTimer, Take, TypeOK, FieldTypeOK
    <3>3. QED
      BY <1>1, <2>1, <3>2, AttendedByOther
  <2>5. QED
    BY <2>3, <2>4
<1>5. ASSUME Show(t) \/ SetProcessTimeoutFrom(t) PROVE Attended(m)'
  <2>1. queues' = queues /\ cur[t] \in Messages
    BY <1>2, <1>5 DEF Show, SetProcessTimeoutFrom, At, NeedsMessage
  <2>2. m \in Messages
    BY <2>1, ConstantsAssumption DEF TypeOK, SharedTypeOK, Messages
  <2>3. m # cur[t]
    <3>1. CASE Show(t)
      BY <3>1, <2>2 DEF Show, TypeOK, FieldTypeOK
    <3>2. CASE SetProcessTimeoutFrom(t)
      <4>1. clock + ProcessTimeout # 0
        BY ConstantsAssumption DEF TypeOK, SharedTypeOK
      <4>2. QED
        BY <3>2, <2>2, <4>1 DEF SetProcessTimeoutFrom, TypeOK, FieldTypeOK
    <3>3. QED
      BY <1>5, <3>1, <3>2
  <2>4. isVisible'[m] = isVisible[m] /\ processTimeoutFrom'[m] = processTimeoutFrom[m]
    BY <1>5, <2>2, <2>3 DEF Show, SetProcessTimeoutFrom, TypeOK, FieldTypeOK
  <2>5. QED
    BY <1>1, <2>1, <2>3, <2>4, AttendedByOther
<1>6. ASSUME ~ AddMessage(t), ~ ClearTimer(t), ~ Take(t), ~ Show(t),
             ~ SetProcessTimeoutFrom(t)
      PROVE  Attended(m)'
  <2>1. m \in queues /\ ~ isVisible[m] /\ processTimeoutFrom[m] = 0
    BY <1>6, FieldsAlone
  <2>2. pc[t] \notin {"arm", "show"}
    BY <1>6, FieldsAlone
  <2>3. QED
    BY <1>1, <2>1, <2>2, AttendedByOther
<1>7. QED
  BY <1>3, <1>4, <1>5, <1>6

(* A message of the queue that is hidden and has no timer is one that some  *)
(* thread is still busy with, however the handlers interleave.              *)
THEOREM NothingStranded == Spec => []NoStrandedMessage
<1>1. Init => NoStrandedMessage /\ Fresh
  BY DEF Init, NoStrandedMessage, Fresh
<1>2. TypeOK /\ WithinBound /\ NoStrandedMessage /\ Fresh /\ [Next]_vars => (NoStrandedMessage /\ Fresh)'
  <2>1. ASSUME Tick \/ UNCHANGED vars, NoStrandedMessage, Fresh
        PROVE  NoStrandedMessage' /\ Fresh'
    BY <2>1 DEF Tick, vars, fields, locals, loop, NoStrandedMessage, Fresh, Attended
  <2>2. QED
    BY <2>1, StrandedStep, FreshStep DEF Next
<1>3. QED
  BY <1>1, <1>2, TypeCorrect, PTL DEF Spec

-----------------------------------------------------------------------------
(* Every accepted message is accounted for.                                 *)

(* The steps that take no message in, out or across leave every place of    *)
(* the account alone.                                                       *)
LEMMA LedgerAlone ==
  ASSUME TypeOK, NEW t \in Threads, Request(t) \/ Step(t), ~ AddMessage(t),
         ~ RemoveMessage(t), ~ MoveUnlink(t), ~ MoveTestSize(t), ~ MoveAdd(t),
         ~ PopMessageDLQ(t)
  PROVE  /\ UNCHANGED <<queues, deadLetters, sent, acked, drained, dropped>>
         /\ pc[t] \notin {"dlqSize", "dlqAdd"} /\ pc'[t] \notin {"dlqSize", "dlqAdd"}
<1> USE DEF At, Goto, Answer, Scan, StartCleansing, Visit, clients, TypeOK, ThreadTypeOK
<1>1. CASE Request(t)
  BY <1>1 DEF Request, HandleSend, HandleReceive, HandleDLQ, HandleAck, HandleFail
<1>2. CASE \/ RemoveFind(t) \/ RestoreFind(t) \/ ReadFailures(t) \/ WriteFailures(t)
           \/ ClearTimer(t) \/ Show(t)
  BY <1>2 DEF RemoveFind, RestoreFind, RestoreReturns, ReadFailures, WriteFailures,
              ClearTimer, Show
<1>3. CASE ProcessTimeoutMessages(t) \/ TestTimeout(t) \/ ProcessOverFailedMessages(t)
  BY <1>3 DEF ProcessTimeoutMessages, TestTimeout, ProcessOverFailedMessages, AfterCleansing
<1>4. CASE \/ PopMessage(t) \/ PopTestTimeout(t) \/ Take(t)
           \/ SetProcessTimeoutFrom(t) \/ WakeUp(t)
  BY <1>4 DEF PopMessage, NoMessage, PopTestTimeout, Take, SetProcessTimeoutFrom, WakeUp
<1>5. QED
  BY <1>1, <1>2, <1>3, <1>4 DEF Step

LEMMA InTransitOther ==
  ASSUME TypeOK, NEW t \in Threads, Request(t) \/ Step(t), NEW m, InTransit(m),
         pc[t] \in {"dlqSize", "dlqAdd"} => cur[t] # m
  PROVE  InTransit(m)'
<1>1. PICK u \in Threads : cur[u] = m /\ pc[u] \in {"dlqSize", "dlqAdd"}
  BY DEF InTransit
<1>2. cur'[u] = cur[u] /\ pc'[u] = pc[u]
  BY <1>1, OwnThread
<1>3. QED
  BY <1>1, <1>2 DEF InTransit

LEMMA ConservationStep ==
  ASSUME TypeOK, Conservation, NEW t \in Threads, Request(t) \/ Step(t)
  PROVE  Conservation'
<1> SUFFICES ASSUME NEW m \in 1 .. sent',
                    m \notin queues' \union acked' \union drained' \union dropped',
                    ~ InDeadLetters(m)'
             PROVE  InTransit(m)'
  BY DEF Conservation
<1>1. m \in 1 .. sent =>
        \/ m \in queues \union acked \union drained \union dropped
        \/ InDeadLetters(m) \/ InTransit(m)
  BY DEF Conservation
<1> USE DEF At, locals, loop
<1>2. ASSUME AddMessage(t) \/ RemoveMessage(t) PROVE InTransit(m)'
  <2>1. m \in 1 .. sent /\ m \notin queues \union acked \union drained \union dropped
    BY <1>2 DEF AddMessage, RemoveMessage, clients, TypeOK, SharedTypeOK
  <2>2. ~ InDeadLetters(m) /\ pc[t] \notin {"dlqSize", "dlqAdd"}
    BY <1>2 DEF AddMessage, RemoveMessage, InDeadLetters
  <2>3. QED
    BY <1>1, <2>1, <2>2, InTransitOther
<1>3. ASSUME MoveUnlink(t) PROVE InTransit(m)'
  <2>1. CASE m = cur[t]
    BY <1>3, <2>1 DEF MoveUnlink, Goto, InTransit, TypeOK, ThreadTypeOK
  <2>2. CASE m # cur[t]
    BY <1>1, <1>3, <2>2, InTransitOther DEF MoveUnlink, clients, InDeadLetters
  <2>3. QED
    BY <2>1, <2>2
<1>4. ASSUME MoveTestSize(t) PROVE InTransit(m)'
  <2>1. m \in 1 .. sent /\ ~ InDeadLetters(m)
        /\ m \notin queues \union acked \union drained \union dropped
    BY <1>4 DEF MoveTestSize, InDeadLetters
  <2>2. CASE m = cur[t]
    BY <1>4, <2>2 DEF MoveTestSize, Goto, InTransit, TypeOK, ThreadTypeOK
  <2>3. CASE m # cur[t]
    BY <1>1, <1>4, <2>1, <2>3, InTransitOther
  <2>4. QED
    BY <2>2, <2>3
<1>5. ASSUME MoveAdd(t) PROVE InTransit(m)'
  <2>1. /\ Len(deadLetters') = Len(deadLetters) + 1 /\ Len(deadLetters) \in Nat
        /\ deadLetters'[Len(deadLetters) + 1] = cur[t]
        /\ \A i \in 1 .. Len(deadLetters) : deadLetters'[i] = deadLetters[i]
    BY <1>5 DEF MoveAdd, TypeOK, SharedTypeOK
  <2>2. m # cur[t] /\ ~ InDeadLetters(m)
    BY <2>1 DEF InDeadLetters
  <2>3. m \in 1 .. sent /\ m \notin queues \union acked \union drained \union dropped
    BY <1>5 DEF MoveAdd, clients
  <2>4. QED
    BY <1>1, <1>5, <2>2, <2>3, InTransitOther
<1>6. ASSUME PopMessageDLQ(t) PROVE InTransit(m)'
  <2>1. pc[t] \notin {"dlqSize", "dlqAdd"}
    BY <1>6 DEF PopMessageDLQ
  <2>2. m \in 1 .. sent /\ m \notin queues \union acked \union drained \union dropped
    BY <1>6 DEF PopMessageDLQ
  <2>3. ~ InDeadLetters(m)
    <3>1. CASE deadLetters = << >>
      BY <1>6, <3>1 DEF PopMessageDLQ, InDeadLetters
    <3>2. CASE deadLetters # << >>
      <4>1. /\ deadLetters' = Tail(deadLetters)
            /\ drained' = drained \union {Head(deadLetters)}
        BY <1>6, <3>2 DEF PopMessageDLQ
      <4>2. /\ Head(deadLetters) = deadLetters[1] /\ Len(deadLetters) \in Nat
            /\ Len(deadLetters') = Len(deadLetters) - 1
            /\ \A i \in 2 .. Len(deadLetters) : deadLetters'[i - 1] = deadLetters[i]
        BY <3>2, <4>1 DEF TypeOK, SharedTypeOK
      <4>3. ASSUME NEW i \in 1 .. Len(deadLetters), deadLetters[i] = m PROVE FALSE
        <5>1. CASE i = 1
          BY <4>1, <4>2, <4>3, <5>1
        <5>2. CASE i # 1
          <6>1. i - 1 \in 1 .. Len(deadLetters') /\ deadLetters'[i - 1] = m
            BY <4>2, <4>3, <5>2
          <6>2. QED
            BY <6>1 DEF InDeadLetters
        <5>3. QED
          BY <5>1, <5>2
      <4>4. QED
        BY <4>3 DEF InDeadLetters
    <3>3. QED
      BY <3>1, <3>2
  <2>4. QED
    BY <1>1, <2>1, <2>2, <2>3, InTransitOther
<1>7. ASSUME ~ AddMessage(t), ~ RemoveMessage(t), ~ MoveUnlink(t), ~ MoveTestSize(t),
             ~ MoveAdd(t), ~ PopMessageDLQ(t)
      PROVE  InTransit(m)'
  <2>1. /\ UNCHANGED <<queues, deadLetters, sent, acked, drained, dropped>>
        /\ pc[t] \notin {"dlqSize", "dlqAdd"}
    BY <1>7, LedgerAlone
  <2>2. ~ InDeadLetters(m)
    BY <2>1 DEF InDeadLetters
  <2>3. QED
    BY <1>1, <2>1, <2>2, InTransitOther
<1>8. QED
  BY <1>2, <1>3, <1>4, <1>5, <1>6, <1>7

(* No accepted message vanishes: only ACK, a DLQ request and a full dead    *)
(* letter queue take one out of the service.                                *)
THEOREM NothingVanishes == Spec => []Conservation
<1>1. Init => Conservation
  BY DEF Init, Conservation
<1>2. TypeOK /\ Conservation /\ [Next]_vars => Conservation'
  <2>1. ASSUME Tick \/ UNCHANGED vars, Conservation PROVE Conservation'
    BY <2>1 DEF Tick, vars, clients, locals, loop, Conservation, InTransit, InDeadLetters
  <2>2. QED
    BY <2>1, ConservationStep DEF Next
<1>3. QED
  BY <1>1, <1>2, TypeCorrect, PTL DEF Spec

-----------------------------------------------------------------------------
(* The dead letter queue's size, which moveMessageToDLQ tests like a SEND.  *)

Moving == {t \in Threads : At(t, "dlqAdd")}

DeadLettersWithin ==
  Len(deadLetters) + Cardinality(Moving) <= QueueSize + Cardinality(Threads) - 1

LEMMA MovingFinite ==
  /\ IsFiniteSet(Moving) /\ Cardinality(Moving) \in Nat
  /\ Cardinality(Threads) \in Nat /\ Cardinality(Threads) # 0
<1>1. Moving \subseteq Threads
  BY DEF Moving
<1>2. QED
  BY <1>1, ConstantsAssumption, FS_Subset, FS_CardinalityType, FS_EmptySet

LEMMA DeadLettersStep ==
  ASSUME TypeOK, DeadLettersWithin, NEW t \in Threads, Request(t) \/ Step(t)
  PROVE  DeadLettersWithin'
<1>1. Len(deadLetters) \in Nat /\ QueueSize \in Nat
  BY ConstantsAssumption DEF TypeOK, SharedTypeOK
<1>2. \A u \in Threads : u # t => pc'[u] = pc[u]
  BY OwnThread
<1> USE <1>1, <1>2, MovingFinite DEF DeadLettersWithin
<1>3. ASSUME MoveTestSize(t), pc'[t] = "dlqAdd" PROVE DeadLettersWithin'
  <2>1. Moving' = Moving \union {t} /\ t \notin Moving /\ Moving' \subseteq Threads
    BY <1>3 DEF MoveTestSize, Moving, At
  <2>2. Cardinality(Moving') = Cardinality(Moving) + 1
    BY <2>1, FS_AddElement
  <2>3. Cardinality(Moving') <= Cardinality(Threads)
    BY <2>1, ConstantsAssumption, FS_Subset
  <2>4. deadLetters' = deadLetters /\ Len(deadLetters) < QueueSize
    BY <1>3 DEF MoveTestSize, DeadLettersHaveRoom, Goto, TypeOK, ThreadTypeOK
  <2>5. QED
    BY <2>2, <2>3, <2>4
<1>4. ASSUME MoveAdd(t) PROVE DeadLettersWithin'
  <2>1. Moving' = Moving \ {t} /\ t \in Moving
    BY <1>4 DEF MoveAdd, Goto, Moving, At, TypeOK, ThreadTypeOK
  <2>2. Cardinality(Moving') = Cardinality(Moving) - 1
    BY <2>1, FS_RemoveElement
  <2>3. Len(deadLetters') = Len(deadLetters) + 1
    BY <1>4 DEF MoveAdd, TypeOK, SharedTypeOK
  <2>4. QED
    BY <2>2, <2>3
<1>5. ASSUME ~ MoveAdd(t), ~ (MoveTestSize(t) /\ pc'[t] = "dlqAdd")
      PROVE  DeadLettersWithin'
  <2>1. pc[t] # "dlqAdd" /\ pc'[t] # "dlqAdd"
    BY <1>5, LedgerAlone
    DEF AddMessage, RemoveMessage, MoveUnlink, MoveTestSize, PopMessageDLQ, Answer, Goto,
        StartCleansing, Scan, At, TypeOK, ThreadTypeOK
  <2>2. Moving' = Moving
    BY <2>1 DEF Moving, At
  <2>3. Len(deadLetters') \in Nat /\ Len(deadLetters') <= Len(deadLetters)
    <3>1. CASE PopMessageDLQ(t)
      BY <3>1 DEF PopMessageDLQ, TypeOK, SharedTypeOK
    <3>2. CASE ~ PopMessageDLQ(t)
      <4>1. deadLetters' = deadLetters
        BY <1>5, <3>2, LedgerAlone DEF AddMessage, RemoveMessage, MoveUnlink, MoveTestSize
      <4>2. QED
        BY <4>1
    <3>3. QED
      BY <3>1, <3>2
  <2>4. QED
    BY <2>2, <2>3
<1>6. QED
  BY <1>3, <1>4, <1>5

(* The dead letter queue exceeds QueueSize by less than the number of       *)
(* threads, however many of them move a message at the same time.           *)
THEOREM DeadLettersBounded == Spec => []BoundedDeadLetters
<1>1. Init => DeadLettersWithin
  <2>1. ASSUME Init PROVE Cardinality(Moving) = 0 /\ Len(deadLetters) = 0
    <3>1. Moving = {}
      BY <2>1 DEF Init, Moving, At
    <3>2. QED
      BY <2>1, <3>1, FS_EmptySet DEF Init
  <2>2. QED
    BY <2>1, MovingFinite, ConstantsAssumption DEF DeadLettersWithin
<1>2. TypeOK /\ DeadLettersWithin /\ [Next]_vars => DeadLettersWithin'
  <2>1. ASSUME Tick \/ UNCHANGED vars, DeadLettersWithin PROVE DeadLettersWithin'
    BY <2>1 DEF Tick, vars, DeadLettersWithin, Moving, At
  <2>2. QED
    BY <2>1, DeadLettersStep DEF Next
<1>3. TypeOK /\ DeadLettersWithin => BoundedDeadLetters
  BY MovingFinite, ConstantsAssumption
  DEF DeadLettersWithin, BoundedDeadLetters, TypeOK, SharedTypeOK
<1>4. QED
  BY <1>1, <1>2, <1>3, TypeCorrect, PTL DEF Spec

-----------------------------------------------------------------------------
(* Who restores a message when there is no ProcessTimeout: no timer is ever *)
(* set, so no thread gets from the cleansing into restoreMessage.           *)

Restoring == {"restore", "read", "write", "timer", "show"}

Untimed(t) == /\ pc[t] \notin {"isTimeout", "arm"}
              /\ pc[t] \in Restoring => job[t] = "FAIL"

NoTimers ==
  ProcessTimeout = 0 => /\ \A m \in Messages : processTimeoutFrom[m] = 0
                        /\ \A t \in Threads : Untimed(t)

(* A request gets into restoreMessage only as a FAIL.                       *)
LEMMA UntimedRequest ==
  ASSUME TypeOK, NoTimers, ProcessTimeout = 0, NEW t \in Threads, Request(t)
  PROVE  Untimed(t)'
<1> USE DEF TypeOK, ThreadTypeOK, Untimed, Restoring, Goto, Scan, StartCleansing, Visit
<1>1. CASE HandleSend(t)
  BY <1>1 DEF HandleSend
<1>2. CASE HandleReceive(t) \/ HandleDLQ(t)
  BY <1>2 DEF HandleReceive, HandleDLQ
<1>3. CASE HandleAck(t) \/ HandleFail(t)
  BY <1>3 DEF HandleAck, HandleFail
<1> QED
  BY <1>1, <1>2, <1>3 DEF Request

LEMMA UntimedStep ==
  ASSUME TypeOK, NoTimers, ProcessTimeout = 0, NEW t \in Threads, Step(t)
  PROVE  Untimed(t)'
<1> USE DEF TypeOK, ThreadTypeOK, Untimed, Restoring, At, Goto, Scan, StartCleansing, Visit
<1>0. Untimed(t) /\ \A m \in Messages : processTimeoutFrom[m] = 0
  BY DEF NoTimers
<1>1. CASE AddMessage(t) \/ PopMessageDLQ(t) \/ SetProcessTimeoutFrom(t)
  BY <1>1 DEF AddMessage, PopMessageDLQ, SetProcessTimeoutFrom, Answer
<1>2. CASE RemoveFind(t) \/ RemoveMessage(t) \/ WakeUp(t)
  BY <1>2 DEF RemoveFind, RemoveMessage, WakeUp
<1>3. CASE RestoreFind(t) \/ ReadFailures(t) \/ WriteFailures(t) \/ ClearTimer(t) \/ Show(t)
  BY <1>0, <1>3 DEF RestoreFind, RestoreReturns, ReadFailures, WriteFailures, ClearTimer, Show,
                    locals
<1>4. CASE ProcessTimeoutMessages(t)
  <2>1. \A m \in ahead[t] : ~ TimerIsSet(m)
    BY <1>0, AheadType, ConstantsAssumption DEF TimerIsSet, SharedTypeOK, Messages
  <2> QED
    BY <1>4, <2>1 DEF ProcessTimeoutMessages
<1>5. CASE TestTimeout(t)
  BY <1>0, <1>5 DEF TestTimeout
<1>6. CASE ProcessOverFailedMessages(t)
  BY <1>6 DEF ProcessOverFailedMessages, AfterCleansing, Answer
<1>7. CASE MoveUnlink(t) \/ MoveTestSize(t) \/ MoveAdd(t)
  BY <1>7 DEF MoveUnlink, MoveTestSize, MoveAdd, locals
<1>8. CASE PopMessage(t) \/ PopTestTimeout(t)
  BY <1>8 DEF PopMessage, PopTestTimeout, NoMessage, Answer
<1>9. CASE Take(t)
  BY <1>9 DEF Take, Answer
<1> QED
  BY <1>1, <1>2, <1>3, <1>4, <1>5, <1>6, <1>7, <1>8, <1>9 DEF Step

(* A step changes the job of no other thread.                               *)
LEMMA OwnJob ==
  ASSUME TypeOK, NEW t \in Threads, Request(t) \/ Step(t), NEW u \in Threads, u # t
  PROVE  job'[u] = job[u]
<1> USE DEF TypeOK, ThreadTypeOK, Answer, locals
<1>1. CASE Request(t)
  BY <1>1 DEF Request, HandleSend, HandleReceive, HandleDLQ, HandleAck, HandleFail
<1>2. CASE \/ AddMessage(t) \/ RemoveFind(t) \/ RemoveMessage(t) \/ RestoreFind(t)
           \/ ReadFailures(t) \/ WriteFailures(t) \/ ClearTimer(t) \/ Show(t)
  BY <1>2 DEF AddMessage, RemoveFind, RemoveMessage, RestoreFind, ReadFailures,
              WriteFailures, ClearTimer, Show
<1>3. CASE \/ ProcessTimeoutMessages(t) \/ TestTimeout(t)
           \/ ProcessOverFailedMessages(t) \/ MoveUnlink(t) \/ MoveTestSize(t) \/ MoveAdd(t)
  BY <1>3 DEF ProcessTimeoutMessages, TestTimeout, ProcessOverFailedMessages,
              AfterCleansing, MoveUnlink, MoveTestSize, MoveAdd
<1>4. CASE \/ PopMessageDLQ(t) \/ PopMessage(t) \/ PopTestTimeout(t) \/ Take(t)
           \/ SetProcessTimeoutFrom(t) \/ WakeUp(t)
  BY <1>4 DEF PopMessageDLQ, PopMessage, NoMessage, PopTestTimeout, Take,
              SetProcessTimeoutFrom, WakeUp
<1> QED
  BY <1>1, <1>2, <1>3, <1>4 DEF Step

(* Timers are only cleared: to set one takes a thread that is to arm it.    *)
LEMMA TimersStep ==
  ASSUME TypeOK, NoTimers, ProcessTimeout = 0, NEW t \in Threads, Request(t) \/ Step(t)
  PROVE  \A m \in Messages : processTimeoutFrom'[m] = 0
<1>1. \A m \in Messages : processTimeoutFrom[m] = 0
  BY DEF NoTimers
<1>2. ~ SetProcessTimeoutFrom(t)
  BY DEF NoTimers, Untimed, SetProcessTimeoutFrom, At
<1>3. CASE ClearTimer(t)
  BY <1>1, <1>3 DEF ClearTimer, TypeOK, FieldTypeOK
<1>4. CASE AddMessage(t) \/ Show(t) \/ Take(t)
  BY <1>1, <1>4 DEF AddMessage, Show, Take, fields
<1> QED
  BY <1>1, <1>2, <1>3, <1>4, FieldsAlone

(* A step that shows a message is the last one of restoreMessage.           *)
LEMMA ShowStep ==
  ASSUME TypeOK, NEW t \in Threads, Request(t) \/ Step(t),
         NEW m \in Messages, ~ isVisible[m], isVisible'[m]
  PROVE  cur[t] = m /\ At(t, "show")
<1>1. CASE AddMessage(t) \/ ClearTimer(t) \/ SetProcessTimeoutFrom(t)
  BY <1>1 DEF AddMessage, ClearTimer, SetProcessTimeoutFrom, fields
<1>2. CASE Take(t)
  BY <1>2 DEF Take, TypeOK, FieldTypeOK
<1>3. CASE Show(t)
  BY <1>3 DEF Show, TypeOK, FieldTypeOK
<1> QED
  BY <1>1, <1>2, <1>3, FieldsAlone

(* Without a ProcessTimeout a message that was handed out stays hidden      *)
(* until a FAIL restores it, whatever the other handlers cleanse.           *)
THEOREM HiddenUntilFail == Spec => OnlyFailRestores
<1>1. Init => NoTimers
  BY DEF Init, NoTimers, Untimed, Restoring
<1>2. TypeOK /\ NoTimers /\ [Next]_vars => NoTimers'
  <2>1. ASSUME Tick \/ UNCHANGED vars, NoTimers PROVE NoTimers'
    BY <2>1 DEF Tick, vars, fields, locals, NoTimers, Untimed
  <2>2. ASSUME TypeOK, NoTimers, NEW t \in Threads, Request(t) \/ Step(t) PROVE NoTimers'
    <3> SUFFICES ASSUME ProcessTimeout = 0
                 PROVE  /\ \A m \in Messages : processTimeoutFrom'[m] = 0
                        /\ \A u \in Threads : Untimed(u)'
      BY DEF NoTimers
    <3>1. \A m \in Messages : processTimeoutFrom'[m] = 0
      BY <2>2, TimersStep
    <3>2. Untimed(t)'
      BY <2>2, UntimedRequest, UntimedStep
    <3>3. ASSUME NEW u \in Threads, u # t PROVE Untimed(u)'
      <4>1. pc'[u] = pc[u] /\ job'[u] = job[u]
        BY <2>2, <3>3, OwnThread, OwnJob
      <4> QED
        BY <2>2, <4>1 DEF NoTimers, Untimed
    <3> QED
      BY <3>1, <3>2, <3>3
  <2> QED
    BY <2>1, <2>2 DEF Next
<1>3. TypeOK /\ NoTimers /\ [Next]_vars =>
        [\A m \in Messages :
           ProcessTimeout = 0 /\ ~ isVisible[m] /\ isVisible'[m] =>
             \E t \in Threads : cur[t] = m /\ At(t, "show") /\ job[t] = "FAIL"]_isVisible
  <2> SUFFICES ASSUME TypeOK, NoTimers, [Next]_vars, NEW m \in Messages,
                      ProcessTimeout = 0, ~ isVisible[m], isVisible'[m]
               PROVE  \E t \in Threads : cur[t] = m /\ At(t, "show") /\ job[t] = "FAIL"
    OBVIOUS
  <2>1. PICK t \in Threads : Request(t) \/ Step(t)
    BY DEF Next, Tick, vars, fields
  <2>2. cur[t] = m /\ At(t, "show")
    BY <2>1, ShowStep
  <2> QED
    BY <2>2 DEF NoTimers, Untimed, Restoring, At
<1> QED
  BY <1>1, <1>2, <1>3, TypeCorrect, PTL DEF Spec, OnlyFailRestores

=============================================================================
