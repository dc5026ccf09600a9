---------------------------- MODULE MemoryQueueProofs ----------------------------
(***************************************************************************)
(* The leases and the deques of MemoryQueueService, for any number of      *)
(* threads, timeout and times.                                             *)
(***************************************************************************)
EXTENDS MemoryQueue, FiniteSetTheorems, TLAPS

-----------------------------------------------------------------------------
(* What a thread has read is there when it needs it, and no time it has    *)
(* read lies ahead.                                                        *)
ThreadSound(t) ==
  /\ pc[t] \in {"add", "find", "remove"} => deque[t] # 0
  /\ pc[t] \in {"put", "add", "remove"} \union Pulling => msg[t] # 0
  /\ pc[t] \in {"find", "identify", "clock"} => at[t] <= now
  /\ pc[t] \in {"clock", "hide", "answer"} => msgId[msg[t]] # 0
  /\ pc[t] \in {"hide", "answer"} => at[t] # 0

(* A message that two pulls never had in hand at once is in hand of one    *)
(* thread, and hidden for as long as that is about to answer.              *)
Has(t, m) == pc[t] \in Pulling /\ msg[t] = m

HandsApart ==
  \A t, u \in Threads : \A m \in Messages \ shared : Has(t, m) /\ Has(u, m) => t = u

HiddenAsAnswered ==
  \A t \in Threads :
    pc[t] = "answer" /\ msg[t] \notin shared => at[t] <= visibleFrom[msg[t]]

(* Its message stays hidden until a lease is over; who has the message in  *)
(* hand then has found it after that, draws a later identifier and hides   *)
(* it for longer.                                                          *)
Succeeds(t, l) ==
  /\ pc[t] \in {"identify", "clock"} => l.until < at[t]
  /\ pc[t] \in {"clock", "hide", "answer"} => l.id < msgId[l.msg]
  /\ pc[t] \in {"hide", "answer"} => l.until + Timeout < at[t]

LeaseSound(l) ==
  /\ l.id <= pulls
  /\ l.msg \notin shared => l.until <= visibleFrom[l.msg]
  /\ l.msg \notin shared => \A t \in Threads : Has(t, l.msg) => Succeeds(t, l)

(* Threads that are to put a deque looked for one before there was any.    *)
Putting == {t \in Threads : At(t, "put")}

DequesSound ==
  /\ current = 0 => Len(deques) = 0
  /\ Len(deques) + Cardinality(Putting) <= Cardinality(Threads)

Leases ==
  /\ \A t \in Threads : ThreadSound(t)
  /\ HandsApart /\ HiddenAsAnswered
  /\ \A l \in leases : LeaseSound(l)

Inv == TypeOK /\ Leases /\ LeaseKept

-----------------------------------------------------------------------------
(* Types.                                                                  *)

LEMMA DequeTypes ==
  ASSUME TypeOK
  PROVE  /\ Len(deques) \in Nat /\ current \in 0 .. Len(deques)
         /\ \A i \in 1 .. Len(deques) :
              /\ deques[i] \in Seq(Messages)
              /\ \A k \in DOMAIN deques[i] : deques[i][k] \in Messages
              /\ \A q \in Seq(Messages) :
                   LET changed == [deques EXCEPT ![i] = q]
                   IN  changed \in Seq(Seq(Messages)) /\ Len(changed) = Len(deques)
         /\ Append(deques, <<>>) \in Seq(Seq(Messages))
         /\ Len(Append(deques, <<>>)) = Len(deques) + 1
<1> DEFINE S == Seq(Messages)
<1>1. deques \in Seq(S) /\ current \in 0 .. Len(deques) /\ <<>> \in S
  BY DEF TypeOK
<1>2. \A q \in S : \A k \in DOMAIN q : q[k] \in Messages
  OBVIOUS
<1> HIDE DEF S
<1>3. Len(deques) \in Nat /\ \A i \in 1 .. Len(deques) : deques[i] \in S
  BY <1>1
<1>4. Append(deques, <<>>) \in Seq(S) /\ Len(Append(deques, <<>>)) = Len(deques) + 1
  BY <1>1
<1>5. ASSUME NEW i \in 1 .. Len(deques), NEW q \in S
      PROVE  /\ [deques EXCEPT ![i] = q] \in Seq(S)
             /\ Len([deques EXCEPT ![i] = q]) = Len(deques)
  BY <1>1, <1>5
<1> QED
  BY <1>1, <1>2, <1>3, <1>4, <1>5 DEF S

(* add appends a message, and it.remove() takes one out.                   *)
LEMMA QueueTypes ==
  ASSUME NEW S, NEW q \in Seq(S)
  PROVE  /\ \A x \in S : Append(q, x) \in Seq(S)
         /\ \A k \in DOMAIN q : RemoveAt(q, k) \in Seq(S)
<1>1. ASSUME NEW k \in DOMAIN q PROVE RemoveAt(q, k) \in Seq(S)
  <2>1. k \in 1 .. Len(q) /\ Len(q) \in Nat
    OBVIOUS
  <2>2. SubSeq(q, 1, k - 1) \in Seq(S) /\ SubSeq(q, k + 1, Len(q)) \in Seq(S)
    BY <2>1
  <2> QED
    BY <2>2 DEF RemoveAt
<1> QED
  BY <1>1

LEMMA ThreadTypes ==
  ASSUME MemoryAssumption, TypeOK, NEW t \in Threads
  PROVE  /\ pc[t] \in Labels /\ deque[t] \in 0 .. Len(deques) /\ Len(deques) \in Nat
         /\ msg[t] \in 0 .. MaxPushes /\ at[t] \in Nat /\ at[t] <= MaxTime + Timeout
         /\ msg[t] # 0 => msg[t] \in Messages
         /\ now \in Nat /\ now >= 1 /\ now <= MaxTime /\ Timeout \in Nat /\ MaxTime \in Nat
         /\ MaxPushes \in Nat /\ MaxPulls \in Nat
         /\ pulls \in Nat /\ pulls <= MaxPulls /\ pushes \in Nat /\ pushes <= MaxPushes
         /\ \A m \in Messages : visibleFrom[m] \in Nat /\ msgId[m] \in Nat /\ msgId[m] <= pulls
         /\ \A l \in leases : l.msg \in Messages /\ l.id \in Nat /\ l.until \in Nat
<1>1. /\ pc[t] \in Labels /\ deque[t] \in 0 .. Len(deques) /\ Len(deques) \in Nat
      /\ msg[t] \in 0 .. MaxPushes
  BY DequeTypes DEF TypeOK
<1>2. /\ MaxPushes \in Nat /\ MaxPulls \in Nat /\ Timeout \in Nat /\ MaxTime \in Nat
      /\ now \in 1 .. MaxTime /\ pulls \in 0 .. MaxPulls /\ pushes \in 0 .. MaxPushes
  BY DEF TypeOK, MemoryAssumption
<1>3. at[t] \in 0 .. MaxTime + Timeout
  BY DEF TypeOK
<1>4. \A m \in Messages : visibleFrom[m] \in 0 .. MaxTime + Timeout /\ msgId[m] \in 0 .. pulls
  BY DEF TypeOK
<1>5. \A l \in leases : /\ l.msg \in Messages /\ l.id \in 1 .. MaxPulls
                        /\ l.until \in 1 .. MaxTime + Timeout
  BY DEF TypeOK
<1>6. msg[t] # 0 => msg[t] \in Messages
  BY <1>1, <1>2 DEF Messages
<1>7. \A m \in Messages : visibleFrom[m] \in Nat /\ msgId[m] \in Nat /\ msgId[m] <= pulls
  BY <1>2, <1>4
<1>8. \A l \in leases : l.msg \in Messages /\ l.id \in Nat /\ l.until \in Nat
  BY <1>5
<1> QED
  BY <1>1, <1>2, <1>3, <1>6, <1>7, <1>8

-----------------------------------------------------------------------------
(* What a step does to the threads.                                        *)

LEMMA Lands ==
  ASSUME TypeOK, NEW t \in Threads, NEW label \in Labels, Goto(t, label)
  PROVE  /\ pc' \in [Threads -> Labels] /\ pc'[t] = label
         /\ \A u \in Threads : u # t => pc'[u] = pc[u]
  BY DEF Goto, TypeOK

LEMMA ReturnLands ==
  ASSUME TypeOK, NEW t \in Threads, Return(t)
  PROVE  /\ pc' \in [Threads -> Labels] /\ pc'[t] = "idle"
         /\ deque'[t] = 0 /\ msg'[t] = 0 /\ at'[t] = 0
  BY Lands DEF Return, Labels, TypeOK

LEMMA Others ==
  ASSUME TypeOK, NEW t \in Threads, Step(t), NEW u \in Threads, u # t
  PROVE  pc'[u] = pc[u] /\ deque'[u] = deque[u] /\ msg'[u] = msg[u] /\ at'[u] = at[u]
  BY DEF Step, Push, PutDeque, Add, Pull, Find, SetMsgId, ReadClock, SetVisibleFrom,
         AnswerPull, Delete, RemoveMessage, Return, Goto, TypeOK, data, history

-----------------------------------------------------------------------------
(* Types are kept.                                                         *)

LEMMA DequesStep ==
  ASSUME MemoryAssumption, TypeOK, Leases, NEW t \in Threads, Step(t)
  PROVE  /\ deques' \in Seq(Seq(Messages)) /\ current' \in 0 .. Len(deques')
         /\ Len(deques') \in Nat /\ Len(deques) <= Len(deques')
<1>1. Len(deques) \in Nat /\ current \in 0 .. Len(deques) /\ deques \in Seq(Seq(Messages))
  BY DequeTypes DEF TypeOK
<1>2. CASE UNCHANGED <<deques, current>>
  BY <1>1, <1>2
<1>3. CASE PutDeque(t)
  <2>1. deques' = Append(deques, <<>>) /\ current' = Len(deques')
    BY <1>3 DEF PutDeque
  <2> QED
    BY <1>1, <2>1, DequeTypes
<1>4. CASE Add(t)
  <2>1. /\ deque[t] \in 1 .. Len(deques) /\ msg[t] \in Messages
        /\ deques' = [deques EXCEPT ![deque[t]] = Append(@, msg[t])] /\ current' = current
    BY <1>4, ThreadTypes DEF Add, At, Leases, ThreadSound
  <2>2. Append(deques[deque[t]], msg[t]) \in Seq(Messages)
    BY <2>1, DequeTypes, QueueTypes
  <2>3. deques' \in Seq(Seq(Messages)) /\ Len(deques') = Len(deques)
    BY <2>1, <2>2, DequeTypes
  <2> QED
    BY <1>1, <2>1, <2>3
<1>5. CASE RemoveMessage(t) /\ deques' # deques
  <2>1. PICK k \in DOMAIN deques[deque[t]] :
             deques' = [deques EXCEPT ![deque[t]] = RemoveAt(@, k)]
    BY <1>5 DEF RemoveMessage
  <2>2. deque[t] \in 1 .. Len(deques) /\ current' = current
    BY <1>5, ThreadTypes DEF RemoveMessage, At, Leases, ThreadSound
  <2>3. RemoveAt(deques[deque[t]], k) \in Seq(Messages)
    BY <2>1, <2>2, DequeTypes, QueueTypes
  <2>4. deques' \in Seq(Seq(Messages)) /\ Len(deques') = Len(deques)
    BY <2>1, <2>2, <2>3, DequeTypes
  <2> QED
    BY <1>1, <2>2, <2>4
<1>6. \/ UNCHANGED <<deques, current>> \/ PutDeque(t) \/ Add(t)
      \/ RemoveMessage(t) /\ deques' # deques
  BY DEF Step, Push, Pull, Find, SetMsgId, ReadClock, SetVisibleFrom,
         AnswerPull, Delete, RemoveMessage, data
<1> QED
  BY <1>2, <1>3, <1>4, <1>5, <1>6

(* The message a pull finds, or a delete, is one.                          *)
LEMMA FoundType ==
  ASSUME MemoryAssumption, TypeOK, Leases, NEW t \in Threads, At(t, "find"),
         NEW k \in DOMAIN deques[deque[t]]
  PROVE  deques[deque[t]][k] \in Messages
<1>1. deque[t] \in 1 .. Len(deques)
  BY ThreadTypes DEF At, Leases, ThreadSound
<1> QED
  BY <1>1, DequeTypes

LEMMA LocalsStep ==
  ASSUME MemoryAssumption, TypeOK, Leases, NEW t \in Threads, Step(t)
  PROVE  /\ pc' \in [Threads -> Labels]
         /\ deque' \in [Threads -> 0 .. Len(deques')]
         /\ msg' \in [Threads -> 0 .. MaxPushes]
<1> USE DEF Step, Push, PutDeque, Add, Pull, Find, SetMsgId, ReadClock, SetVisibleFrom,
            AnswerPull, Delete, RemoveMessage, Return, data, history
<1>1. \E label \in Labels : Goto(t, label)
  BY DEF Labels, Pulling
<1>2. \E d \in {deque[t], 0, current, current'} : deque' = [deque EXCEPT ![t] = d]
  BY DEF TypeOK
<1>3. /\ Len(deques) \in Nat /\ Len(deques') \in Nat /\ Len(deques) <= Len(deques')
      /\ current \in 0 .. Len(deques) /\ current' \in 0 .. Len(deques')
      /\ deque \in [Threads -> 0 .. Len(deques)]
  BY DequesStep DEF TypeOK
<1>4. deque' \in [Threads -> 0 .. Len(deques')]
  <2> HIDE DEF Step
  <2>1. PICK d \in {deque[t], 0, current, current'} : deque' = [deque EXCEPT ![t] = d]
    BY <1>2
  <2>2. d \in 0 .. Len(deques') /\ \A u \in Threads : deque[u] \in 0 .. Len(deques')
    BY <1>3, <2>1
  <2> QED
    BY <1>3, <2>1, <2>2
<1>5. \E m \in 0 .. MaxPushes : msg' = [msg EXCEPT ![t] = m]
  <2>1. CASE Push(t)
    <3>1. pushes < MaxPushes /\ pushes' = pushes + 1 /\ msg' = [msg EXCEPT ![t] = pushes']
      BY <2>1
    <3>2. pushes + 1 \in 0 .. MaxPushes
      BY <3>1, ThreadTypes
    <3> QED
      BY <3>1, <3>2
  <2>2. CASE Find(t)
    <3>1. ASSUME NEW k \in DOMAIN deques[deque[t]],
                 msg' = [msg EXCEPT ![t] = deques[deque[t]][k]]
          PROVE  \E m \in 0 .. MaxPushes : msg' = [msg EXCEPT ![t] = m]
      <4>1. deques[deque[t]][k] \in 0 .. MaxPushes
        BY <2>2, FoundType DEF Messages
      <4> QED
        BY <3>1, <4>1
    <3>2. 0 \in 0 .. MaxPushes
      BY DEF MemoryAssumption
    <3> QED
      BY <2>2, <3>1, <3>2
  <2>3. CASE Delete(t)
    <3>1. current \in 1 .. Len(deques)
      BY <1>3, <2>3
    <3>2. PICK k \in DOMAIN deques[current] : msg' = [msg EXCEPT ![t] = deques[current][k]]
      BY <2>3
    <3>3. deques[current][k] \in 0 .. MaxPushes
      BY <3>1, DequeTypes DEF Messages
    <3> QED
      BY <3>2, <3>3
  <2>4. CASE ~ (Push(t) \/ Find(t) \/ Delete(t))
    <3>1. msg' = msg \/ msg' = [msg EXCEPT ![t] = 0]
      BY <2>4
    <3>2. msg[t] \in 0 .. MaxPushes /\ 0 \in 0 .. MaxPushes /\ msg = [msg EXCEPT ![t] = msg[t]]
      BY DEF TypeOK, MemoryAssumption
    <3> QED
      BY <3>1, <3>2
  <2> QED
    BY <2>1, <2>2, <2>3, <2>4
<1>6. msg' \in [Threads -> 0 .. MaxPushes]
  <2> HIDE DEF Step
  <2> QED
    BY <1>5 DEF TypeOK
<1>7. pc' \in [Threads -> Labels]
  BY <1>1, Lands
<1> QED
  BY <1>4, <1>6, <1>7

LEMMA TimesStep ==
  ASSUME MemoryAssumption, TypeOK, Leases, NEW t \in Threads, Step(t)
  PROVE  /\ at' \in [Threads -> 0 .. MaxTime + Timeout]
         /\ visibleFrom' \in [Messages -> 0 .. MaxTime + Timeout]
         /\ now' = now
         /\ pulls' \in 0 .. MaxPulls /\ pushes' \in 0 .. MaxPushes
         /\ msgId' \in [Messages -> 0 .. pulls']
<1> USE DEF Step, Push, PutDeque, Add, Pull, Find, SetMsgId, ReadClock, SetVisibleFrom,
            AnswerPull, Delete, RemoveMessage, Return, data, history
<1>1. at' = at \/ \E d \in {0, now, now + Timeout} : at' = [at EXCEPT ![t] = d]
  OBVIOUS
<1>2. visibleFrom' = visibleFrom \/ visibleFrom' = [visibleFrom EXCEPT ![msg[t]] = at[t]]
  OBVIOUS
<1>3. now' = now
  OBVIOUS
<1>4. pushes' = pushes \/ (pushes < MaxPushes /\ pushes' = pushes + 1)
  OBVIOUS
<1>5. \/ UNCHANGED <<msgId, pulls>>
      \/ /\ pulls < MaxPulls /\ pulls' = pulls + 1
         /\ msgId' = [msgId EXCEPT ![msg[t]] = pulls']
  OBVIOUS
<1> HIDE DEF Step
<1>6. /\ {0, now, now + Timeout} \subseteq 0 .. MaxTime + Timeout
      /\ at[t] \in 0 .. MaxTime + Timeout
  BY DEF TypeOK, MemoryAssumption
<1>7. at' \in [Threads -> 0 .. MaxTime + Timeout]
  BY <1>1, <1>6 DEF TypeOK
<1>8. visibleFrom' \in [Messages -> 0 .. MaxTime + Timeout]
  BY <1>2, <1>6 DEF TypeOK
<1>9. pulls' \in 0 .. MaxPulls /\ pushes' \in 0 .. MaxPushes
  BY <1>4, <1>5 DEF TypeOK, MemoryAssumption
<1>10. msgId' \in [Messages -> 0 .. pulls']
  <2>1. msgId \in [Messages -> 0 .. pulls] /\ pulls \in Nat /\ pulls' \in Nat /\ pulls <= pulls'
    BY <1>5 DEF TypeOK
  <2>2. \A m \in Messages : msgId[m] \in 0 .. pulls'
    BY <2>1
  <2>3. pulls' \in 0 .. pulls'
    BY <2>1
  <2> QED
    BY <1>5, <2>1, <2>2, <2>3
<1> QED
  BY <1>3, <1>7, <1>8, <1>9, <1>10

LEMMA HistoryStep ==
  ASSUME MemoryAssumption, TypeOK, Leases, NEW t \in Threads, Step(t)
  PROVE  /\ leases' \subseteq [msg : Messages, id : 1 .. MaxPulls, until : 1 .. MaxTime + Timeout]
         /\ shared' \subseteq Messages
<1>1. CASE AnswerPull(t)
  <2>1. msg[t] \in Messages /\ msgId[msg[t]] # 0 /\ at[t] # 0
    BY <1>1, ThreadTypes DEF AnswerPull, At, Leases, ThreadSound, Pulling
  <2>2. msgId[msg[t]] \in 1 .. MaxPulls
    <3>1. /\ msgId[msg[t]] \in Nat /\ msgId[msg[t]] <= pulls
          /\ pulls \in Nat /\ pulls <= MaxPulls /\ MaxPulls \in Nat
      BY <2>1, ThreadTypes
    <3> QED
      BY <2>1, <3>1
  <2>3. at[t] \in 1 .. MaxTime + Timeout
    <3>1. at[t] \in Nat /\ at[t] <= MaxTime + Timeout /\ MaxTime \in Nat /\ Timeout \in Nat
      BY ThreadTypes
    <3> QED
      BY <2>1, <3>1
  <2> QED
    BY <1>1, <2>1, <2>2, <2>3 DEF AnswerPull, TypeOK
<1>2. CASE Find(t)
  <2>1. leases' = leases
    BY <1>2 DEF Find, history
  <2>2. shared' = shared \/ \E k \in DOMAIN deques[deque[t]] :
                                shared' = shared \union {deques[deque[t]][k]}
    BY <1>2 DEF Find, history
  <2>3. \A k \in DOMAIN deques[deque[t]] : deques[deque[t]][k] \in Messages
    BY <1>2, FoundType DEF Find
  <2> QED
    BY <2>1, <2>2, <2>3 DEF TypeOK
<1>3. CASE ~ (AnswerPull(t) \/ Find(t))
  BY <1>3 DEF TypeOK, Step, Push, PutDeque, Add, Pull, SetMsgId, ReadClock, SetVisibleFrom,
              Delete, RemoveMessage, history
<1> QED
  BY <1>1, <1>2, <1>3

LEMMA TypeStep ==
  ASSUME MemoryAssumption, TypeOK, Leases, [Next]_vars
  PROVE  TypeOK'
<1>1. ASSUME NEW t \in Threads, Step(t) PROVE TypeOK'
  <2>1. now' \in 1 .. MaxTime
    BY <1>1, TimesStep DEF TypeOK
  <2> QED
    BY <1>1, <2>1, DequesStep, LocalsStep, TimesStep, HistoryStep DEF TypeOK
<1>2. CASE Tick
  <2>1. now' \in 1 .. MaxTime
    BY <1>2 DEF Tick, TypeOK, MemoryAssumption
  <2> QED
    BY <1>2, <2>1 DEF Tick, TypeOK, data, threads, history
<1>3. CASE UNCHANGED vars
  BY <1>3 DEF vars, TypeOK, data, threads, history
<1> QED
  BY <1>1, <1>2, <1>3 DEF Next

-----------------------------------------------------------------------------
(* What threads have read.                                                 *)

LEMMA OtherSound ==
  ASSUME MemoryAssumption, TypeOK, Leases, NEW t \in Threads, Step(t),
         NEW u \in Threads, u # t
  PROVE  ThreadSound(u)'
<1>1. pc'[u] = pc[u] /\ deque'[u] = deque[u] /\ msg'[u] = msg[u] /\ at'[u] = at[u]
  BY Others
<1>2. now' = now
  BY TimesStep
<1>3. ASSUME msg[u] \in Messages, msgId[msg[u]] # 0 PROVE msgId'[msg[u]] # 0
  <2>1. CASE SetMsgId(t)
    <3>1. msgId' = [msgId EXCEPT ![msg[t]] = pulls + 1] /\ pulls \in Nat /\ pulls + 1 # 0
      BY <2>1, ThreadTypes DEF SetMsgId
    <3> QED
      BY <1>3, <3>1 DEF TypeOK
  <2>2. CASE ~ SetMsgId(t)
    BY <1>3, <2>2 DEF Step, Push, PutDeque, Add, Pull, Find, ReadClock, SetVisibleFrom,
                AnswerPull, Delete, RemoveMessage, data
  <2> QED
    BY <2>1, <2>2
<1>4. ThreadSound(u)
  BY DEF Leases
<1>5. pc[u] \in {"clock", "hide", "answer"} => msg[u] \in Messages
  BY <1>4, ThreadTypes DEF ThreadSound, Pulling
<1> QED
  BY <1>1, <1>2, <1>3, <1>4, <1>5 DEF ThreadSound

LEMMA OwnSound ==
  ASSUME MemoryAssumption, TypeOK, Leases, NEW t \in Threads, Step(t)
  PROVE  ThreadSound(t)'
<1> USE DEF Labels, Pulling
<1>1. ThreadSound(t) /\ now' = now
  BY TimesStep DEF Leases
<1>2. CASE Push(t)
  <2>1. /\ pc'[t] = IF current = 0 THEN "put" ELSE "add"
        /\ msg'[t] = pushes + 1 /\ deque'[t] = current
    BY <1>2, Lands DEF Push, TypeOK
  <2>2. pushes \in Nat
    BY ThreadTypes
  <2> QED
    BY <2>1, <2>2 DEF ThreadSound
<1>3. CASE PutDeque(t)
  <2>1. pc'[t] = "add" /\ msg' = msg /\ deque'[t] = Len(deques) + 1 /\ pc[t] = "put"
    BY <1>3, Lands, DequeTypes DEF PutDeque, TypeOK, At
  <2>2. Len(deques) + 1 # 0
    BY DequeTypes
  <2> QED
    BY <1>1, <2>1, <2>2 DEF ThreadSound
<1>4. CASE Return(t)
  BY <1>4, ReturnLands DEF ThreadSound
<1>5. CASE Pull(t)
  <2>1. pc'[t] = "find" /\ deque'[t] = current /\ current # 0 /\ at'[t] = now
    BY <1>5, Lands DEF Pull, TypeOK
  <2>2. now \in Nat
    BY ThreadTypes
  <2> QED
    BY <1>1, <2>1, <2>2 DEF ThreadSound
<1>6. CASE Find(t) /\ ~ Return(t)
  <2>1. PICK k \in DOMAIN deques[deque[t]] :
             msg' = [msg EXCEPT ![t] = deques[deque[t]][k]] /\ Goto(t, "identify") /\ at' = at
    BY <1>6 DEF Find
  <2>2. deques[deque[t]][k] \in Messages
    BY <1>6, FoundType DEF Find
  <2>3. msg'[t] # 0 /\ pc'[t] = "identify" /\ pc[t] = "find"
    BY <1>6, <2>1, <2>2, Lands DEF Find, At, TypeOK, Messages
  <2> QED
    BY <1>1, <2>1, <2>3 DEF ThreadSound
<1>7. CASE SetMsgId(t)
  <2>1. /\ pc[t] = "identify" /\ pc'[t] = "clock" /\ msg' = msg /\ at' = at
        /\ msgId' = [msgId EXCEPT ![msg[t]] = pulls + 1]
    BY <1>7, Lands DEF SetMsgId, At
  <2>2. msg[t] \in Messages
    BY <1>1, <2>1, ThreadTypes DEF ThreadSound
  <2>3. msgId'[msg[t]] # 0
    <3>1. pulls + 1 # 0
      BY ThreadTypes
    <3> QED
      BY <2>1, <2>2, <3>1 DEF TypeOK
  <2> QED
    BY <1>1, <2>1, <2>3 DEF ThreadSound
<1>8. CASE ReadClock(t)
  <2>1. pc[t] = "clock" /\ pc'[t] = "hide" /\ msg' = msg /\ msgId' = msgId
    BY <1>8, Lands DEF ReadClock, At, data
  <2>2. at'[t] = now + Timeout
    BY <1>8 DEF ReadClock, TypeOK
  <2>3. at'[t] # 0
    BY <2>2, ThreadTypes
  <2> QED
    BY <1>1, <2>1, <2>3 DEF ThreadSound
<1>9. CASE SetVisibleFrom(t)
  <2>1. /\ pc[t] = "hide" /\ pc'[t] = "answer" /\ msg' = msg /\ msgId' = msgId /\ at' = at
    BY <1>9, Lands DEF SetVisibleFrom, At
  <2> QED
    BY <1>1, <2>1 DEF ThreadSound
<1>10. CASE Delete(t)
  <2>1. PICK k \in DOMAIN deques[current] : msg' = [msg EXCEPT ![t] = deques[current][k]]
    BY <1>10 DEF Delete
  <2>2. current \in 1 .. Len(deques)
    BY <1>10, DequeTypes DEF Delete
  <2>3. msg'[t] \in Messages
    BY <2>1, <2>2, DequeTypes DEF TypeOK
  <2>4. pc'[t] = "remove"
    BY <1>10, Lands DEF Delete
  <2>5. deque'[t] = current
    BY <1>10 DEF Delete, TypeOK
  <2>6. msg'[t] # 0
    BY <2>3 DEF Messages
  <2> QED
    BY <1>1, <2>2, <2>4, <2>5, <2>6 DEF ThreadSound
<1> QED
  BY <1>2, <1>3, <1>4, <1>5, <1>6, <1>7, <1>8, <1>9, <1>10
     DEF Step, Add, AnswerPull, RemoveMessage

-----------------------------------------------------------------------------
(* Leases.                                                                 *)

LeasesSound == HandsApart /\ HiddenAsAnswered /\ (\A l \in leases : LeaseSound(l)) /\ LeaseKept

(* Nothing happens to them while no message passes from hand to hand.      *)
LEMMA LeasesStay ==
  ASSUME MemoryAssumption, TypeOK, LeasesSound,
         UNCHANGED <<visibleFrom, msgId, pulls, history>>,
         \A u \in Threads : pc'[u] \in Pulling =>
           pc'[u] = pc[u] /\ msg'[u] = msg[u] /\ at'[u] = at[u]
  PROVE  LeasesSound'
<1>1. \A u \in Threads : \A m : Has(u, m)' => Has(u, m)
  BY DEF Has
<1>2. HandsApart'
  BY <1>1 DEF LeasesSound, HandsApart, history, Messages
<1>3. HiddenAsAnswered'
  BY DEF LeasesSound, HiddenAsAnswered, history, Pulling
<1>4. ASSUME NEW l \in leases PROVE LeaseSound(l)'
  <2>1. LeaseSound(l)
    BY DEF LeasesSound
  <2>2. ASSUME NEW u \in Threads, Has(u, l.msg)', l.msg \notin shared PROVE Succeeds(u, l)'
    BY <1>1, <2>1, <2>2 DEF LeaseSound, Succeeds, Has
  <2> QED
    BY <2>1, <2>2 DEF LeaseSound, history
<1>5. LeaseKept'
  BY DEF LeasesSound, LeaseKept, history
<1> QED
  BY <1>2, <1>3, <1>4, <1>5 DEF LeasesSound, history

(* push, delete, and a pull before it has found a message or when there is *)
(* none.                                                                   *)
LEMMA OtherCalls ==
  ASSUME MemoryAssumption, TypeOK, LeasesSound, NEW t \in Threads,
         \/ Push(t) \/ PutDeque(t) \/ Add(t) \/ Pull(t) \/ Delete(t) \/ RemoveMessage(t)
         \/ (Find(t) /\ Return(t) /\ UNCHANGED history)
  PROVE  LeasesSound'
<1>1. UNCHANGED <<visibleFrom, msgId, pulls, history>>
  BY DEF Push, PutDeque, Add, Pull, Delete, RemoveMessage, Find, data
<1>2. \E label \in Labels \ Pulling : Goto(t, label)
  BY DEF Push, PutDeque, Add, Pull, Delete, RemoveMessage, Return, Labels, Pulling
<1>3. pc'[t] \notin Pulling
  BY <1>2, Lands
<1>4. \A u \in Threads : u # t => pc'[u] = pc[u] /\ msg'[u] = msg[u] /\ at'[u] = at[u]
  BY Others DEF Step
<1> QED
  BY <1>1, <1>3, <1>4, LeasesStay

(* A pull finds a message that is visible: every lease of it is over.      *)
LEMMA FindKeepsLeases ==
  ASSUME MemoryAssumption, TypeOK, Leases, LeasesSound, NEW t \in Threads,
         Find(t), ~ (Return(t) /\ UNCHANGED history)
  PROVE  LeasesSound'
<1>1. PICK k \in DOMAIN deques[deque[t]] :
        LET m == deques[deque[t]][k]
        IN  /\ isVisibleAt(m, at[t])
            /\ msg' = [msg EXCEPT ![t] = m]
            /\ shared' = IF InHand(m) THEN shared \union {m} ELSE shared
            /\ Goto(t, "identify") /\ at' = at /\ leases' = leases
  BY DEF Find
<1> DEFINE m == deques[deque[t]][k]
<1>2. /\ m \in Messages /\ pc'[t] = "identify" /\ msg'[t] = m
      /\ \A u \in Threads : u # t => pc'[u] = pc[u] /\ msg'[u] = msg[u]
  <2>1. m \in Messages
    BY FoundType DEF Find
  <2>2. pc'[t] = "identify" /\ \A u \in Threads : u # t => pc'[u] = pc[u]
    BY <1>1, Lands DEF Labels, Pulling
  <2> QED
    BY <1>1, <2>1, <2>2 DEF TypeOK
<1>3. /\ visibleFrom[m] < at[t] /\ at' = at /\ leases' = leases /\ shared \subseteq shared'
      /\ m \in shared' \/ ~ InHand(m)
      /\ UNCHANGED <<visibleFrom, msgId, pulls>>
  BY <1>1 DEF isVisibleAt, Find, data
<1> HIDE DEF m
<1>4. \A u \in Threads : \A x \in Messages \ shared' :
        Has(u, x)' => Has(u, x) \/ (u = t /\ x = m)
  BY <1>2 DEF Has
<1>5. \A u \in Threads : m \notin shared' => ~ Has(u, m)
  BY <1>3 DEF InHand, Has
<1>6. HandsApart'
  BY <1>3, <1>4, <1>5 DEF LeasesSound, HandsApart, Messages
<1>7. HiddenAsAnswered'
  BY <1>2, <1>3 DEF LeasesSound, HiddenAsAnswered
<1>8. ASSUME NEW l \in leases PROVE LeaseSound(l)'
  <2>1. LeaseSound(l) /\ l.msg \in Messages /\ l.until \in Nat
    BY ThreadTypes DEF LeasesSound
  <2>2. ASSUME NEW u \in Threads, Has(u, l.msg)', l.msg \notin shared' PROVE Succeeds(u, l)'
    <3>1. CASE u = t
      <4>1. l.msg = m
        BY <1>2, <2>2, <3>1 DEF Has
      <4>2. l.until <= visibleFrom[m] /\ visibleFrom[m] \in Nat /\ at[t] \in Nat
        BY <1>2, <1>3, <2>1, <2>2, <4>1, ThreadTypes DEF LeaseSound
      <4>3. l.until < at[t]
        BY <1>3, <2>1, <4>2
      <4> QED
        BY <1>2, <1>3, <3>1, <4>3 DEF Succeeds
    <3>2. CASE u # t
      <4>1. Has(u, l.msg) /\ l.msg \notin shared
        BY <1>2, <1>3, <2>2, <3>2 DEF Has
      <4> QED
        BY <1>2, <1>3, <2>1, <3>2, <4>1 DEF LeaseSound, Succeeds
    <3> QED
      BY <3>1, <3>2
  <2> QED
    BY <1>3, <2>1, <2>2 DEF LeaseSound
<1>9. LeaseKept'
  BY <1>3 DEF LeasesSound, LeaseKept
<1> QED
  BY <1>3, <1>6, <1>7, <1>8, <1>9 DEF LeasesSound

(* A pull that has its message stays alone with it.                        *)
LEMMA SameHands ==
  ASSUME TypeOK, LeasesSound, NEW t \in Threads, pc[t] \in Pulling, NEW label \in Pulling,
         Goto(t, label), UNCHANGED <<msg, shared>>
  PROVE  /\ \A u \in Threads : \A m : Has(u, m)' <=> Has(u, m)
         /\ HandsApart'
         /\ pc'[t] = label /\ \A u \in Threads : u # t => pc'[u] = pc[u]
         /\ \A u \in Threads : Has(u, msg[t]) /\ msg[t] \in Messages \ shared => u = t
<1>1. pc'[t] = label /\ \A u \in Threads : u # t => pc'[u] = pc[u]
  BY Lands DEF Labels, Pulling
<1>2. \A u \in Threads : \A m : Has(u, m)' <=> Has(u, m)
  BY <1>1 DEF Has
<1>3. HandsApart'
  BY <1>2 DEF LeasesSound, HandsApart, Messages
<1>4. \A u \in Threads : Has(u, msg[t]) /\ msg[t] \in Messages \ shared => u = t
  BY DEF LeasesSound, HandsApart, Has
<1> QED
  BY <1>1, <1>2, <1>3, <1>4

(* It draws an identifier above all that were drawn.                       *)
LEMMA IdKeepsLeases ==
  ASSUME MemoryAssumption, TypeOK, Leases, LeasesSound, NEW t \in Threads, SetMsgId(t)
  PROVE  LeasesSound'
<1>1. /\ pc[t] = "identify" /\ Goto(t, "clock") /\ UNCHANGED <<msg, at, shared, visibleFrom, leases>>
      /\ msgId' = [msgId EXCEPT ![msg[t]] = pulls + 1] /\ pulls' = pulls + 1
  BY DEF SetMsgId, At, history
<1>2. msg[t] \in Messages /\ pulls \in Nat
  BY <1>1, ThreadTypes DEF Leases, ThreadSound, Pulling
<1>3. /\ msgId'[msg[t]] = pulls + 1
      /\ \A m \in Messages : m # msg[t] => msgId'[m] = msgId[m]
  BY <1>1, <1>2 DEF TypeOK
<1>4. /\ \A u \in Threads : \A m : Has(u, m)' <=> Has(u, m)
      /\ HandsApart' /\ pc'[t] = "clock" /\ \A u \in Threads : u # t => pc'[u] = pc[u]
      /\ \A u \in Threads : Has(u, msg[t]) /\ msg[t] \in Messages \ shared => u = t
  BY <1>1, SameHands DEF Pulling
<1>5. HiddenAsAnswered'
  BY <1>1, <1>4 DEF LeasesSound, HiddenAsAnswered
<1>6. ASSUME NEW l \in leases PROVE LeaseSound(l)'
  <2>1. LeaseSound(l) /\ l.msg \in Messages /\ l.until \in Nat /\ l.id \in Nat
    BY ThreadTypes DEF LeasesSound
  <2>2. l.id <= pulls'
    BY <1>1, <1>2, <2>1 DEF LeaseSound
  <2>3. ASSUME NEW u \in Threads, Has(u, l.msg)', l.msg \notin shared PROVE Succeeds(u, l)'
    <3>1. Has(u, l.msg) /\ Succeeds(u, l)
      BY <1>4, <2>1, <2>3 DEF LeaseSound
    <3>2. CASE u = t
      <4>1. l.msg = msg[t] /\ l.until < at[t]
        BY <1>1, <3>1, <3>2 DEF Has, Succeeds
      <4>2. l.id < pulls + 1
        BY <1>2, <2>1 DEF LeaseSound
      <4> QED
        BY <1>1, <1>3, <1>4, <3>2, <4>1, <4>2 DEF Succeeds
    <3>3. CASE u # t
      <4>1. l.msg # msg[t]
        BY <1>2, <1>4, <2>3, <3>1, <3>3
      <4>2. msgId'[l.msg] = msgId[l.msg]
        BY <1>3, <2>1, <4>1
      <4> QED
        BY <1>1, <1>4, <3>1, <3>3, <4>2 DEF Succeeds
    <3> QED
      BY <3>2, <3>3
  <2> QED
    BY <1>1, <2>1, <2>2, <2>3 DEF LeaseSound
<1>7. LeaseKept'
  BY <1>1 DEF LeasesSound, LeaseKept
<1> QED
  BY <1>1, <1>4, <1>5, <1>6, <1>7 DEF LeasesSound

(* The time it reads is no earlier than the one it found the message at.   *)
LEMMA ClockKeepsLeases ==
  ASSUME MemoryAssumption, TypeOK, Leases, LeasesSound, NEW t \in Threads, ReadClock(t)
  PROVE  LeasesSound'
<1>1. /\ pc[t] = "clock" /\ Goto(t, "hide")
      /\ UNCHANGED <<msg, shared, visibleFrom, leases, msgId, pulls>>
      /\ at'[t] = now + Timeout /\ \A u \in Threads : u # t => at'[u] = at[u]
  BY DEF ReadClock, At, history, data, TypeOK
<1>2. at[t] <= now /\ at[t] \in Nat /\ now \in Nat /\ Timeout \in Nat
  BY <1>1, ThreadTypes DEF Leases, ThreadSound
<1>3. /\ \A u \in Threads : \A m : Has(u, m)' <=> Has(u, m)
      /\ HandsApart' /\ pc'[t] = "hide" /\ \A u \in Threads : u # t => pc'[u] = pc[u]
  BY <1>1, SameHands DEF Pulling
<1>4. HiddenAsAnswered'
  BY <1>1, <1>3 DEF LeasesSound, HiddenAsAnswered
<1>5. ASSUME NEW l \in leases PROVE LeaseSound(l)'
  <2>1. LeaseSound(l) /\ l.msg \in Messages /\ l.until \in Nat
    BY ThreadTypes DEF LeasesSound
  <2>2. ASSUME NEW u \in Threads, Has(u, l.msg)', l.msg \notin shared PROVE Succeeds(u, l)'
    <3>1. Succeeds(u, l)
      BY <1>3, <2>1, <2>2 DEF LeaseSound
    <3>2. CASE u = t
      <4>1. l.until < at[t] /\ l.id < msgId[l.msg]
        BY <1>1, <3>1, <3>2 DEF Succeeds
      <4>2. l.until + Timeout < now + Timeout
        BY <1>2, <2>1, <4>1
      <4> QED
        BY <1>1, <1>3, <3>2, <4>1, <4>2 DEF Succeeds
    <3>3. CASE u # t
      BY <1>1, <1>3, <3>1, <3>3 DEF Succeeds
    <3> QED
      BY <3>2, <3>3
  <2> QED
    BY <1>1, <2>1, <2>2 DEF LeaseSound
<1>6. LeaseKept'
  BY <1>1 DEF LeasesSound, LeaseKept
<1> QED
  BY <1>1, <1>3, <1>4, <1>5, <1>6 DEF LeasesSound

(* It hides the message for longer than any lease of it.                   *)
LEMMA HideKeepsLeases ==
  ASSUME MemoryAssumption, TypeOK, Leases, LeasesSound, NEW t \in Threads, SetVisibleFrom(t)
  PROVE  LeasesSound'
<1>1. /\ pc[t] = "hide" /\ Goto(t, "answer")
      /\ UNCHANGED <<msg, at, shared, leases, msgId, pulls>>
      /\ visibleFrom' = [visibleFrom EXCEPT ![msg[t]] = at[t]]
  BY DEF SetVisibleFrom, At, history
<1>2. msg[t] \in Messages /\ at[t] \in Nat /\ Timeout \in Nat
  BY <1>1, ThreadTypes DEF Leases, ThreadSound, Pulling
<1>3. /\ visibleFrom'[msg[t]] = at[t]
      /\ \A m \in Messages : m # msg[t] => visibleFrom'[m] = visibleFrom[m]
  BY <1>1, <1>2 DEF TypeOK
<1>4. /\ \A u \in Threads : \A m : Has(u, m)' <=> Has(u, m)
      /\ HandsApart' /\ pc'[t] = "answer" /\ \A u \in Threads : u # t => pc'[u] = pc[u]
      /\ \A u \in Threads : Has(u, msg[t]) /\ msg[t] \in Messages \ shared => u = t
  BY <1>1, SameHands DEF Pulling
<1>5. ASSUME NEW u \in Threads, pc'[u] = "answer", msg[u] \notin shared
      PROVE  at[u] <= visibleFrom'[msg[u]]
  <2>1. CASE u = t
    BY <1>2, <1>3, <2>1
  <2>2. CASE u # t
    <3>1. pc[u] = "answer" /\ msg[u] \in Messages
      BY <1>4, <1>5, <2>2, ThreadTypes DEF Leases, ThreadSound, Pulling
    <3>2. msg[u] # msg[t]
      BY <1>2, <1>4, <1>5, <2>2, <3>1 DEF Has, Pulling
    <3> QED
      BY <1>3, <1>5, <3>1, <3>2 DEF LeasesSound, HiddenAsAnswered
  <2> QED
    BY <2>1, <2>2
<1>6. HiddenAsAnswered'
  BY <1>1, <1>5 DEF HiddenAsAnswered
<1>7. ASSUME NEW l \in leases PROVE LeaseSound(l)'
  <2>1. LeaseSound(l) /\ l.msg \in Messages /\ l.until \in Nat
    BY ThreadTypes DEF LeasesSound
  <2>2. ASSUME l.msg \notin shared PROVE l.until <= visibleFrom'[l.msg]
    <3>1. CASE l.msg = msg[t]
      <4>1. l.until + Timeout < at[t]
        BY <1>1, <2>1, <2>2, <3>1 DEF LeaseSound, Succeeds, Has, Pulling
      <4> QED
        BY <1>2, <1>3, <2>1, <3>1, <4>1
    <3>2. CASE l.msg # msg[t]
      BY <1>3, <2>1, <2>2, <3>2 DEF LeaseSound
    <3> QED
      BY <3>1, <3>2
  <2>3. ASSUME NEW u \in Threads, Has(u, l.msg)', l.msg \notin shared PROVE Succeeds(u, l)'
    <3>1. Succeeds(u, l)
      BY <1>4, <2>1, <2>3 DEF LeaseSound
    <3> QED
      BY <1>1, <1>4, <3>1 DEF Succeeds
  <2> QED
    BY <1>1, <2>1, <2>2, <2>3 DEF LeaseSound
<1>8. LeaseKept'
  BY <1>1 DEF LeasesSound, LeaseKept
<1> QED
  BY <1>1, <1>4, <1>6, <1>7, <1>8 DEF LeasesSound

(* The receipt follows every earlier one of the message.                   *)
LEMMA AnswerKeepsLeases ==
  ASSUME MemoryAssumption, TypeOK, Leases, LeasesSound, NEW t \in Threads, AnswerPull(t)
  PROVE  LeasesSound'
<1>0. PICK m, n : m = msg[t] /\ n = [msg |-> m, id |-> msgId[m], until |-> at[t]]
  OBVIOUS
<1>1. /\ pc[t] = "answer" /\ leases' = leases \union {n}
      /\ UNCHANGED <<shared, visibleFrom, msgId, pulls>>
  BY <1>0 DEF AnswerPull, At, data
<1>2. m \in Messages
  BY <1>0, <1>1, ThreadTypes DEF Leases, ThreadSound, Pulling
<1>3. pc'[t] = "idle" /\ \A u \in Threads :
        u # t => pc'[u] = pc[u] /\ msg'[u] = msg[u] /\ at'[u] = at[u]
  BY ReturnLands, Others DEF AnswerPull, Step
<1>4. n.msg = m /\ n.id = msgId[m] /\ n.until = at[t]
  BY <1>0
<1>5. Has(t, m)
  BY <1>0, <1>1 DEF Has, Pulling
<1>6. \A u \in Threads : \A x : Has(u, x)' => Has(u, x) /\ u # t
  BY <1>3 DEF Has, Pulling
<1>7. HandsApart'
  BY <1>1, <1>6 DEF LeasesSound, HandsApart, Messages
<1>8. HiddenAsAnswered'
  BY <1>1, <1>3 DEF LeasesSound, HiddenAsAnswered
<1>9. ASSUME NEW l \in leases PROVE LeaseSound(l)'
  <2>1. LeaseSound(l)
    BY DEF LeasesSound
  <2>2. ASSUME NEW u \in Threads, Has(u, l.msg)', l.msg \notin shared PROVE Succeeds(u, l)'
    BY <1>1, <1>3, <1>6, <2>1, <2>2 DEF LeaseSound, Succeeds
  <2> QED
    BY <1>1, <2>1, <2>2 DEF LeaseSound
<1>10. LeaseSound(n)'
  <2>1. n.id <= pulls
    BY <1>2, <1>4, ThreadTypes
  <2>2. m \notin shared => n.until <= visibleFrom[m]
    BY <1>0, <1>1, <1>4 DEF LeasesSound, HiddenAsAnswered
  <2>3. m \notin shared => \A u \in Threads : ~ Has(u, m)'
    BY <1>2, <1>5, <1>6 DEF LeasesSound, HandsApart
  <2> QED
    BY <1>1, <1>4, <2>1, <2>2, <2>3 DEF LeaseSound
<1>11. ASSUME NEW k \in leases, k.msg = m, m \notin shared
       PROVE  k.id # n.id /\ k.until + Timeout < n.until
  <2>1. Succeeds(t, k)
    BY <1>5, <1>11 DEF LeasesSound, LeaseSound
  <2>2. k.id < n.id /\ k.until + Timeout < n.until
    BY <1>1, <1>4, <1>11, <2>1 DEF Succeeds
  <2>3. k.id \in Nat /\ n.id \in Nat
    BY <1>2, <1>4, ThreadTypes
  <2> QED
    BY <2>2, <2>3
<1>12. LeaseKept'
  <2>1. ASSUME NEW k \in leases', NEW l \in leases',
               k # l, k.msg = l.msg, k.msg \notin shared
        PROVE  k.id # l.id /\ (k.until + Timeout < l.until \/ l.until + Timeout < k.until)
    <3>1. CASE k \in leases /\ l \in leases
      BY <2>1, <3>1 DEF LeasesSound, LeaseKept
    <3>2. CASE k \in leases /\ l = n
      BY <1>4, <1>11, <2>1, <3>2
    <3>3. CASE k = n /\ l \in leases
      BY <1>4, <1>11, <2>1, <3>3
    <3> QED
      BY <1>1, <2>1, <3>1, <3>2, <3>3
  <2> QED
    BY <1>1, <2>1 DEF LeaseKept
<1> QED
  BY <1>1, <1>7, <1>8, <1>9, <1>10, <1>12 DEF LeasesSound

LEMMA LeasesStep ==
  ASSUME MemoryAssumption, TypeOK, Leases, LeasesSound, [Next]_vars
  PROVE  (Leases /\ LeasesSound)'
<1>1. ASSUME NEW t \in Threads, Step(t) PROVE LeasesSound'
  BY <1>1, OtherCalls, FindKeepsLeases, IdKeepsLeases, ClockKeepsLeases, HideKeepsLeases,
     AnswerKeepsLeases DEF Step
<1>2. ASSUME NEW t \in Threads, Step(t), NEW u \in Threads PROVE ThreadSound(u)'
  BY <1>2, OtherSound, OwnSound
<1>3. ASSUME Tick \/ UNCHANGED vars PROVE LeasesSound' /\ \A u \in Threads : ThreadSound(u)'
  <2>1. UNCHANGED <<data, threads, history>> /\ (now' = now \/ now' = now + 1)
    BY <1>3 DEF Tick, vars
  <2>2. LeasesSound'
    BY <2>1, LeasesStay DEF data, threads
  <2>3. ASSUME NEW u \in Threads PROVE ThreadSound(u)'
    <3>1. ThreadSound(u) /\ at[u] \in Nat /\ now \in Nat
      BY ThreadTypes DEF Leases
    <3>2. at[u] <= now => at[u] <= now'
      BY <2>1, <3>1
    <3> QED
      BY <2>1, <3>1, <3>2 DEF ThreadSound, data, threads
  <2> QED
    BY <2>2, <2>3
<1>4. LeasesSound' /\ \A u \in Threads : ThreadSound(u)'
  BY <1>1, <1>2, <1>3 DEF Next
<1>5. (HandsApart /\ HiddenAsAnswered /\ \A l \in leases : LeaseSound(l))'
  BY <1>4 DEF LeasesSound
<1> QED
  BY <1>4, <1>5 DEF Leases

-----------------------------------------------------------------------------
(* Deques.  A thread puts one only if it looked for one before there was   *)
(* any, and then it puts one only.                                         *)

LEMMA DequesSoundStep ==
  ASSUME MemoryAssumption, TypeOK, Leases, DequesSound, [Next]_vars
  PROVE  DequesSound'
<1>1. /\ Len(deques) \in Nat
      /\ IsFiniteSet(Threads) /\ Cardinality(Threads) \in Nat
      /\ \A S \in SUBSET Threads :
           IsFiniteSet(S) /\ Cardinality(S) \in Nat /\ Cardinality(S) <= Cardinality(Threads)
  BY DequeTypes, FS_Subset, FS_CardinalityType DEF MemoryAssumption
<1>2. Putting \in SUBSET Threads /\ Putting' \in SUBSET Threads
  BY DEF Putting
<1>3. CASE Len(deques') = Len(deques) /\ current' = current /\ Putting' \subseteq Putting
  <2>1. Cardinality(Putting') <= Cardinality(Putting) /\ Cardinality(Putting') \in Nat
        /\ Cardinality(Putting) \in Nat
    BY <1>1, <1>2, <1>3, FS_Subset
  <2> QED
    BY <1>1, <1>3, <2>1 DEF DequesSound
<1>4. ASSUME NEW t \in Threads, Push(t) PROVE DequesSound'
  <2>1. CASE current = 0
    <3>1. deques' = deques /\ current' = current /\ Len(deques) = 0
      BY <1>4, <2>1 DEF Push, DequesSound
    <3>2. Cardinality(Putting') <= Cardinality(Threads) /\ Cardinality(Putting') \in Nat
      BY <1>1, <1>2
    <3> QED
      BY <1>1, <3>1, <3>2 DEF DequesSound
  <2>2. CASE current # 0
    <3>1. deques' = deques /\ current' = current /\ Goto(t, "add")
      BY <1>4, <2>2 DEF Push
    <3>2. Putting' \subseteq Putting
      BY <3>1, Lands DEF Putting, At, Labels
    <3> QED
      BY <1>3, <3>1, <3>2
  <2> QED
    BY <2>1, <2>2
<1>5. ASSUME NEW t \in Threads, PutDeque(t) PROVE DequesSound'
  <2>1. deques' = Append(deques, <<>>) /\ current' = Len(deques') /\ Goto(t, "add")
        /\ pc[t] = "put"
    BY <1>5 DEF PutDeque, At
  <2>2. Len(deques') = Len(deques) + 1
    BY <2>1, DequeTypes
  <2>3. Putting' = Putting \ {t} /\ t \in Putting
    BY <2>1, Lands DEF Putting, At, Labels
  <2>4. Cardinality(Putting') = Cardinality(Putting) - 1
    BY <1>1, <1>2, <2>3, FS_RemoveElement
  <2>5. Cardinality(Putting) \in Nat
    BY <1>1, <1>2
  <2> QED
    BY <1>1, <2>1, <2>2, <2>4, <2>5 DEF DequesSound
<1>6. ASSUME NEW t \in Threads, Step(t), ~ Push(t), ~ PutDeque(t) PROVE DequesSound'
  <2>1. Len(deques') = Len(deques) /\ current' = current
    <3>1. current' = current
      BY <1>6 DEF Step, Add, Pull, Find, SetMsgId, ReadClock, SetVisibleFrom,
                  AnswerPull, Delete, RemoveMessage, data
    <3>2. deques' = deques \/ \E d, q : deques' = [deques EXCEPT ![d] = q]
      BY <1>6 DEF Step, Add, Pull, Find, SetMsgId, ReadClock, SetVisibleFrom,
                  AnswerPull, Delete, RemoveMessage, data
    <3>3. ASSUME NEW d, NEW q, deques' = [deques EXCEPT ![d] = q]
          PROVE  Len(deques') = Len(deques)
      <4>1. DOMAIN deques' = 1 .. Len(deques)
        BY <3>3 DEF TypeOK
      <4>2. deques' \in Seq(Seq(Messages))
        BY <1>6, DequesStep
      <4> QED
        BY <1>1, <4>1, <4>2
    <3> QED
      BY <3>1, <3>2, <3>3
  <2>2. \E label \in Labels \ {"put"} : Goto(t, label)
    BY <1>6 DEF Step, Add, Pull, Find, SetMsgId, ReadClock, SetVisibleFrom,
                AnswerPull, Delete, RemoveMessage, Return, Labels, Pulling
  <2>3. Putting' \subseteq Putting
    BY <2>2, Lands DEF Putting, At
  <2> QED
    BY <1>3, <2>1, <2>3
<1>7. ASSUME Tick \/ UNCHANGED vars PROVE DequesSound'
  <2>1. UNCHANGED <<deques, current, pc>>
    BY <1>7 DEF Tick, vars, data, threads
  <2> QED
    BY <1>3, <2>1 DEF Putting, At
<1> QED
  BY <1>4, <1>5, <1>6, <1>7 DEF Next

-----------------------------------------------------------------------------
(* The invariant, and what follows from it.                                *)

LEMMA InitSound ==
  ASSUME MemoryAssumption, Init
  PROVE  Inv /\ DequesSound
<1>1. TypeOK
  <2>1. /\ Timeout \in Nat /\ MaxTime \in Nat \ {0} /\ MaxPushes \in Nat /\ MaxPulls \in Nat
    BY DEF MemoryAssumption
  <2>2. Len(deques) = 0 /\ deques \in Seq(Seq(Messages))
    BY DEF Init
  <2>3. /\ current \in 0 .. Len(deques) /\ pushes \in 0 .. MaxPushes /\ pulls \in 0 .. MaxPulls
        /\ now \in 1 .. MaxTime
    BY <2>1, <2>2 DEF Init
  <2>4. visibleFrom \in [Messages -> 0 .. MaxTime + Timeout] /\ msgId \in [Messages -> 0 .. pulls]
    BY <2>1 DEF Init
  <2>5. /\ deque \in [Threads -> 0 .. Len(deques)] /\ msg \in [Threads -> 0 .. MaxPushes]
        /\ at \in [Threads -> 0 .. MaxTime + Timeout]
    BY <2>1, <2>2 DEF Init
  <2> QED
    BY <2>2, <2>3, <2>4, <2>5 DEF Init, TypeOK, Labels
<1>2. Leases
  BY DEF Init, Leases, ThreadSound, HandsApart, Has, HiddenAsAnswered, Pulling
<1>3. LeaseKept
  BY DEF Init, LeaseKept
<1>4. DequesSound
  <2>1. Putting = {} /\ Len(deques) = 0
    BY DEF Init, Putting, At
  <2>2. Cardinality(Putting) = 0 /\ Cardinality(Threads) \in Nat
    BY <2>1, FS_EmptySet, FS_CardinalityType DEF MemoryAssumption
  <2> QED
    BY <2>1, <2>2 DEF DequesSound
<1> QED
  BY <1>1, <1>2, <1>3, <1>4 DEF Inv

LEMMA StepSound ==
  ASSUME MemoryAssumption, Inv, DequesSound, [Next]_vars
  PROVE  (Inv /\ DequesSound)'
<1>1. TypeOK /\ Leases /\ LeasesSound
  BY DEF Inv, Leases, LeasesSound
<1>2. TypeOK' /\ DequesSound'
  BY <1>1, TypeStep, DequesSoundStep
<1>3. Leases' /\ LeaseKept'
  BY <1>1, LeasesStep DEF LeasesSound
<1> QED
  BY <1>2, <1>3 DEF Inv

LEMMA Invariant ==
  ASSUME MemoryAssumption
  PROVE  Spec => [](Inv /\ DequesSound)
<1>1. Init => Inv /\ DequesSound
  BY InitSound
<1>2. Inv /\ DequesSound /\ [Next]_vars => (Inv /\ DequesSound)'
  BY StepSound
<1> QED
  BY <1>1, <1>2, PTL DEF Spec

LEMMA SoundIsBounded ==
  ASSUME MemoryAssumption, TypeOK, DequesSound
  PROVE  DequesBounded
<1>1. Len(deques) \in Nat /\ Cardinality(Threads) \in Nat /\ Cardinality(Putting) \in Nat
  <2>1. IsFiniteSet(Threads) /\ Putting \subseteq Threads
    BY DEF MemoryAssumption, Putting
  <2> QED
    BY <2>1, DequeTypes, FS_Subset, FS_CardinalityType
<1> QED
  BY <1>1 DEF DequesSound, DequesBounded

(* The fields of the messages, the deques and what threads have read of    *)
(* them are what MemoryQueueService takes them for.                        *)
THEOREM TypesHold ==
  ASSUME MemoryAssumption
  PROVE  Spec => []TypeOK
<1>1. Inv => TypeOK
  BY DEF Inv
<1> QED
  BY <1>1, Invariant, PTL

(* For any number of threads that push, pull and delete: a message is      *)
(* pulled again under another receipt, and after the visibility timeout of *)
(* the earlier one, unless two pulls had it in hand at once.               *)
THEOREM LeasesAreKept ==
  ASSUME MemoryAssumption
  PROVE  Spec => []LeaseKept
<1>1. Inv => LeaseKept
  BY DEF Inv
<1> QED
  BY <1>1, Invariant, PTL

(* However many messages are pushed, and however often the queue is        *)
(* emptied, there are never more deques than threads.                      *)
THEOREM DequesStayFew ==
  ASSUME MemoryAssumption
  PROVE  Spec => []DequesBounded
<1>1. TypeOK /\ DequesSound => DequesBounded
  BY SoundIsBounded
<1>2. Inv => TypeOK
  BY DEF Inv
<1> QED
  BY <1>1, <1>2, Invariant, PTL
=============================================================================
