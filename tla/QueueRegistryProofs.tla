------------------------ MODULE QueueRegistryProofs ------------------------
(***************************************************************************)
(* What holds of the registry for any number of handler threads.           *)
(***************************************************************************)
EXTENDS QueueRegistry, FiniteSetTheorems, TLAPS

(* A thread that has passed the test of the instance, or created it, finds *)
(* one; calls that put a service are made on a manager with a map.         *)
Sound ==
  /\ \A t \in Threads : pc[t] \in {"assign", "return"} => instance # 0
  /\ \A t \in Threads : pc[t] \in {"putQueue", "putDLQ"} => manager[t] \in assigned

(* Only managers with a map hold services, so a manager still to be        *)
(* created holds none.                                                     *)
Tables == \A i \in Managers : table[i] # {} => i \in assigned

(* A CREATE that is going to put the dead letter queue into the published  *)
(* manager, or to find it there.                                           *)
Pending(t) ==
  /\ site[t] = "createDLQ"
  /\ \/ pc[t] \in {"test", "enter", "new", "assign", "return"}
     \/ pc[t] \in {"createDLQ", "putDLQ"} /\ manager[t] = instance

Paired ==
  instance # 0 /\ Registered(instance, "queue") =>
    Registered(instance, "dlq") \/ \E t \in Threads : Pending(t)

Safe == TypeOK /\ OneManagerEach /\ Sound /\ Tables /\ AssignedOutsideLock /\ Paired

-----------------------------------------------------------------------------
LEMMA ThreadCount == Cardinality(Threads) \in Nat
BY ThreadsAssumption, FS_CardinalityType

LEMMA InitSafe == Init => Safe
<1> SUFFICES ASSUME Init PROVE Safe
  OBVIOUS
<1>0. None \notin Threads /\ Cardinality(Threads) \in Nat
  BY NoneAssumption, ThreadCount
<1>1. TypeOK
  BY <1>0 DEF Init, TypeOK, Managers, Sites, Calls, Names, Inside
<1>2. OneManagerEach
  <2>1. Creators = {}
    BY DEF Init, Creators
  <2> QED
    BY <2>1, <1>0, FS_EmptySet DEF Init, OneManagerEach
<1>3. Sound /\ Tables /\ AssignedOutsideLock /\ Paired
  BY DEF Init, Sound, Tables, AssignedOutsideLock, Paired, Managers
<1> QED
  BY <1>1, <1>2, <1>3 DEF Safe

-----------------------------------------------------------------------------
(* Threads that may still create a manager.                                *)

LEMMA CreatorsFinite ==
  /\ IsFiniteSet(Creators)
  /\ Cardinality(Creators) \in Nat /\ Cardinality(Creators) <= Cardinality(Threads)
<1>1. Creators \subseteq Threads
  BY DEF Creators
<1> QED
  BY <1>1, ThreadsAssumption, FS_Subset, FS_CardinalityType

(* Whether a step of thread t keeps t in, or out of, Creators decides      *)
(* what Creators becomes.                                                  *)
LEMMA CreatorsKept ==
  ASSUME NEW t \in Threads, NEW l, NEW S, pc \in [Threads -> S],
         pc' = [pc EXCEPT ![t] = l],
         l \in {"enter", "new"} <=> pc[t] \in {"enter", "new"}
  PROVE  Creators' = Creators
BY DEF Creators

-----------------------------------------------------------------------------
(* Types.                                                                  *)

PCs == {"idle", "test", "enter", "new", "assign", "return"} \union Calls

(* A step of a thread outside synchronized that stays outside.             *)
LEMMA OutsideType ==
  ASSUME TypeOK, NEW t \in Threads, ~ Inside(t),
         NEW l \in PCs \ {"new", "assign"}, Goto(t, l),
         site' \in [Threads -> Sites], manager' \in [Threads -> 0 .. instance],
         table' \in [Managers -> SUBSET Names], UNCHANGED <<instance, assigned, lock>>
  PROVE  TypeOK'
<1>1. pc' \in [Threads -> PCs]
  BY DEF TypeOK, PCs, Goto
<1>2. \A u \in Threads : Inside(u)' <=> lock' = u
  BY DEF TypeOK, Inside, Goto
<1>3. QED
  BY <1>1, <1>2 DEF TypeOK, PCs

LEMMA AnswerType ==
  ASSUME TypeOK, NEW t \in Threads, ~ Inside(t), Answer(t),
         table' \in [Managers -> SUBSET Names], UNCHANGED <<instance, assigned, lock>>
  PROVE  TypeOK'
<1>1. site' \in [Threads -> Sites] /\ manager' \in [Threads -> 0 .. instance]
  BY DEF TypeOK, Answer, Sites
<1>2. "idle" \in PCs \ {"new", "assign"} /\ Goto(t, "idle")
  BY DEF PCs, Answer
<1>3. QED
  BY <1>1, <1>2, OutsideType

LEMMA GetInstanceType ==
  ASSUME TypeOK, NEW t \in Threads, ~ Inside(t), NEW s \in Sites, GetInstance(t, s),
         table' \in [Managers -> SUBSET Names], UNCHANGED <<instance, assigned, lock>>
  PROVE  TypeOK'
<1>1. site' \in [Threads -> Sites] /\ manager' \in [Threads -> 0 .. instance]
  BY DEF TypeOK, GetInstance
<1>2. "test" \in PCs \ {"new", "assign"} /\ Goto(t, "test")
  BY DEF PCs, GetInstance
<1>3. QED
  BY <1>1, <1>2, OutsideType

LEMMA TypeStep ==
  ASSUME TypeOK, OneManagerEach, Sound, NEW t \in Threads, Request(t) \/ Step(t)
  PROVE  TypeOK'
<1>0. None \notin Threads /\ Cardinality(Threads) \in Nat
  BY NoneAssumption, ThreadCount
<1> USE <1>0
<1>a. table \in [Managers -> SUBSET Names] /\ site \in [Threads -> Sites]
      /\ manager \in [Threads -> 0 .. instance]
  BY DEF TypeOK
<1>1. CASE HandleCreate(t) \/ HandleOther(t)
  <2>1. ~ Inside(t) /\ "exists" \in Sites /\ "getQueueService" \in Sites
    BY <1>1 DEF HandleCreate, HandleOther, At, Inside, Sites
  <2>2. QED
    BY <1>1, <1>a, <2>1, GetInstanceType DEF HandleCreate, HandleOther
<1>b. CASE TestInstance(t)
  <2>1. ~ Inside(t) /\ {"enter", "return"} \subseteq PCs \ {"new", "assign"}
    BY <1>b DEF TestInstance, At, Inside, PCs
  <2>2. QED
    BY <1>b, <1>a, <2>1, OutsideType DEF TestInstance, locals
<1>2. CASE EnterSynchronized(t)
  BY <1>2 DEF EnterSynchronized, TypeOK, Inside, At, Goto, locals
<1>3. CASE NewInstance(t)
  <2>1. t \in Creators
    BY <1>3 DEF NewInstance, At, Creators
  <2>2. Cardinality(Creators) # 0
    BY <2>1, CreatorsFinite, FS_EmptySet
  <2>3. instance + 1 \in 0 .. Cardinality(Threads)
    BY <2>2, CreatorsFinite DEF TypeOK, OneManagerEach
  <2>4. instance' = instance + 1 /\ 0 .. instance \subseteq 0 .. instance'
        /\ 1 .. instance \subseteq 1 .. instance'
    BY <1>3, <2>3 DEF NewInstance, TypeOK
  <2>5. /\ instance' \in 0 .. Cardinality(Threads)
        /\ assigned' \subseteq 1 .. instance'
        /\ manager' \in [Threads -> 0 .. instance']
    BY <1>3, <2>3, <2>4 DEF NewInstance, TypeOK, locals
  <2>6. QED
    BY <1>3, <2>5 DEF NewInstance, TypeOK, Inside, At, Goto, locals
<1>4. CASE AssignQueues(t)
  <2>1. instance \in 1 .. instance
    BY <1>4 DEF AssignQueues, Sound, TypeOK, At
  <2>2. QED
    BY <1>4, <2>1 DEF AssignQueues, TypeOK, Inside, At, Goto, locals
<1>5. CASE ReturnInstance(t)
  BY <1>5 DEF ReturnInstance, TypeOK, Inside, At, Goto, Sites, Calls
<1>6. CASE CallCrashes(t) \/ TestExists(t) \/ CreateQueueGet(t) \/ CreateDLQGet(t)
           \/ GetQueueService(t) \/ CreateQueuePut(t) \/ CreateDLQPut(t)
  <2>1. ~ Inside(t) /\ UNCHANGED <<instance, assigned, lock>>
    BY <1>6 DEF CallCrashes, TestExists, CreateQueueGet, CreateDLQGet, GetQueueService,
                CreateQueuePut, CreateDLQPut, At, Inside, Sites
  <2>2. table' \in [Managers -> SUBSET Names]
    BY <1>6, <1>a DEF CallCrashes, TestExists, CreateQueueGet, CreateDLQGet,
                GetQueueService, CreateQueuePut, CreateDLQPut, Put, Names
  <2>3. {"createQueue", "createDLQ"} \subseteq Sites
        /\ {"putQueue", "putDLQ"} \subseteq PCs \ {"new", "assign"}
    BY DEF Sites, PCs, Calls
  <2>4. CASE Answer(t)
    BY <2>1, <2>2, <2>4, AnswerType
  <2>5. CASE GetInstance(t, "createQueue") \/ GetInstance(t, "createDLQ")
    BY <2>1, <2>2, <2>3, <2>5, GetInstanceType
  <2>6. CASE (Goto(t, "putQueue") \/ Goto(t, "putDLQ")) /\ UNCHANGED locals
    BY <2>1, <2>2, <2>3, <2>6, <1>a, OutsideType DEF locals
  <2>7. QED
    BY <1>6, <2>4, <2>5, <2>6 DEF CallCrashes, TestExists, CreateQueueGet, CreateDLQGet,
                GetQueueService, CreateQueuePut, CreateDLQPut
<1>7. QED
  BY <1>1, <1>b, <1>2, <1>3, <1>4, <1>5, <1>6 DEF Request, Step

-----------------------------------------------------------------------------
(* At most one manager per thread.                                         *)

LEMMA OneManagerStep ==
  ASSUME TypeOK, OneManagerEach, NEW t \in Threads, Request(t) \/ Step(t)
  PROVE  OneManagerEach'
<1>0. Cardinality(Threads) \in Nat /\ pc \in [Threads -> PCs] /\ instance \in Nat
  BY ThreadCount DEF TypeOK, PCs
<1>1. CASE NewInstance(t)
  <2>1. Creators' = Creators \ {t} /\ t \in Creators
    <3>1. pc' = [pc EXCEPT ![t] = "assign"] /\ pc[t] = "new"
      BY <1>1 DEF NewInstance, At, Goto
    <3>2. QED
      BY <1>0, <3>1 DEF Creators
  <2>2. Cardinality(Creators') = Cardinality(Creators) - 1
    BY <2>1, CreatorsFinite, FS_RemoveElement
  <2>3. instance' = instance + 1
    BY <1>1 DEF NewInstance
  <2>4. QED
    BY <1>0, <2>2, <2>3, CreatorsFinite DEF OneManagerEach
<1>2. CASE TestInstance(t) /\ instance = 0
  <2>1. Creators' \subseteq Threads
    BY DEF Creators
  <2>2. Cardinality(Creators') \in Nat /\ Cardinality(Creators') <= Cardinality(Threads)
    BY <2>1, ThreadsAssumption, FS_Subset, FS_CardinalityType
  <2>3. instance' = 0
    BY <1>2 DEF TestInstance
  <2>4. QED
    BY <1>0, <2>2, <2>3 DEF OneManagerEach
<1>3. CASE ~ NewInstance(t) /\ ~ (TestInstance(t) /\ instance = 0)
  <2>1. instance' = instance
    BY <1>3 DEF Request, Step, HandleCreate, HandleOther, TestInstance, EnterSynchronized,
         AssignQueues, ReturnInstance, CallCrashes, TestExists, CreateQueueGet,
         CreateQueuePut, CreateDLQGet, CreateDLQPut, GetQueueService
  <2>2. Creators' = Creators
    <3>1. PICK l : pc' = [pc EXCEPT ![t] = l]
                   /\ (l \in {"enter", "new"} <=> pc[t] \in {"enter", "new"})
      BY <1>3 DEF Request, Step, HandleCreate, HandleOther, TestInstance, EnterSynchronized,
         AssignQueues, ReturnInstance, CallCrashes, TestExists, CreateQueueGet,
         CreateQueuePut, CreateDLQGet, CreateDLQPut, GetQueueService, Answer, GetInstance,
         Goto, At, TypeOK, Sites
    <3>2. QED
      BY <1>0, <3>1, CreatorsKept
  <2>3. QED
    BY <2>1, <2>2 DEF OneManagerEach
<1>4. QED
  BY <1>1, <1>2, <1>3

-----------------------------------------------------------------------------
(* The instance, its map, and the managers that hold services.             *)

LEMMA SoundStep ==
  ASSUME TypeOK, Sound, NEW t \in Threads, Request(t) \/ Step(t)
  PROVE  Sound'
<1>1. CASE TestInstance(t) \/ EnterSynchronized(t) \/ NewInstance(t) \/ AssignQueues(t)
           \/ ReturnInstance(t)
  BY <1>1 DEF Sound, TypeOK, TestInstance, EnterSynchronized, NewInstance, AssignQueues,
              ReturnInstance, At, Goto, Sites, locals
<1>2. CASE Request(t) \/ CallCrashes(t) \/ TestExists(t) \/ CreateQueueGet(t)
           \/ CreateQueuePut(t) \/ CreateDLQGet(t) \/ CreateDLQPut(t) \/ GetQueueService(t)
  BY <1>2 DEF Sound, TypeOK, Request, HandleCreate, HandleOther, CallCrashes, TestExists,
              CreateQueueGet, CreateQueuePut, CreateDLQGet, CreateDLQPut, GetQueueService,
              Answer, GetInstance, At, Goto, locals
<1>3. QED
  BY <1>1, <1>2 DEF Step

LEMMA TablesStep ==
  ASSUME TypeOK, Sound, Tables, NEW t \in Threads, Request(t) \/ Step(t)
  PROVE  Tables'
<1>1. CASE CreateQueuePut(t) \/ CreateDLQPut(t)
  BY <1>1 DEF Sound, Tables, TypeOK, CreateQueuePut, CreateDLQPut, Put, At
<1>2. CASE UNCHANGED table /\ assigned \subseteq assigned'
  BY <1>2 DEF Tables
<1>3. QED
  BY <1>1, <1>2 DEF Request, Step, HandleCreate, HandleOther, TestInstance, EnterSynchronized,
     NewInstance, AssignQueues, ReturnInstance, CallCrashes, TestExists, CreateQueueGet,
     CreateDLQGet, GetQueueService

LEMMA AssignedStep ==
  ASSUME TypeOK, AssignedOutsideLock, NEW t \in Threads, Request(t) \/ Step(t)
  PROVE  AssignedOutsideLock'
<1>1. CASE EnterSynchronized(t)
  BY <1>1, NoneAssumption DEF AssignedOutsideLock, EnterSynchronized
<1>2. CASE NewInstance(t)
  <2>1. lock' = t
    BY <1>2 DEF NewInstance, TypeOK, Inside, At
  <2>2. QED
    BY <2>1, NoneAssumption DEF AssignedOutsideLock
<1>3. CASE AssignQueues(t)
  BY <1>3 DEF AssignedOutsideLock, AssignQueues
<1>4. CASE UNCHANGED <<lock, instance, assigned>>
  BY <1>4 DEF AssignedOutsideLock
<1>5. QED
  BY <1>1, <1>2, <1>3, <1>4 DEF Request, Step, HandleCreate, HandleOther, TestInstance,
     ReturnInstance, CallCrashes, TestExists, CreateQueueGet, CreateQueuePut,
     CreateDLQGet, CreateDLQPut, GetQueueService

-----------------------------------------------------------------------------
(* The dead letter queue beside the queue.                                 *)

(* A manager that holds the queue has a map, so the CREATE that is to put  *)
(* the dead letter queue into it does not crash.                           *)
LEMMA PairedStep ==
  ASSUME TypeOK, OneManagerEach, Sound, Tables, Paired, TypeOK',
         NEW t \in Threads, Request(t) \/ Step(t)
  PROVE  Paired'
<1> SUFFICES ASSUME instance' # 0, Registered(instance, "queue")',
                    ~ Registered(instance, "dlq")'
             PROVE  \E u \in Threads : Pending(u)'
  BY DEF Paired
<1>0. pc \in [Threads -> PCs] /\ site \in [Threads -> Sites]
      /\ manager \in [Threads -> 0 .. instance]
      /\ table \in [Managers -> SUBSET Names]
  BY DEF TypeOK, PCs
<1>1. CASE NewInstance(t)
  <2>1. instance' = instance + 1 /\ instance' \in Managers /\ instance' \notin assigned
    <3>1. instance' = instance + 1 /\ instance' \in 0 .. Cardinality(Threads)
      BY <1>1 DEF NewInstance, TypeOK
    <3>2. instance \in Nat /\ assigned \subseteq 1 .. instance
      BY DEF TypeOK
    <3>3. QED
      BY <3>1, <3>2, ThreadCount DEF Managers
  <2>2. table'[instance'] = {}
    BY <1>1, <2>1 DEF Tables, NewInstance
  <2>3. QED
    BY <2>2 DEF Registered
<1>2. CASE CreateQueuePut(t)
  <2>1. Pending(t)'
    BY <1>0, <1>2 DEF CreateQueuePut, GetInstance, Goto, Pending
  <2>2. QED
    BY <2>1
<1>3. CASE CreateDLQPut(t)
  <2>1. PICK u \in Threads : Pending(u)
    <3>1. instance' = instance /\ instance # 0 /\ instance \in Managers
      BY <1>3, ThreadCount DEF CreateDLQPut, TypeOK, Managers
    <3>2. Registered(instance, "queue") /\ ~ Registered(instance, "dlq")
      BY <1>0, <1>3, <3>1 DEF CreateDLQPut, Put, Registered
    <3>3. QED
      BY <3>1, <3>2 DEF Paired
  <2>2. manager[t] # instance
    <3>1. instance' = instance /\ instance # 0 /\ instance \in Managers
      BY <1>3, ThreadCount DEF CreateDLQPut, TypeOK, Managers
    <3>2. QED
      BY <1>0, <1>3, <3>1 DEF CreateDLQPut, Put, Registered
  <2>3. u # t
    BY <1>3, <2>1, <2>2 DEF CreateDLQPut, At, Pending
  <2>4. Pending(u)'
    BY <1>0, <1>3, <2>1, <2>3 DEF CreateDLQPut, Answer, Goto, Pending
  <2>5. QED
    BY <2>4
<1>4. CASE UNCHANGED <<instance, table>>
  <2>1. PICK u \in Threads : Pending(u)
    BY <1>4 DEF Paired, Registered
  <2>2. CASE u # t
    <3>1. pc'[u] = pc[u] /\ site'[u] = site[u] /\ manager'[u] = manager[u]
      BY <1>0, <1>4, <2>2 DEF Request, Step, HandleCreate, HandleOther, TestInstance,
         EnterSynchronized, NewInstance, AssignQueues, ReturnInstance, CallCrashes,
         TestExists, CreateQueueGet, CreateQueuePut, CreateDLQGet, CreateDLQPut,
         GetQueueService, Answer, GetInstance, Goto, locals
    <3>2. QED
      BY <1>4, <3>1, <2>1 DEF Pending
  <2>3. CASE u = t
    <3>1. CASE TestInstance(t) \/ EnterSynchronized(t) \/ AssignQueues(t)
      BY <1>0, <2>1, <2>3, <3>1 DEF TestInstance, EnterSynchronized, AssignQueues, Goto,
         Pending, locals
    <3>2. CASE ReturnInstance(t)
      BY <1>0, <2>1, <2>3, <3>2 DEF ReturnInstance, Goto, At, Pending
    <3>3. CASE CallCrashes(t)
      <4>1. manager[t] = instance /\ instance \notin assigned
        BY <2>1, <2>3, <3>3 DEF CallCrashes, Pending, Sites
      <4>2. instance \in Managers
        BY <1>4, ThreadCount DEF TypeOK, Managers
      <4>3. table[instance] = {}
        BY <4>1, <4>2 DEF Tables
      <4>4. QED
        BY <1>4, <4>3 DEF Registered
    <3>4. CASE CreateDLQGet(t)
      BY <1>0, <1>4, <2>1, <2>3, <3>4 DEF CreateDLQGet, Registered, Goto, At, Pending, locals
    <3>5. CASE Request(t) \/ NewInstance(t) \/ TestExists(t) \/ CreateQueueGet(t)
               \/ CreateQueuePut(t) \/ CreateDLQPut(t) \/ GetQueueService(t)
      <4>1. pc[t] \in {"test", "enter", "assign", "return", "createDLQ", "putDLQ"} \/ pc[t] = "new"
        BY <2>1, <2>3 DEF Pending
      <4>2. ~ NewInstance(t)
        BY <1>4 DEF NewInstance, TypeOK
      <4>3. ~ CreateDLQPut(t)
        <5>1. SUFFICES ASSUME CreateDLQPut(t) PROVE FALSE
          OBVIOUS
        <5>2. manager[t] = instance /\ instance \in Managers
          BY <1>4, <2>1, <2>3, <5>1, ThreadCount DEF CreateDLQPut, At, Pending, TypeOK, Managers
        <5>3. QED
          BY <1>0, <1>4, <5>1, <5>2 DEF CreateDLQPut, Put, Registered
      <4>4. QED
        BY <3>5, <4>1, <4>2, <4>3 DEF Request, HandleCreate, HandleOther, TestExists,
           CreateQueueGet, CreateQueuePut, GetQueueService, At
    <3>6. QED
      BY <3>1, <3>2, <3>3, <3>4, <3>5 DEF Step
  <2>4. QED
    BY <2>2, <2>3
<1>5. QED
  BY <1>1, <1>2, <1>3, <1>4 DEF Request, Step, HandleCreate, HandleOther, TestInstance,
     EnterSynchronized, AssignQueues, ReturnInstance, CallCrashes, TestExists,
     CreateQueueGet, CreateDLQGet, GetQueueService

-----------------------------------------------------------------------------
(* The theorems.                                                           *)

LEMMA StepSafe == Safe /\ [Next]_vars => Safe'
<1> SUFFICES ASSUME Safe, [Next]_vars PROVE Safe'
  OBVIOUS
<1>1. CASE UNCHANGED vars
  BY <1>1 DEF vars, locals, Safe, TypeOK, OneManagerEach, Creators, Sound, Tables,
     AssignedOutsideLock, Paired, Pending, Registered, Inside
<1>2. CASE Next
  <2>1. PICK t \in Threads : Request(t) \/ Step(t)
    BY <1>2 DEF Next
  <2>2. TypeOK'
    BY <2>1, TypeStep DEF Safe
  <2>3. QED
    BY <2>1, <2>2, OneManagerStep, SoundStep, TablesStep, AssignedStep, PairedStep DEF Safe
<1>3. QED
  BY <1>1, <1>2

LEMMA AlwaysSafe == Spec => []Safe
BY InitSafe, StepSafe, PTL DEF Spec

(* Every reachable state is well typed, and a thread is inside synchronized *)
(* exactly while it holds the class lock.                                   *)
THEOREM RegistryTyped == Spec => []TypeOK
<1>1. Safe => TypeOK
  BY DEF Safe
<1>2. QED
  BY <1>1, AlwaysSafe, PTL

(* getInstance creates at most one manager per thread of the pool.         *)
THEOREM ManagersBounded == Spec => []OneManagerEach
<1>1. Safe => OneManagerEach
  BY DEF Safe
<1>2. QED
  BY <1>1, AlwaysSafe, PTL

(* Outside synchronized the published manager has its map.                 *)
THEOREM MapAssigned == Spec => []AssignedOutsideLock
<1>1. Safe => AssignedOutsideLock
  BY DEF Safe
<1>2. QED
  BY <1>1, AlwaysSafe, PTL

(* Once no CREATE is in progress, the queue that can be found has its dead *)
(* letter queue.                                                           *)
THEOREM QueuesPaired == Spec => []PairedWhenQuiet
<1>1. Safe => PairedWhenQuiet
  BY DEF Safe, Paired, PairedWhenQuiet, Pending, Creating
<1>2. QED
  BY <1>1, AlwaysSafe, PTL
=============================================================================
