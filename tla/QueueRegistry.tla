---------------------------- MODULE QueueRegistry ----------------------------
(***************************************************************************)
(* MyQueueManager of 2021/SUB4: the singleton whose map holds the queues,  *)
(* created on first use under a lock that it does not test again, and      *)
(* CREATE, which tests for the queue, then puts the queue and its dead     *)
(* letter queue, each with a get and a put of its own.  One queue name;    *)
(* handlers run on the threads of the server's pool.  The managers are     *)
(* numbered as they are created.                                           *)
(***************************************************************************)
EXTENDS Naturals, FiniteSets

CONSTANT Threads          \* threads of the server's pool that run handlers

ASSUME ThreadsAssumption == Threads # {} /\ IsFiniteSet(Threads)

None == "none"            \* no thread holds the class lock
ASSUME NoneAssumption == None \notin Threads

VARIABLES
  instance,      \* the static field: 0 (null) or the manager created last
  assigned,      \* managers whose field queues has been assigned
  table,         \* table[i]: the names manager i maps to a service
  lock,          \* holder of the lock on MyQueueManager.class
  pc,
  site,          \* the call a thread makes on the manager it is fetching
  manager        \* the manager getInstance has returned

locals == <<site, manager>>
vars   == <<instance, assigned, table, lock, pc, locals>>

Names == {"queue", "dlq"}
Sites == {"exists", "createQueue", "createDLQ", "getQueueService"}
Calls == Sites \union {"putQueue", "putDLQ"}
Managers == 1 .. Cardinality(Threads)

Init ==
  /\ instance = 0 /\ assigned = {}
  /\ table = [i \in Managers |-> {}]
  /\ lock = None
  /\ pc = [t \in Threads |-> "idle"]
  /\ site = [t \in Threads |-> "exists"]
  /\ manager = [t \in Threads |-> 0]

-----------------------------------------------------------------------------
At(t, label) == pc[t] = label
Goto(t, label) == pc' = [pc EXCEPT ![t] = label]

(* MyQueueManager.getInstance() is called to make the call s on it.        *)
GetInstance(t, s) ==
  /\ Goto(t, "test")
  /\ site' = [site EXCEPT ![t] = s]
  /\ manager' = [manager EXCEPT ![t] = 0]

Answer(t) ==
  /\ Goto(t, "idle")
  /\ site' = [site EXCEPT ![t] = "exists"]
  /\ manager' = [manager EXCEPT ![t] = 0]

(* The requests: CREATE, and every other one, which looks the queue up.    *)
HandleCreate(t) ==
  /\ At(t, "idle")
  /\ GetInstance(t, "exists")
  /\ UNCHANGED <<instance, assigned, table, lock>>

HandleOther(t) ==
  /\ At(t, "idle")
  /\ GetInstance(t, "getQueueService")
  /\ UNCHANGED <<instance, assigned, table, lock>>

-----------------------------------------------------------------------------
(* getInstance                                                             *)

(* Mutant: the first test is dropped.                                      *)
TestNothing(t) ==
  /\ At(t, "test")
  /\ Goto(t, "enter")
  /\ UNCHANGED <<instance, assigned, table, lock, locals>>

TestInstance(t) ==
  /\ At(t, "test")
  /\ Goto(t, IF instance = 0 THEN "enter" ELSE "return")
  /\ UNCHANGED <<instance, assigned, table, lock, locals>>

(* Mutant: the block is not synchronized.                                  *)
EnterUnsynchronized(t) ==
  /\ At(t, "enter")
  /\ lock' = t
  /\ Goto(t, "new")
  /\ UNCHANGED <<instance, assigned, table, locals>>

EnterSynchronized(t) ==
  /\ At(t, "enter")
  /\ lock = None
  /\ lock' = t
  /\ Goto(t, "new")
  /\ UNCHANGED <<instance, assigned, table, locals>>

(* Mutant: only the constructor call is inside synchronized.               *)
NewInstanceAndLeave(t) ==
  /\ At(t, "new")
  /\ instance' = instance + 1
  /\ lock' = None
  /\ Goto(t, "assign")
  /\ UNCHANGED <<assigned, table, locals>>

NewInstance(t) ==
  /\ At(t, "new")
  /\ instance' = instance + 1
  /\ Goto(t, "assign")
  /\ UNCHANGED <<assigned, table, lock, locals>>

(* Mutant: the lock is not released.                                       *)
AssignAndKeepLock(t) ==
  /\ At(t, "assign")
  /\ assigned' = assigned \union {instance}
  /\ Goto(t, "return")
  /\ UNCHANGED <<instance, table, lock, locals>>

(* instance.queues = new ConcurrentHashMap<>(), and the lock is released.  *)
AssignQueues(t) ==
  /\ At(t, "assign")
  /\ assigned' = assigned \union {instance}
  /\ lock' = None
  /\ Goto(t, "return")
  /\ UNCHANGED <<instance, table, locals>>

ReturnInstance(t) ==
  /\ At(t, "return")
  /\ manager' = [manager EXCEPT ![t] = instance]
  /\ Goto(t, site[t])
  /\ UNCHANGED <<instance, assigned, table, lock, site>>

-----------------------------------------------------------------------------
(* The calls on the manager.                                               *)

Registered(i, n) == n \in table[i]

(* A call on a manager whose map is not assigned yet ends the request with *)
(* a NullPointerException.                                                 *)
CallCrashes(t) ==
  /\ pc[t] \in Sites
  /\ manager[t] \notin assigned
  /\ Answer(t)
  /\ UNCHANGED <<instance, assigned, table, lock>>

(* handleCreate's test: "Queue Exist", or on to creating the queue.        *)
TestExists(t) ==
  /\ At(t, "exists")
  /\ manager[t] \in assigned
  /\ IF Registered(manager[t], "queue") THEN Answer(t) ELSE GetInstance(t, "createQueue")
  /\ UNCHANGED <<instance, assigned, table, lock>>

(* createQueueService: get, and put if there was nothing.                  *)
CreateQueueGet(t) ==
  /\ At(t, "createQueue")
  /\ manager[t] \in assigned
  /\ IF Registered(manager[t], "queue")
       THEN GetInstance(t, "createDLQ")
       ELSE Goto(t, "putQueue") /\ UNCHANGED locals
  /\ UNCHANGED <<instance, assigned, table, lock>>

(* The service put replaces one that another CREATE has put meanwhile.     *)
Put(i, n) == table' = [table EXCEPT ![i] = @ \union {n}]

(* Mutant: the dead letter queue is left to be created later.              *)
CreateQueueOnly(t) ==
  /\ At(t, "putQueue")
  /\ Put(manager[t], "queue")
  /\ Answer(t)
  /\ UNCHANGED <<instance, assigned, lock>>

CreateQueuePut(t) ==
  /\ At(t, "putQueue")
  /\ Put(manager[t], "queue")
  /\ GetInstance(t, "createDLQ")
  /\ UNCHANGED <<instance, assigned, lock>>

CreateDLQGet(t) ==
  /\ At(t, "createDLQ")
  /\ manager[t] \in assigned
  /\ IF Registered(manager[t], "dlq")
       THEN Answer(t)
       ELSE Goto(t, "putDLQ") /\ UNCHANGED locals
  /\ UNCHANGED <<instance, assigned, table, lock>>

CreateDLQPut(t) ==
  /\ At(t, "putDLQ")
  /\ Put(manager[t], "dlq")
  /\ Answer(t)
  /\ UNCHANGED <<instance, assigned, lock>>

(* getQueueService for the other requests, which then use the service, or  *)
(* end with a NullPointerException if there is none.                       *)
GetQueueService(t) ==
  /\ At(t, "getQueueService")
  /\ manager[t] \in assigned
  /\ Answer(t)
  /\ UNCHANGED <<instance, assigned, table, lock>>

-----------------------------------------------------------------------------
Request(t) == HandleCreate(t) \/ HandleOther(t)

Step(t) ==
  \/ TestInstance(t) \/ EnterSynchronized(t) \/ NewInstance(t)
  \/ AssignQueues(t) \/ ReturnInstance(t)
  \/ CallCrashes(t) \/ TestExists(t)
  \/ CreateQueueGet(t) \/ CreateQueuePut(t) \/ CreateDLQGet(t) \/ CreateDLQPut(t)
  \/ GetQueueService(t)

Next == \E t \in Threads : Request(t) \/ Step(t)

Spec == Init /\ [][Next]_vars

(* A handler that has started is run by its thread.                        *)
FairSpec == Spec /\ \A t \in Threads : WF_vars(Step(t))

-----------------------------------------------------------------------------
(* Type invariant; the class lock is held exactly inside synchronized.     *)
Inside(t) == pc[t] \in {"new", "assign"}

TypeOK ==
  /\ instance \in 0 .. Cardinality(Threads)
  /\ assigned \subseteq 1 .. instance
  /\ table \in [Managers -> SUBSET Names]
  /\ lock \in Threads \union {None}
  /\ pc \in [Threads -> {"idle", "test", "enter", "new", "assign", "return"} \union Calls]
  /\ site \in [Threads -> Sites]
  /\ manager \in [Threads -> 0 .. instance]
  /\ \A t \in Threads : Inside(t) <=> lock = t

(* Without the second test every thread that found no instance creates     *)
(* one, but no thread ever creates two: there are at most as many managers *)
(* as threads, whatever number of requests they serve.                     *)
Creators == {t \in Threads : pc[t] \in {"enter", "new"}}

OneManagerEach == instance + Cardinality(Creators) <= Cardinality(Threads)

(* The published instance lacks its map only while its creator is still    *)
(* inside synchronized.                                                    *)
AssignedOutsideLock == lock = None /\ instance # 0 => instance \in assigned

(* Once no CREATE is in progress, a queue that can be found has its dead   *)
(* letter queue beside it, however many managers were created and          *)
(* discarded meanwhile: moveMessageToDLQ does not look at what it gets.    *)
Creating(t) ==
  /\ pc[t] # "idle" /\ site[t] \in {"exists", "createQueue", "createDLQ"}

PairedWhenQuiet ==
  (\A t \in Threads : ~ Creating(t)) /\ instance # 0 =>
    (Registered(instance, "queue") => Registered(instance, "dlq"))

(* No request waits for the class lock for ever.                           *)
RequestsEnd == \A t \in Threads : ~ At(t, "idle") ~> At(t, "idle")
=============================================================================
