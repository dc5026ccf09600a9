------------------------------ MODULE Pollers ------------------------------
(***************************************************************************)
(* RunManager2 of 2022B/SUB3 and the workers it feeds: main puts a worker  *)
(* for each input queue into a HashMap and submits the queue's poller to a *)
(* pool of threads.  A poller requests an input, runs the worker on it and *)
(* posts the result, for ever; an exception ends it in its Future, where   *)
(* nobody looks.  RunManager3 does the same in the common pool, and        *)
(* RunManager1 has a thread for each queue, Pool = Queues.                 *)
(* Bounds: MaxInputs.                                                      *)
(***************************************************************************)
EXTENDS Integers, FiniteSets, Sequences, SequencesExt

CONSTANTS
  Queues,        \* how many input queues there are
  Pool,          \* threads of the pool: inputQueueCount, or the cores of RunManager3
  Threshold,     \* puts the HashMap takes before it resizes
  Inputs,        \* records [time, value]: what a request may bring
  Expiry,
  MaxInputs

PollersAssumption ==
  /\ Queues \in Nat /\ Pool \in Nat \ {0} /\ Threshold \in Nat
  /\ Inputs \subseteq [time : Int, value : {"view", "click", "malformed"}]
  /\ Expiry \in Nat /\ MaxInputs \in Nat

VARIABLES
  main,          \* what main does next: put, resize, submit, await, ended
  submitted,     \* queues whose poller has been submitted: 1 .. submitted
  pc,            \* the poller of each queue
  free,          \* threads of the pool that have no poller
  store,         \* the store of each worker
  given          \* history: the inputs each worker was run on

vars == <<main, submitted, pc, free, store, given>>

Q == 1 .. Queues
Active == {q \in Q : pc[q] \in {"poll", "run", "post"}}

Init ==
  /\ main = IF Queues = 0 THEN "await" ELSE "put"
  /\ submitted = 0 /\ free = Pool
  /\ pc = [q \in Q |-> "new"]
  /\ store = [q \in Q |-> <<>>]
  /\ given = [q \in Q |-> <<>>]

-----------------------------------------------------------------------------
(* main.  A put beyond the threshold replaces the table by an empty one    *)
(* and moves the workers after that.                                       *)
PutWorker ==
  /\ main = "put"
  /\ main' = IF submitted + 1 > Threshold THEN "resize" ELSE "submit"
  /\ UNCHANGED <<submitted, pc, free, store, given>>

Resized ==
  /\ main = "resize" /\ main' = "submit"
  /\ UNCHANGED <<submitted, pc, free, store, given>>

Submit ==
  /\ main = "submit"
  /\ submitted' = submitted + 1
  /\ pc' = [pc EXCEPT ![submitted'] = "queued"]
  /\ main' = IF submitted' = Queues THEN "await" ELSE "put"
  /\ UNCHANGED <<free, store, given>>

(* awaitTermination, and the HttpClient is stopped.                        *)
Terminated ==
  /\ main = "await" /\ \A q \in Q : pc[q] = "dead"
  /\ main' = "ended"
  /\ UNCHANGED <<submitted, pc, free, store, given>>

Main == PutWorker \/ Resized \/ Submit \/ Terminated

-----------------------------------------------------------------------------
(* A free thread takes the task that was submitted first.                  *)
Dispatch(q) ==
  /\ pc[q] = "queued" /\ free > 0
  /\ \A r \in 1 .. q - 1 : pc[r] # "queued"
  /\ pc' = [pc EXCEPT ![q] = "poll"]
  /\ free' = free - 1
  /\ UNCHANGED <<main, submitted, store, given>>

(* Mutant: the thread ends with its poller.                                *)
DieWithThread(q) ==
  /\ pc' = [pc EXCEPT ![q] = "dead"]
  /\ UNCHANGED <<main, submitted, free, store, given>>

(* A NullPointerException ends the task, not the thread.                   *)
Die(q) ==
  /\ pc' = [pc EXCEPT ![q] = "dead"] /\ free' = free + 1
  /\ UNCHANGED <<main, submitted, store, given>>

(* A request that fails, or has another status than 200, leaves an empty   *)
(* text, which is null as a JsonObject.                                    *)
RequestFails(q) == pc[q] = "poll" /\ Die(q)

RequestInput(q) ==
  /\ pc[q] = "poll"
  /\ pc' = [pc EXCEPT ![q] = "run"]
  /\ UNCHANGED <<main, submitted, free, store, given>>

(* workerHashMap.get finds nothing in a table that is being filled.        *)
WorkerMissing(q) == pc[q] = "run" /\ main = "resize" /\ Die(q)

Expired(time, item) == time - item.time > Expiry

(* Mutant: the loop goes forward over the store it removes from.           *)
RemoveForward(time, items) ==
  FoldLeft(LAMBDA s, i : IF i <= Len(s) /\ Expired(time, s[i]) THEN RemoveAt(s, i) ELSE s,
           items, [i \in DOMAIN items |-> i])

(* The store after the turn of the loop for item i, the last being item 1. *)
removeExpiredStoreItems(time, items) ==
  LET after[i \in 1 .. Len(items) + 1] ==
        IF i > Len(items) THEN items
        ELSE IF Expired(time, after[i + 1][i]) THEN RemoveAt(after[i + 1], i)
        ELSE after[i + 1]
  IN  after[1]

(* A CLICK matches a VIEW in the store.  A malformed value is stored like  *)
(* any other, and then nothing matches until it has expired.               *)
Matched(value, items) ==
  LET Has(v) == \E i \in DOMAIN items : items[i].value = v
  IN  value = "click" /\ Has("view") /\ ~ Has("malformed")

RunWorker(q) ==
  /\ pc[q] = "run"
  /\ \E input \in Inputs :
       LET fresh == removeExpiredStoreItems(input.time, store[q])
       IN  /\ store' = [store EXCEPT ![q] = Append(fresh, input)]
           /\ given' = [given EXCEPT ![q] = Append(@, input)]
           /\ pc' = [pc EXCEPT ![q] = IF Matched(input.value, fresh) THEN "post" ELSE "poll"]
  /\ UNCHANGED <<main, submitted, free>>

(* Whatever becomes of the POST, the poller goes on.                       *)
PostResult(q) ==
  /\ pc[q] = "post" /\ pc' = [pc EXCEPT ![q] = "poll"]
  /\ UNCHANGED <<main, submitted, free, store, given>>

-----------------------------------------------------------------------------
More == FoldFunction(LAMBDA s, n : n + Len(s), 0, given) + Cardinality({q \in Q : pc[q] = "run"}) < MaxInputs

Poll(q) ==
  \/ RequestFails(q)
  \/ More /\ RequestInput(q)
Work(q) == WorkerMissing(q) \/ RunWorker(q) \/ PostResult(q)

Next == Main \/ \E q \in Q : Dispatch(q) \/ Poll(q) \/ Work(q)

Spec == Init /\ [][Next]_vars

(* main and the threads run; a request may stay without an answer for      *)
(* ever, since it has no timeout.                                          *)
Fairness == WF_vars(Main) /\ \A q \in Q : WF_vars(Dispatch(q)) /\ WF_vars(Work(q))

-----------------------------------------------------------------------------
TypeOK ==
  /\ main \in {"put", "resize", "submit", "await", "ended"}
  /\ submitted \in 0 .. Queues
  /\ pc \in [Q -> {"new", "queued", "poll", "run", "post", "dead"}]
  /\ free \in 0 .. Pool /\ free = Pool - Cardinality(Active)
  /\ store \in [Q -> Seq(Inputs)] /\ given \in [Q -> Seq(Inputs)]

(* What a worker's store holds are the inputs it was given and that were   *)
(* not too old for any input after them, in their order: the loop over the *)
(* store that it removes from skips none and takes no other, whatever the  *)
(* order of the timestamps.                                                *)
Kept(s, i) == \A j \in i + 1 .. Len(s) : ~ Expired(s[j].time, s[i])

(* The items of part are those of whole at the positions at, in order.     *)
Selects(at, part, whole) ==
  /\ at \in [DOMAIN part -> DOMAIN whole]
  /\ \A n, m \in DOMAIN part : n < m => at[n] < at[m]
  /\ \A n \in DOMAIN part : part[n] = whole[at[n]]

StoreFresh ==
  \A q \in Q : \E at \in [DOMAIN store[q] -> DOMAIN given[q]] :
    /\ Selects(at, store[q], given[q])
    /\ Range(at) = {i \in DOMAIN given[q] : Kept(given[q], i)}

(* A poller that waits for a thread gets one, unless from some time on as  *)
(* many others poll as the pool has threads: pollers that end make room.   *)
Room == Cardinality(Active) < Pool
Waits(q) == pc[q] = "queued"

QueuesGetThreads == \A q \in Q : []<>Room => (Waits(q) ~> ~ Waits(q))
=============================================================================
