---------------------------- MODULE MonitorQueue ----------------------------
(***************************************************************************)
(* process/MyQueue: a bounded queue whose methods are synchronized.  get   *)
(* waits until there is an element, put notifies whoever waits.  Every     *)
(* method is one step, but for a get that waits: it goes into the wait set *)
(* and, woken by a notification, an interrupt that it ignores, or for no   *)
(* reason, tests the queue again when it has the monitor.                  *)
(* An element is "valid" or "expired"; MyQueueElement, which tells how     *)
(* long one is valid, is not in the repository.                            *)
(* Bounds: MaxPuts, MaxWakes.                                              *)
(***************************************************************************)
EXTENDS Naturals, FiniteSets, Sequences, SequencesExt

CONSTANTS
  Threads,
  Capacities,    \* what setCapacity is called with; 0 is no limit
  MaxPuts, MaxWakes

MonitorAssumption ==
  /\ IsFiniteSet(Threads)
  /\ Capacities \subseteq Nat /\ Capacities # {}
  /\ {MaxPuts, MaxWakes} \subseteq Nat

VARIABLES
  queue,
  capacity,
  waiting,       \* the wait set of the monitor
  woken,         \* threads that are to test the queue again
  puts, wakes

vars == <<queue, capacity, waiting, woken, puts, wakes>>

Idle == Threads \ (waiting \union woken)

Init ==
  /\ queue = <<>> /\ capacity \in Capacities
  /\ waiting = {} /\ woken = {}
  /\ puts = 0 /\ wakes = 0

-----------------------------------------------------------------------------
(* get, called (from = Idle) or going on (from = woken): the first element *)
(* goes, and if it has expired get returns null for it.                    *)
TestQueue(t) ==
  /\ IF queue = <<>>
       THEN waiting' = waiting \union {t} /\ UNCHANGED queue
       ELSE queue' = Tail(queue) /\ UNCHANGED waiting
  /\ woken' = woken \ {t}
  /\ UNCHANGED <<capacity, puts, wakes>>

Get(t)    == t \in Idle /\ TestQueue(t)
Resume(t) == t \in woken /\ TestQueue(t)

Interrupt(t) ==
  /\ t \in waiting /\ wakes < MaxWakes
  /\ wakes' = wakes + 1
  /\ waiting' = waiting \ {t} /\ woken' = woken \union {t}
  /\ UNCHANGED <<queue, capacity, puts>>

NotifyAll == waiting' = {} /\ woken' = woken \union waiting

Notify ==
  IF waiting = {}
    THEN UNCHANGED <<waiting, woken>>
    ELSE \E t \in waiting : waiting' = waiting \ {t} /\ woken' = woken \union {t}

(* Mutant: one thread is notified, and only if the queue was empty.        *)
PutNotifyFirst ==
  /\ puts < MaxPuts /\ puts' = puts + 1
  /\ capacity' \in Capacities
  /\ IF capacity = 0 \/ Len(queue) < capacity'
       THEN /\ \E element \in {"valid", "expired"} : queue' = Append(queue, element)
            /\ IF queue = <<>> THEN Notify ELSE UNCHANGED <<waiting, woken>>
       ELSE UNCHANGED <<queue, waiting, woken>>
  /\ UNCHANGED wakes

(* Both forms of put.  The one with a timeout passes 0 instead of it, and  *)
(* its elements have expired from the start.  The capacity is read twice,  *)
(* and setCapacity, which is not synchronized, may come in between: a      *)
(* limit that has just been taken away refuses even an empty queue.        *)
Put ==
  /\ puts < MaxPuts /\ puts' = puts + 1
  /\ capacity' \in Capacities
  /\ IF capacity = 0 \/ Len(queue) < capacity'
       THEN /\ \E element \in {"valid", "expired"} : queue' = Append(queue, element)
            /\ NotifyAll
       ELSE Notify /\ UNCHANGED queue
  /\ UNCHANGED wakes

-----------------------------------------------------------------------------
(* getNoWait drops the expired elements before the first valid one, which  *)
(* it returns and leaves where it is.                                      *)
GetNoWait(t) ==
  /\ t \in Idle
  /\ queue' = LET valid == {k \in DOMAIN queue : queue[k] = "valid"}
              IN  IF valid = {} THEN <<>>
                  ELSE SubSeq(queue, CHOOSE k \in valid : \A j \in valid : k <= j, Len(queue))
  /\ UNCHANGED <<capacity, waiting, woken, puts, wakes>>

Peek(t) ==
  /\ t \in Idle /\ queue # <<>>
  /\ queue' = IF Head(queue) = "expired" THEN Tail(queue) ELSE queue
  /\ UNCHANGED <<capacity, waiting, woken, puts, wakes>>

RemoveElementById(t) ==
  /\ t \in Idle
  /\ \E k \in DOMAIN queue : queue' = RemoveAt(queue, k)
  /\ UNCHANGED <<capacity, waiting, woken, puts, wakes>>

Clear(t) ==
  /\ t \in Idle /\ queue' = <<>>
  /\ UNCHANGED <<capacity, waiting, woken, puts, wakes>>

SetCapacity ==
  /\ capacity' \in Capacities
  /\ UNCHANGED <<queue, waiting, woken, puts, wakes>>

(* The time for which an element is valid passes.                          *)
Expire ==
  /\ \E k \in DOMAIN queue : queue' = [queue EXCEPT ![k] = "expired"]
  /\ UNCHANGED <<capacity, waiting, woken, puts, wakes>>

-----------------------------------------------------------------------------
Next ==
  \/ Put \/ SetCapacity \/ Expire
  \/ \E t \in Threads : Get(t) \/ Resume(t) \/ Interrupt(t) \/ GetNoWait(t) \/ Peek(t)
       \/ RemoveElementById(t) \/ Clear(t)

Spec == Init /\ [][Next]_vars

-----------------------------------------------------------------------------
TypeOK ==
  /\ queue \in Seq({"valid", "expired"}) /\ capacity \in Capacities
  /\ waiting \subseteq Threads /\ woken \subseteq Threads \ waiting
  /\ puts \in 0 .. MaxPuts /\ wakes \in 0 .. MaxWakes

(* No thread stays in the wait set of get beside an element: whichever of  *)
(* the woken threads comes first, whatever others remove, and though a put *)
(* on a full queue wakes only one, nobody waits for a notification that    *)
(* has already been made.                                                  *)
NobodyForgotten == waiting # {} => queue = <<>>
=============================================================================
