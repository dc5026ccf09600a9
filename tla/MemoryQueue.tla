---------------------------- MODULE MemoryQueue ----------------------------
(***************************************************************************)
(* MemoryQueueService of queue_service, called by several threads for one  *)
(* queue.  The map is concurrent and so are the deques, but each method    *)
(* makes several calls: push looks for the deque, puts a new one and adds  *)
(* to it; pull finds a visible message, gives it an identifier, reads the  *)
(* clock, hides it and reads the identifier again; delete finds a message  *)
(* and removes it.  What a thread writes to a message is seen by all at    *)
(* once.  The attempts, which nobody reads, are left out.                  *)
(* Bounds: MaxPushes, MaxPulls, MaxTime.                                   *)
(***************************************************************************)
EXTENDS Naturals, FiniteSets, Sequences, SequencesExt

CONSTANTS
  Threads,
  Timeout,             \* visibilityTimeout
  MaxPushes, MaxPulls, MaxTime

MemoryAssumption ==
  /\ IsFiniteSet(Threads)
  /\ {Timeout, MaxPushes, MaxPulls} \subseteq Nat /\ MaxTime \in Nat \ {0}

VARIABLES
  current,             \* the deque in the map, 0 if there is none
  deques,              \* the contents of the deques, in the order of their put
  visibleFrom, msgId,  \* of each message
  pushes, pulls,       \* messages pushed and identifiers drawn so far
  pc, deque, msg, at,  \* of each thread: the deque, message and time it has read
  leases,              \* history: the receipts returned, [msg, id, until]
  shared,              \* history: messages that two pulls had in hand at once
  now

data    == <<current, deques, visibleFrom, msgId, pushes, pulls>>
threads == <<pc, deque, msg, at>>
history == <<leases, shared>>
vars    == <<data, threads, history, now>>

Messages == 1 .. MaxPushes

Init ==
  /\ current = 0 /\ deques = <<>> /\ pushes = 0 /\ pulls = 0
  /\ visibleFrom = [m \in Messages |-> 0] /\ msgId = [m \in Messages |-> 0]
  /\ pc = [t \in Threads |-> "idle"]
  /\ deque = [t \in Threads |-> 0] /\ msg = [t \in Threads |-> 0] /\ at = [t \in Threads |-> 0]
  /\ leases = {} /\ shared = {} /\ now = 1

At(t, label) == pc[t] = label
Goto(t, label) == pc' = [pc EXCEPT ![t] = label]

(* A thread that is done forgets what it had read.                         *)
Return(t) ==
  /\ Goto(t, "idle")
  /\ deque' = [deque EXCEPT ![t] = 0]
  /\ msg' = [msg EXCEPT ![t] = 0]
  /\ at' = [at EXCEPT ![t] = 0]

-----------------------------------------------------------------------------
(* push                                                                    *)

(* Mutant: an empty deque is replaced as well.                             *)
PushUnlessEmpty(t) ==
  /\ At(t, "idle") /\ pushes < MaxPushes
  /\ pushes' = pushes + 1
  /\ msg' = [msg EXCEPT ![t] = pushes']
  /\ deque' = [deque EXCEPT ![t] = current]
  /\ Goto(t, IF current = 0 \/ deques[current] = <<>> THEN "put" ELSE "add")
  /\ UNCHANGED <<current, deques, visibleFrom, msgId, pulls, at, history, now>>

Push(t) ==
  /\ At(t, "idle") /\ pushes < MaxPushes
  /\ pushes' = pushes + 1
  /\ msg' = [msg EXCEPT ![t] = pushes']
  /\ deque' = [deque EXCEPT ![t] = current]
  /\ Goto(t, IF current = 0 THEN "put" ELSE "add")
  /\ UNCHANGED <<current, deques, visibleFrom, msgId, pulls, at, history, now>>

PutDeque(t) ==
  /\ At(t, "put")
  /\ deques' = Append(deques, <<>>)
  /\ current' = Len(deques')
  /\ deque' = [deque EXCEPT ![t] = current']
  /\ Goto(t, "add")
  /\ UNCHANGED <<visibleFrom, msgId, pushes, pulls, msg, at, history, now>>

Add(t) ==
  /\ At(t, "add")
  /\ deques' = [deques EXCEPT ![deque[t]] = Append(@, msg[t])]
  /\ Return(t)
  /\ UNCHANGED <<current, visibleFrom, msgId, pushes, pulls, history, now>>

-----------------------------------------------------------------------------
(* pull.  Without a deque it returns null at once.                         *)
Pull(t) ==
  /\ At(t, "idle") /\ current # 0 /\ pulls < MaxPulls
  /\ deque' = [deque EXCEPT ![t] = current]
  /\ at' = [at EXCEPT ![t] = now]
  /\ Goto(t, "find")
  /\ UNCHANGED <<data, msg, history, now>>

(* Mutant: visible again at the end of the timeout.                        *)
isVisibleFrom(m, time) == visibleFrom[m] <= time

isVisibleAt(m, time) == visibleFrom[m] < time

Pulling == {"identify", "clock", "hide", "answer"}
InHand(m) == \E u \in Threads : pc[u] \in Pulling /\ msg[u] = m

(* The stream has passed over the messages hidden at the time it has read. *)
Find(t) ==
  /\ At(t, "find")
  /\ LET queue == deques[deque[t]]
         Visible(k) == isVisibleAt(queue[k], at[t])
     IN  \/ /\ \A k \in DOMAIN queue : ~ Visible(k)
            /\ Return(t) /\ UNCHANGED history
         \/ \E k \in DOMAIN queue :
              /\ Visible(k) /\ \A j \in 1 .. k - 1 : ~ Visible(j)
              /\ msg' = [msg EXCEPT ![t] = queue[k]]
              /\ shared' = IF InHand(queue[k]) THEN shared \union {queue[k]} ELSE shared
              /\ Goto(t, "identify")
              /\ UNCHANGED <<deque, at, leases>>
  /\ UNCHANGED <<data, now>>

SetMsgId(t) ==
  /\ At(t, "identify") /\ pulls < MaxPulls
  /\ pulls' = pulls + 1
  /\ msgId' = [msgId EXCEPT ![msg[t]] = pulls']
  /\ Goto(t, "clock")
  /\ UNCHANGED <<current, deques, visibleFrom, pushes, deque, msg, at, history, now>>

ReadClock(t) ==
  /\ At(t, "clock")
  /\ at' = [at EXCEPT ![t] = now + Timeout]
  /\ Goto(t, "hide")
  /\ UNCHANGED <<data, deque, msg, history, now>>

SetVisibleFrom(t) ==
  /\ At(t, "hide")
  /\ visibleFrom' = [visibleFrom EXCEPT ![msg[t]] = at[t]]
  /\ Goto(t, "answer")
  /\ UNCHANGED <<current, deques, msgId, pushes, pulls, deque, msg, at, history, now>>

(* The identifier is read from the message again.                          *)
AnswerPull(t) ==
  /\ At(t, "answer")
  /\ leases' = leases \union {[msg |-> msg[t], id |-> msgId[msg[t]], until |-> at[t]]}
  /\ Return(t)
  /\ UNCHANGED <<data, shared, now>>

-----------------------------------------------------------------------------
(* delete, with the identifier of a receipt.                               *)
IsToDelete(m, id) == ~ isVisibleAt(m, now) /\ msgId[m] = id

Delete(t) ==
  /\ At(t, "idle") /\ current # 0
  /\ \E l \in leases : \E k \in DOMAIN deques[current] :
       /\ IsToDelete(deques[current][k], l.id)
       /\ msg' = [msg EXCEPT ![t] = deques[current][k]]
  /\ deque' = [deque EXCEPT ![t] = current]
  /\ Goto(t, "remove")
  /\ UNCHANGED <<data, at, history, now>>

RemoveMessage(t) ==
  /\ At(t, "remove")
  /\ LET queue == deques[deque[t]]
     IN  \/ \E k \in DOMAIN queue :
              /\ queue[k] = msg[t]
              /\ deques' = [deques EXCEPT ![deque[t]] = RemoveAt(@, k)]
         \/ /\ \A k \in DOMAIN queue : queue[k] # msg[t]   \* another delete was first
            /\ UNCHANGED deques
  /\ Return(t)
  /\ UNCHANGED <<current, visibleFrom, msgId, pushes, pulls, history, now>>

Tick ==
  /\ now < MaxTime /\ now' = now + 1
  /\ UNCHANGED <<data, threads, history>>

-----------------------------------------------------------------------------
Step(t) ==
  \/ Push(t) \/ PutDeque(t) \/ Add(t)
  \/ Pull(t) \/ Find(t) \/ SetMsgId(t) \/ ReadClock(t) \/ SetVisibleFrom(t) \/ AnswerPull(t)
  \/ Delete(t) \/ RemoveMessage(t)

Next == Tick \/ \E t \in Threads : Step(t)

Spec == Init /\ [][Next]_vars

-----------------------------------------------------------------------------
Labels == {"idle", "put", "add", "find", "remove"} \union Pulling

TypeOK ==
  /\ current \in 0 .. Len(deques) /\ deques \in Seq(Seq(Messages))
  /\ visibleFrom \in [Messages -> 0 .. MaxTime + Timeout]
  /\ msgId \in [Messages -> 0 .. pulls]
  /\ pushes \in 0 .. MaxPushes /\ pulls \in 0 .. MaxPulls /\ now \in 1 .. MaxTime
  /\ pc \in [Threads -> Labels]
  /\ deque \in [Threads -> 0 .. Len(deques)] /\ msg \in [Threads -> 0 .. MaxPushes]
  /\ at \in [Threads -> 0 .. MaxTime + Timeout]
  /\ leases \subseteq [msg : Messages, id : 1 .. MaxPulls, until : 1 .. MaxTime + Timeout]
  /\ shared \subseteq Messages

(* A message that is pulled again is handed out again only after the       *)
(* timeout, and under another receipt, unless one pull found it before      *)
(* another had answered; deletes that come late change nothing.            *)
LeaseKept ==
  \A k, l \in leases :
    k # l /\ k.msg = l.msg /\ k.msg \notin shared =>
      k.id # l.id /\ (k.until + Timeout < l.until \/ l.until + Timeout < k.until)

(* A deque is replaced, with all that was pushed to it in the meantime,    *)
(* only by threads that looked for one before there was any: each can do   *)
(* so once, however often the queue is emptied and filled again.           *)
DequesBounded == Len(deques) <= Cardinality(Threads)
=============================================================================
