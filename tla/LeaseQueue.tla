----------------------------- MODULE LeaseQueue -----------------------------
(***************************************************************************)
(* What a queue of the messaging service promises (quest.txt of 2021/SUB3  *)
(* and 2021/SUB4), one event at a time: a message is handed out to one     *)
(* consumer, oldest first; the consumer holds it under a lease that ends   *)
(* with ACK, with FAIL, or once ProcessTimeout is over; a message whose    *)
(* lease failed is available again at its old place, or, after more than   *)
(* MaxFailCount failures, dead and moved to the dead letter queue, which   *)
(* keeps at most as many messages as the queue.                            *)
(***************************************************************************)
EXTENDS Integers, Sequences, FiniteSets

CONSTANTS MaxMessages,   \* bound: messages ever sent
          Slack, QueueSize, ProcessTimeout, MaxFailCount

VARIABLES
  time,
  sent,                  \* messages accepted so far; the newest one
  ready, leased, dead,   \* the messages stored, by status
  due,                   \* when the lease of a leased message runs out (0: never)
  fails,                 \* how often a message has failed
  failing,               \* the message a FAIL request names (0: no such request)
  deadLetters            \* the dead letter queue

leaseVars == <<time, sent, ready, leased, dead, due, fails, failing, deadLetters>>

Stored == ready \union leased \union dead

Init ==
  /\ time = 1 /\ sent = 0
  /\ ready = {} /\ leased = {} /\ dead = {}
  /\ due = [m \in 1 .. MaxMessages |-> 0]
  /\ fails = [m \in 1 .. MaxMessages |-> 0]
  /\ failing = 0
  /\ deadLetters = << >>

Send ==
  /\ sent < MaxMessages
  /\ Cardinality(Stored) < QueueSize
  /\ sent' = sent + 1
  /\ ready' = ready \union {sent + 1}
  /\ UNCHANGED <<time, leased, dead, due, fails, failing, deadLetters>>

Receive(m) ==
  /\ m \in ready /\ \A n \in ready : m <= n
  /\ ready' = ready \ {m}
  /\ leased' = leased \union {m}
  /\ due' = [due EXCEPT ![m] = IF ProcessTimeout > 0 THEN time + ProcessTimeout ELSE 0]
  /\ UNCHANGED <<time, sent, dead, fails, failing, deadLetters>>

Ack(m) ==
  /\ m \in ready \union leased
  /\ ready' = ready \ {m} /\ leased' = leased \ {m}
  /\ due' = [due EXCEPT ![m] = 0]
  /\ UNCHANGED <<time, sent, dead, fails, failing, deadLetters>>

(* One more failure of a stored message: it is ready again, or dead.       *)
Failed(m) ==
  /\ fails' = [fails EXCEPT ![m] = @ + 1]
  /\ due' = [due EXCEPT ![m] = 0]
  /\ leased' = leased \ {m}
  /\ IF fails[m] < MaxFailCount
       THEN ready' = ready \union {m} /\ UNCHANGED dead
       ELSE ready' = ready \ {m} /\ dead' = dead \union {m}

FailRequest(m) ==
  /\ failing = 0
  /\ failing' = m
  /\ UNCHANGED <<time, sent, ready, leased, dead, due, fails, deadLetters>>

Fail ==
  /\ failing \in ready \union leased
  /\ Failed(failing)
  /\ failing' = 0
  /\ UNCHANGED <<time, sent, deadLetters>>

FailOfUnstored ==
  /\ failing # 0 /\ failing \notin Stored
  /\ failing' = 0
  /\ UNCHANGED <<time, sent, ready, leased, dead, due, fails, deadLetters>>

Expire(m) ==
  /\ m \in leased /\ due[m] # 0
  /\ due[m] - Slack < time
  /\ Failed(m)
  /\ UNCHANGED <<time, sent, failing, deadLetters>>

Bury(m) ==
  /\ m \in dead
  /\ dead' = dead \ {m}
  /\ deadLetters' = IF Len(deadLetters) < QueueSize
                      THEN Append(deadLetters, m) ELSE deadLetters
  /\ UNCHANGED <<time, sent, ready, leased, due, fails, failing>>

ReceiveDead ==
  /\ deadLetters # << >>
  /\ deadLetters' = Tail(deadLetters)
  /\ UNCHANGED <<time, sent, ready, leased, dead, due, fails, failing>>

Pass ==
  /\ time' = time + 1
  /\ UNCHANGED <<sent, ready, leased, dead, due, fails, failing, deadLetters>>

Next ==
  \/ Send \/ Fail \/ FailOfUnstored \/ ReceiveDead \/ Pass
  \/ \E m \in 1 .. MaxMessages :
       Receive(m) \/ Ack(m) \/ FailRequest(m) \/ Expire(m) \/ Bury(m)

Promise == Init /\ [][Next]_leaseVars
=============================================================================
