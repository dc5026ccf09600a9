---------------------------- MODULE SerialQueue ----------------------------
(***************************************************************************)
(* MessageQueue run by one thread, that is, by clients that wait for an    *)
(* answer before the next request is sent, keeps the promise of            *)
(* LeaseQueue.                                                             *)
(***************************************************************************)
EXTENDS MessageQueue

ASSUME OneThread == \E t \in Threads : Threads = {t}
(* A request changes its message in several steps; it counts as done at    *)
(* one of them.  A lease begins when its timer is set and ends when the    *)
(* failure is counted.  A dead message counts as moved when it has been    *)
(* added to the dead letter queue.                                         *)
BeingTaken(m)    == \E t \in Threads : cur[t] = m /\ pc[t] = "arm"
BeingRestored(m) == \E t \in Threads : cur[t] = m /\ pc[t] \in {"timer", "show"}

Stored == queues \union {m \in 1 .. sent : InTransit(m)}
Dead   == {m \in Stored : failures[m] > MaxFailCount}
Leased_ == {m \in Stored \ Dead : /\ ~ isVisible[m]
                                  /\ ~ BeingTaken(m) /\ ~ BeingRestored(m)}
Ready  == Stored \ (Dead \union Leased_)
Due    == [m \in Messages |-> IF m \in Leased_ THEN processTimeoutFrom[m] ELSE 0]

(* The message of a FAIL request whose failure is not counted yet.         *)
FailPending(m) == \E t \in Threads : /\ job[t] = "FAIL" /\ nowTime[t] = 0
                                     /\ cur[t] = m
                                     /\ pc[t] \in {"restore", "read", "write"}
Failing == IF \E m \in Messages : FailPending(m)
             THEN CHOOSE m \in Messages : FailPending(m) ELSE 0

Lease == INSTANCE LeaseQueue
           WITH time <- clock, ready <- Ready, leased <- Leased_, dead <- Dead,
                due <- Due, fails <- failures, failing <- Failing

(* Every step of the one thread is an event of LeaseQueue or invisible:    *)
(* a message is handed out to one consumer at a time and oldest first, a   *)
(* lease ends only by ACK, FAIL or timeout, every failure is counted once. *)
KeepsPromise == Lease!Promise
=============================================================================
