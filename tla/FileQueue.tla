------------------------------ MODULE FileQueue ------------------------------
(***************************************************************************)
(* One queue of FileQueueService (queue_service): a file of one record per *)
(* message, guarded by a lock that is a directory, so that threads and     *)
(* processes can share the queue.  A client takes the lock by creating the *)
(* directory and polls while somebody else has it; it rewrites the file by *)
(* copying it to a temporary file and moving that over it.                 *)
(*                                                                         *)
(* A step is one file system operation with its effect on the queue.       *)
(* Reading the whole file is one step, as is appending a record to the     *)
(* file a client has opened, which need no longer be the one at the path.  *)
(* Messages are numbered in the order of the pushes, and so are the        *)
(* receipts (random UUIDs) of the pulls.  A body is one line.  An error of *)
(* the file system loses whole records: none is torn in its middle.        *)
(***************************************************************************)
EXTENDS Naturals, Sequences, FiniteSets

CONSTANTS Clients,            \* threads or processes that use the queue
          VisibilityTimeout,  \* config.properties
          MaxInt,             \* Integer.MAX_VALUE, which parseInt respects
          Faults,             \* what may go wrong around the service
          MaxPushes, MaxPulls, Horizon   \* bounds: pushes, receipts, time

ASSUME FileQueueAssumption ==
  /\ Clients # {} /\ IsFiniteSet(Clients)
  /\ VisibilityTimeout \in Nat /\ MaxInt \in Nat
  /\ Faults \subseteq {"crash", "interrupt", "io"}
  /\ MaxPushes \in Nat /\ MaxPulls \in Nat /\ Horizon \in Nat

VARIABLES
  clock,
  locked,        \* the directory .lock exists
  exists, file,  \* the file messages and its records
  pc, op, arg,   \* what a client does next; its call; the call's argument
  temp,          \* the temporary file of a client
  taken,         \* the record a pull has marked as delivered
  current,       \* clients whose open file is still the one at the path
  pushes, receipts,
  deliveries,    \* history: what pulls have returned
  deleted,       \* history: messages whose delete has returned, in time
  purged,        \* history: messages purged
  cut,           \* history: messages that a failure has kept from being written
  leaked,        \* history: the lock there is was left by a client that has gone
  breached       \* history: a lock was removed under the client inside

storage == <<exists, file, current>>
call    == <<op, arg, temp, taken>>
history == <<deliveries, deleted, purged, cut>>
vars    == <<clock, locked, storage, pc, call, pushes, receipts, history,
             leaked, breached>>

NoRecord == [message |-> 0, attempts |-> 0, visibleFrom |-> 0, receipt |-> 0]

Init ==
  /\ clock = 1
  /\ locked = FALSE
  /\ exists = FALSE /\ file = << >> /\ current = {}
  /\ pc = [c \in Clients |-> "idle"]
  /\ op = [c \in Clients |-> "none"]
  /\ arg = [c \in Clients |-> 0]
  /\ temp = [c \in Clients |-> << >>]
  /\ taken = [c \in Clients |-> NoRecord]
  /\ pushes = 0 /\ receipts = 0
  /\ deliveries = {} /\ deleted = {} /\ purged = {} /\ cut = {}
  /\ leaked = FALSE /\ breached = FALSE

-----------------------------------------------------------------------------
At(c, o, label) == op[c] = o /\ pc[c] = label
Goto(c, label) == pc' = [pc EXCEPT ![c] = label]
Inside(c) == pc[c] \notin {"idle", "lock", "sleep"}

Call(c, o, a) ==
  /\ pc[c] = "idle"
  /\ Goto(c, "lock")
  /\ op' = [op EXCEPT ![c] = o]
  /\ arg' = [arg EXCEPT ![c] = a]
  /\ UNCHANGED <<clock, locked, storage, temp, taken, pushes, receipts, history,
                 leaked, breached>>

Leave(c) ==
  /\ Goto(c, "idle")
  /\ op' = [op EXCEPT ![c] = "none"]
  /\ arg' = [arg EXCEPT ![c] = 0]
  /\ temp' = [temp EXCEPT ![c] = << >>]
  /\ taken' = [taken EXCEPT ![c] = NoRecord]

Unlock == locked' = FALSE

Return(c) == Leave(c) /\ Unlock /\ leaked' = FALSE

(* The end of pull, which does not unlock.                                 *)
ReturnLocked(c) == Leave(c) /\ leaked' = TRUE /\ UNCHANGED locked

(* Records and what is done to them.                                       *)
Messages(records) == {records[i].message : i \in 1 .. Len(records)}

(* The records at these positions, in their order.                         *)
Select(records, positions) ==
  [n \in 1 .. Cardinality(positions) |->
     records[CHOOSE i \in positions : Cardinality({j \in positions : j <= i}) = n]]

CreateRecord(m) == [NoRecord EXCEPT !.message = m]

(* Mutant: visible one moment too early.                                   *)
IsVisibleAlready(r) == r.visibleFrom <= clock
IsVisible(r) == r.visibleFrom < clock

(* parseInt(fieldArr[0] + 1) on strings: the digit 1 is put after the      *)
(* attempts, it is not added to them.                                      *)
Attempts(r) == 10 * r.attempts + 1

DeliveredRecord(r, receipt) ==
  [r EXCEPT !.attempts = Attempts(r),
            !.visibleFrom = clock + VisibilityTimeout,
            !.receipt = receipt]

IsToDelete(r, receipt) == r.visibleFrom >= clock /\ r.receipt = receipt

(* The temporary file becomes the file at the path.                        *)
MoveTemp(c) == file' = temp[c] /\ exists' = TRUE /\ current' = {}

-----------------------------------------------------------------------------
(* The calls.  A delete names a receipt that a pull has returned.          *)
Push(c) ==
  /\ pushes + Cardinality({d \in Clients : op[d] = "push"}) < MaxPushes
  /\ Call(c, "push", 0)

Pull(c) == receipts < MaxPulls /\ Call(c, "pull", 0)

Delete(c) == \E d \in deliveries : Call(c, "delete", d.receipt)

PurgeQueue(c) == Call(c, "purge", 0)

-----------------------------------------------------------------------------
(* lock: mkdirs creates the directory, or fails and the client sleeps.     *)
Entry == [push |-> "open", pull |-> "copy", delete |-> "copy", purge |-> "remove"]

(* Mutant: whether mkdirs has created the directory is not looked at.      *)
LockAnyway(c) ==
  /\ pc[c] = "lock"
  /\ locked' = TRUE /\ Goto(c, Entry[op[c]])
  /\ UNCHANGED <<clock, storage, call, pushes, receipts, history, leaked, breached>>

Lock(c) ==
  /\ \/ /\ pc[c] \in {"lock", "sleep"} /\ ~ locked
        /\ locked' = TRUE /\ Goto(c, Entry[op[c]])
     \/ /\ pc[c] = "lock" /\ locked
        /\ Goto(c, "sleep") /\ UNCHANGED locked
  /\ UNCHANGED <<clock, storage, call, pushes, receipts, history, leaked, breached>>

(* A client interrupted in its sleep removes the lock it does not have.    *)
Interrupt(c) ==
  /\ "interrupt" \in Faults
  /\ pc[c] = "sleep"
  /\ Return(c)
  /\ breached' = (breached \/ \E d \in Clients : Inside(d))
  /\ UNCHANGED <<clock, storage, pushes, receipts, history>>

(* The process of a client ends while it is inside.                        *)
Crash(c) ==
  /\ "crash" \in Faults
  /\ Inside(c)
  /\ ReturnLocked(c)
  /\ current' = current \ {c}
  /\ UNCHANGED <<clock, exists, file, pushes, receipts, history, breached>>

-----------------------------------------------------------------------------
(* push: the file is created if there is none, opened, and appended to     *)
(* when the writer is closed.                                              *)
PushOpen(c) ==
  /\ At(c, "push", "open")
  /\ exists' = TRUE
  /\ current' = current \union {c}
  /\ Goto(c, "append")
  /\ UNCHANGED <<clock, locked, file, call, pushes, receipts, history, leaked, breached>>

PushAppend(c) ==
  /\ At(c, "push", "append")
  /\ pushes' = pushes + 1
  /\ file' = IF c \in current THEN Append(file, CreateRecord(pushes + 1)) ELSE file
  /\ current' = current \ {c}
  /\ Goto(c, "unlock")
  /\ UNCHANGED <<clock, locked, exists, call, receipts, history, leaked, breached>>

(* Mutant: the lock is not removed.                                        *)
LeaveLocked(c) ==
  /\ pc[c] = "unlock"
  /\ Leave(c)
  /\ UNCHANGED <<clock, locked, storage, pushes, receipts, history, leaked, breached>>

UnlockLast(c) ==
  /\ pc[c] = "unlock"
  /\ Return(c)
  /\ UNCHANGED <<clock, storage, pushes, receipts, history, breached>>

-----------------------------------------------------------------------------
(* pull: copies the file with the first visible record marked as delivered.*)
FirstVisible(i) ==
  /\ i \in 1 .. Len(file) /\ IsVisible(file[i])
  /\ \A j \in 1 .. i - 1 : ~ IsVisible(file[j])

(* The copy has been made with this record marked.                         *)
Mark(c, r) ==
  /\ taken' = [taken EXCEPT ![c] = r]
  /\ receipts' = receipts + 1
  /\ Goto(c, "move")
  /\ UNCHANGED <<clock, locked, storage, op, arg, pushes, history, leaked, breached>>

(* Mutant: what follows the record is not copied.                          *)
PullCopyHead(c) ==
  /\ At(c, "pull", "copy")
  /\ \E i \in 1 .. Len(file) :
       /\ FirstVisible(i) /\ Attempts(file[i]) <= MaxInt
       /\ Mark(c, DeliveredRecord(file[i], receipts + 1))
       /\ temp' = [temp EXCEPT ![c] = Append(SubSeq(file, 1, i - 1), taken'[c])]

(* Mutant: the delivered record is put at the end.                         *)
PullCopyToEnd(c) ==
  /\ At(c, "pull", "copy")
  /\ \E i \in 1 .. Len(file) :
       /\ FirstVisible(i) /\ Attempts(file[i]) <= MaxInt
       /\ Mark(c, DeliveredRecord(file[i], receipts + 1))
       /\ temp' = [temp EXCEPT ![c] =
            SubSeq(file, 1, i - 1) \o SubSeq(file, i + 1, Len(file)) \o <<taken'[c]>>]

(* Mutant: the attempts are parsed as a long.                              *)
PullCopyLong(c) ==
  /\ At(c, "pull", "copy")
  /\ \E i \in 1 .. Len(file) :
       /\ FirstVisible(i)
       /\ Mark(c, DeliveredRecord(file[i], receipts + 1))
       /\ temp' = [temp EXCEPT ![c] = [file EXCEPT ![i] = taken'[c]]]

PullCopy(c) ==
  /\ At(c, "pull", "copy")
  /\ \E i \in 1 .. Len(file) :
       /\ FirstVisible(i) /\ Attempts(file[i]) <= MaxInt
       /\ Mark(c, DeliveredRecord(file[i], receipts + 1))
       /\ temp' = [temp EXCEPT ![c] = [file EXCEPT ![i] = taken'[c]]]

(* No record is visible, or no file is there: the temporary file goes.     *)
PullNothing(c) ==
  /\ At(c, "pull", "copy")
  /\ ~ \E i \in 1 .. Len(file) : FirstVisible(i)
  /\ ReturnLocked(c)
  /\ UNCHANGED <<clock, storage, pushes, receipts, history, breached>>

PullMove(c) ==
  /\ At(c, "pull", "move")
  /\ MoveTemp(c)
  /\ deliveries' = deliveries \union {taken[c]}
  /\ ReturnLocked(c)
  /\ UNCHANGED <<clock, pushes, receipts, deleted, purged, cut, breached>>

(* The attempts no longer are an int: a NumberFormatException ends the     *)
(* loop, and the finally clause moves what has been copied so far.         *)
PullCut(c) ==
  /\ At(c, "pull", "copy")
  /\ \E i \in 1 .. Len(file) :
       /\ FirstVisible(i)
       /\ Attempts(file[i]) > MaxInt
       /\ temp' = [temp EXCEPT ![c] = SubSeq(file, 1, i - 1)]
       /\ Goto(c, "moveCut")
  /\ UNCHANGED <<clock, locked, storage, op, arg, taken, pushes, receipts, history,
                 leaked, breached>>

(* A copy that is not complete is moved all the same.  The pull returns    *)
(* the message if it had been marked when the copying failed.              *)
PullMoveCut(c) ==
  /\ At(c, "pull", "moveCut")
  /\ MoveTemp(c)
  /\ cut' = cut \union (Messages(file) \ Messages(temp[c]))
  /\ deliveries' = deliveries \union ({taken[c]} \ {NoRecord})
  /\ ReturnLocked(c)
  /\ UNCHANGED <<clock, pushes, receipts, deleted, purged, breached>>

-----------------------------------------------------------------------------
(* delete: copies the file without the record.                             *)

DeleteCopy(c) ==
  LET kept == {i \in 1 .. Len(file) : ~ IsToDelete(file[i], arg[c])}
  IN  /\ At(c, "delete", "copy")
      /\ IF kept = 1 .. Len(file)
           THEN Goto(c, "unlock") /\ UNCHANGED temp
           ELSE Goto(c, "move") /\ temp' = [temp EXCEPT ![c] = Select(file, kept)]
      /\ UNCHANGED <<clock, locked, storage, op, arg, taken, pushes, receipts,
                     history, leaked, breached>>

(* Mutant: the temporary file is not moved.                                *)
DeleteNoMove(c) ==
  /\ At(c, "delete", "move")
  /\ deleted' = deleted \union {d.message : d \in {d \in deliveries : d.receipt = arg[c]}}
  /\ Goto(c, "unlock")
  /\ UNCHANGED <<clock, locked, storage, call, pushes, receipts, deliveries,
                 purged, cut, leaked, breached>>

DeleteMove(c) ==
  /\ At(c, "delete", "move")
  /\ MoveTemp(c)
  /\ deleted' = deleted \union {d.message : d \in {d \in deliveries : d.receipt = arg[c]}}
  /\ Goto(c, "unlock")
  /\ UNCHANGED <<clock, locked, call, pushes, receipts, deliveries, purged, cut,
                 leaked, breached>>

(* What an error has left of the copy is moved as well.                    *)
DeleteMoveCut(c) ==
  /\ At(c, "delete", "moveCut")
  /\ MoveTemp(c)
  /\ deleted' = deleted \union {d.message : d \in {d \in deliveries : d.receipt = arg[c]}}
  /\ cut' = cut \union (Messages(file) \ Messages(temp[c]))
  /\ Goto(c, "unlock")
  /\ UNCHANGED <<clock, locked, call, pushes, receipts, deliveries, purged, leaked,
                 breached>>

-----------------------------------------------------------------------------
(* purgeQueue: removes the file and creates another one.                   *)
PurgeRemove(c) ==
  /\ At(c, "purge", "remove")
  /\ exists' = FALSE /\ file' = << >> /\ current' = {}
  /\ purged' = purged \union Messages(file)
  /\ Goto(c, "create")
  /\ UNCHANGED <<clock, locked, call, pushes, receipts, deliveries, deleted, cut,
                 leaked, breached>>

PurgeCreate(c) ==
  /\ At(c, "purge", "create")
  /\ exists' = TRUE
  /\ Goto(c, "unlock")
  /\ UNCHANGED <<clock, locked, file, current, call, pushes, receipts, history,
                 leaked, breached>>

-----------------------------------------------------------------------------
(* Errors of the file system.                                              *)

(* The file of the queue cannot be created or opened, or println fails and *)
(* says nothing: the message is not there, and push returns as ever.       *)
PushFails(c) ==
  /\ "io" \in Faults
  /\ At(c, "push", "open") \/ At(c, "push", "append")
  /\ pushes' = pushes + 1
  /\ cut' = cut \union {pushes + 1}
  /\ current' = current \ {c}
  /\ Goto(c, "unlock")
  /\ UNCHANGED <<clock, locked, exists, file, call, receipts, deliveries, deleted,
                 purged, leaked, breached>>

(* The file cannot be opened, or read up to a visible record.              *)
PullReadFails(c) ==
  /\ "io" \in Faults
  /\ At(c, "pull", "copy")
  /\ ReturnLocked(c)
  /\ UNCHANGED <<clock, storage, pushes, receipts, history, breached>>

(* After the record was marked the rest cannot be read, or println has     *)
(* failed before or after, and written some of the records only.           *)
PullCopyFails(c) ==
  /\ "io" \in Faults
  /\ At(c, "pull", "copy")
  /\ \E i \in 1 .. Len(file), written \in SUBSET (1 .. Len(file)) :
       /\ FirstVisible(i) /\ Attempts(file[i]) <= MaxInt
       /\ taken' = [taken EXCEPT ![c] = DeliveredRecord(file[i], receipts + 1)]
       /\ temp' = [temp EXCEPT ![c] = Select([file EXCEPT ![i] = taken'[c]], written)]
  /\ receipts' = receipts + 1
  /\ Goto(c, "moveCut")
  /\ UNCHANGED <<clock, locked, storage, op, arg, pushes, history, leaked, breached>>

(* Likewise for delete, before and after it has found its record.          *)
DeleteReadFails(c) ==
  /\ "io" \in Faults
  /\ At(c, "delete", "copy")
  /\ Goto(c, "unlock")
  /\ UNCHANGED <<clock, locked, storage, call, pushes, receipts, history, leaked, breached>>

DeleteCopyFails(c) ==
  LET kept == {i \in 1 .. Len(file) : ~ IsToDelete(file[i], arg[c])}
  IN  /\ "io" \in Faults
      /\ At(c, "delete", "copy")
      /\ kept # 1 .. Len(file)
      /\ \E written \in SUBSET kept : temp' = [temp EXCEPT ![c] = Select(file, written)]
      /\ Goto(c, "moveCut")
      /\ UNCHANGED <<clock, locked, storage, op, arg, taken, pushes, receipts,
                     history, leaked, breached>>

(* A file that cannot be removed or created is ignored by purge, and so is *)
(* the directory of the lock by every call.                                *)
PurgeFails(c) ==
  /\ "io" \in Faults
  /\ \/ At(c, "purge", "remove") /\ Goto(c, "create")
     \/ At(c, "purge", "create") /\ Goto(c, "unlock")
  /\ UNCHANGED <<clock, locked, storage, call, pushes, receipts, history, leaked, breached>>

UnlockFails(c) ==
  /\ "io" \in Faults
  /\ pc[c] = "unlock"
  /\ ReturnLocked(c)
  /\ UNCHANGED <<clock, storage, pushes, receipts, history, breached>>

(* A temporary file that cannot be created ends pull and delete with an    *)
(* unlock; one that cannot be moved is ignored, so that pull returns a     *)
(* message it has not marked.                                              *)
CreateTempFails(c) ==
  /\ "io" \in Faults
  /\ pc[c] = "copy"
  /\ Return(c)
  /\ UNCHANGED <<clock, storage, pushes, receipts, history, breached>>

MoveFails(c) ==
  /\ "io" \in Faults
  /\ \/ /\ At(c, "pull", "move")
        /\ deliveries' = deliveries \union {[taken[c] EXCEPT !.visibleFrom = 0]}
        /\ ReturnLocked(c)
     \/ /\ At(c, "pull", "moveCut")
        /\ deliveries' = deliveries \union
             ({[taken[c] EXCEPT !.visibleFrom = 0]} \ {NoRecord})
        /\ ReturnLocked(c)
     \/ /\ At(c, "delete", "move") \/ At(c, "delete", "moveCut")
        /\ Goto(c, "unlock") /\ UNCHANGED <<locked, call, deliveries, leaked>>
  /\ UNCHANGED <<clock, storage, pushes, receipts, deleted, purged, cut, breached>>

-----------------------------------------------------------------------------
Tick ==
  /\ clock < Horizon
  /\ clock' = clock + 1
  /\ UNCHANGED <<locked, storage, pc, call, pushes, receipts, history, leaked, breached>>

Request(c) == Push(c) \/ Pull(c) \/ Delete(c) \/ PurgeQueue(c)

Step(c) ==
  \/ Lock(c) \/ UnlockLast(c)
  \/ PushOpen(c) \/ PushAppend(c)
  \/ PullCopy(c) \/ PullNothing(c) \/ PullMove(c) \/ PullCut(c) \/ PullMoveCut(c)
  \/ DeleteCopy(c) \/ DeleteMove(c) \/ DeleteMoveCut(c)
  \/ PurgeRemove(c) \/ PurgeCreate(c)

Fault(c) ==
  \/ Interrupt(c) \/ Crash(c) \/ CreateTempFails(c) \/ MoveFails(c)
  \/ PushFails(c) \/ PullReadFails(c) \/ PullCopyFails(c)
  \/ DeleteReadFails(c) \/ DeleteCopyFails(c)
  \/ PurgeFails(c) \/ UnlockFails(c)

Next == Tick \/ \E c \in Clients : Request(c) \/ Step(c) \/ Fault(c)

Spec == Init /\ [][Next]_vars

(* A client that has made a call is run, and polls the lock.               *)
FairSpec == Spec /\ \A c \in Clients : WF_vars(Step(c))

-----------------------------------------------------------------------------
(* Properties.                                                             *)

Labels == {"idle", "lock", "sleep", "open", "append", "copy", "move", "moveCut",
           "remove", "create", "unlock"}

Records == [message : 1 .. pushes, attempts : 0 .. MaxInt, visibleFrom : Nat,
            receipt : 0 .. receipts]

(* Type invariant.                                                         *)
TypeOK ==
  /\ clock \in Nat /\ locked \in BOOLEAN /\ exists \in BOOLEAN
  /\ file \in Seq(Records) /\ (~ exists => file = << >>)
  /\ current \subseteq {c \in Clients : pc[c] = "append"}
  /\ pc \in [Clients -> Labels]
  /\ op \in [Clients -> {"none", "push", "pull", "delete", "purge"}]
  /\ arg \in [Clients -> 0 .. receipts]
  /\ temp \in [Clients -> Seq(Records)]
  /\ taken \in [Clients -> Records \union {NoRecord}]
  /\ pushes \in 0 .. MaxPushes /\ receipts \in Nat
  /\ deliveries \subseteq Records
  /\ deleted \union purged \union cut \subseteq 1 .. pushes
  /\ leaked \in BOOLEAN /\ breached \in BOOLEAN

(* Creating the directory is a lock: unless an interrupted client has      *)
(* removed the lock under the one inside, nobody else is inside, however   *)
(* many locks were left by pulls and crashes and removed by interrupts.    *)
OneInside ==
  ~ breached => /\ \A c, d \in Clients : Inside(c) /\ Inside(d) => c = d
                /\ (\E c \in Clients : Inside(c)) => locked

(* The lock is there for the one inside, or was left behind by the last    *)
(* one who was, and that was a pull, or a crash or an error of the file    *)
(* system: every other way out of every call has removed it.               *)
LockOfSomebody ==
  ~ breached =>
    LET inside == \E c \in Clients : Inside(c)
    IN  /\ locked <=> inside \/ leaked
        /\ ~ (inside /\ leaked)

(* A message that was pushed is in the file until it is deleted in time or *)
(* purged, or its record was not written because the file system failed or *)
(* because the attempts were out of range: copying and moving by one       *)
(* client drops no message another has just appended, a crash between the  *)
(* two drops none, and an error before anything was marked neither.        *)
NothingLost ==
  ~ breached =>
    1 .. pushes \subseteq Messages(file) \union deleted \union purged \union cut

(* A message that was deleted does not come back with the temporary file   *)
(* of another client.                                                      *)
DeletedStays == ~ breached => deleted \intersect Messages(file) = {}

(* Messages stay in the order of their pushes, each of them once, although *)
(* every pull and delete rewrites the file.                                *)
OldestFirst ==
  ~ breached =>
    \A i, j \in 1 .. Len(file) : i < j => file[i].message < file[j].message

(* While the time a pull has set is not over, the record carries the       *)
(* receipt of this pull: nobody else has been given the message meanwhile, *)
(* and a delete with the receipt will find it.                             *)
LeaseHeld ==
  ~ breached =>
    \A d \in deliveries, i \in 1 .. Len(file) :
      file[i].message = d.message /\ d.visibleFrom >= clock =>
        file[i].receipt = d.receipt

-----------------------------------------------------------------------------
(* QueueService.java:18: delete removes a message that was received     *)
(* with pull.  The pull has kept the lock, which delete waits for.         *)
DeleteEnds == \A c \in Clients : op[c] = "delete" ~> op[c] = "none"
=============================================================================
