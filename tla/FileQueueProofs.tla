-------------------------- MODULE FileQueueProofs --------------------------
(***************************************************************************)
(* What holds of a queue file for any number of clients, any timeout and   *)
(* any faults, with the lock that may be left behind and removed.          *)
(***************************************************************************)
EXTENDS FileQueue, FiniteSetTheorems, SequenceTheorems, TLAPS

-----------------------------------------------------------------------------
(* The records at some positions.                                          *)

Rank(positions, i) == Cardinality({j \in positions : j <= i})

(* Ranks number the positions in their order, without a gap.               *)
LEMMA RankNumbers ==
  ASSUME NEW n \in Nat, NEW K \in SUBSET (1 .. n)
  PROVE  /\ IsFiniteSet(K) /\ Cardinality(K) \in Nat
         /\ \A i \in K : Rank(K, i) \in 1 .. Cardinality(K)
         /\ \A i, j \in K : i < j => Rank(K, i) < Rank(K, j)
         /\ \A m \in 1 .. Cardinality(K) : \E i \in K : Rank(K, i) = m
<1>1. IsFiniteSet(K) /\ Cardinality(K) \in Nat
  <2>1. IsFiniteSet(1 .. n)
    BY FS_Interval
  <2> QED
    BY <2>1, FS_Subset, FS_CardinalityType
<1>0. \A i \in K : i \in Nat
  OBVIOUS
<1> DEFINE Upto(i) == {j \in K : j <= i}
           rank == [i \in K |-> Rank(K, i)]
<1>2. \A i \in K : IsFiniteSet(Upto(i)) /\ Cardinality(Upto(i)) \in Nat
                   /\ Cardinality(Upto(i)) <= Cardinality(K)
  BY <1>1, FS_Subset, FS_CardinalityType
<1>3. \A i \in K : Cardinality(Upto(i)) # 0
  <2> TAKE i \in K
  <2>1. i \in Upto(i)
    OBVIOUS
  <2> QED
    BY <1>2, <2>1, FS_EmptySet
<1>4. \A i \in K : Rank(K, i) \in 1 .. Cardinality(K)
  BY <1>1, <1>2, <1>3 DEF Rank
<1>5. \A i, j \in K : i < j => Rank(K, i) < Rank(K, j)
  <2> SUFFICES ASSUME NEW i \in K, NEW j \in K, i < j
               PROVE  Cardinality(Upto(i)) < Cardinality(Upto(j))
    BY DEF Rank
  <2>0. i \in Nat /\ j \in Nat
    BY <1>0
  <2>1. Upto(i) \in SUBSET Upto(j)
    <3> SUFFICES ASSUME NEW k \in K, k <= i PROVE k <= j
      OBVIOUS
    <3> QED
      BY <1>0, <2>0
  <2>3. j \in Upto(j) /\ j \notin Upto(i)
    BY <2>0
  <2>2. Cardinality(Upto(i)) <= Cardinality(Upto(j))
        /\ Cardinality(Upto(i)) # Cardinality(Upto(j))
    BY <1>2, <2>1, <2>3, FS_Subset
  <2> QED
    BY <1>2, <2>2
<1>6. \A m \in 1 .. Cardinality(K) : \E i \in K : Rank(K, i) = m
  <2>1. rank \in Injection(K, 1 .. Cardinality(K))
    <3>1. rank \in [K -> 1 .. Cardinality(K)]
      BY <1>4
    <3>2. \A i, j \in K : rank[i] = rank[j] => i = j
      BY <1>4, <1>5
    <3> QED
      BY <3>1, <3>2 DEF Injection, IsInjective
  <2>2. IsFiniteSet(1 .. Cardinality(K)) /\ Cardinality(1 .. Cardinality(K)) = Cardinality(K)
    BY <1>1, FS_Interval
  <2>3. rank \in Surjection(K, 1 .. Cardinality(K))
    BY <2>1, <2>2, FS_Injection
  <2> QED
    BY <2>3 DEF Surjection
<1> QED
  BY <1>1, <1>4, <1>5, <1>6

(* Select keeps these records, all of them, each once, in their order.     *)
Chosen(t, s, K, nth) ==
  /\ \A n \in 1 .. Len(t) : t[n] = s[nth[n]]
  /\ \A m, n \in 1 .. Len(t) : m < n => nth[m] < nth[n]
  /\ \A i \in K : \E n \in 1 .. Len(t) : nth[n] = i

LEMMA SelectKeeps ==
  ASSUME NEW S, NEW s \in Seq(S), NEW K \in SUBSET (1 .. Len(s))
  PROVE  /\ Select(s, K) \in Seq(S)
         /\ \E nth \in [1 .. Len(Select(s, K)) -> K] : Chosen(Select(s, K), s, K, nth)
<1> DEFINE N == Cardinality(K)
           Nth(n) == CHOOSE i \in K : Rank(K, i) = n
           nth == [n \in 1 .. N |-> Nth(n)]
<1>0. /\ Len(s) \in Nat /\ N \in Nat
      /\ \A i \in K : Rank(K, i) \in 1 .. N
      /\ \A i, j \in K : i < j => Rank(K, i) < Rank(K, j)
      /\ \A m \in 1 .. N : \E i \in K : Rank(K, i) = m
  BY RankNumbers, LenProperties
<1>1. \A n \in 1 .. N : Nth(n) \in K /\ Rank(K, Nth(n)) = n
  BY <1>0
<1>8. \A i \in K : i \in Nat
  OBVIOUS
<1>2. Select(s, K) = [n \in 1 .. N |-> s[Nth(n)]]
  BY DEF Select, Rank, Nth
<1> HIDE DEF Nth, N
<1>3. \A n \in 1 .. N : s[Nth(n)] \in S
  BY <1>1, ElementOfSeq
<1>4. Select(s, K) \in Seq(S) /\ Len(Select(s, K)) = N
  BY <1>0, <1>2, <1>3
<1>5. nth \in [1 .. N -> K] /\ \A n \in 1 .. N : Select(s, K)[n] = s[nth[n]]
  BY <1>1, <1>2
<1>6. \A m, n \in 1 .. N : m < n => Nth(m) < Nth(n)
  <2> SUFFICES ASSUME NEW m \in 1 .. N, NEW n \in 1 .. N, m < n, ~ Nth(m) < Nth(n)
               PROVE  FALSE
    OBVIOUS
  <2>1. Nth(m) \in K /\ Nth(n) \in K /\ Nth(m) \in Nat /\ Nth(n) \in Nat
    BY <1>1, <1>8
  <2>2. Nth(n) = Nth(m) \/ Nth(n) < Nth(m)
    BY <2>1
  <2> QED
    BY <1>0, <1>1, <2>1, <2>2
<1>7. \A i \in K : \E n \in 1 .. N : Nth(n) = i
  <2> TAKE i \in K
  <2>1. Rank(K, i) \in 1 .. N
    BY <1>0
  <2>2. Nth(Rank(K, i)) \in K /\ Rank(K, Nth(Rank(K, i))) = Rank(K, i)
    BY <1>1, <2>1
  <2>3. i \in Nat /\ Nth(Rank(K, i)) \in Nat
    BY <1>8, <2>2
  <2>4. Nth(Rank(K, i)) = i
    BY <1>0, <2>2, <2>3
  <2> QED
    BY <2>1, <2>4
<1>9. \A m, n \in 1 .. N : m < n => nth[m] < nth[n]
  BY <1>6
<1>10. \A i \in K : \E n \in 1 .. N : nth[n] = i
  BY <1>7
<1>11. Chosen(Select(s, K), s, K, nth)
  BY <1>4, <1>5, <1>9, <1>10 DEF Chosen
<1> HIDE DEF nth
<1> QED
  BY <1>4, <1>5, <1>11

-----------------------------------------------------------------------------
(* Types.                                                                  *)

(* Where a call can be.                                                    *)
Waits == {"lock", "sleep"}
Staged(o, label) ==
  \/ o = "none" /\ label = "idle"
  \/ o \in {"push", "pull", "delete", "purge"} /\ label \in Waits
  \/ o = "push"   /\ label \in {"open", "append", "unlock"}
  \/ o = "pull"   /\ label \in {"copy", "move", "moveCut"}
  \/ o = "delete" /\ label \in {"copy", "move", "moveCut", "unlock"}
  \/ o = "purge"  /\ label \in {"remove", "create", "unlock"}

Control == \A c \in Clients : Staged(op[c], pc[c])

(* The pushes made and those still to append stay within the bound.        *)
Pushing == {c \in Clients : op[c] = "push" /\ pc[c] # "unlock"}
WithinPushes == pushes + Cardinality(Pushing) <= MaxPushes

(* The file is there as long as a client can append to it; a pull that     *)
(* moves its copy has marked a record, and nobody else has.                *)
OpenedExists == current # {} => exists
Marking(c) == At(c, "pull", "move") \/ At(c, "pull", "moveCut")
Marked ==
  /\ \A c \in Clients : At(c, "pull", "move") => taken[c] \in Records
  /\ \A c \in Clients : taken[c] # NoRecord => Marking(c)

Typed == TypeOK /\ Control /\ WithinPushes /\ OpenedExists /\ Marked

-----------------------------------------------------------------------------
(* More pushes and receipts leave records what they are.                   *)
LEMMA RecordsGrow ==
  ASSUME pushes \in Nat, pushes' \in Nat, pushes <= pushes',
         receipts \in Nat, receipts' \in Nat, receipts <= receipts'
  PROVE  Records \subseteq Records' /\ Seq(Records) \subseteq Seq(Records')
<1>1. 1 .. pushes \subseteq 1 .. pushes' /\ 0 .. receipts \subseteq 0 .. receipts'
  OBVIOUS
<1>2. Records \subseteq Records'
  BY <1>1 DEF Records
<1> QED
  BY <1>2

LEMMA PushingFinite ==
  /\ IsFiniteSet(Pushing) /\ Cardinality(Pushing) \in Nat
  /\ \A c \in Clients : c \in Pushing => Cardinality(Pushing) >= 1
<1>1. IsFiniteSet(Pushing)
  BY FileQueueAssumption, FS_Subset DEF Pushing
<1>2. Cardinality(Pushing) \in Nat
  BY <1>1, FS_CardinalityType
<1>3. Pushing # {} => Cardinality(Pushing) # 0
  BY <1>1, FS_EmptySet
<1> QED
  BY <1>1, <1>2, <1>3

(* A client that is about to append has a push left.                       *)
LEMMA PushLeft ==
  ASSUME Typed, NEW c \in Clients, c \in Pushing
  PROVE  pushes + 1 \in 1 .. MaxPushes
<1> QED
  BY PushingFinite, FileQueueAssumption DEF Typed, TypeOK, WithinPushes

LEMMA InitTyped == Init => Typed
<1> SUFFICES ASSUME Init PROVE Typed
  OBVIOUS
<1>1. TypeOK
  <2>1. file \in Seq(Records) /\ temp \in [Clients -> Seq(Records)]
    BY DEF Init
  <2>2. pc \in [Clients -> Labels]
    BY DEF Init, Labels
  <2>3. op \in [Clients -> {"none", "push", "pull", "delete", "purge"}]
    BY DEF Init
  <2>4. arg \in [Clients -> 0 .. receipts] /\ taken \in [Clients -> Records \union {NoRecord}]
    BY DEF Init
  <2>5. pushes \in 0 .. MaxPushes /\ receipts \in Nat /\ clock \in Nat
    BY FileQueueAssumption DEF Init
  <2>6. deleted \union purged \union cut \subseteq 1 .. pushes /\ deliveries \subseteq Records
    BY DEF Init
  <2> QED
    BY <2>1, <2>2, <2>3, <2>4, <2>5, <2>6 DEF Init, TypeOK
<1>2. Control /\ OpenedExists /\ Marked
  BY DEF Init, Control, Staged, OpenedExists, Marked, Marking, At
<1>3. Pushing = {}
  BY DEF Init, Pushing
<1>4. WithinPushes
  BY <1>3, FS_EmptySet, FileQueueAssumption DEF Init, WithinPushes
<1> QED
  BY <1>1, <1>2, <1>4 DEF Typed

-----------------------------------------------------------------------------
(* Steps of one client.                                                    *)

Work(c) == Request(c) \/ Step(c) \/ Fault(c)

(* A step of client c leaves what belongs to the others alone.             *)
LEMMA OthersAlone ==
  ASSUME TypeOK, NEW c \in Clients, Work(c), NEW u \in Clients, u # c
  PROVE  /\ pc'[u] = pc[u] /\ op'[u] = op[u] /\ arg'[u] = arg[u]
         /\ temp'[u] = temp[u] /\ taken'[u] = taken[u]
<1> USE DEF TypeOK, Goto, Leave, Return, ReturnLocked, call
<1>1. CASE Request(c)
  BY <1>1 DEF Request, Push, Pull, Delete, PurgeQueue, Call
<1>2. CASE Lock(c) \/ UnlockLast(c) \/ PushOpen(c) \/ PushAppend(c)
  BY <1>2 DEF Lock, UnlockLast, PushOpen, PushAppend
<1>3. CASE PullCopy(c) \/ PullNothing(c) \/ PullMove(c) \/ PullCut(c) \/ PullMoveCut(c)
  BY <1>3 DEF PullCopy, Mark, PullNothing, PullMove, PullCut, PullMoveCut
<1>4. CASE DeleteCopy(c) \/ DeleteMove(c) \/ DeleteMoveCut(c) \/ PurgeRemove(c)
           \/ PurgeCreate(c)
  BY <1>4 DEF DeleteCopy, DeleteMove, DeleteMoveCut, PurgeRemove, PurgeCreate
<1>5. CASE Fault(c)
  BY <1>5 DEF Fault, Interrupt, Crash, CreateTempFails, MoveFails, PushFails,
              PullReadFails, PullCopyFails, DeleteReadFails, DeleteCopyFails,
              PurgeFails, UnlockFails
<1> QED
  BY <1>1, <1>2, <1>3, <1>4, <1>5 DEF Work, Step

(* A call moves through its own stages.                                    *)
Callers == {"none", "push", "pull", "delete", "purge"}

LEMMA ControlStep ==
  ASSUME TypeOK, Control, NEW c \in Clients, Work(c)
  PROVE  /\ pc' \in [Clients -> Labels] /\ op' \in [Clients -> Callers]
         /\ Control'
<1>0. /\ pc \in [Clients -> Labels] /\ op \in [Clients -> Callers]
      /\ Staged(op[c], pc[c])
  BY DEF TypeOK, Control, Callers
<1>1. /\ pc' \in [Clients -> Labels] /\ op' \in [Clients -> Callers]
      /\ Staged(op'[c], pc'[c])
  <2> USE <1>0 DEF At, Goto, Leave, Return, ReturnLocked, call, Staged, Waits,
                   Labels, Callers
  <2>1. CASE Request(c)
    BY <2>1 DEF Request, Push, Pull, Delete, PurgeQueue, Call
  <2>2. CASE Lock(c)
    BY <2>2 DEF Lock, Entry
  <2>3. CASE UnlockLast(c)
    BY <2>3 DEF UnlockLast
  <2>4. CASE PushOpen(c)
    BY <2>4 DEF PushOpen
  <2>5. CASE PushAppend(c)
    BY <2>5 DEF PushAppend
  <2>6. CASE PullCopy(c)
    BY <2>6 DEF PullCopy, Mark
  <2>7. CASE PullNothing(c) \/ PullMove(c) \/ PullMoveCut(c)
    BY <2>7 DEF PullNothing, PullMove, PullMoveCut
  <2>8. CASE PullCut(c)
    BY <2>8 DEF PullCut
  <2>9. CASE DeleteCopy(c)
    BY <2>9 DEF DeleteCopy
  <2>10. CASE DeleteMove(c)
    BY <2>10 DEF DeleteMove
  <2>11. CASE PurgeRemove(c)
    BY <2>11 DEF PurgeRemove
  <2>12. CASE PurgeCreate(c)
    BY <2>12 DEF PurgeCreate
  <2>13. CASE Interrupt(c) \/ Crash(c) \/ CreateTempFails(c)
    BY <2>13 DEF Interrupt, Crash, CreateTempFails
  <2>14. CASE MoveFails(c)
    BY <2>14 DEF MoveFails
  <2>15. CASE DeleteMoveCut(c)
    BY <2>15 DEF DeleteMoveCut
  <2>16. CASE PushFails(c) \/ PurgeFails(c) \/ UnlockFails(c)
    BY <2>16 DEF PushFails, PurgeFails, UnlockFails
  <2>17. CASE PullReadFails(c) \/ PullCopyFails(c)
    BY <2>17 DEF PullReadFails, PullCopyFails
  <2>18. CASE DeleteReadFails(c) \/ DeleteCopyFails(c)
    BY <2>18 DEF DeleteReadFails, DeleteCopyFails
  <2> QED
    BY <2>1, <2>2, <2>3, <2>4, <2>5, <2>6, <2>7, <2>8, <2>9, <2>10, <2>11,
       <2>12, <2>13, <2>14, <2>15, <2>16, <2>17, <2>18 DEF Work, Step, Fault
<1> QED
  BY <1>1, OthersAlone DEF Control

(* What a step of client c does to the counters and the flags.             *)
LEMMA CountersStep ==
  ASSUME Typed, NEW c \in Clients, Work(c)
  PROVE  /\ clock' = clock
         /\ pushes' \in 0 .. MaxPushes /\ pushes <= pushes'
         /\ receipts' \in Nat /\ receipts <= receipts'
<1>0. /\ pushes \in 0 .. MaxPushes /\ receipts \in Nat /\ MaxPushes \in Nat
      /\ c \in Pushing => pushes + 1 \in 1 .. MaxPushes
  BY FileQueueAssumption, PushLeft DEF Typed, TypeOK
<1>1. clock' = clock
  BY DEF Work, Request, Push, Pull, Delete, PurgeQueue, Call, Step, Lock, UnlockLast,
         PushOpen, PushAppend, PullCopy, Mark, PullNothing, PullMove, PullCut,
         PullMoveCut, DeleteCopy, DeleteMove, PurgeRemove, PurgeCreate, Fault,
         Interrupt, Crash, CreateTempFails, MoveFails, PushFails, PullReadFails, PullCopyFails,
         DeleteReadFails, DeleteCopyFails, DeleteMoveCut, PurgeFails, UnlockFails
<1>2. pushes' = pushes \/ (c \in Pushing /\ pushes' = pushes + 1)
  BY DEF Pushing, At, Work, Request, Push, Pull, Delete, PurgeQueue, Call, Step, Lock, UnlockLast,
         PushOpen, PushAppend, PullCopy, Mark, PullNothing, PullMove, PullCut,
         PullMoveCut, DeleteCopy, DeleteMove, PurgeRemove, PurgeCreate, Fault,
         Interrupt, Crash, CreateTempFails, MoveFails, PushFails, PullReadFails, PullCopyFails,
         DeleteReadFails, DeleteCopyFails, DeleteMoveCut, PurgeFails, UnlockFails
<1>3. receipts' = receipts \/ receipts' = receipts + 1
  BY DEF Work, Request, Push, Pull, Delete, PurgeQueue, Call, Step, Lock, UnlockLast,
         PushOpen, PushAppend, PullCopy, Mark, PullNothing, PullMove, PullCut,
         PullMoveCut, DeleteCopy, DeleteMove, PurgeRemove, PurgeCreate, Fault,
         Interrupt, Crash, CreateTempFails, MoveFails, PushFails, PullReadFails, PullCopyFails,
         DeleteReadFails, DeleteCopyFails, DeleteMoveCut, PurgeFails, UnlockFails
<1> QED
  BY <1>0, <1>1, <1>2, <1>3

LEMMA FlagsStep ==
  ASSUME Typed, NEW c \in Clients, Work(c)
  PROVE  locked' \in BOOLEAN /\ exists' \in BOOLEAN /\ leaked' \in BOOLEAN
         /\ breached' \in BOOLEAN
<1>0. locked \in BOOLEAN /\ exists \in BOOLEAN /\ leaked \in BOOLEAN
      /\ breached \in BOOLEAN
  BY DEF Typed, TypeOK
<1> USE DEF Return, ReturnLocked, Unlock, storage, call, history, MoveTemp
<1>1. CASE Request(c) \/ Lock(c) \/ UnlockLast(c) \/ PushOpen(c) \/ PushAppend(c)
  BY <1>0, <1>1 DEF Request, Push, Pull, Delete, PurgeQueue, Call, Lock, UnlockLast,
                    PushOpen, PushAppend
<1>2. CASE PullCopy(c) \/ PullNothing(c) \/ PullMove(c) \/ PullCut(c) \/ PullMoveCut(c)
  BY <1>0, <1>2 DEF PullCopy, Mark, PullNothing, PullMove, PullCut, PullMoveCut
<1>3. CASE DeleteCopy(c) \/ DeleteMove(c) \/ DeleteMoveCut(c) \/ PurgeRemove(c)
           \/ PurgeCreate(c)
  BY <1>0, <1>3 DEF DeleteCopy, DeleteMove, DeleteMoveCut, PurgeRemove, PurgeCreate
<1>4. CASE Fault(c)
  BY <1>0, <1>4 DEF Fault, Interrupt, Crash, CreateTempFails, MoveFails, PushFails,
                    PullReadFails, PullCopyFails, DeleteReadFails, DeleteCopyFails,
                    PurgeFails, UnlockFails
<1> QED
  BY <1>1, <1>2, <1>3, <1>4 DEF Work, Step

(* What a pull has marked is a record.                                     *)
LEMMA MarkedRecord ==
  ASSUME Typed, NEW c \in Clients, NEW i \in 1 .. Len(file), Attempts(file[i]) <= MaxInt,
         pushes' = pushes, receipts' = receipts + 1
  PROVE  DeliveredRecord(file[i], receipts + 1) \in Records'
<1>1. file[i] \in Records /\ receipts \in Nat /\ clock \in Nat
  BY ElementOfSeq DEF Typed, TypeOK
<1>2. Attempts(file[i]) \in 0 .. MaxInt
  BY <1>1, FileQueueAssumption DEF Attempts, Records
<1>3. clock + VisibilityTimeout \in Nat /\ receipts + 1 \in 0 .. receipts'
  BY <1>1, FileQueueAssumption
<1> QED
  BY <1>1, <1>2, <1>3 DEF DeliveredRecord, Records

(* The steps that change a temporary file.                                 *)
LEMMA TempStep ==
  ASSUME Typed, NEW c \in Clients, Work(c)
  PROVE  /\ temp' \in [Clients -> Seq(Records')]
         /\ taken' \in [Clients -> Records' \union {NoRecord}]
         /\ arg' \in [Clients -> 0 .. receipts']
         /\ At(c, "pull", "move")' => taken'[c] \in Records'
         /\ taken'[c] # NoRecord => Marking(c)'
<1>0. /\ temp \in [Clients -> Seq(Records')] /\ file \in Seq(Records')
      /\ taken \in [Clients -> Records' \union {NoRecord}]
      /\ arg \in [Clients -> 0 .. receipts'] /\ 0 \in 0 .. receipts'
      /\ << >> \in Seq(Records')
      /\ pc \in [Clients -> Labels] /\ op \in [Clients -> Callers]
      /\ Staged(op[c], pc[c]) /\ (taken[c] # NoRecord => Marking(c))
  <2>1. Records \subseteq Records' /\ Seq(Records) \subseteq Seq(Records')
        /\ 0 .. receipts \subseteq 0 .. receipts' /\ 0 \in 0 .. receipts'
    BY CountersStep, RecordsGrow, FileQueueAssumption DEF Typed, TypeOK
  <2> QED
    BY <2>1, EmptySeq DEF Typed, TypeOK, Control, Callers, Marked
<1> USE DEF Marking, Goto, Leave, Return, ReturnLocked, call
<1>1. CASE Request(c)
  <2>1. \A d \in deliveries : d.receipt \in 0 .. receipts'
    <3>1. deliveries \subseteq Records /\ 0 .. receipts \subseteq 0 .. receipts'
      BY CountersStep DEF Typed, TypeOK
    <3> QED
      BY <3>1 DEF Records
  <2>2. /\ temp' = temp /\ taken' = taken /\ pc'[c] = "lock"
        /\ \E a \in 0 .. receipts' : arg' = [arg EXCEPT ![c] = a]
    BY <1>0, <1>1, <2>1 DEF Request, Push, Pull, Delete, PurgeQueue, Call
  <2>3. pc[c] = "idle"
    BY <1>1 DEF Request, Push, Pull, Delete, PurgeQueue, Call
  <2>4. taken[c] = NoRecord
    BY <1>0, <2>3 DEF At
  <2> QED
    BY <1>0, <2>2, <2>4 DEF At
<1>2. CASE UnlockLast(c) \/ PushOpen(c) \/ PushAppend(c)
  <2>1. CASE UnlockLast(c)
    BY <1>0, <2>1 DEF UnlockLast, At
  <2>2. CASE PushOpen(c) \/ PushAppend(c)
    BY <1>0, <2>2 DEF PushOpen, PushAppend, At
  <2> QED
    BY <1>2, <2>1, <2>2
<1>9. CASE Lock(c)
  <2>1. temp' = temp /\ taken' = taken /\ arg' = arg
    BY <1>9 DEF Lock
  <2>2. pc'[c] # "move"
    BY <1>0, <1>9 DEF Lock, Entry, Staged, Waits
  <2> QED
    BY <1>0, <1>9, <2>1, <2>2 DEF At, Lock
<1>3. CASE PullCopy(c)
  <2>1. PICK i \in 1 .. Len(file) :
          /\ FirstVisible(i) /\ Attempts(file[i]) <= MaxInt
          /\ Mark(c, DeliveredRecord(file[i], receipts + 1))
          /\ temp' = [temp EXCEPT ![c] = [file EXCEPT ![i] = taken'[c]]]
    BY <1>3 DEF PullCopy
  <2>2. DeliveredRecord(file[i], receipts + 1) \in Records'
    BY <2>1, MarkedRecord DEF Mark
  <2>3. taken' = [taken EXCEPT ![c] = DeliveredRecord(file[i], receipts + 1)] /\ arg' = arg
    BY <2>1 DEF Mark
  <2>4. taken'[c] \in Records'
    BY <1>0, <2>2, <2>3
  <2>5. [file EXCEPT ![i] = taken'[c]] \in Seq(Records')
    BY <1>0, <2>4, ExceptSeq
  <2>6. At(c, "pull", "move")'
    BY <1>0, <1>3, <2>1 DEF PullCopy, Mark, At
  <2> QED
    BY <1>0, <2>1, <2>2, <2>3, <2>4, <2>5, <2>6
<1>4. CASE PullCut(c)
  <2>1. PICK i \in 1 .. Len(file) :
          temp' = [temp EXCEPT ![c] = SubSeq(file, 1, i - 1)] /\ pc'[c] = "moveCut"
    BY <1>0, <1>4 DEF PullCut
  <2>2. SubSeq(file, 1, i - 1) \in Seq(Records')
    <3>1. \A j \in 1 .. i - 1 : file[j] \in Records'
      BY <1>0, ElementOfSeq, LenProperties
    <3>2. 1 \in Int /\ i - 1 \in Int
      OBVIOUS
    <3> QED
      BY <3>1, <3>2, SubSeqProperties
  <2> QED
    BY <1>0, <1>4, <2>1, <2>2 DEF PullCut, At
<1>5. CASE PullNothing(c) \/ PullMove(c) \/ PullMoveCut(c)
  <2>1. /\ arg' = [arg EXCEPT ![c] = 0] /\ temp' = [temp EXCEPT ![c] = << >>]
        /\ taken' = [taken EXCEPT ![c] = NoRecord] /\ pc'[c] = "idle"
    BY <1>0, <1>5 DEF PullNothing, PullMove, PullMoveCut
  <2> QED
    BY <1>0, <2>1 DEF At
<1>6. CASE DeleteCopy(c)
  <2> DEFINE kept == {i \in 1 .. Len(file) : ~ IsToDelete(file[i], arg[c])}
  <2>1. kept \in SUBSET (1 .. Len(file))
    OBVIOUS
  <2>2. Select(file, kept) \in Seq(Records')
    BY <1>0, <2>1, SelectKeeps
  <2>3. temp' = temp \/ temp' = [temp EXCEPT ![c] = Select(file, kept)]
    BY <1>6 DEF DeleteCopy
  <2>4. op' = op /\ op[c] = "delete" /\ taken' = taken /\ arg' = arg
    BY <1>6 DEF DeleteCopy, At
  <2> HIDE DEF kept
  <2>5. taken'[c] = NoRecord
    BY <1>0, <2>4 DEF At
  <2> QED
    BY <1>0, <2>2, <2>3, <2>4, <2>5 DEF At
<1>7. CASE DeleteMove(c) \/ DeleteMoveCut(c) \/ PurgeRemove(c) \/ PurgeCreate(c)
  BY <1>0, <1>7 DEF DeleteMove, DeleteMoveCut, PurgeRemove, PurgeCreate, At
<1>8. CASE \/ Interrupt(c) \/ Crash(c) \/ CreateTempFails(c) \/ MoveFails(c)
           \/ PushFails(c) \/ PullReadFails(c) \/ DeleteReadFails(c)
           \/ PurgeFails(c) \/ UnlockFails(c)
  <2> DEFINE Left == /\ arg' = [arg EXCEPT ![c] = 0] /\ temp' = [temp EXCEPT ![c] = << >>]
                     /\ taken' = [taken EXCEPT ![c] = NoRecord] /\ pc'[c] = "idle"
             Stays == /\ arg' = arg /\ temp' = temp /\ taken' = taken
                      /\ pc'[c] \in {"create", "unlock"} /\ op[c] # "pull"
  <2>1. CASE Interrupt(c) \/ Crash(c) \/ CreateTempFails(c) \/ PullReadFails(c) \/ UnlockFails(c)
    <3>1. Left
      BY <1>0, <2>1 DEF Interrupt, Crash, CreateTempFails, PullReadFails, UnlockFails
    <3> QED
      BY <1>0, <3>1 DEF At
  <2>2. CASE PushFails(c) \/ DeleteReadFails(c) \/ PurgeFails(c)
    <3>1. Stays
      BY <1>0, <2>2 DEF PushFails, DeleteReadFails, PurgeFails, At
    <3>2. taken[c] = NoRecord
      BY <1>0, <3>1 DEF At
    <3> QED
      BY <1>0, <3>1, <3>2 DEF At
  <2>3. CASE MoveFails(c)
    <3>1. Left \/ Stays
      <4>1. CASE op[c] = "pull"
        BY <1>0, <2>3, <4>1 DEF MoveFails, At
      <4>2. CASE op[c] # "pull"
        BY <1>0, <2>3, <4>2 DEF MoveFails, At
      <4> QED
        BY <4>1, <4>2
    <3>2. CASE Left
      BY <1>0, <3>2 DEF At
    <3>3. CASE Stays
      <4>1. taken[c] = NoRecord
        BY <1>0, <3>3 DEF At
      <4> QED
        BY <1>0, <3>3, <4>1 DEF At
    <3> QED
      BY <3>1, <3>2, <3>3
  <2> QED
    BY <1>8, <2>1, <2>2, <2>3
<1>10. CASE PullCopyFails(c)
  <2>1. PICK i \in 1 .. Len(file), written \in SUBSET (1 .. Len(file)) :
          /\ FirstVisible(i) /\ Attempts(file[i]) <= MaxInt
          /\ taken' = [taken EXCEPT ![c] = DeliveredRecord(file[i], receipts + 1)]
          /\ temp' = [temp EXCEPT ![c] = Select([file EXCEPT ![i] = taken'[c]], written)]
    BY <1>10 DEF PullCopyFails
  <2>2. DeliveredRecord(file[i], receipts + 1) \in Records'
    BY <1>10, <2>1, MarkedRecord DEF PullCopyFails
  <2>3. taken'[c] \in Records' /\ arg' = arg /\ pc'[c] = "moveCut"
    BY <1>0, <1>10, <2>1, <2>2 DEF PullCopyFails
  <2>4. /\ [file EXCEPT ![i] = taken'[c]] \in Seq(Records')
        /\ Len([file EXCEPT ![i] = taken'[c]]) = Len(file)
    BY <1>0, <2>3, ExceptSeq
  <2>5. Select([file EXCEPT ![i] = taken'[c]], written) \in Seq(Records')
    BY <2>4, SelectKeeps
  <2> QED
    BY <1>0, <1>10, <2>1, <2>2, <2>3, <2>5 DEF At, PullCopyFails
<1>11. CASE DeleteCopyFails(c)
  <2>1. PICK written \in SUBSET (1 .. Len(file)) :
          temp' = [temp EXCEPT ![c] = Select(file, written)]
    BY <1>11 DEF DeleteCopyFails
  <2>2. Select(file, written) \in Seq(Records')
    BY <1>0, SelectKeeps
  <2>3. op' = op /\ op[c] = "delete" /\ taken' = taken /\ arg' = arg
    BY <1>11 DEF DeleteCopyFails, At
  <2> QED
    BY <1>0, <2>1, <2>2, <2>3 DEF At
<1> QED
  BY <1>1, <1>2, <1>3, <1>4, <1>5, <1>6, <1>7, <1>8, <1>9, <1>10, <1>11
     DEF Work, Step, Fault

(* The steps that change the file, and those that append to it.            *)
LEMMA FileStep ==
  ASSUME Typed, NEW c \in Clients, Work(c)
  PROVE  /\ file' \in Seq(Records') /\ (~ exists' => file' = << >>)
         /\ current' \subseteq {u \in Clients : pc'[u] = "append"}
         /\ current' # {} => exists'
<1>0. /\ file \in Seq(Records') /\ temp \in [Clients -> Seq(Records')]
      /\ << >> \in Seq(Records') /\ (~ exists => file = << >>)
      /\ current \subseteq {u \in Clients : pc[u] = "append"}
      /\ current # {} => exists
      /\ pc \in [Clients -> Labels]
  <2>1. Seq(Records) \subseteq Seq(Records')
    BY CountersStep, RecordsGrow DEF Typed, TypeOK
  <2> QED
    BY <2>1, EmptySeq DEF Typed, TypeOK, OpenedExists
<1>1. \/ UNCHANGED <<exists, file>>
      \/ exists' /\ file' = file
      \/ exists' /\ file' = temp[c] /\ current' = {}
      \/ file' = << >> /\ current' = {}
      \/ PushAppend(c)
  BY DEF Work, Request, Push, Pull, Delete, PurgeQueue, Call, Step, Lock, UnlockLast,
         PushOpen, PullCopy, Mark, PullNothing, PullMove, PullCut, storage,
         PullMoveCut, DeleteCopy, DeleteMove, PurgeRemove, PurgeCreate, Fault,
         Interrupt, Crash, CreateTempFails, MoveFails, MoveTemp, PushFails, PullReadFails, PullCopyFails,
         DeleteReadFails, DeleteCopyFails, DeleteMoveCut, PurgeFails, UnlockFails
<1>2. \/ current' \subseteq current \ {c}
      \/ current' = current \union {c} /\ pc'[c] = "append" /\ exists'
      \/ current' = current /\ c \notin current /\ exists' = exists
      \/ current' = current /\ c \notin current /\ exists'
  <2>1. pc[c] # "append" => c \notin current
    BY <1>0
  <2> QED
    BY <1>0, <2>1
       DEF Work, Request, Push, Pull, Delete, PurgeQueue, Call, Step, Lock, UnlockLast,
         PushOpen, PushAppend, PullCopy, Mark, PullNothing, PullMove, PullCut, storage,
         PullMoveCut, DeleteCopy, DeleteMove, PurgeRemove, PurgeCreate, Fault, At, Goto,
         Interrupt, Crash, CreateTempFails, MoveFails, MoveTemp, PushFails, PullReadFails, PullCopyFails,
         DeleteReadFails, DeleteCopyFails, DeleteMoveCut, PurgeFails, UnlockFails
<1>3. PushAppend(c) => /\ exists' = exists
                       /\ \/ c \notin current /\ file' = file
                          \/ c \in current /\ file' = Append(file, CreateRecord(pushes + 1))
  BY DEF PushAppend
<1>4. PushAppend(c) => CreateRecord(pushes + 1) \in Records'
  <2> HAVE PushAppend(c)
  <2>1. pushes' = pushes + 1 /\ receipts' = receipts /\ pushes + 1 \in 1 .. pushes'
    BY PushLeft DEF PushAppend, At, Pushing, Typed, TypeOK
  <2>2. 0 \in 0 .. receipts' /\ 0 \in 0 .. MaxInt
    BY <2>1, FileQueueAssumption DEF Typed, TypeOK
  <2> QED
    BY <2>1, <2>2 DEF CreateRecord, NoRecord, Records
<1>5. file' \in Seq(Records') /\ (~ exists' => file' = << >>)
  <2>1. CASE PushAppend(c)
    <3>1. CASE c \in current
      <4>1. Append(file, CreateRecord(pushes + 1)) \in Seq(Records')
        BY <1>0, <1>4, <2>1, AppendProperties
      <4>2. exists /\ exists' = exists
        BY <1>0, <1>3, <2>1, <3>1
      <4> QED
        BY <1>3, <2>1, <3>1, <4>1, <4>2
    <3>2. CASE c \notin current
      BY <1>0, <1>3, <2>1, <3>2
    <3> QED
      BY <3>1, <3>2
  <2>2. CASE ~ PushAppend(c)
    BY <1>0, <1>1, <2>2
  <2> QED
    BY <2>1, <2>2
<1>6. current' \subseteq {u \in Clients : pc'[u] = "append"}
  BY <1>0, <1>2, OthersAlone DEF Typed
<1>7. current' # {} => exists'
  BY <1>0, <1>1, <1>2, <1>3
<1> QED
  BY <1>5, <1>6, <1>7

(* What the histories hold.                                                *)
LEMMA HistoryStep ==
  ASSUME Typed, NEW c \in Clients, Work(c)
  PROVE  /\ deliveries' \subseteq Records'
         /\ deleted' \union purged' \union cut' \subseteq 1 .. pushes'
<1>0. /\ deliveries \subseteq Records' /\ Records \subseteq Records'
      /\ deleted \union purged \union cut \subseteq 1 .. pushes'
      /\ Messages(file) \subseteq 1 .. pushes'
      /\ \A d \in deliveries : d.message \in 1 .. pushes'
      /\ pushes' = pushes + 1 => pushes + 1 \in 1 .. pushes'
  <2>1. Records \subseteq Records' /\ 1 .. pushes \subseteq 1 .. pushes'
    BY CountersStep, RecordsGrow DEF Typed, TypeOK
  <2>2. \A r \in Records : r.message \in 1 .. pushes
    BY DEF Records
  <2>3. \A i \in 1 .. Len(file) : file[i] \in Records
    BY ElementOfSeq DEF Typed, TypeOK
  <2> QED
    BY <2>1, <2>2, <2>3 DEF Typed, TypeOK, Messages
<1> DEFINE late == [taken[c] EXCEPT !.visibleFrom = 0]
<1>1. \/ deliveries' = deliveries
      \/ deliveries' = deliveries \union {taken[c]} /\ At(c, "pull", "move")
      \/ deliveries' = deliveries \union {late} /\ At(c, "pull", "move")
      \/ deliveries' = deliveries \union ({taken[c]} \ {NoRecord})
      \/ deliveries' = deliveries \union ({late} \ {NoRecord})
  BY DEF Work, Request, Push, Pull, Delete, PurgeQueue, Call, Step, Lock, UnlockLast,
         PushOpen, PushAppend, PullCopy, Mark, PullNothing, PullMove, PullCut, history,
         PullMoveCut, DeleteCopy, DeleteMove, PurgeRemove, PurgeCreate, Fault,
         Interrupt, Crash, CreateTempFails, MoveFails, PushFails, PullReadFails, PullCopyFails,
         DeleteReadFails, DeleteCopyFails, DeleteMoveCut, PurgeFails, UnlockFails
<1>2. /\ At(c, "pull", "move") => taken[c] \in Records
      /\ taken[c] \in Records \/ taken[c] = NoRecord
  BY DEF Typed, TypeOK, Marked
<1>5. taken[c] \in Records => late \in Records
  BY DEF Records
<1>6. taken[c] = NoRecord => late = NoRecord
  BY DEF NoRecord
<1> HIDE DEF late
<1>3. deleted' \subseteq deleted \union {d.message : d \in deliveries}
  BY DEF Work, Request, Push, Pull, Delete, PurgeQueue, Call, Step, Lock, UnlockLast,
         PushOpen, PushAppend, PullCopy, Mark, PullNothing, PullMove, PullCut, history,
         PullMoveCut, DeleteCopy, DeleteMove, PurgeRemove, PurgeCreate, Fault,
         Interrupt, Crash, CreateTempFails, MoveFails, PushFails, PullReadFails, PullCopyFails,
         DeleteReadFails, DeleteCopyFails, DeleteMoveCut, PurgeFails, UnlockFails
<1>4. /\ purged' \subseteq purged \union Messages(file)
      /\ \/ cut' \subseteq cut \union Messages(file)
         \/ cut' = cut \union {pushes + 1} /\ pushes' = pushes + 1
  BY DEF Work, Request, Push, Pull, Delete, PurgeQueue, Call, Step, Lock, UnlockLast,
         PushOpen, PushAppend, PullCopy, Mark, PullNothing, PullMove, PullCut, history,
         PullMoveCut, DeleteCopy, DeleteMove, PurgeRemove, PurgeCreate, Fault,
         Interrupt, Crash, CreateTempFails, MoveFails, PushFails, PullReadFails, PullCopyFails,
         DeleteReadFails, DeleteCopyFails, DeleteMoveCut, PurgeFails, UnlockFails
<1> QED
  BY <1>0, <1>1, <1>2, <1>3, <1>4, <1>5, <1>6

(* The pushes that are made and to be made.                                *)
LEMMA PushingStep ==
  ASSUME Typed, NEW c \in Clients, Work(c)
  PROVE  WithinPushes'
<1>0. /\ pc \in [Clients -> Labels] /\ op \in [Clients -> Callers]
      /\ Staged(op[c], pc[c]) /\ pushes \in Nat /\ MaxPushes \in Nat
      /\ pushes + Cardinality(Pushing) <= MaxPushes
      /\ pushes' \in Nat
  BY CountersStep, FileQueueAssumption DEF Typed, TypeOK, Control, WithinPushes, Callers
<1>1. \A u \in Clients : u # c => (u \in Pushing' <=> u \in Pushing)
  BY OthersAlone DEF Typed, Pushing
<1>2. IsFiniteSet(Pushing) /\ Cardinality(Pushing) \in Nat
  BY PushingFinite
<1>3. CASE Push(c)
  <2>1. c \in Pushing'
    BY <1>0, <1>3 DEF Push, Call, Goto, Pushing, Staged
  <2>2. Pushing' = Pushing \union {c}
    BY <1>1, <2>1 DEF Pushing
  <2>3. Cardinality(Pushing') <= Cardinality(Pushing) + 1 /\ Cardinality(Pushing') \in Nat
    BY <1>2, <2>2, FS_AddElement
  <2> DEFINE pushers == {d \in Clients : op[d] = "push"}
  <2>4. IsFiniteSet(pushers)
    BY FileQueueAssumption, FS_Subset
  <2>5. Pushing \in SUBSET pushers
    BY DEF Pushing
  <2>6. Cardinality(Pushing) <= Cardinality(pushers) /\ Cardinality(pushers) \in Nat
    BY <2>4, <2>5, FS_Subset, FS_CardinalityType
  <2>7. pushes + Cardinality(pushers) < MaxPushes /\ pushes' = pushes
    BY <1>3 DEF Push, Call
  <2> QED
    BY <1>0, <1>2, <2>3, <2>6, <2>7 DEF WithinPushes
<1>4. CASE PushAppend(c) \/ PushFails(c)
  <2>1. c \in Pushing /\ c \notin Pushing'
    BY <1>0, <1>4 DEF PushAppend, PushFails, At, Goto, Pushing
  <2>2. Pushing' = Pushing \ {c}
    BY <1>1, <2>1 DEF Pushing
  <2>3. Cardinality(Pushing') = Cardinality(Pushing) - 1
    BY <1>2, <2>1, <2>2, FS_RemoveElement
  <2>4. pushes' = pushes + 1
    BY <1>4 DEF PushAppend, PushFails
  <2> QED
    BY <1>0, <1>2, <2>3, <2>4 DEF WithinPushes
<1>5. CASE ~ Push(c) /\ ~ PushAppend(c) /\ ~ PushFails(c)
  <2>1. c \in Pushing' => c \in Pushing
    BY <1>0, <1>5
       DEF Work, Request, Pull, Delete, PurgeQueue, Call, Step, Lock, UnlockLast,
         PushOpen, PullCopy, Mark, PullNothing, PullMove, PullCut, call, Goto, At,
         Leave, Return, ReturnLocked, Pushing, Staged, Waits,
         PullMoveCut, DeleteCopy, DeleteMove, PurgeRemove, PurgeCreate, Fault,
         Interrupt, Crash, CreateTempFails, MoveFails, PushFails, PullReadFails, PullCopyFails,
         DeleteReadFails, DeleteCopyFails, DeleteMoveCut, PurgeFails, UnlockFails
  <2>2. Pushing' \in SUBSET Pushing
    BY <1>1, <2>1 DEF Pushing
  <2>3. Cardinality(Pushing') <= Cardinality(Pushing) /\ Cardinality(Pushing') \in Nat
    BY <1>2, <2>2, FS_Subset, FS_CardinalityType
  <2>4. pushes' = pushes
    BY <1>5
       DEF Work, Request, Pull, Delete, PurgeQueue, Call, Step, Lock, UnlockLast,
         PushOpen, PullCopy, Mark, PullNothing, PullMove, PullCut,
         PullMoveCut, DeleteCopy, DeleteMove, PurgeRemove, PurgeCreate, Fault,
         Interrupt, Crash, CreateTempFails, MoveFails, PushFails, PullReadFails, PullCopyFails,
         DeleteReadFails, DeleteCopyFails, DeleteMoveCut, PurgeFails, UnlockFails
  <2> QED
    BY <1>0, <1>2, <2>3, <2>4 DEF WithinPushes
<1> QED
  BY <1>3, <1>4, <1>5

LEMMA TypedStep == Typed /\ [Next]_vars => Typed'
<1> SUFFICES ASSUME Typed, [Next]_vars
             PROVE  Typed'
  OBVIOUS
<1>1. CASE \E c \in Clients : Work(c)
  <2>1. PICK c \in Clients : Work(c)
    BY <1>1
  <2>2. TypeOK /\ Control
    BY DEF Typed
  <2>3. TypeOK'
    BY <2>1, <2>2, ControlStep, CountersStep, FlagsStep, TempStep, FileStep, HistoryStep
       DEF TypeOK, Callers, Typed
  <2>4. Control'
    BY <2>1, <2>2, ControlStep
  <2>6. \A u \in Clients : taken'[u] # NoRecord => Marking(u)'
    <3> SUFFICES ASSUME NEW u \in Clients
                 PROVE  taken'[u] # NoRecord => Marking(u)'
      OBVIOUS
    <3>1. CASE u = c
      BY <2>1, <3>1, TempStep
    <3>2. CASE u # c
      BY <2>1, <2>2, <3>2, OthersAlone DEF Typed, Marked, Marking, At
    <3> QED
      BY <3>1, <3>2
  <2>5. Marked'
    <3> SUFFICES ASSUME NEW u \in Clients, At(u, "pull", "move")'
                 PROVE  taken'[u] \in Records'
      BY <2>6 DEF Marked, At
    <3>1. CASE u = c
      BY <2>1, <3>1, TempStep
    <3>2. CASE u # c
      <4>1. taken'[u] = taken[u] /\ taken[u] \in Records
        BY <2>1, <2>2, <3>2, OthersAlone DEF Typed, Marked, At
      <4>2. Records \subseteq Records'
        BY <2>1, CountersStep, RecordsGrow DEF Typed, TypeOK
      <4> QED
        BY <4>1, <4>2
    <3> QED
      BY <3>1, <3>2
  <2> QED
    BY <2>1, <2>3, <2>4, <2>5, PushingStep, FileStep DEF Typed, OpenedExists
<1>2. CASE Tick \/ UNCHANGED vars
  <2>1. clock' \in Nat
    BY <1>2 DEF Tick, vars, Typed, TypeOK
  <2>2. UNCHANGED <<locked, storage, pc, call, pushes, receipts, history, leaked, breached>>
    BY <1>2 DEF Tick, vars, storage, call, history
  <2>3. TypeOK'
    BY <2>1, <2>2 DEF Typed, TypeOK, Records, storage, call, history
  <2> QED
    BY <2>2, <2>3 DEF Typed, Control, WithinPushes, Pushing, OpenedExists, Marked, Marking, At,
                      Records, storage, call, history
<1> QED
  BY <1>1, <1>2 DEF Next, Work

(* The state is well typed, whatever has gone wrong with the lock.         *)
THEOREM TypesHold == Spec => []TypeOK
<1>1. Spec => []Typed
  BY InitTyped, TypedStep, PTL DEF Spec
<1>2. Typed => TypeOK
  BY DEF Typed
<1> QED
  BY <1>1, <1>2, PTL

-----------------------------------------------------------------------------
(* The inductive invariant of the lock and of the file.                    *)

(* The lock.                                                               *)
Exclusive ==
  /\ \A c, d \in Clients : Inside(c) /\ Inside(d) => c = d
  /\ (\E c \in Clients : Inside(c)) => locked
Owned ==
  /\ locked <=> (\E c \in Clients : Inside(c)) \/ leaked
  /\ ~ ((\E c \in Clients : Inside(c)) /\ leaked)

(* The one inside appends to the file at the path, and its copy differs    *)
(* from the file only in what the call is for.                             *)
OpenIsCurrent == \A c \in Clients : At(c, "push", "append") => c \in current

(* The records of a file without some of them, in their order.             *)
Thinned(records, from) ==
  \E nth \in [1 .. Len(records) -> 1 .. Len(from)] :
    /\ \A n \in 1 .. Len(records) : records[n] = from[nth[n]]
    /\ \A m, n \in 1 .. Len(records) : m < n => nth[m] < nth[n]

(* The record at position i was visible, and what takes its place has a    *)
(* receipt that nobody has yet.                                            *)
Replaces(c, i) ==
  /\ file[i].visibleFrom < clock /\ file[i].message = taken[c].message
  /\ taken[c].receipt >= 1
  /\ \A j \in 1 .. Len(file) : file[j].receipt < taken[c].receipt
  /\ \A d \in deliveries : d.receipt < taken[c].receipt

(* The copy consists of the records at the positions nth of the file.      *)
Picks(c, nth) ==
  /\ nth \in [1 .. Len(temp[c]) -> 1 .. Len(file)]
  /\ \A m, n \in 1 .. Len(temp[c]) : m < n => nth[m] < nth[n]

MarkedCopy(c) ==
  \E i \in 1 .. Len(file) :
    temp[c] = [file EXCEPT ![i] = taken[c]] /\ Replaces(c, i)

(* The same, but not all of it was written.                                *)
PartOfMarked(c) ==
  \E i \in 1 .. Len(file), nth \in [1 .. Len(temp[c]) -> 1 .. Len(file)] :
    /\ Picks(c, nth) /\ Replaces(c, i)
    /\ \A n \in 1 .. Len(temp[c]) :
         temp[c][n] = IF nth[n] = i THEN taken[c] ELSE file[nth[n]]

CutCopy(c) ==
  IF taken[c] = NoRecord THEN Thinned(temp[c], file) ELSE PartOfMarked(c)

ThinnedCopy(c) ==
  \E kept \in SUBSET (1 .. Len(file)) :
    /\ kept # 1 .. Len(file) /\ temp[c] = Select(file, kept)
    /\ \A i \in 1 .. Len(file) : i \notin kept => file[i].receipt = arg[c]

(* A copy without a record that has the receipt.                           *)
WithoutReceipt(c) ==
  \E i \in 1 .. Len(file), nth \in [1 .. Len(temp[c]) -> 1 .. Len(file)] :
    /\ Picks(c, nth) /\ file[i].receipt = arg[c]
    /\ \A n \in 1 .. Len(temp[c]) : temp[c][n] = file[nth[n]] /\ nth[n] # i

Named(c) == \E d \in deliveries : d.receipt = arg[c]

Copied(c) ==
  /\ At(c, "pull", "move") => MarkedCopy(c)
  /\ At(c, "pull", "moveCut") => CutCopy(c)
  /\ At(c, "delete", "move") => ThinnedCopy(c)
  /\ At(c, "delete", "moveCut") => WithoutReceipt(c)
  /\ op[c] = "delete" => Named(c)
Copies == \A c \in Clients : Copied(c)

(* The file and the histories.                                             *)
Lossless == 1 .. pushes \subseteq Messages(file) \union deleted \union purged \union cut
Gone == deleted \intersect Messages(file) = {}
Ordered == \A i, j \in 1 .. Len(file) : i < j => file[i].message < file[j].message
ReceiptsAgree ==
  \A d \in deliveries, i \in 1 .. Len(file) :
    file[i].receipt = d.receipt => file[i].message = d.message
Leases ==
  \A d \in deliveries, i \in 1 .. Len(file) :
    file[i].message = d.message /\ d.visibleFrom >= clock =>
      file[i].receipt = d.receipt /\ file[i].visibleFrom >= d.visibleFrom
Started == clock >= 1 /\ \A d \in deliveries : d.receipt >= 1

Content == Lossless /\ Gone /\ Ordered /\ ReceiptsAgree /\ Leases /\ Started

Whole == ~ breached => Exclusive /\ Owned /\ OpenIsCurrent /\ Copies /\ Content

-----------------------------------------------------------------------------
(* Who can change what.                                                    *)

LEMMA InitWhole == Init => Whole
<1> SUFFICES ASSUME Init PROVE Whole
  OBVIOUS
<1>1. Exclusive /\ Owned /\ OpenIsCurrent
  BY DEF Init, Exclusive, Owned, OpenIsCurrent, Inside, At
<1>2. Copies
  BY DEF Init, Copies, Copied, At
<1>3. Len(file) = 0 /\ Messages(file) = {} /\ 1 .. pushes = {}
  BY DEF Init, Messages
<1>4. Content
  BY <1>3 DEF Init, Content, Lossless, Gone, Ordered, ReceiptsAgree, Leases, Started
<1> QED
  BY <1>1, <1>2, <1>4 DEF Whole

(* A client outside touches neither the file nor the histories.            *)
LEMMA OutsideTouchesNothing ==
  ASSUME TypeOK, NEW c \in Clients, Work(c), ~ Inside(c)
  PROVE  UNCHANGED <<storage, pushes, receipts, history>>
<1>1. pc[c] \in {"idle", "lock", "sleep"}
  BY DEF Inside
<1> QED
  BY <1>1 DEF Work, Request, Push, Pull, Delete, PurgeQueue, Call, Step, Lock, UnlockLast,
         PushOpen, PushAppend, PullCopy, Mark, PullNothing, PullMove, PullCut,
         PullMoveCut, DeleteCopy, DeleteMove, PurgeRemove, PurgeCreate, Fault, At,
         Inside, Interrupt, Crash, CreateTempFails, MoveFails, PushFails, PullReadFails, PullCopyFails,
         DeleteReadFails, DeleteCopyFails, DeleteMoveCut, PurgeFails, UnlockFails

(* The ways in and out of the lock.                                        *)
LEMMA LockUse ==
  ASSUME Typed, NEW c \in Clients, Work(c)
  PROVE  /\ breached => breached'
         /\ \/ /\ ~ locked /\ locked' /\ Inside(c)' /\ leaked' = leaked
            \/ /\ ~ Inside(c) /\ ~ Inside(c)' /\ locked' = locked /\ leaked' = leaked
            \/ /\ \E d \in Clients : Inside(d)
               /\ breached'
            \/ /\ ~ \E d \in Clients : Inside(d)
               /\ ~ Inside(c)' /\ ~ locked' /\ ~ leaked'
            \/ /\ Inside(c) /\ Inside(c)' /\ locked' = locked /\ leaked' = leaked
            \/ /\ Inside(c) /\ ~ Inside(c)' /\ ~ locked' /\ ~ leaked'
            \/ /\ Inside(c) /\ ~ Inside(c)' /\ leaked' /\ locked' = locked
<1>0. /\ pc \in [Clients -> Labels] /\ op \in [Clients -> Callers]
      /\ Staged(op[c], pc[c])
  BY DEF Typed, TypeOK, Control, Callers
<1> USE DEF Inside, Goto, Leave, Return, ReturnLocked, Unlock, At
<1>1. CASE Request(c)
  BY <1>0, <1>1 DEF Request, Push, Pull, Delete, PurgeQueue, Call
<1>2. CASE Lock(c)
  BY <1>0, <1>2 DEF Lock, Entry, Staged, Waits
<1>3. CASE UnlockLast(c) \/ PushOpen(c) \/ PushAppend(c) \/ PurgeRemove(c) \/ PurgeCreate(c)
  BY <1>0, <1>3 DEF UnlockLast, PushOpen, PushAppend, PurgeRemove, PurgeCreate
<1>4. CASE PullCopy(c) \/ PullCut(c)
  BY <1>0, <1>4 DEF PullCopy, Mark, PullCut
<1>5. CASE PullNothing(c) \/ PullMove(c) \/ PullMoveCut(c) \/ Crash(c) \/ CreateTempFails(c)
  BY <1>0, <1>5 DEF PullNothing, PullMove, PullMoveCut, Crash, CreateTempFails
<1>6. CASE DeleteCopy(c) \/ DeleteMove(c) \/ DeleteMoveCut(c)
  BY <1>0, <1>6 DEF DeleteCopy, DeleteMove, DeleteMoveCut
<1>7. CASE Interrupt(c)
  BY <1>0, <1>7 DEF Interrupt
<1>8. CASE MoveFails(c)
  BY <1>0, <1>8 DEF MoveFails
<1>9. CASE PushFails(c) \/ PullReadFails(c) \/ PullCopyFails(c)
  BY <1>0, <1>9 DEF PushFails, PullReadFails, PullCopyFails
<1>10. CASE DeleteReadFails(c) \/ DeleteCopyFails(c) \/ PurgeFails(c) \/ UnlockFails(c)
  BY <1>0, <1>10 DEF DeleteReadFails, DeleteCopyFails, PurgeFails, UnlockFails
<1> QED
  BY <1>1, <1>2, <1>3, <1>4, <1>5, <1>6, <1>7, <1>8, <1>9, <1>10 DEF Work, Step, Fault

LEMMA ExclusiveStep ==
  ASSUME Typed, Exclusive, Owned, NEW c \in Clients, Work(c), ~ breached'
  PROVE  Exclusive' /\ Owned'
<1>1. \A u \in Clients : u # c => (Inside(u)' <=> Inside(u))
  BY OthersAlone DEF Typed, Inside
<1>2. \/ /\ ~ locked /\ locked' /\ Inside(c)' /\ leaked' = leaked
      \/ /\ ~ Inside(c) /\ ~ Inside(c)' /\ locked' = locked /\ leaked' = leaked
      \/ /\ ~ \E d \in Clients : Inside(d)
         /\ ~ Inside(c)' /\ ~ locked' /\ ~ leaked'
      \/ /\ Inside(c) /\ Inside(c)' /\ locked' = locked /\ leaked' = leaked
      \/ /\ Inside(c) /\ ~ Inside(c)' /\ ~ locked' /\ ~ leaked'
      \/ /\ Inside(c) /\ ~ Inside(c)' /\ leaked' /\ locked' = locked
  BY LockUse
<1> QED
  BY <1>1, <1>2 DEF Exclusive, Owned

(* How a client comes to where its copy is looked at.                      *)
LEMMA WaysIn ==
  ASSUME Typed, NEW c \in Clients, Work(c)
  PROVE  /\ At(c, "push", "append")' => c \in current'
         /\ At(c, "pull", "move")' => PullCopy(c)
         /\ At(c, "pull", "moveCut")' => PullCut(c) \/ PullCopyFails(c)
         /\ At(c, "delete", "move")' => DeleteCopy(c)
         /\ At(c, "delete", "moveCut")' => DeleteCopyFails(c)
         /\ op'[c] = "delete" => Delete(c) \/ (op[c] = "delete" /\ arg' = arg)
         /\ deliveries \subseteq deliveries'
<1>0. /\ pc \in [Clients -> Labels] /\ op \in [Clients -> Callers]
      /\ Staged(op[c], pc[c])
  BY DEF Typed, TypeOK, Control, Callers
<1> USE DEF Goto, Leave, Return, ReturnLocked, At, call, history, Staged, Waits
<1>1. CASE Request(c)
  BY <1>0, <1>1 DEF Request, Push, Pull, Delete, PurgeQueue, Call
<1>2. CASE Lock(c)
  BY <1>0, <1>2 DEF Lock, Entry
<1>3. CASE UnlockLast(c) \/ PushOpen(c) \/ PushAppend(c) \/ PurgeRemove(c) \/ PurgeCreate(c)
  BY <1>0, <1>3 DEF UnlockLast, PushOpen, PushAppend, PurgeRemove, PurgeCreate
<1>4. CASE PullCopy(c) \/ PullCut(c)
  BY <1>0, <1>4 DEF PullCopy, Mark, PullCut
<1>5. CASE PullNothing(c) \/ PullMove(c) \/ PullMoveCut(c) \/ Crash(c) \/ CreateTempFails(c)
  BY <1>0, <1>5 DEF PullNothing, PullMove, PullMoveCut, Crash, CreateTempFails
<1>6. CASE DeleteCopy(c) \/ DeleteMove(c) \/ DeleteMoveCut(c)
  BY <1>0, <1>6 DEF DeleteCopy, DeleteMove, DeleteMoveCut
<1>7. CASE Interrupt(c)
  BY <1>0, <1>7 DEF Interrupt
<1>8. CASE MoveFails(c)
  BY <1>0, <1>8 DEF MoveFails
<1>9. CASE PushFails(c) \/ PullReadFails(c) \/ PullCopyFails(c)
  BY <1>0, <1>9 DEF PushFails, PullReadFails, PullCopyFails
<1>10. CASE DeleteReadFails(c) \/ DeleteCopyFails(c) \/ PurgeFails(c) \/ UnlockFails(c)
  BY <1>0, <1>10 DEF DeleteReadFails, DeleteCopyFails, PurgeFails, UnlockFails
<1> QED
  BY <1>1, <1>2, <1>3, <1>4, <1>5, <1>6, <1>7, <1>8, <1>9, <1>10 DEF Work, Step, Fault

LEMMA SelectThins ==
  ASSUME NEW S, NEW s \in Seq(S), NEW K \in SUBSET (1 .. Len(s))
  PROVE  Thinned(Select(s, K), s)
<1>1. PICK nth \in [1 .. Len(Select(s, K)) -> K] : Chosen(Select(s, K), s, K, nth)
  BY SelectKeeps
<1>2. nth \in [1 .. Len(Select(s, K)) -> 1 .. Len(s)]
  BY <1>1
<1> QED
  BY <1>1, <1>2 DEF Chosen, Thinned

LEMMA PrefixThins ==
  ASSUME NEW S, NEW s \in Seq(S), NEW i \in 1 .. Len(s)
  PROVE  Thinned(SubSeq(s, 1, i - 1), s)
<1> DEFINE nth == [n \in 1 .. i - 1 |-> n]
<1>1. Len(s) \in Nat /\ i \in Nat /\ 1 \in Int /\ i - 1 \in Int
      /\ \A j \in 1 .. i - 1 : s[j] \in S
  BY LenProperties, ElementOfSeq
<1>2. /\ Len(SubSeq(s, 1, i - 1)) = IF 1 <= i - 1 THEN (i - 1) - 1 + 1 ELSE 0
      /\ \A n \in 1 .. (i - 1) - 1 + 1 : SubSeq(s, 1, i - 1)[n] = s[1 + n - 1]
  BY <1>1, SubSeqProperties
<1>3. /\ Len(SubSeq(s, 1, i - 1)) = i - 1
      /\ \A n \in 1 .. i - 1 : SubSeq(s, 1, i - 1)[n] = s[n]
  BY <1>1, <1>2
<1>4. /\ nth \in [1 .. i - 1 -> 1 .. Len(s)]
      /\ \A n \in 1 .. i - 1 : SubSeq(s, 1, i - 1)[n] = s[nth[n]]
      /\ \A m, n \in 1 .. i - 1 : m < n => nth[m] < nth[n]
  BY <1>1, <1>3
<1> HIDE DEF nth
<1> QED
  BY <1>3, <1>4 DEF Thinned

LEMMA ThinnedCopyStays ==
  ASSUME NEW u \in Clients, ThinnedCopy(u),
         file' = file, temp'[u] = temp[u], arg'[u] = arg[u]
  PROVE  ThinnedCopy(u)'
<1>1. PICK kept \in SUBSET (1 .. Len(file)) :
        /\ kept # 1 .. Len(file) /\ temp[u] = Select(file, kept)
        /\ \A i \in 1 .. Len(file) : i \notin kept => file[i].receipt = arg[u]
  BY DEF ThinnedCopy
<1>2. /\ kept \in SUBSET (1 .. Len(file')) /\ kept # 1 .. Len(file')
      /\ temp'[u] = Select(file', kept)
      /\ \A i \in 1 .. Len(file') : i \notin kept => file'[i].receipt = arg'[u]
  BY <1>1
<1> QED
  BY <1>2 DEF ThinnedCopy, Select

LEMMA CopyStays ==
  ASSUME NEW u \in Clients, file' = file, deliveries' = deliveries, clock' = clock,
         temp'[u] = temp[u], arg'[u] = arg[u], taken'[u] = taken[u]
  PROVE  /\ CutCopy(u) => CutCopy(u)'
         /\ WithoutReceipt(u) => WithoutReceipt(u)'
<1>1. CutCopy(u) => CutCopy(u)'
  BY DEF CutCopy, Thinned, PartOfMarked, Picks, Replaces
<1>2. WithoutReceipt(u) => WithoutReceipt(u)'
  BY DEF WithoutReceipt, Picks
<1> QED
  BY <1>1, <1>2

(* What marks a record has a receipt of its own.                           *)
LEMMA FreshReceipt ==
  ASSUME TypeOK, NEW c \in Clients, NEW i \in 1 .. Len(file), FirstVisible(i),
         taken'[c] = DeliveredRecord(file[i], receipts + 1),
         UNCHANGED <<file, deliveries, clock>>
  PROVE  Replaces(c, i)' /\ taken'[c] # NoRecord
<1>1. file[i] \in Records /\ receipts \in Nat
  BY ElementOfSeq DEF TypeOK
<1>2. taken'[c].receipt = receipts + 1 /\ taken'[c].message = file[i].message
  BY <1>1 DEF DeliveredRecord, Records
<1>3. file[i].visibleFrom < clock
  BY DEF FirstVisible, IsVisible
<1>4. /\ \A j \in 1 .. Len(file) : file[j].receipt \in 0 .. receipts
      /\ \A d \in deliveries : d.receipt \in 0 .. receipts
  <2>1. \A j \in 1 .. Len(file) : file[j] \in Records
    BY ElementOfSeq DEF TypeOK
  <2>2. deliveries \subseteq Records
    BY DEF TypeOK
  <2> QED
    BY <2>1, <2>2 DEF Records
<1>5. /\ \A j \in 1 .. Len(file) : file[j].receipt < receipts + 1
      /\ \A d \in deliveries : d.receipt < receipts + 1
      /\ receipts + 1 >= 1 /\ receipts + 1 # 0
  BY <1>1, <1>4
<1>6. taken'[c] # NoRecord
  BY <1>2, <1>5 DEF NoRecord
<1> QED
  BY <1>2, <1>3, <1>5, <1>6 DEF Replaces

(* The copies stay what they are while others wait, and new ones are right. *)
LEMMA CopiesStep ==
  ASSUME Typed, Exclusive, OpenIsCurrent, Copies, NEW c \in Clients, Work(c)
  PROVE  OpenIsCurrent' /\ Copies'
<1>0. TypeOK /\ clock' = clock /\ deliveries \subseteq deliveries'
  BY CountersStep, WaysIn DEF Typed
<1>1. ASSUME NEW u \in Clients, u # c, pc[u] \in {"append", "move", "moveCut"}
      PROVE  UNCHANGED <<file, current, deliveries>>
  <2>1. ~ Inside(c)
    BY <1>1 DEF Exclusive, Inside
  <2> QED
    BY <1>0, <2>1, OutsideTouchesNothing DEF storage, history
<1>2. OpenIsCurrent'
  BY <1>0, <1>1, WaysIn, OthersAlone DEF OpenIsCurrent, At
<1>3. ASSUME NEW u \in Clients, u # c
      PROVE  Copied(u)'
  <2>1. /\ pc'[u] = pc[u] /\ op'[u] = op[u] /\ arg'[u] = arg[u]
        /\ temp'[u] = temp[u] /\ taken'[u] = taken[u] /\ Copied(u)
    BY <1>0, <1>3, OthersAlone DEF Copies
  <2>2. At(u, "pull", "move")' => MarkedCopy(u)'
    BY <1>0, <1>1, <1>3, <2>1 DEF At, Copied, MarkedCopy, Replaces
  <2>3. At(u, "pull", "moveCut")' => CutCopy(u)'
    BY <1>0, <1>1, <1>3, <2>1, CopyStays DEF At, Copied
  <2>6. At(u, "delete", "moveCut")' => WithoutReceipt(u)'
    BY <1>0, <1>1, <1>3, <2>1, CopyStays DEF At, Copied
  <2>4. At(u, "delete", "move")' => ThinnedCopy(u)'
    BY <1>1, <1>3, <2>1, ThinnedCopyStays DEF At, Copied
  <2>5. op'[u] = "delete" => Named(u)'
    BY <1>0, <2>1 DEF Copied, Named
  <2> QED
    BY <2>2, <2>3, <2>4, <2>5, <2>6 DEF Copied, At
<1>4. Copied(c)'
  <2>1. At(c, "pull", "move")' => MarkedCopy(c)'
    <3> SUFFICES ASSUME PullCopy(c)
                 PROVE  MarkedCopy(c)'
      BY WaysIn
    <3>1. PICK i \in 1 .. Len(file) :
            /\ FirstVisible(i)
            /\ Mark(c, DeliveredRecord(file[i], receipts + 1))
            /\ temp' = [temp EXCEPT ![c] = [file EXCEPT ![i] = taken'[c]]]
      BY DEF PullCopy
    <3>2. UNCHANGED <<file, deliveries>>
      BY <3>1 DEF Mark, storage, history
    <3>3. temp'[c] = [file EXCEPT ![i] = taken'[c]]
          /\ taken'[c] = DeliveredRecord(file[i], receipts + 1)
      BY <1>0, <3>1 DEF Mark, TypeOK
    <3>4. Replaces(c, i)'
      BY <1>0, <3>1, <3>2, <3>3, FreshReceipt
    <3> QED
      BY <1>0, <3>2, <3>3, <3>4 DEF MarkedCopy
  <2>2. PullCut(c) => CutCopy(c)'
    <3> SUFFICES ASSUME PullCut(c)
                 PROVE  CutCopy(c)'
      OBVIOUS
    <3>1. PICK i \in 1 .. Len(file) : temp' = [temp EXCEPT ![c] = SubSeq(file, 1, i - 1)]
      BY DEF PullCut
    <3>2. taken[c] = NoRecord
      BY DEF PullCut, At, Typed, Marked, Marking
    <3>3. temp'[c] = SubSeq(file, 1, i - 1) /\ file' = file /\ taken'[c] = NoRecord
      BY <1>0, <3>1, <3>2 DEF PullCut, TypeOK, storage
    <3>4. Thinned(SubSeq(file, 1, i - 1), file)
      BY <1>0, PrefixThins DEF TypeOK
    <3> QED
      BY <3>3, <3>4 DEF CutCopy
  <2>5. PullCopyFails(c) => CutCopy(c)'
    <3> SUFFICES ASSUME PullCopyFails(c)
                 PROVE  CutCopy(c)'
      OBVIOUS
    <3>1. PICK i \in 1 .. Len(file), written \in SUBSET (1 .. Len(file)) :
            /\ FirstVisible(i) /\ Attempts(file[i]) <= MaxInt
            /\ taken' = [taken EXCEPT ![c] = DeliveredRecord(file[i], receipts + 1)]
            /\ temp' = [temp EXCEPT ![c] = Select([file EXCEPT ![i] = taken'[c]], written)]
      BY DEF PullCopyFails
    <3> DEFINE marked == [file EXCEPT ![i] = taken'[c]]
    <3>2. UNCHANGED <<file, deliveries>>
      BY DEF PullCopyFails, storage, history
    <3>3. /\ taken'[c] = DeliveredRecord(file[i], receipts + 1)
          /\ temp'[c] = Select(marked, written)
      BY <1>0, <3>1 DEF TypeOK
    <3>4. Replaces(c, i)' /\ taken'[c] # NoRecord
      BY <1>0, <3>1, <3>2, <3>3, FreshReceipt
    <3>5. taken'[c] \in Records' /\ file \in Seq(Records')
      <4>1. taken'[c] \in Records'
        BY <3>1, <3>3, MarkedRecord DEF PullCopyFails
      <4>2. Seq(Records) \subseteq Seq(Records')
        BY CountersStep, RecordsGrow DEF Typed, TypeOK
      <4> QED
        BY <1>0, <4>1, <4>2 DEF TypeOK
    <3>6. /\ marked \in Seq(Records') /\ Len(marked) = Len(file)
          /\ \A j \in 1 .. Len(file) : marked[j] = IF j = i THEN taken'[c] ELSE file[j]
      BY <3>5, ExceptSeq
    <3> HIDE DEF marked
    <3>7. PICK nth \in [1 .. Len(temp'[c]) -> written] :
            /\ \A n \in 1 .. Len(temp'[c]) : temp'[c][n] = marked[nth[n]]
            /\ \A m, n \in 1 .. Len(temp'[c]) : m < n => nth[m] < nth[n]
      <4>1. written \in SUBSET (1 .. Len(marked))
        BY <3>6
      <4>2. \E nth \in [1 .. Len(temp'[c]) -> written] : Chosen(temp'[c], marked, written, nth)
        BY <3>3, <3>6, <4>1, SelectKeeps
      <4> QED
        BY <4>2 DEF Chosen
    <3>8. /\ nth \in [1 .. Len(temp'[c]) -> 1 .. Len(file')]
          /\ \A n \in 1 .. Len(temp'[c]) :
               temp'[c][n] = IF nth[n] = i THEN taken'[c] ELSE file'[nth[n]]
      BY <3>2, <3>6, <3>7
    <3>9. PartOfMarked(c)'
      BY <3>2, <3>4, <3>7, <3>8 DEF PartOfMarked, Picks
    <3> QED
      BY <3>4, <3>9 DEF CutCopy
  <2>6. DeleteCopyFails(c) => WithoutReceipt(c)'
    <3> SUFFICES ASSUME DeleteCopyFails(c)
                 PROVE  WithoutReceipt(c)'
      OBVIOUS
    <3> DEFINE kept == {i \in 1 .. Len(file) : ~ IsToDelete(file[i], arg[c])}
    <3>1. PICK written \in SUBSET kept : temp' = [temp EXCEPT ![c] = Select(file, written)]
      BY DEF DeleteCopyFails
    <3>2. PICK i \in 1 .. Len(file) : i \notin kept
      BY DEF DeleteCopyFails
    <3>3. file[i].receipt = arg[c]
      BY <3>2 DEF IsToDelete
    <3>4. /\ file' = file /\ arg' = arg /\ temp'[c] = Select(file, written)
          /\ written \in SUBSET (1 .. Len(file)) /\ i \notin written
      BY <1>0, <3>1, <3>2 DEF DeleteCopyFails, TypeOK, storage
    <3> HIDE DEF kept
    <3>5. PICK nth \in [1 .. Len(temp'[c]) -> written] :
            /\ \A n \in 1 .. Len(temp'[c]) : temp'[c][n] = file[nth[n]]
            /\ \A m, n \in 1 .. Len(temp'[c]) : m < n => nth[m] < nth[n]
      <4>1. file \in Seq(Records)
        BY <1>0 DEF TypeOK
      <4>2. \E nth \in [1 .. Len(temp'[c]) -> written] : Chosen(temp'[c], file, written, nth)
        BY <3>4, <4>1, SelectKeeps
      <4> QED
        BY <4>2 DEF Chosen
    <3>6. /\ nth \in [1 .. Len(temp'[c]) -> 1 .. Len(file')]
          /\ \A n \in 1 .. Len(temp'[c]) : temp'[c][n] = file'[nth[n]] /\ nth[n] # i
      BY <3>4, <3>5
    <3> QED
      BY <3>3, <3>4, <3>5, <3>6 DEF WithoutReceipt, Picks
  <2>3. At(c, "delete", "move")' => ThinnedCopy(c)'
    <3> SUFFICES ASSUME DeleteCopy(c), At(c, "delete", "move")'
                 PROVE  ThinnedCopy(c)'
      BY WaysIn DEF At
    <3> DEFINE kept == {i \in 1 .. Len(file) : ~ IsToDelete(file[i], arg[c])}
    <3>1. /\ kept # 1 .. Len(file) /\ temp' = [temp EXCEPT ![c] = Select(file, kept)]
          /\ file' = file /\ arg' = arg
      BY <1>0 DEF DeleteCopy, At, Goto, TypeOK, storage
    <3>2. kept \in SUBSET (1 .. Len(file))
      OBVIOUS
    <3>3. \A i \in 1 .. Len(file) : i \notin kept => file[i].receipt = arg[c]
      BY DEF IsToDelete
    <3>4. temp'[c] = Select(file, kept) /\ Select(file', kept) = Select(file, kept)
      BY <1>0, <3>1 DEF TypeOK
    <3> HIDE DEF kept
    <3>5. /\ kept \in SUBSET (1 .. Len(file')) /\ kept # 1 .. Len(file')
          /\ temp'[c] = Select(file', kept)
          /\ \A i \in 1 .. Len(file') : i \notin kept => file'[i].receipt = arg'[c]
      BY <3>1, <3>2, <3>3, <3>4
    <3> QED
      BY <3>5 DEF ThinnedCopy, Select
  <2>4. op'[c] = "delete" => Named(c)'
    <3>1. Delete(c) => Named(c)'
      BY <1>0 DEF Delete, Call, Named, TypeOK
    <3>2. op[c] = "delete" /\ arg' = arg => Named(c)'
      BY <1>0 DEF Copies, Copied, Named
    <3> QED
      BY <3>1, <3>2, WaysIn
  <2> QED
    BY <2>1, <2>2, <2>3, <2>4, <2>5, <2>6, WaysIn DEF Copied
<1> QED
  BY <1>2, <1>3, <1>4 DEF Copies

-----------------------------------------------------------------------------
(* The file and the histories.                                             *)

(* Dropping records keeps what holds of the rest.                          *)
LEMMA ThinningKeeps ==
  ASSUME Ordered, ReceiptsAgree, Leases, Thinned(file', file), UNCHANGED <<deliveries, clock>>
  PROVE  /\ Ordered' /\ ReceiptsAgree' /\ Leases'
         /\ Messages(file') \subseteq Messages(file)
<1>1. PICK nth \in [1 .. Len(file') -> 1 .. Len(file)] :
        /\ \A n \in 1 .. Len(file') : file'[n] = file[nth[n]]
        /\ \A m, n \in 1 .. Len(file') : m < n => nth[m] < nth[n]
  BY DEF Thinned
<1>2. \A n \in 1 .. Len(file') : nth[n] \in 1 .. Len(file)
  BY <1>1
<1>3. Ordered'
  BY <1>1, <1>2 DEF Ordered
<1>4. ReceiptsAgree' /\ Leases'
  BY <1>1, <1>2 DEF ReceiptsAgree, Leases
<1>5. Messages(file') \subseteq Messages(file)
  BY <1>1, <1>2 DEF Messages
<1> QED
  BY <1>3, <1>4, <1>5

(* A message is appended.                                                  *)
LEMMA AppendContent ==
  ASSUME Typed, Content, OpenIsCurrent, NEW c \in Clients, PushAppend(c)
  PROVE  Content'
<1>1. /\ file' = Append(file, CreateRecord(pushes + 1)) /\ pushes' = pushes + 1
      /\ UNCHANGED <<clock, deliveries, deleted, purged, cut>>
  BY DEF PushAppend, OpenIsCurrent, history
<1>2. /\ file \in Seq(Records) /\ Len(file) \in Nat /\ pushes \in Nat
      /\ deliveries \subseteq Records /\ deleted \subseteq 1 .. pushes
      /\ \A i \in 1 .. Len(file) : file[i] \in Records
  BY ElementOfSeq, LenProperties DEF Typed, TypeOK
<1>3. /\ CreateRecord(pushes + 1).message = pushes + 1
      /\ CreateRecord(pushes + 1).receipt = 0
  BY DEF CreateRecord, NoRecord
<1> DEFINE new == CreateRecord(pushes + 1)
<1> HIDE DEF new
<1>4. /\ Len(file') = Len(file) + 1 /\ file'[Len(file) + 1] = new
      /\ \A i \in 1 .. Len(file) : file'[i] = file[i]
  BY <1>1, <1>2 DEF new
<1>5. /\ \A i \in 1 .. Len(file) : file[i].message \in 1 .. pushes
      /\ \A d \in deliveries : d.message \in 1 .. pushes
  BY <1>2 DEF Records
<1>6. new.message = pushes + 1 /\ new.receipt = 0
  BY <1>3 DEF new
<1>7. \A i \in 1 .. Len(file') : (i \in 1 .. Len(file) /\ file'[i] = file[i])
                                 \/ (i = Len(file) + 1 /\ file'[i] = new)
  BY <1>2, <1>4
<1>8. Messages(file') = Messages(file) \union {pushes + 1}
  BY <1>2, <1>4, <1>6, <1>7 DEF Messages
<1>9. Lossless'
  BY <1>1, <1>2, <1>8 DEF Lossless, Content
<1>10. Gone'
  BY <1>1, <1>2, <1>8 DEF Gone, Content
<1>11. Ordered'
  BY <1>2, <1>5, <1>6, <1>7 DEF Ordered, Content
<1>12. ReceiptsAgree'
  BY <1>1, <1>6, <1>7 DEF ReceiptsAgree, Content, Started
<1>13. Leases'
  BY <1>1, <1>2, <1>5, <1>6, <1>7 DEF Leases, Content
<1> QED
  BY <1>1, <1>9, <1>10, <1>11, <1>12, <1>13 DEF Content, Started

(* A delivered record takes the place of the one that was visible, in what *)
(* has been written of the copy.                                           *)
LEMMA MarkedKeeps ==
  ASSUME Typed, Content, NEW c \in Clients, PartOfMarked(c), taken[c] \in Records,
         file' = temp[c], deliveries' = deliveries \union {taken[c]}, clock' = clock
  PROVE  /\ Ordered' /\ ReceiptsAgree' /\ Leases' /\ Started'
         /\ Messages(file') \subseteq Messages(file)
<1>1. PICK i \in 1 .. Len(file), nth \in [1 .. Len(temp[c]) -> 1 .. Len(file)] :
        /\ Picks(c, nth) /\ Replaces(c, i)
        /\ \A n \in 1 .. Len(temp[c]) :
             temp[c][n] = IF nth[n] = i THEN taken[c] ELSE file[nth[n]]
  BY DEF PartOfMarked
<1>2. /\ \A n \in 1 .. Len(file') : nth[n] \in 1 .. Len(file)
      /\ \A n \in 1 .. Len(file') : file'[n] = IF nth[n] = i THEN taken[c] ELSE file[nth[n]]
      /\ \A m, n \in 1 .. Len(file') : m < n => nth[m] < nth[n]
  <2>1. \A n \in 1 .. Len(file') : nth[n] \in 1 .. Len(file)
    BY <1>1
  <2>2. \A n \in 1 .. Len(file') : file'[n] = IF nth[n] = i THEN taken[c] ELSE file[nth[n]]
    BY <1>1
  <2>3. \A m, n \in 1 .. Len(file') : m < n => nth[m] < nth[n]
    BY <1>1 DEF Picks
  <2> QED
    BY <2>1, <2>2, <2>3
<1>3. /\ Len(file) \in Nat /\ clock \in Nat /\ deliveries \subseteq Records
      /\ \A j \in 1 .. Len(file) : file[j] \in Records
  BY ElementOfSeq, LenProperties DEF Typed, TypeOK
<1>4. \A r \in Records : r.message \in Nat /\ r.receipt \in Nat /\ r.visibleFrom \in Nat
  BY DEF Records
<1>5. /\ file[i].visibleFrom < clock /\ file[i].message = taken[c].message
      /\ taken[c].receipt >= 1
      /\ \A j \in 1 .. Len(file) : file[j].receipt < taken[c].receipt
      /\ \A d \in deliveries : d.receipt < taken[c].receipt
  BY <1>1 DEF Replaces
<1>6. \A n \in 1 .. Len(file') : file'[n].message = file[nth[n]].message
  BY <1>2, <1>5
<1>7. Messages(file') \subseteq Messages(file)
  <2>1. \A n \in 1 .. Len(file') : file'[n].message \in Messages(file)
    BY <1>2, <1>6 DEF Messages
  <2> QED
    BY <2>1 DEF Messages
<1>9. Ordered'
  <2>1. \A m, n \in 1 .. Len(file') :
          m < n => file[nth[m]].message < file[nth[n]].message
    BY <1>2 DEF Ordered, Content
  <2> QED
    BY <1>6, <2>1 DEF Ordered
<1>10. ReceiptsAgree'
  <2> SUFFICES ASSUME NEW d \in deliveries', NEW n \in 1 .. Len(file'),
                      file'[n].receipt = d.receipt
               PROVE  file'[n].message = d.message
    BY DEF ReceiptsAgree
  <2>1. /\ file[nth[n]].receipt < taken[c].receipt /\ taken[c].receipt \in Nat
        /\ file[nth[n]].receipt \in Nat
    BY <1>2, <1>3, <1>4, <1>5
  <2>2. CASE d = taken[c]
    <3>1. nth[n] = i
      BY <1>2, <2>1, <2>2
    <3> QED
      BY <1>2, <2>2, <3>1
  <2>3. CASE d \in deliveries
    <3>1. d.receipt < taken[c].receipt /\ d.receipt \in Nat
      BY <1>3, <1>4, <1>5, <2>3
    <3>2. nth[n] # i
      BY <1>2, <2>1, <3>1
    <3> QED
      BY <1>2, <2>3, <3>2 DEF Content, ReceiptsAgree
  <2> QED
    BY <2>2, <2>3
<1>11. \A j \in 1 .. Len(file) : file[j].message = file[i].message => j = i
  <2> SUFFICES ASSUME NEW j \in 1 .. Len(file), j # i
               PROVE  file[j].message # file[i].message
    OBVIOUS
  <2>1. j < i \/ i < j
    BY <1>3
  <2>2. file[j].message \in Nat /\ file[i].message \in Nat
    BY <1>3, <1>4
  <2> QED
    BY <2>1, <2>2 DEF Content, Ordered
<1>12. Leases'
  <2> SUFFICES ASSUME NEW d \in deliveries', NEW n \in 1 .. Len(file'),
                      file'[n].message = d.message, d.visibleFrom >= clock
               PROVE  file'[n].receipt = d.receipt /\ file'[n].visibleFrom >= d.visibleFrom
    BY DEF Leases
  <2>1. nth[n] \in 1 .. Len(file) /\ file[nth[n]].message = d.message
    BY <1>2, <1>6
  <2>2. CASE d = taken[c]
    <3>1. nth[n] = i
      BY <1>5, <1>11, <2>1, <2>2
    <3> QED
      BY <1>3, <1>4, <1>2, <2>2, <3>1
  <2>3. CASE d \in deliveries
    <3>1. file[nth[n]].receipt = d.receipt /\ file[nth[n]].visibleFrom >= d.visibleFrom
      BY <2>1, <2>3 DEF Content, Leases
    <3>2. file[nth[n]].visibleFrom \in Nat /\ d.visibleFrom \in Nat
      BY <1>3, <1>4, <2>1, <2>3
    <3>3. nth[n] # i
      BY <1>3, <1>5, <3>1, <3>2
    <3> QED
      BY <1>2, <3>1, <3>3
  <2> QED
    BY <2>2, <2>3
<1> QED
  BY <1>5, <1>7, <1>9, <1>10, <1>12 DEF Content, Started

(* A complete copy drops nothing.                                          *)
LEMMA DeliveryContent ==
  ASSUME Typed, Content, NEW c \in Clients, Copied(c), PullMove(c)
  PROVE  Content'
<1>1. /\ file' = temp[c] /\ deliveries' = deliveries \union {taken[c]}
      /\ UNCHANGED <<clock, pushes, deleted, purged, cut>>
  BY DEF PullMove, MoveTemp, ReturnLocked
<1>2. PICK i \in 1 .. Len(file) :
        temp[c] = [file EXCEPT ![i] = taken[c]] /\ Replaces(c, i)
  BY DEF PullMove, Copied, MarkedCopy
<1>3. file \in Seq(Records) /\ Len(file) \in Nat /\ taken[c] \in Records
  BY LenProperties DEF PullMove, Typed, TypeOK, Marked
<1>4. /\ Len(temp[c]) = Len(file)
      /\ \A j \in 1 .. Len(file) : temp[c][j] = IF j = i THEN taken[c] ELSE file[j]
  BY <1>2, <1>3, ExceptSeq
<1>5. PartOfMarked(c)
  <2> DEFINE nth == [j \in 1 .. Len(file) |-> j]
  <2>1. /\ nth \in [1 .. Len(temp[c]) -> 1 .. Len(file)]
        /\ \A m, n \in 1 .. Len(temp[c]) : m < n => nth[m] < nth[n]
        /\ \A n \in 1 .. Len(temp[c]) :
             temp[c][n] = IF nth[n] = i THEN taken[c] ELSE file[nth[n]]
    BY <1>3, <1>4
  <2> HIDE DEF nth
  <2> QED
    BY <1>2, <2>1 DEF PartOfMarked, Picks
<1>6. Messages(file) \subseteq Messages(file')
  <2>1. \A j \in 1 .. Len(file) : file'[j].message = file[j].message
    BY <1>1, <1>2, <1>4 DEF Replaces
  <2> QED
    BY <1>1, <1>4, <2>1 DEF Messages
<1>7. Ordered' /\ ReceiptsAgree' /\ Leases' /\ Started' /\ Messages(file') = Messages(file)
  BY <1>1, <1>3, <1>5, <1>6, MarkedKeeps
<1> QED
  BY <1>1, <1>7 DEF Content, Lossless, Gone

(* A pull that has failed cuts the file off.                               *)
LEMMA CutContent ==
  ASSUME Typed, Content, NEW c \in Clients, Copied(c), PullMoveCut(c)
  PROVE  Content'
<1>1. /\ file' = temp[c] /\ cut' = cut \union (Messages(file) \ Messages(temp[c]))
      /\ deliveries' = deliveries \union ({taken[c]} \ {NoRecord})
      /\ UNCHANGED <<clock, pushes, deleted, purged>>
  BY DEF PullMoveCut, MoveTemp, ReturnLocked
<1>2. CutCopy(c) /\ taken[c] \in Records \union {NoRecord}
  BY DEF PullMoveCut, Copied, Typed, TypeOK
<1>3. /\ Ordered' /\ ReceiptsAgree' /\ Leases' /\ Started'
      /\ Messages(file') \subseteq Messages(file)
  <2>1. CASE taken[c] = NoRecord
    <3>1. Thinned(file', file) /\ deliveries' = deliveries
      BY <1>1, <1>2, <2>1 DEF CutCopy
    <3> QED
      BY <1>1, <3>1, ThinningKeeps DEF Content, Started
  <2>2. CASE taken[c] # NoRecord
    BY <1>1, <1>2, <2>2, MarkedKeeps DEF CutCopy
  <2> QED
    BY <2>1, <2>2
<1>4. Lossless'
  BY <1>1 DEF Lossless, Content
<1> QED
  BY <1>1, <1>3, <1>4 DEF Content, Gone

(* A delete drops the records with the receipt.                            *)
LEMMA DeletedGone ==
  ASSUME Typed, Content, NEW c \in Clients, WithoutReceipt(c), Named(c),
         file' = temp[c], UNCHANGED <<deliveries, clock>>,
         deleted' = deleted \union {d.message : d \in {d \in deliveries : d.receipt = arg[c]}}
  PROVE  Ordered' /\ ReceiptsAgree' /\ Leases' /\ Gone'
<1> DEFINE named == {d.message : d \in {d \in deliveries : d.receipt = arg[c]}}
<1>1. PICK i \in 1 .. Len(file), nth \in [1 .. Len(temp[c]) -> 1 .. Len(file)] :
        /\ Picks(c, nth) /\ file[i].receipt = arg[c]
        /\ \A n \in 1 .. Len(temp[c]) : temp[c][n] = file[nth[n]] /\ nth[n] # i
  BY DEF WithoutReceipt
<1>2. Ordered' /\ ReceiptsAgree' /\ Leases' /\ Messages(file') \subseteq Messages(file)
  <2>1. Thinned(file', file)
    BY <1>1 DEF Picks, Thinned
  <2> QED
    BY <2>1, ThinningKeeps DEF Content
<1>3. named \intersect Messages(file') = {}
  <2> SUFFICES ASSUME NEW d \in deliveries, d.receipt = arg[c],
                      NEW n \in 1 .. Len(file'), file'[n].message = d.message
               PROVE  FALSE
    BY DEF Messages
  <2>1. file[i].message = d.message
    BY <1>1 DEF Content, ReceiptsAgree
  <2>2. nth[n] \in 1 .. Len(file) /\ nth[n] # i /\ file[nth[n]].message = d.message
    BY <1>1
  <2>3. Len(file) \in Nat /\ d.message \in Nat
    BY LenProperties DEF Typed, TypeOK, Records
  <2>4. i < nth[n] \/ nth[n] < i
    BY <2>2, <2>3
  <2> QED
    BY <2>1, <2>2, <2>3, <2>4 DEF Content, Ordered
<1> HIDE DEF named
<1> QED
  BY <1>2, <1>3 DEF Content, Gone, named

LEMMA DeleteContent ==
  ASSUME Typed, Content, NEW c \in Clients, Copied(c), DeleteMove(c)
  PROVE  Content'
<1> DEFINE named == {d.message : d \in {d \in deliveries : d.receipt = arg[c]}}
<1>1. /\ file' = temp[c] /\ deleted' = deleted \union named
      /\ UNCHANGED <<clock, deliveries, pushes, purged, cut>>
  BY DEF DeleteMove, MoveTemp
<1>2. PICK kept \in SUBSET (1 .. Len(file)) :
        /\ kept # 1 .. Len(file) /\ temp[c] = Select(file, kept)
        /\ \A i \in 1 .. Len(file) : i \notin kept => file[i].receipt = arg[c]
  BY DEF DeleteMove, Copied, ThinnedCopy
<1>3. PICK nth \in [1 .. Len(file') -> kept] :
        /\ \A n \in 1 .. Len(file') : file'[n] = file[nth[n]]
        /\ \A m, n \in 1 .. Len(file') : m < n => nth[m] < nth[n]
        /\ \A i \in kept : \E n \in 1 .. Len(file') : nth[n] = i
  <2>1. file' = Select(file, kept) /\ file \in Seq(Records)
    BY <1>1, <1>2 DEF Typed, TypeOK
  <2>2. \E nth \in [1 .. Len(file') -> kept] : Chosen(file', file, kept, nth)
    BY <2>1, SelectKeeps
  <2> QED
    BY <2>2 DEF Chosen
<1>4. WithoutReceipt(c)
  <2>1. PICK i \in 1 .. Len(file) : i \notin kept
    BY <1>2
  <2>2. file[i].receipt = arg[c]
    BY <1>2, <2>1
  <2>3. file' = temp[c] /\ kept \subseteq 1 .. Len(file)
    BY <1>1
  <2>4. nth \in [1 .. Len(temp[c]) -> 1 .. Len(file)]
    BY <2>3
  <2>5. /\ \A n \in 1 .. Len(temp[c]) : temp[c][n] = file[nth[n]] /\ nth[n] # i
        /\ \A m, n \in 1 .. Len(temp[c]) : m < n => nth[m] < nth[n]
    <3>1. \A n \in 1 .. Len(file') : nth[n] \in kept
      OBVIOUS
    <3>2. \A n \in 1 .. Len(file') : file'[n] = file[nth[n]] /\ nth[n] # i
      BY <1>3, <2>1, <3>1
    <3>3. \A m, n \in 1 .. Len(file') : m < n => nth[m] < nth[n]
      BY <1>3
    <3> QED
      BY <2>3, <3>2, <3>3
  <2> QED
    BY <2>2, <2>4, <2>5 DEF WithoutReceipt, Picks
<1>5. \A i \in 1 .. Len(file) : i \notin kept => file[i].message \in named
  <2> SUFFICES ASSUME NEW i \in 1 .. Len(file), i \notin kept
               PROVE  file[i].message \in named
    OBVIOUS
  <2>1. PICK d \in deliveries : d.receipt = arg[c]
    BY DEF Copied, Named, DeleteMove, At
  <2>2. file[i].message = d.message
    BY <1>2, <2>1 DEF Content, ReceiptsAgree
  <2> QED
    BY <2>1, <2>2
<1>6. Lossless'
  <2> SUFFICES ASSUME NEW m \in 1 .. pushes, m \notin deleted \union purged \union cut
               PROVE  m \in Messages(file') \union named
    BY <1>1 DEF Lossless
  <2>1. PICK i \in 1 .. Len(file) : m = file[i].message
    BY DEF Content, Lossless, Messages
  <2>2. CASE i \in kept
    <3>1. PICK n \in 1 .. Len(file') : nth[n] = i
      BY <1>3, <2>2
    <3>2. file'[n].message = m
      BY <1>3, <2>1, <3>1
    <3> QED
      BY <3>2 DEF Messages
  <2>3. CASE i \notin kept
    BY <1>5, <2>1, <2>3
  <2> QED
    BY <2>2, <2>3
<1>7. Ordered' /\ ReceiptsAgree' /\ Leases' /\ Gone'
  <2>1. Named(c)
    BY DEF Copied, DeleteMove, At
  <2> QED
    BY <1>1, <1>4, <2>1, DeletedGone
<1> QED
  BY <1>1, <1>6, <1>7 DEF Content, Started

(* What failed to be written is lost; the deleted record is gone.          *)
LEMMA DeleteCutContent ==
  ASSUME Typed, Content, NEW c \in Clients, Copied(c), DeleteMoveCut(c)
  PROVE  Content'
<1>1. /\ file' = temp[c] /\ cut' = cut \union (Messages(file) \ Messages(temp[c]))
      /\ deleted' = deleted \union {d.message : d \in {d \in deliveries : d.receipt = arg[c]}}
      /\ UNCHANGED <<clock, deliveries, pushes, purged>>
  BY DEF DeleteMoveCut, MoveTemp
<1>2. WithoutReceipt(c) /\ Named(c)
  BY DEF Copied, DeleteMoveCut, At
<1>3. Ordered' /\ ReceiptsAgree' /\ Leases' /\ Gone'
  BY <1>1, <1>2, DeletedGone
<1>4. Lossless'
  BY <1>1 DEF Lossless, Content
<1> QED
  BY <1>1, <1>3, <1>4 DEF Content, Started

(* A move that fails leaves the file; a pull returns its message anyway,   *)
(* with a time that is already over.                                       *)
LEMMA FailedMoveContent ==
  ASSUME Typed, Content, NEW c \in Clients, Copied(c), MoveFails(c)
  PROVE  Content'
<1>1. UNCHANGED <<clock, file, pushes, deleted, purged, cut>>
  BY DEF MoveFails, storage
<1>2. CASE UNCHANGED deliveries
  BY <1>1, <1>2 DEF Content, Lossless, Gone, Ordered, ReceiptsAgree, Leases, Started,
                    Messages
<1> DEFINE new == [taken[c] EXCEPT !.visibleFrom = 0]
<1>3. CASE /\ taken[c] \in Records /\ (\E i \in 1 .. Len(file) : Replaces(c, i))
           /\ deliveries' = deliveries \union {new}
  <2>1. taken[c] \in Records /\ clock \in Nat
    BY <1>3 DEF Typed, TypeOK
  <2>2. new.receipt = taken[c].receipt /\ new.visibleFrom = 0
    BY <2>1 DEF Records
  <2>3. /\ taken[c].receipt >= 1
        /\ \A j \in 1 .. Len(file) : file[j].receipt < taken[c].receipt
    BY <1>3 DEF Replaces
  <2>4. /\ \A j \in 1 .. Len(file) : file[j].receipt \in Nat
        /\ taken[c].receipt \in Nat
    <3>1. \A j \in 1 .. Len(file) : file[j] \in Records
      BY ElementOfSeq DEF Typed, TypeOK
    <3> QED
      BY <2>1, <3>1 DEF Records
  <2>5. /\ \A j \in 1 .. Len(file) : file[j].receipt # new.receipt
        /\ new.receipt >= 1
    BY <2>2, <2>3, <2>4
  <2>6. ~ new.visibleFrom >= clock
    BY <2>1, <2>2 DEF Content, Started
  <2>7. deliveries' = deliveries \union {new}
    BY <1>3
  <2> HIDE DEF new
  <2>8. ReceiptsAgree' /\ Leases' /\ Started'
    BY <1>1, <2>5, <2>6, <2>7 DEF Content, ReceiptsAgree, Leases, Started
  <2> QED
    BY <1>1, <2>8 DEF Content, Lossless, Gone, Ordered, Messages
<1>4. CASE At(c, "pull", "move") /\ deliveries' = deliveries \union {new}
  <2>1. taken[c] \in Records /\ \E i \in 1 .. Len(file) : Replaces(c, i)
    BY <1>4 DEF Typed, Marked, Copied, MarkedCopy
  <2> QED
    BY <1>3, <1>4, <2>1
<1>5. CASE At(c, "pull", "moveCut") /\ deliveries' = deliveries \union ({new} \ {NoRecord})
  <2>1. CutCopy(c) /\ taken[c] \in Records \union {NoRecord}
    BY <1>5 DEF Copied, Typed, TypeOK
  <2>2. CASE taken[c] = NoRecord
    <3>1. new = NoRecord
      BY <2>2 DEF NoRecord
    <3> QED
      BY <1>2, <1>5, <3>1
  <2>3. CASE taken[c] # NoRecord
    <3>1. taken[c] \in Records /\ \E i \in 1 .. Len(file) : Replaces(c, i)
      BY <2>1, <2>3 DEF CutCopy, PartOfMarked
    <3>2. new # NoRecord
      <4>1. new.message = taken[c].message /\ taken[c].message # 0
        BY <3>1 DEF Records
      <4> QED
        BY <4>1 DEF NoRecord
    <3> QED
      BY <1>3, <1>5, <3>1, <3>2
  <2> QED
    BY <2>2, <2>3
<1> QED
  BY <1>2, <1>4, <1>5 DEF MoveFails

LEMMA ContentStep ==
  ASSUME Typed, OpenIsCurrent, Content, NEW c \in Clients, Copied(c), Work(c)
  PROVE  Content'
<1>1. CASE UNCHANGED <<clock, file, pushes, history>>
  BY <1>1 DEF Content, Lossless, Gone, Ordered, ReceiptsAgree, Leases, Started,
              Messages, history
<1>2. CASE PurgeRemove(c)
  <2>1. /\ file' = << >> /\ purged' = purged \union Messages(file)
        /\ UNCHANGED <<clock, pushes, deliveries, deleted, cut>>
    BY <1>2 DEF PurgeRemove
  <2>2. Len(file') = 0 /\ Messages(file') = {}
    BY <2>1 DEF Messages
  <2> QED
    BY <2>1, <2>2 DEF Content, Lossless, Gone, Ordered, ReceiptsAgree, Leases, Started
<1>3. \/ UNCHANGED <<clock, file, pushes, history>>
      \/ PushAppend(c) \/ PullMove(c) \/ PullMoveCut(c) \/ DeleteMove(c)
      \/ DeleteMoveCut(c) \/ PurgeRemove(c) \/ MoveFails(c) \/ PushFails(c)
  BY DEF Work, Request, Push, Pull, Delete, PurgeQueue, Call, Step, Lock, UnlockLast,
         PushOpen, PullCopy, Mark, PullNothing, PullCut, DeleteCopy, PurgeCreate, Fault,
         storage, Interrupt, Crash, CreateTempFails, PullReadFails, PullCopyFails,
         DeleteReadFails, DeleteCopyFails, PurgeFails, UnlockFails
<1>4. CASE PushFails(c)
  <2>1. /\ pushes' = pushes + 1 /\ cut' = cut \union {pushes + 1} /\ pushes \in Nat
        /\ UNCHANGED <<clock, file, deliveries, deleted, purged>>
    BY <1>4 DEF PushFails, Typed, TypeOK
  <2>2. Lossless'
    BY <2>1 DEF Content, Lossless, Messages
  <2> QED
    BY <2>1, <2>2 DEF Content, Gone, Ordered, ReceiptsAgree, Leases, Started, Messages
<1> QED
  BY <1>1, <1>2, <1>3, <1>4, AppendContent, DeliveryContent, CutContent, DeleteContent,
     DeleteCutContent, FailedMoveContent

-----------------------------------------------------------------------------
(* The theorems.                                                           *)

LEMMA WholeStep == Typed /\ Whole /\ [Next]_vars => Whole'
<1> SUFFICES ASSUME Typed, Whole, [Next]_vars, ~ breached'
             PROVE  Exclusive' /\ Owned' /\ OpenIsCurrent' /\ Copies' /\ Content'
  BY DEF Whole
<1>1. CASE \E c \in Clients : Work(c)
  <2>1. PICK c \in Clients : Work(c)
    BY <1>1
  <2>2. ~ breached
    BY <2>1, LockUse
  <2>3. Exclusive /\ Owned /\ OpenIsCurrent /\ Copies /\ Content /\ Copied(c)
    BY <2>2 DEF Whole, Copies
  <2> QED
    BY <2>1, <2>3, ExclusiveStep, CopiesStep, ContentStep
<1>2. CASE Tick
  <2>1. /\ UNCHANGED <<locked, file, current, pc, op, arg, temp, taken, pushes,
                       deliveries, deleted, purged, cut, leaked, breached>>
        /\ clock' = clock + 1 /\ clock \in Nat
    BY <1>2 DEF Tick, storage, call, history, Typed, TypeOK
  <2>2. Exclusive /\ Owned /\ OpenIsCurrent /\ Copies /\ Content
    BY <2>1 DEF Whole
  <2>3. /\ \A i \in 1 .. Len(file) : file[i].visibleFrom \in Nat
        /\ \A d \in deliveries : d.visibleFrom \in Nat
    <3>1. \A i \in 1 .. Len(file) : file[i] \in Records
      BY ElementOfSeq DEF Typed, TypeOK
    <3> QED
      BY <3>1 DEF Typed, TypeOK, Records
  <2>4. \A u \in Clients : MarkedCopy(u) => MarkedCopy(u)'
    <3>1. \A i \in 1 .. Len(file) : file[i].visibleFrom < clock => file[i].visibleFrom < clock'
      BY <2>1, <2>3
    <3>2. UNCHANGED <<file, temp, taken, deliveries>>
      BY <2>1
    <3> QED
      BY <3>1, <3>2 DEF MarkedCopy, Replaces
  <2>5. \A u \in Clients : /\ CutCopy(u) => CutCopy(u)'
                           /\ WithoutReceipt(u) => WithoutReceipt(u)'
                           /\ Named(u) => Named(u)'
    <3>1. \A u \in Clients, i \in 1 .. Len(file) : Replaces(u, i) => Replaces(u, i)'
      BY <2>1, <2>3 DEF Replaces
    <3>2. UNCHANGED <<file, temp, taken, arg, deliveries>>
      BY <2>1
    <3>3. \A u \in Clients : PartOfMarked(u) => PartOfMarked(u)'
      BY <3>1, <3>2 DEF PartOfMarked, Picks
    <3> QED
      BY <3>2, <3>3 DEF CutCopy, Thinned, WithoutReceipt, Picks, Named
  <2>6. \A u \in Clients : ThinnedCopy(u) => ThinnedCopy(u)'
    BY <2>1, ThinnedCopyStays
  <2>7. Copies'
    BY <2>1, <2>2, <2>4, <2>5, <2>6 DEF Copies, Copied, At
  <2>8. Leases'
    BY <2>1, <2>2, <2>3 DEF Content, Leases
  <2>9. Content'
    BY <2>1, <2>2, <2>8 DEF Content, Lossless, Gone, Ordered, ReceiptsAgree, Started,
                            Messages
  <2>10. Exclusive' /\ Owned' /\ OpenIsCurrent'
    BY <2>1, <2>2 DEF Exclusive, Owned, OpenIsCurrent, Inside, At
  <2> QED
    BY <2>7, <2>9, <2>10
<1>3. CASE UNCHANGED vars
  <2>1. UNCHANGED <<clock, locked, file, current, pc, op, arg, temp, taken, pushes,
                    deliveries, deleted, purged, cut, leaked, breached>>
    BY <1>3 DEF vars, storage, call, history
  <2>2. Exclusive /\ Owned /\ OpenIsCurrent /\ Copies /\ Content
    BY <2>1 DEF Whole
  <2>3. \A u \in Clients : ThinnedCopy(u) => ThinnedCopy(u)'
    BY <2>1, ThinnedCopyStays
  <2>5. \A u \in Clients : /\ CutCopy(u) => CutCopy(u)'
                           /\ WithoutReceipt(u) => WithoutReceipt(u)'
    BY <2>1, CopyStays
  <2>4. Copies'
    BY <2>1, <2>2, <2>3, <2>5 DEF Copies, Copied, At, MarkedCopy, Replaces, Named
  <2> QED
    BY <2>1, <2>2, <2>4 DEF Exclusive, Owned, OpenIsCurrent, Inside, At, Content, Lossless,
       Gone, Ordered, ReceiptsAgree, Leases, Started, Messages
<1> QED
  BY <1>1, <1>2, <1>3 DEF Next, Work

LEMMA Invariant == Spec => []Typed /\ []Whole
<1>1. Spec => []Typed
  BY InitTyped, TypedStep, PTL DEF Spec
<1>2. Spec => []Whole
  BY <1>1, InitWhole, WholeStep, PTL DEF Spec
<1> QED
  BY <1>1, <1>2, PTL

(* Creating the directory is a lock for any number of clients, as long as  *)
(* no interrupted client has removed it under the one inside.              *)
THEOREM OnlyOneInside == Spec => []OneInside
<1>1. Whole => OneInside
  BY DEF Whole, Exclusive, OneInside
<1> QED
  BY <1>1, Invariant, PTL

(* Whatever fails inside a call, the lock is there for the one inside, or  *)
(* has been left by a pull, a crash or an error of the file system: never  *)
(* by a push, a delete or a purge that has returned after a lock of its    *)
(* own, were other locks left before or not.                               *)
THEOREM LockHasOwner == Spec => []LockOfSomebody
<1>1. Whole => LockOfSomebody
  BY DEF Whole, Owned, LockOfSomebody
<1> QED
  BY <1>1, Invariant, PTL

(* A message that was pushed is in the file until it is deleted or purged, *)
(* or an error of the file system or attempts out of range have kept its   *)
(* record from being written.                                              *)
THEOREM NoMessageLost == Spec => []NothingLost
<1>1. Whole => NothingLost
  BY DEF Whole, Content, Lossless, NothingLost
<1> QED
  BY <1>1, Invariant, PTL

(* A deleted message does not come back.                                   *)
THEOREM DeletedIsGone == Spec => []DeletedStays
<1>1. Whole => DeletedStays
  BY DEF Whole, Content, Gone, DeletedStays
<1> QED
  BY <1>1, Invariant, PTL

(* Messages stay in the order of their pushes, each of them once.          *)
THEOREM OrderIsKept == Spec => []OldestFirst
<1>1. Whole => OldestFirst
  BY DEF Whole, Content, Ordered, OldestFirst
<1> QED
  BY <1>1, Invariant, PTL

(* Until the time a pull has set is over the record carries its receipt.   *)
THEOREM LeaseIsHeld == Spec => []LeaseHeld
<1>1. Whole => LeaseHeld
  BY DEF Whole, Content, Leases, LeaseHeld
<1> QED
  BY <1>1, Invariant, PTL
=============================================================================
