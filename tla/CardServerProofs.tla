-------------------------- MODULE CardServerProofs --------------------------
(***************************************************************************)
(* What holds of the report server for any number of handler threads and   *)
(* of reports, with every order of the timeouts and the clients' requests. *)
(***************************************************************************)
EXTENDS CardServer, FiniteSetTheorems, TLAPS

-----------------------------------------------------------------------------
(* The inductive invariant: numbers.                                       *)

(* Requests that will take a number are counted within the bound.          *)
Counted == {u \in Handlers : pc[u] \in {"lockSeq", "read", "increase"}}
WithinReports == seqNo + Cardinality(Counted) <= MaxReports

SeqOwned == \A t \in Handlers : pc[t] \in {"read", "increase"} => lockSeq = t

(* A number is the next one when it is taken, and its timeout thread is    *)
(* new until it is started, with the report stored.                        *)
Numbered ==
  \A t \in Handlers :
    /\ pc[t] = "increase" => report[t] = seqNo + 1
    /\ pc[t] \in {"increase", "store", "startTimer", "answer"} => report[t] \in Ids
    /\ pc[t] \in {"store", "startTimer", "answer"} => report[t] \in 1 .. seqNo
    /\ pc[t] \in {"increase", "store", "startTimer"} => pc[report[t]] = "new"
    /\ pc[t] = "startTimer" => report[t] \in mapReport
    /\ pc[t] = "answer" => pc[report[t]] # "new"

Fresh ==
  \A i \in Ids :
    /\ i > seqNo => pc[i] = "new"
    /\ pc[i] = "new" => \A k \in Kinds : files[k, i] = "none"

-----------------------------------------------------------------------------
(* Ending a report.                                                        *)

(* A FINISH or FAIL is inside under the lock, and its report has a timeout *)
(* thread from the step that cancels it.                                   *)
Ends(t) == pc[t] = "lockEnd" \/ Ending(t)
Cancelled(t) == pc[t] \in {"contains", "open", "write", "remove"}
EndsKnown ==
  \A t \in Handlers :
    /\ Ends(t) => report[t] \in Ids /\ kind[t] \in {"FINISH", "FAIL"}
    /\ Cancelled(t) => pc[report[t]] # "new"
LockOwned == \A t \in Handlers : Ending(t) => lockEnd = t

(* A handler past containsKey still has its report, or the timeout thread  *)
(* has written it; the file it has opened is its own; and when it removes  *)
(* the report, somebody has written it.                                    *)
Opened ==
  \A t \in Handlers :
    /\ pc[t] \in {"open", "write"} =>
         report[t] \in mapReport \/ files["TIMEOUT", report[t]] = "written"
    /\ pc[t] = "write" => files[kind[t], report[t]] = "empty"
    /\ pc[t] = "remove" => \E k \in Kinds : files[k, report[t]] = "written"

TimerFile ==
  \A i \in Ids :
    /\ pc[i] \in {"new", "asleep", "contains", "open"} => files["TIMEOUT", i] = "none"
    /\ pc[i] = "remove" => files["TIMEOUT", i] = "written"

(* A report that a handler has written is about to be removed.             *)
WrittenGoes ==
  \A i \in mapReport, k \in {"FINISH", "FAIL"} :
    files[k, i] = "written" => \E t \in Handlers : pc[t] = "remove" /\ report[t] = i

(* The lock has more holds than its owner needs only after a lost race or  *)
(* another exception, and then has them for good.                          *)
LostRace ==
  \E i \in Ids : /\ i \notin mapReport /\ pc[i] # "new"
                 /\ files["TIMEOUT", i] = "written"
                 /\ files["FINISH", i] = "empty" \/ files["FAIL", i] = "empty"
HoldsExplained ==
  lockEnd # Free => (Ending(lockEnd) /\ holds = 1) \/ LostRace \/ lockEnd \in thrown
HoldsKept ==
  \A t \in thrown : lockEnd = t /\ (Ending(t) => holds >= 2)

Numbers == WithinReports /\ SeqOwned /\ Numbered /\ Fresh /\ UniqueNumbers
Ended   == EndsKnown /\ LockOwned
Saved   == Opened /\ TimerFile /\ WrittenGoes /\ NothingDiscarded /\ EndOnce
           /\ HoldsExplained /\ HoldsKept

Inv == TypeOK /\ Numbers /\ Ended /\ Saved

-----------------------------------------------------------------------------
(* Who can change what.                                                    *)

(* The steps of a thread.                                                  *)
Work(a) ==
  \/ a \in Handlers /\ (Request(a) \/ Handle(a) \/ LogFails(a))
  \/ a \in Ids /\ Timer(a)
  \/ a \in Actors /\ SaveFails(a)

(* Handlers, reports and Free are different things.                        *)
LEMMA Different ==
  /\ \A t \in Handlers : t \in Actors /\ t \notin Ids /\ t # Free
  /\ \A i \in Ids : i \in Actors /\ i \notin Handlers /\ i \in Nat /\ i # 0
  /\ MaxReports \in Nat /\ \A a \in Actors : a \in Handlers \/ a \in Ids
  BY CardServerAssumption, FreeAssumption DEF Actors, Ids

LEMMA WorkCases ==
  ASSUME NEW a, Work(a)
  PROVE  \/ /\ a \in Handlers
            /\ \/ HandleReport(a) \/ HandleEnd(a) \/ LockSeq(a) \/ ReadSeqNo(a)
               \/ IncreaseSeqNo(a) \/ StoreReport(a) \/ StartTimer(a) \/ AnswerReport(a)
               \/ LockEnd(a) \/ CancelTimer(a) \/ UnlockEnd(a)
               \/ UnknownReport(a) \/ LogFails(a)
         \/ a \in Ids /\ Timeout(a)
         \/ /\ a \in Actors
            /\ \/ ContainsKey(a) \/ OpenFile(a) \/ WriteFile(a) \/ WriteCrashes(a)
               \/ RemoveReport(a) \/ SaveFails(a)
BY Different DEF Work, Request, Handle, Timer, Saving

(* The threads that are not at work, and the one that is.                  *)
LEMMA Others ==
  ASSUME TypeOK, NEW a \in Actors, Work(a), NEW u \in Actors, u # a
  PROVE  /\ kind'[u] = kind[u] /\ report'[u] = report[u]
         /\ \/ pc'[u] = pc[u]
            \/ StartTimer(a) /\ u = report[a] /\ pc'[u] = "asleep"
            \/ CancelTimer(a) /\ u = report[a] /\ pc[u] = "asleep" /\ pc'[u] = "done"
<1>1. /\ pc \in [Actors -> HandlerLabels \union TimerLabels]
      /\ kind \in [Actors -> Kinds] /\ report \in [Actors -> 0 .. MaxReports]
  BY DEF TypeOK
<1> USE DEF Goto, Answer, threads
<1>2. CASE HandleReport(a) \/ HandleEnd(a) \/ LockSeq(a) \/ ReadSeqNo(a) \/ IncreaseSeqNo(a)
           \/ StoreReport(a) \/ AnswerReport(a) \/ LockEnd(a) \/ UnlockEnd(a)
           \/ UnknownReport(a) \/ LogFails(a)
  BY <1>1, <1>2 DEF HandleReport, HandleEnd, LockSeq, ReadSeqNo, IncreaseSeqNo,
                    StoreReport, AnswerReport, LockEnd, UnlockEnd, UnknownReport, LogFails
<1>3. CASE StartTimer(a)
  BY <1>1, <1>3 DEF StartTimer
<1>4. CASE CancelTimer(a)
  BY <1>1, <1>4 DEF CancelTimer, Interrupted
<1>5. CASE Timeout(a) \/ ContainsKey(a) \/ OpenFile(a) \/ WriteFile(a) \/ WriteCrashes(a)
           \/ RemoveReport(a) \/ SaveFails(a)
  BY <1>1, <1>5 DEF Timeout, ContainsKey, SaysNo, OpenFile, WriteFile, WriteCrashes,
                    RemoveReport, SaveFails
<1> QED
  BY <1>2, <1>3, <1>4, <1>5, WorkCases

(* The map changes for the report of the thread at work.                   *)
LEMMA MapStep ==
  ASSUME TypeOK, NEW a \in Actors, Work(a)
  PROVE  \/ mapReport' = mapReport
         \/ StoreReport(a) /\ mapReport' = mapReport \union {report[a]}
         \/ RemoveReport(a) /\ mapReport' = mapReport \ {report[a]}
<1> USE DEF locks, threads, errors
<1>1. CASE HandleReport(a) \/ HandleEnd(a) \/ LockSeq(a) \/ ReadSeqNo(a) \/ IncreaseSeqNo(a)
           \/ AnswerReport(a) \/ LockEnd(a) \/ UnlockEnd(a)
  BY <1>1 DEF HandleReport, HandleEnd, LockSeq, ReadSeqNo, IncreaseSeqNo,
              AnswerReport, LockEnd, UnlockEnd
<1>4. CASE UnknownReport(a) \/ LogFails(a) \/ SaveFails(a)
  BY <1>4 DEF UnknownReport, LogFails, SaveFails
<1>2. CASE StoreReport(a) \/ RemoveReport(a)
  BY <1>2 DEF StoreReport, RemoveReport
<1>3. CASE StartTimer(a) \/ CancelTimer(a) \/ Timeout(a) \/ ContainsKey(a) \/ OpenFile(a)
           \/ WriteFile(a) \/ WriteCrashes(a)
  BY <1>3 DEF StartTimer, CancelTimer, Timeout, ContainsKey, OpenFile, WriteFile, WriteCrashes
<1> QED
  BY <1>1, <1>2, <1>3, <1>4, WorkCases

(* A file changes for the thread that opens or writes it.                  *)
LEMMA FilesStep ==
  ASSUME TypeOK, NEW a \in Actors, Work(a)
  PROVE  /\ \A k \in Kinds, i \in Ids :
              \/ files'[k, i] = files[k, i]
              \/ OpenFile(a) /\ k = kind[a] /\ i = report[a] /\ files'[k, i] = "empty"
              \/ WriteFile(a) /\ k = kind[a] /\ i = report[a] /\ files'[k, i] = "written"
         /\ OpenFile(a) /\ report[a] \in Ids => files'[kind[a], report[a]] = "empty"
         /\ WriteFile(a) /\ report[a] \in Ids => files'[kind[a], report[a]] = "written"
         /\ files' = files \/ OpenFile(a) \/ WriteFile(a)
         /\ files' \in [Kinds \X Ids -> {"none", "empty", "written"}]
<1>0. files \in [Kinds \X Ids -> {"none", "empty", "written"}] /\ kind \in [Actors -> Kinds]
  BY DEF TypeOK
<1> USE DEF locks, threads, errors
<1>1. OpenFile(a) => files' = [files EXCEPT ![<<kind[a], report[a]>>] = "empty"]
  BY DEF OpenFile, File
<1>2. WriteFile(a) => files' = [files EXCEPT ![<<kind[a], report[a]>>] = "written"]
  BY DEF WriteFile, File
<1>3. files' = files \/ OpenFile(a) \/ WriteFile(a)
  <2>1. CASE HandleReport(a) \/ HandleEnd(a) \/ LockSeq(a) \/ ReadSeqNo(a) \/ IncreaseSeqNo(a)
             \/ AnswerReport(a) \/ LockEnd(a) \/ UnlockEnd(a)
    BY <2>1 DEF HandleReport, HandleEnd, LockSeq, ReadSeqNo, IncreaseSeqNo,
                AnswerReport, LockEnd, UnlockEnd
  <2>2. CASE StoreReport(a) \/ RemoveReport(a) \/ StartTimer(a) \/ CancelTimer(a) \/ Timeout(a)
             \/ ContainsKey(a) \/ WriteCrashes(a)
    BY <2>2 DEF StoreReport, RemoveReport, StartTimer, CancelTimer, Timeout, ContainsKey,
                WriteCrashes
  <2>3. CASE UnknownReport(a) \/ LogFails(a) \/ SaveFails(a)
    BY <2>3 DEF UnknownReport, LogFails, SaveFails
  <2> QED
    BY <2>1, <2>2, <2>3, WorkCases
<1> QED
  BY <1>0, <1>1, <1>2, <1>3

(* Where the thread at work comes from and goes to.                        *)
Moves(a, from, to) == pc[a] = from /\ pc'[a] = to
Keeps(a) == kind'[a] = kind[a] /\ report'[a] = report[a]

LEMMA HandlerMoves ==
  ASSUME TypeOK, NEW a \in Handlers
  PROVE  /\ HandleReport(a) => Moves(a, "idle", "lockSeq") /\ Keeps(a)
         /\ LockSeq(a) => Moves(a, "lockSeq", "read") /\ Keeps(a)
         /\ ReadSeqNo(a) => /\ Moves(a, "read", "increase")
                            /\ report'[a] = seqNo + 1 /\ kind'[a] = kind[a]
         /\ IncreaseSeqNo(a) => Moves(a, "increase", "store") /\ Keeps(a)
         /\ StoreReport(a) => Moves(a, "store", "startTimer") /\ Keeps(a)
         /\ StartTimer(a) => Moves(a, "startTimer", "answer") /\ Keeps(a)
         /\ AnswerReport(a) => Moves(a, "answer", "idle") /\ report'[a] = 0
         /\ HandleEnd(a) => /\ Moves(a, "idle", "lockEnd")
                            /\ report'[a] \in Ids /\ kind'[a] \in {"FINISH", "FAIL"}
         /\ LockEnd(a) => Moves(a, "lockEnd", "cancel") /\ Keeps(a)
         /\ CancelTimer(a) => Moves(a, "cancel", "contains") /\ Keeps(a)
         /\ UnknownReport(a) => Moves(a, "cancel", "idle") /\ report'[a] = 0
         /\ UnlockEnd(a) \/ LogFails(a) => Moves(a, "unlock", "idle") /\ report'[a] = 0
<1>1. /\ pc \in [Actors -> HandlerLabels \union TimerLabels]
      /\ kind \in [Actors -> Kinds] /\ report \in [Actors -> 0 .. MaxReports]
  BY DEF TypeOK
<1>2. a \in Actors /\ report[a] # a
  <2>1. a \in Actors /\ a \notin Ids /\ a # Free /\ MaxReports \in Nat
    BY Different
  <2> QED
    BY <1>1, <2>1 DEF Ids, Free
<1> USE <1>1, <1>2 DEF Moves, Keeps, At, Goto, threads, Answer
<1>3. (HandleReport(a) => Moves(a, "idle", "lockSeq") /\ Keeps(a))
      /\ (LockSeq(a) => Moves(a, "lockSeq", "read") /\ Keeps(a))
  BY DEF HandleReport, LockSeq
<1>4. ReadSeqNo(a) => /\ Moves(a, "read", "increase")
                      /\ report'[a] = seqNo + 1 /\ kind'[a] = kind[a]
  BY DEF ReadSeqNo
<1>5. (IncreaseSeqNo(a) => Moves(a, "increase", "store") /\ Keeps(a))
      /\ (StoreReport(a) => Moves(a, "store", "startTimer") /\ Keeps(a))
  BY DEF IncreaseSeqNo, StoreReport
<1>6. StartTimer(a) => Moves(a, "startTimer", "answer") /\ Keeps(a)
  BY DEF StartTimer
<1>7. AnswerReport(a) => Moves(a, "answer", "idle") /\ report'[a] = 0
  BY DEF AnswerReport
<1>8. HandleEnd(a) => /\ Moves(a, "idle", "lockEnd")
                      /\ report'[a] \in Ids /\ kind'[a] \in {"FINISH", "FAIL"}
  BY DEF HandleEnd
<1>9. LockEnd(a) => Moves(a, "lockEnd", "cancel") /\ Keeps(a)
  BY DEF LockEnd
<1>10. CancelTimer(a) => Moves(a, "cancel", "contains") /\ Keeps(a)
  BY DEF CancelTimer
<1>11. UnlockEnd(a) \/ LogFails(a) => Moves(a, "unlock", "idle") /\ report'[a] = 0
  BY DEF UnlockEnd, LogFails
<1>12. UnknownReport(a) => Moves(a, "cancel", "idle") /\ report'[a] = 0
  BY DEF UnknownReport
<1> QED
  BY <1>3, <1>4, <1>5, <1>6, <1>7, <1>8, <1>9, <1>10, <1>11, <1>12

LEMMA SaverMoves ==
  ASSUME TypeOK, NEW a \in Actors
  PROVE  /\ Timeout(a) => Moves(a, "asleep", "contains") /\ Keeps(a)
         /\ ContainsKey(a) =>
              /\ Keeps(a)
              /\ \/ Moves(a, "contains", "open") /\ report[a] \in mapReport
                 \/ Moves(a, "contains", "done") /\ a \in Ids
                 \/ /\ Moves(a, "contains", "remove") /\ a \notin Ids
                    /\ report[a] \notin mapReport
         /\ OpenFile(a) => Moves(a, "open", "write") /\ Keeps(a)
         /\ WriteFile(a) => Moves(a, "write", "remove") /\ Keeps(a) /\ report[a] \in mapReport
         /\ WriteCrashes(a) =>
              /\ report[a] \notin mapReport
              /\ \/ Moves(a, "write", "done") /\ a \in Ids /\ Keeps(a)
                 \/ Moves(a, "write", "idle") /\ a \notin Ids /\ report'[a] = 0
         /\ SaveFails(a) =>
              /\ pc[a] \in {"open", "write"}
              /\ \/ pc'[a] = "done" /\ a \in Ids /\ Keeps(a)
                 \/ pc'[a] = "idle" /\ a \notin Ids /\ report'[a] = 0
         /\ RemoveReport(a) =>
              /\ Keeps(a)
              /\ \/ Moves(a, "remove", "done") /\ a \in Ids
                 \/ Moves(a, "remove", "unlock") /\ a \notin Ids
<1>1. /\ pc \in [Actors -> HandlerLabels \union TimerLabels]
      /\ kind \in [Actors -> Kinds] /\ report \in [Actors -> 0 .. MaxReports]
  BY DEF TypeOK
<1> USE <1>1 DEF Moves, Keeps, At, Goto, threads
<1>2. Timeout(a) => Moves(a, "asleep", "contains") /\ Keeps(a)
  BY DEF Timeout
<1>3. ContainsKey(a) =>
        /\ Keeps(a)
        /\ \/ Moves(a, "contains", "open") /\ report[a] \in mapReport
           \/ Moves(a, "contains", "done") /\ a \in Ids
           \/ /\ Moves(a, "contains", "remove") /\ a \notin Ids
              /\ report[a] \notin mapReport
  BY DEF ContainsKey, SaysNo
<1>4. OpenFile(a) => Moves(a, "open", "write") /\ Keeps(a)
  BY DEF OpenFile
<1>5. WriteFile(a) => Moves(a, "write", "remove") /\ Keeps(a) /\ report[a] \in mapReport
  BY DEF WriteFile
<1>6. WriteCrashes(a) =>
        /\ report[a] \notin mapReport
        /\ \/ Moves(a, "write", "done") /\ a \in Ids /\ Keeps(a)
           \/ Moves(a, "write", "idle") /\ a \notin Ids /\ report'[a] = 0
  BY DEF WriteCrashes, Answer
<1>7. RemoveReport(a) =>
        /\ Keeps(a)
        /\ \/ Moves(a, "remove", "done") /\ a \in Ids
           \/ Moves(a, "remove", "unlock") /\ a \notin Ids
  BY DEF RemoveReport
<1>8. SaveFails(a) =>
        /\ pc[a] \in {"open", "write"}
        /\ \/ pc'[a] = "done" /\ a \in Ids /\ Keeps(a)
           \/ pc'[a] = "idle" /\ a \notin Ids /\ report'[a] = 0
  BY DEF SaveFails, Answer
<1> QED
  BY <1>2, <1>3, <1>4, <1>5, <1>6, <1>7, <1>8

(* The sequence number, the locks and the errors.                          *)
LEMMA LocksStep ==
  ASSUME TypeOK, NEW a \in Actors, Work(a)
  PROVE  /\ \/ UNCHANGED <<seqNo, lockSeq>>
            \/ LockSeq(a) /\ lockSeq = Free /\ lockSeq' = a /\ seqNo' = seqNo
            \/ IncreaseSeqNo(a) /\ lockSeq' = Free /\ seqNo' = report[a]
         /\ \/ UNCHANGED <<lockEnd, holds>>
            \/ LockEnd(a) /\ lockEnd \in {Free, a} /\ lockEnd' = a /\ holds' = holds + 1
            \/ /\ UnlockEnd(a) /\ holds' = holds - 1
               /\ lockEnd' = IF holds = 1 THEN Free ELSE lockEnd
         /\ \/ thrown' = thrown
            \/ /\ UnknownReport(a) \/ LogFails(a) \/ (SaveFails(a) /\ a \notin Ids)
               /\ thrown' = thrown \union {a}
         /\ unsaved' = unsaved \/ (SaveFails(a) /\ unsaved' = unsaved \union {report[a]})
<1> USE DEF locks, threads, errors
<1>1. CASE HandleReport(a) \/ HandleEnd(a) \/ LockSeq(a) \/ ReadSeqNo(a) \/ IncreaseSeqNo(a)
           \/ AnswerReport(a) \/ LockEnd(a) \/ UnlockEnd(a)
  BY <1>1 DEF HandleReport, HandleEnd, LockSeq, ReadSeqNo, IncreaseSeqNo,
              AnswerReport, LockEnd, UnlockEnd
<1>2. CASE StoreReport(a) \/ RemoveReport(a) \/ StartTimer(a) \/ CancelTimer(a) \/ Timeout(a)
           \/ ContainsKey(a) \/ OpenFile(a) \/ WriteFile(a) \/ WriteCrashes(a)
  BY <1>2 DEF StoreReport, RemoveReport, StartTimer, CancelTimer, Timeout, ContainsKey,
              OpenFile, WriteFile, WriteCrashes
<1>3. CASE UnknownReport(a) \/ LogFails(a) \/ SaveFails(a)
  BY <1>3 DEF UnknownReport, LogFails, SaveFails
<1> QED
  BY <1>1, <1>2, <1>3, WorkCases

-----------------------------------------------------------------------------
(* Numbers.                                                                *)

(* Known reports have been numbered.                                       *)
LEMMA KnownReports ==
  ASSUME TypeOK, Numbers, Ended
  PROVE  /\ seqNo \in Nat /\ mapReport \subseteq Ids
         /\ \A t \in Handlers : Ends(t) => report[t] \in Ids
         /\ \A a \in Actors : pc[a] \in {"contains", "open", "write", "remove"} =>
              /\ report[a] \in Ids /\ pc[report[a]] # "new" /\ kind[a] \in Kinds
              /\ a \in Handlers => kind[a] \in {"FINISH", "FAIL"} /\ lockEnd = a
              /\ a \in Ids => kind[a] = "TIMEOUT" /\ report[a] = a
<1>1. seqNo \in Nat /\ mapReport \subseteq Ids
  BY Different DEF TypeOK, Ids
<1>3. \A t \in Handlers : Ends(t) => report[t] \in Ids
  BY DEF Ended, EndsKnown
<1>4. \A t \in Handlers : pc[t] \in {"contains", "open", "write", "remove"} =>
        /\ Ends(t) /\ kind[t] \in {"FINISH", "FAIL"} /\ lockEnd = t
        /\ pc[report[t]] # "new"
  BY DEF Ended, EndsKnown, LockOwned, Ends, Ending, Cancelled
<1>5. \A i \in Ids : kind[i] = "TIMEOUT" /\ report[i] = i
  BY DEF TypeOK
<1>6. \A a \in Actors : kind[a] \in Kinds
  BY DEF TypeOK
<1> QED
  BY <1>1, <1>3, <1>4, <1>5, <1>6, Different

LEMMA OtherHandlers ==
  ASSUME TypeOK, Numbers, NEW a \in Actors, Work(a), NEW u \in Handlers, u # a
  PROVE  pc'[u] = pc[u] /\ kind'[u] = kind[u] /\ report'[u] = report[u]
<1>1. StartTimer(a) => report[a] \in Ids
  <2>1. StartTimer(a) /\ a \in Handlers => pc[a] = "startTimer"
    BY DEF StartTimer, At
  <2>2. StartTimer(a) => a \in Handlers
    <3>1. StartTimer(a) => pc[a] = "startTimer"
      BY DEF StartTimer, At
    <3> QED
      BY <3>1, Different DEF TypeOK, TimerLabels
  <2> QED
    BY <2>1, <2>2 DEF Numbers, Numbered
<1>2. pc[u] # "asleep" /\ u \in Actors /\ u \notin Ids
  BY Different DEF TypeOK, HandlerLabels
<1> QED
  BY <1>1, <1>2, Others

(* What a step does to a timeout thread that is not at work.               *)
LEMMA OtherTimers ==
  ASSUME TypeOK, Numbers, NEW a \in Actors, Work(a), NEW i \in Ids, i # a
  PROVE  \/ pc'[i] = pc[i]
         \/ StartTimer(a) /\ i = report[a] /\ pc[i] = "new" /\ pc'[i] = "asleep"
         \/ CancelTimer(a) /\ i = report[a] /\ pc[i] = "asleep" /\ pc'[i] = "done"
<1>1. StartTimer(a) => pc[report[a]] = "new"
  <2>1. StartTimer(a) => pc[a] = "startTimer"
    BY DEF StartTimer, At
  <2>2. pc[a] = "startTimer" => a \in Handlers
    BY Different DEF TypeOK, TimerLabels
  <2> QED
    BY <2>1, <2>2 DEF Numbers, Numbered
<1> QED
  BY <1>1, Others, Different

(* No thread that is not new becomes new; a thread that is new stays new,  *)
(* unless it is started.                                                   *)
LEMMA NewTimers ==
  ASSUME TypeOK, Numbers, NEW a \in Actors, Work(a), NEW i \in Ids
  PROVE  /\ pc[i] # "new" => pc'[i] # "new"
         /\ pc[i] = "new" => pc'[i] = "new" \/ (StartTimer(a) /\ i = report[a])
<1>1. CASE i # a
  BY <1>1, OtherTimers
<1>2. CASE i = a
  <2>1. a \notin Handlers
    BY <1>2, Different
  <2> QED
    BY <1>2, <2>1, WorkCases, SaverMoves DEF Moves
<1> QED
  BY <1>1, <1>2

LEMMA SeqOwnedStep ==
  ASSUME TypeOK, Numbers, NEW a \in Actors, Work(a)
  PROVE  SeqOwned'
<1> SUFFICES ASSUME NEW u \in Handlers, pc'[u] \in {"read", "increase"}
             PROVE  lockSeq' = u
  BY DEF SeqOwned
<1>1. CASE u = a
  <2>1. LockSeq(a) \/ ReadSeqNo(a)
    BY <1>1, WorkCases, HandlerMoves, SaverMoves, Different DEF Moves
  <2>2. LockSeq(a) => lockSeq' = a
    BY DEF LockSeq
  <2>3. ReadSeqNo(a) => lockSeq' = lockSeq /\ pc[a] = "read"
    BY DEF ReadSeqNo, locks, At
  <2> QED
    BY <1>1, <2>1, <2>2, <2>3 DEF Numbers, SeqOwned
<1>2. CASE u # a
  <2>1. lockSeq = u /\ u # Free
    BY <1>2, OtherHandlers, Different DEF Numbers, SeqOwned
  <2>2. ~ IncreaseSeqNo(a)
    <3>1. IncreaseSeqNo(a) => pc[a] = "increase"
      BY DEF IncreaseSeqNo, At
    <3>2. pc[a] = "increase" => a \in Handlers
      BY Different DEF TypeOK, TimerLabels
    <3> QED
      BY <1>2, <2>1, <3>1, <3>2 DEF Numbers, SeqOwned
  <2> QED
    BY <2>1, <2>2, LocksStep
<1> QED
  BY <1>1, <1>2

(* Requests that will take a number stay within the bound.                 *)
LEMMA WithinStep ==
  ASSUME TypeOK, Numbers, NEW a \in Actors, Work(a)
  PROVE  WithinReports' /\ seqNo' \in 0 .. MaxReports
<1>0. /\ IsFiniteSet(Counted) /\ Cardinality(Counted) \in Nat
      /\ seqNo \in Nat /\ MaxReports \in Nat
      /\ seqNo + Cardinality(Counted) <= MaxReports
  <2>1. IsFiniteSet(Counted)
    BY CardServerAssumption, FS_Subset DEF Counted
  <2> QED
    BY <2>1, FS_CardinalityType, Different DEF TypeOK, Numbers, WithinReports
<1>1. \A u \in Handlers : u # a => (u \in Counted' <=> u \in Counted)
  BY OtherHandlers DEF Counted
<1>2. CASE HandleReport(a)
  <2>1. a \in Handlers
    BY <1>2, Different DEF HandleReport, At, TypeOK, TimerLabels
  <2>2. Counted' = Counted \union {a} /\ seqNo' = seqNo
    <3>1. pc'[a] = "lockSeq"
      BY <1>2, <2>1, HandlerMoves DEF Moves
    <3> QED
      BY <1>1, <1>2, <2>1, <3>1 DEF HandleReport, Counted
  <2>3. Cardinality(Counted') \in Nat /\ Cardinality(Counted') <= Cardinality(Counted) + 1
    BY <1>0, <2>2, FS_AddElement
  <2>4. seqNo + Cardinality(Counted) < MaxReports
    BY <1>2 DEF HandleReport, Counted
  <2> QED
    BY <1>0, <2>2, <2>3, <2>4 DEF WithinReports
<1>3. CASE IncreaseSeqNo(a)
  <2>1. a \in Handlers /\ pc[a] = "increase"
    BY <1>3, Different DEF IncreaseSeqNo, At, TypeOK, TimerLabels
  <2>2. Counted' = Counted \ {a} /\ a \in Counted
    <3>1. pc'[a] = "store"
      BY <1>3, <2>1, HandlerMoves DEF Moves
    <3> QED
      BY <1>1, <2>1, <3>1 DEF Counted
  <2>3. Cardinality(Counted') = Cardinality(Counted) - 1
    BY <1>0, <2>2, FS_RemoveElement
  <2>4. seqNo' = seqNo + 1
    BY <1>3, <2>1 DEF IncreaseSeqNo, Numbers, Numbered
  <2>5. Cardinality(Counted) >= 1
    BY <1>0, <2>2, FS_EmptySet
  <2> QED
    BY <1>0, <2>3, <2>4, <2>5 DEF WithinReports
<1>4. CASE ~ HandleReport(a) /\ ~ IncreaseSeqNo(a)
  <2>1. seqNo' = seqNo
    BY <1>4, LocksStep
  <2>2. a \in Counted' => a \in Counted
    BY <1>4, WorkCases, HandlerMoves, SaverMoves, Different DEF Moves, Counted
  <2>3. Counted' \in SUBSET Counted
    BY <1>1, <2>2 DEF Counted
  <2>4. Cardinality(Counted') \in Nat /\ Cardinality(Counted') <= Cardinality(Counted)
    BY <1>0, <2>3, FS_Subset, FS_CardinalityType
  <2> QED
    BY <1>0, <2>1, <2>4 DEF WithinReports
<1> QED
  BY <1>2, <1>3, <1>4

(* A thread that reads the sequence number has a number left.              *)
LEMMA NumberLeft ==
  ASSUME TypeOK, Numbers, NEW t \in Handlers, pc[t] = "read"
  PROVE  seqNo \in Nat /\ seqNo + 1 \in Ids
<1>1. IsFiniteSet(Counted) /\ t \in Counted
  BY CardServerAssumption, FS_Subset DEF Counted
<1>2. Cardinality(Counted) \in Nat /\ Cardinality(Counted) # 0
  BY <1>1, FS_EmptySet, FS_CardinalityType
<1> QED
  BY <1>2, Different DEF TypeOK, Numbers, WithinReports, Ids

(* Handlers at these labels, and the sequence number while they are there. *)
LEMMA SeqNoStep ==
  ASSUME TypeOK, Numbers, NEW a \in Actors, Work(a)
  PROVE  /\ seqNo \in Nat /\ seqNo' \in Nat /\ seqNo <= seqNo'
         /\ \A u \in Handlers : u # a /\ pc[u] \in {"read", "increase"} => seqNo' = seqNo
         /\ ~ IncreaseSeqNo(a) => seqNo' = seqNo
         /\ IncreaseSeqNo(a) => a \in Handlers /\ report[a] = seqNo + 1 /\ seqNo' = report[a]
<1>1. IncreaseSeqNo(a) => a \in Handlers /\ pc[a] = "increase" /\ seqNo' = report[a]
  BY Different DEF IncreaseSeqNo, At, TypeOK, TimerLabels
<1>2. IncreaseSeqNo(a) => report[a] = seqNo + 1 /\ lockSeq = a
  BY <1>1 DEF Numbers, Numbered, SeqOwned
<1>3. ~ IncreaseSeqNo(a) => seqNo' = seqNo
  BY LocksStep
<1>4. seqNo \in Nat
  BY DEF TypeOK
<1>5. \A u \in Handlers : pc[u] \in {"read", "increase"} => lockSeq = u
  BY DEF Numbers, SeqOwned
<1> QED
  BY <1>1, <1>2, <1>3, <1>4, <1>5

LEMMA NumberedStep ==
  ASSUME TypeOK, Numbers, Ended, NEW a \in Actors, Work(a)
  PROVE  Numbered'
<1> DEFINE Right(u) ==
      /\ pc[u] = "increase" => report[u] = seqNo + 1
      /\ pc[u] \in {"increase", "store", "startTimer", "answer"} => report[u] \in Ids
      /\ pc[u] \in {"store", "startTimer", "answer"} => report[u] \in 1 .. seqNo
      /\ pc[u] \in {"increase", "store", "startTimer"} => pc[report[u]] = "new"
      /\ pc[u] = "startTimer" => report[u] \in mapReport
      /\ pc[u] = "answer" => pc[report[u]] # "new"
<1>0. \A u \in Handlers : Right(u)
  BY DEF Numbers, Numbered
<1>1. ASSUME NEW u \in Handlers, u # a
      PROVE  Right(u)'
  <2>1. pc'[u] = pc[u] /\ report'[u] = report[u] /\ Right(u)
    BY <1>0, <1>1, OtherHandlers
  <2>2. pc[u] = "increase" => seqNo' = seqNo
    BY <1>1, SeqNoStep
  <2>3. pc[u] \in {"store", "startTimer", "answer"} => report[u] \in 1 .. seqNo'
    BY <2>1, SeqNoStep
  <2>4. pc[u] \in {"increase", "store", "startTimer"} => pc'[report[u]] = "new"
    <3> SUFFICES ASSUME pc[u] \in {"increase", "store", "startTimer"},
                        StartTimer(a), report[u] = report[a]
                 PROVE  FALSE
      BY <2>1, NewTimers
    <3>1. a \in Handlers /\ pc[a] = "startTimer"
      BY Different DEF StartTimer, At, TypeOK, TimerLabels
    <3> QED
      BY <1>1, <3>1 DEF Numbers, UniqueNumbers, Numbering
  <2>5. pc[u] = "startTimer" => report[u] \in mapReport'
    <3> SUFFICES ASSUME pc[u] = "startTimer", RemoveReport(a), report[u] = report[a]
                 PROVE  FALSE
      BY <2>1, MapStep
    <3>1. pc[a] = "remove"
      BY DEF RemoveReport, At
    <3> QED
      BY <2>1, <3>1, KnownReports
  <2>6. pc[u] = "answer" => pc'[report[u]] # "new"
    BY <2>1, NewTimers
  <2> QED
    BY <2>1, <2>2, <2>3, <2>4, <2>5, <2>6
<1>2. ASSUME a \in Handlers
      PROVE  Right(a)'
  <2>1. CASE ReadSeqNo(a)
    <3>1. pc[a] = "read" /\ pc'[a] = "increase" /\ report'[a] = seqNo + 1
      BY <1>2, <2>1, HandlerMoves DEF Moves
    <3>2. seqNo' = seqNo /\ ~ StartTimer(a)
      BY <2>1, <3>1 DEF ReadSeqNo, StartTimer, At
    <3>3. seqNo \in Nat /\ seqNo + 1 \in Ids
      BY <1>2, <3>1, NumberLeft
    <3>4. pc[seqNo + 1] = "new"
      <4>1. \A i \in Ids : i > seqNo => pc[i] = "new"
        BY DEF Numbers, Fresh
      <4>2. seqNo + 1 > seqNo
        BY <3>3
      <4> QED
        BY <3>3, <4>1, <4>2
    <3>5. pc'[seqNo + 1] = "new"
      BY <3>2, <3>3, <3>4, NewTimers
    <3> QED
      BY <3>1, <3>2, <3>3, <3>5
  <2>2. CASE IncreaseSeqNo(a)
    <3>1. pc[a] = "increase" /\ pc'[a] = "store" /\ report'[a] = report[a]
      BY <1>2, <2>2, HandlerMoves DEF Moves, Keeps
    <3>2. seqNo' = report[a] /\ report[a] \in Ids /\ seqNo' \in Nat /\ seqNo' >= 1
      BY <1>0, <1>2, <2>2, <3>1, SeqNoStep
    <3>3. pc'[report[a]] = "new"
      <4>1. ~ StartTimer(a)
        BY <3>1 DEF StartTimer, At
      <4> QED
        BY <1>0, <1>2, <3>1, <3>2, <4>1, NewTimers
    <3> QED
      BY <3>1, <3>2, <3>3
  <2>3. CASE StoreReport(a)
    <3>1. pc[a] = "store" /\ pc'[a] = "startTimer" /\ report'[a] = report[a]
      BY <1>2, <2>3, HandlerMoves DEF Moves, Keeps
    <3>2. seqNo' = seqNo /\ report[a] \in mapReport'
      BY <2>3 DEF StoreReport
    <3>3. pc'[report[a]] = "new"
      <4>1. ~ StartTimer(a)
        BY <3>1 DEF StartTimer, At
      <4> QED
        BY <1>0, <1>2, <3>1, <4>1, NewTimers
    <3> QED
      BY <1>0, <1>2, <3>1, <3>2, <3>3
  <2>4. CASE StartTimer(a)
    <3>1. pc[a] = "startTimer" /\ pc'[a] = "answer" /\ report'[a] = report[a]
      BY <1>2, <2>4, HandlerMoves DEF Moves, Keeps
    <3>2. seqNo' = seqNo /\ report[a] \in Ids /\ report[a] # a
      BY <1>0, <1>2, <2>4, <3>1, Different DEF StartTimer
    <3>3. pc'[report[a]] = "asleep"
      BY <2>4, <3>2, Different DEF StartTimer, TypeOK
    <3> QED
      BY <1>0, <1>2, <3>1, <3>2, <3>3
  <2>5. CASE ~ ReadSeqNo(a) /\ ~ IncreaseSeqNo(a) /\ ~ StoreReport(a) /\ ~ StartTimer(a)
    <3>1. pc'[a] \notin {"increase", "store", "startTimer", "answer"}
      BY <1>2, <2>5, WorkCases, HandlerMoves, SaverMoves, Different DEF Moves
    <3> QED
      BY <3>1
  <2> QED
    BY <2>1, <2>2, <2>3, <2>4, <2>5
<1>3. \A u \in Handlers : Right(u)'
  BY <1>1, <1>2
<1> QED
  BY <1>3 DEF Numbered

LEMMA FreshStep ==
  ASSUME TypeOK, Numbers, Ended, NEW a \in Actors, Work(a)
  PROVE  Fresh'
<1>1. StartTimer(a) => report[a] \in 1 .. seqNo
  <2>1. StartTimer(a) => a \in Handlers /\ pc[a] = "startTimer"
    BY Different DEF StartTimer, At, TypeOK, TimerLabels
  <2> QED
    BY <2>1 DEF Numbers, Numbered
<1>2. ASSUME NEW i \in Ids, i > seqNo'
      PROVE  pc'[i] = "new"
  <2>1. i > seqNo /\ ~ (StartTimer(a) /\ i = report[a])
    BY <1>1, <1>2, SeqNoStep, Different
  <2> QED
    BY <2>1, NewTimers DEF Numbers, Fresh
<1>3. ASSUME NEW i \in Ids, pc'[i] = "new"
      PROVE  \A k \in Kinds : files'[k, i] = "none"
  <2>1. pc[i] = "new" /\ \A k \in Kinds : files[k, i] = "none"
    BY <1>3, NewTimers DEF Numbers, Fresh
  <2>4. OpenFile(a) \/ WriteFile(a) => pc[report[a]] # "new"
    <3>1. OpenFile(a) \/ WriteFile(a) => pc[a] \in {"open", "write"}
      BY DEF OpenFile, WriteFile, At
    <3> QED
      BY <3>1, KnownReports
  <2>5. ~ (OpenFile(a) /\ i = report[a]) /\ ~ (WriteFile(a) /\ i = report[a])
    BY <2>1, <2>4
  <2>6. \A k \in Kinds : files'[k, i] = files[k, i]
    <3> TAKE k \in Kinds
    <3>1. \/ files'[k, i] = files[k, i]
          \/ OpenFile(a) /\ k = kind[a] /\ i = report[a] /\ files'[k, i] = "empty"
          \/ WriteFile(a) /\ k = kind[a] /\ i = report[a] /\ files'[k, i] = "written"
      BY FilesStep
    <3> QED
      BY <2>5, <3>1
  <2> QED
    BY <2>1, <2>6
<1> QED
  BY <1>2, <1>3 DEF Fresh

LEMMA UniqueStep ==
  ASSUME TypeOK, Numbers, NEW a \in Actors, Work(a)
  PROVE  UniqueNumbers'
<1>1. ASSUME a \in Handlers, NEW u \in Handlers, u # a, Numbering(u)', Numbering(a)'
      PROVE  report'[u] # report'[a]
  <2>1. report'[u] = report[u] /\ Numbering(u)
    BY <1>1, OtherHandlers DEF Numbering
  <2>2. CASE ReadSeqNo(a)
    <3>1. pc[a] = "read" /\ report'[a] = seqNo + 1
      BY <1>1, <2>2, HandlerMoves DEF Moves
    <3>2. pc[u] # "increase"
      BY <1>1, <3>1 DEF Numbers, SeqOwned
    <3>3. report[u] \in 1 .. seqNo /\ seqNo \in Nat
      BY <2>1, <3>2 DEF Numbers, Numbered, Numbering, TypeOK
    <3> QED
      BY <2>1, <3>1, <3>3
  <2>3. CASE ~ ReadSeqNo(a)
    <3>1. Numbering(a) /\ report'[a] = report[a]
      BY <1>1, <2>3, WorkCases, HandlerMoves, SaverMoves, Different
         DEF Moves, Keeps, Numbering
    <3> QED
      BY <1>1, <2>1, <3>1 DEF Numbers, UniqueNumbers
  <2> QED
    BY <2>2, <2>3
<1>2. ASSUME NEW t \in Handlers, NEW u \in Handlers, t # a, u # a,
             Numbering(t)', Numbering(u)', report'[t] = report'[u]
      PROVE  t = u
  BY <1>2, OtherHandlers DEF Numbers, UniqueNumbers, Numbering
<1> QED
  BY <1>1, <1>2 DEF UniqueNumbers, Numbering

-----------------------------------------------------------------------------
(* Types and the lock.                                                     *)

LEMMA ThreadsTyped ==
  ASSUME TypeOK, Numbers, NEW a \in Actors, Work(a)
  PROVE  /\ pc' \in [Actors -> HandlerLabels \union TimerLabels]
         /\ kind' \in [Actors -> Kinds] /\ report' \in [Actors -> 0 .. MaxReports]
<1>0. /\ pc \in [Actors -> HandlerLabels \union TimerLabels]
      /\ kind \in [Actors -> Kinds] /\ report \in [Actors -> 0 .. MaxReports]
      /\ Ids \subseteq 0 .. MaxReports /\ 0 \in 0 .. MaxReports
  BY Different DEF TypeOK, Ids
<1> USE <1>0 DEF Goto, Answer, threads, HandlerLabels, TimerLabels, Kinds
<1>1. CASE HandleReport(a) \/ LockSeq(a) \/ IncreaseSeqNo(a) \/ StoreReport(a)
           \/ AnswerReport(a) \/ LockEnd(a) \/ UnlockEnd(a) \/ UnknownReport(a) \/ LogFails(a)
  BY <1>1 DEF HandleReport, LockSeq, IncreaseSeqNo, StoreReport, AnswerReport,
              LockEnd, UnlockEnd, UnknownReport, LogFails
<1>2. CASE HandleEnd(a)
  BY <1>2 DEF HandleEnd
<1>3. CASE ReadSeqNo(a)
  <2>1. a \in Handlers /\ pc[a] = "read"
    BY <1>3, Different DEF ReadSeqNo, At, TypeOK
  <2>2. seqNo + 1 \in 0 .. MaxReports
    BY <2>1, NumberLeft DEF Ids
  <2> QED
    BY <1>3, <2>2 DEF ReadSeqNo
<1>4. CASE StartTimer(a) \/ CancelTimer(a)
  BY <1>4 DEF StartTimer, CancelTimer, Interrupted
<1>5. CASE Timeout(a) \/ ContainsKey(a) \/ OpenFile(a) \/ WriteFile(a) \/ WriteCrashes(a)
           \/ RemoveReport(a) \/ SaveFails(a)
  BY <1>5 DEF Timeout, ContainsKey, SaysNo, OpenFile, WriteFile, WriteCrashes,
              RemoveReport, SaveFails
<1> QED
  BY <1>1, <1>2, <1>3, <1>4, <1>5, WorkCases

(* Handlers keep to the labels of handlers, timeout threads to theirs.     *)
LEMMA LabelsStep ==
  ASSUME TypeOK, Numbers, NEW a \in Actors, Work(a)
  PROVE  /\ \A t \in Handlers : pc'[t] \in HandlerLabels
         /\ \A i \in Ids : pc'[i] \in TimerLabels /\ kind'[i] = "TIMEOUT" /\ report'[i] = i
<1>1. /\ \A t \in Handlers : pc[t] \in HandlerLabels
      /\ \A i \in Ids : pc[i] \in TimerLabels /\ kind[i] = "TIMEOUT" /\ report[i] = i
  BY DEF TypeOK
<1>2. ASSUME NEW t \in Handlers
      PROVE  pc'[t] \in HandlerLabels
  <2>1. CASE t # a
    BY <1>1, <2>1, OtherHandlers
  <2>2. CASE t = a
    BY <2>2, WorkCases, HandlerMoves, SaverMoves, Different DEF Moves, HandlerLabels
  <2> QED
    BY <2>1, <2>2
<1>3. ASSUME NEW i \in Ids
      PROVE  pc'[i] \in TimerLabels /\ kind'[i] = "TIMEOUT" /\ report'[i] = i
  <2>1. CASE i # a
    BY <1>1, <2>1, OtherTimers, Others, Different DEF TimerLabels
  <2>2. CASE i = a
    <3>1. \/ Timeout(a) \/ ContainsKey(a) \/ OpenFile(a) \/ WriteFile(a)
          \/ WriteCrashes(a) \/ RemoveReport(a) \/ SaveFails(a)
      BY <2>2, WorkCases, Different
    <3> QED
      BY <1>1, <2>2, <3>1, SaverMoves DEF Moves, Keeps, TimerLabels
  <2> QED
    BY <2>1, <2>2
<1> QED
  BY <1>2, <1>3

LEMMA TypeStep ==
  ASSUME TypeOK, Numbers, Ended, NEW a \in Actors, Work(a)
  PROVE  TypeOK'
<1>1. seqNo \in Nat /\ seqNo' \in 0 .. MaxReports /\ 1 .. seqNo \subseteq 1 .. seqNo'
  BY WithinStep, SeqNoStep
<1>2. lockSeq' \in Handlers \union {Free}
  <2>1. LockSeq(a) => a \in Handlers
    BY Different DEF LockSeq, At, TypeOK, TimerLabels
  <2> QED
    BY <2>1, LocksStep DEF TypeOK
<1>3. lockEnd' \in Handlers \union {Free} /\ holds' \in Nat /\ (holds' = 0 <=> lockEnd' = Free)
  <2>1. LockEnd(a) => a \in Handlers /\ a # Free
    BY Different DEF LockEnd, At, TypeOK, TimerLabels
  <2>2. UnlockEnd(a) => lockEnd = a /\ lockEnd # Free
    <3>1. UnlockEnd(a) => a \in Handlers /\ pc[a] = "unlock"
      BY Different DEF UnlockEnd, At, TypeOK, TimerLabels
    <3> QED
      BY <3>1, Different DEF Ended, LockOwned, Ending
  <2>3. /\ lockEnd \in Handlers \union {Free} /\ holds \in Nat
        /\ (holds = 0 <=> lockEnd = Free)
    BY DEF TypeOK
  <2> QED
    BY <2>1, <2>2, <2>3, LocksStep
<1>4. mapReport' \subseteq 1 .. seqNo'
  <2>1. StoreReport(a) => report[a] \in 1 .. seqNo
    <3>1. StoreReport(a) => a \in Handlers /\ pc[a] = "store"
      BY Different DEF StoreReport, At, TypeOK, TimerLabels
    <3> QED
      BY <3>1 DEF Numbers, Numbered
  <2>2. mapReport \subseteq 1 .. seqNo
    BY DEF TypeOK
  <2> QED
    BY <1>1, <2>1, <2>2, MapStep
<1>5. thrown' \subseteq Handlers /\ unsaved' \subseteq 1 .. seqNo'
  <2>1. UnknownReport(a) \/ LogFails(a) => a \in Handlers
    BY Different DEF UnknownReport, LogFails, At, TypeOK, TimerLabels
  <2>2. a \notin Ids => a \in Handlers
    BY Different
  <2>3. SaveFails(a) => report[a] \in 1 .. seqNo
    <3> SUFFICES ASSUME SaveFails(a)
                 PROVE  report[a] \in 1 .. seqNo
      OBVIOUS
    <3>1. pc[a] \in {"open", "write"}
      BY DEF SaveFails, At
    <3>2. report[a] \in Ids /\ pc[report[a]] # "new"
      BY <3>1, KnownReports
    <3>3. ~ report[a] > seqNo
      BY <3>2 DEF Numbers, Fresh
    <3> QED
      BY <1>1, <3>2, <3>3 DEF Ids
  <2>4. thrown \subseteq Handlers /\ unsaved \subseteq 1 .. seqNo
    BY DEF TypeOK
  <2>5. thrown' \subseteq Handlers
    BY <2>1, <2>2, <2>4, LocksStep
  <2>6. unsaved' \subseteq 1 .. seqNo
    <3>1. unsaved' = unsaved \/ (SaveFails(a) /\ unsaved' = unsaved \union {report[a]})
      BY LocksStep
    <3> QED
      BY <2>3, <2>4, <3>1
  <2> QED
    BY <1>1, <2>5, <2>6
<1>6. files' \in [Kinds \X Ids -> {"none", "empty", "written"}]
  BY FilesStep
<1> QED
  BY <1>1, <1>2, <1>3, <1>4, <1>5, <1>6, ThreadsTyped, LabelsStep DEF TypeOK

LEMMA EndedStep ==
  ASSUME TypeOK, Numbers, Ended, NEW a \in Actors, Work(a)
  PROVE  Ended'
<1>1. ASSUME NEW u \in Handlers, Ends(u)'
      PROVE  report'[u] \in Ids /\ kind'[u] \in {"FINISH", "FAIL"}
  <2>1. CASE u # a
    BY <1>1, <2>1, OtherHandlers DEF Ended, EndsKnown, Ends, Ending
  <2>2. CASE u = a /\ ~ HandleEnd(a)
    <3>1. Ends(a) /\ kind'[a] = kind[a] /\ report'[a] = report[a]
      BY <1>1, <2>2, WorkCases, HandlerMoves, SaverMoves, Different
         DEF Moves, Keeps, Ends, Ending
    <3> QED
      BY <2>2, <3>1 DEF Ended, EndsKnown
  <2>3. CASE u = a /\ HandleEnd(a)
    BY <2>3, HandlerMoves
  <2> QED
    BY <2>1, <2>2, <2>3
<1>2. ASSUME NEW u \in Handlers, Cancelled(u)'
      PROVE  pc'[report'[u]] # "new"
  <2> SUFFICES report'[u] \in Ids /\ pc[report'[u]] # "new"
    BY NewTimers
  <2>1. CASE u # a
    <3>1. Cancelled(u) /\ report'[u] = report[u]
      BY <1>2, <2>1, OtherHandlers DEF Cancelled
    <3> QED
      BY <3>1, KnownReports, Different DEF Cancelled
  <2>2. CASE u = a /\ CancelTimer(a)
    <3>1. pc[a] = "cancel" /\ pc[report[a]] # "new" /\ report'[a] = report[a]
      BY <2>2 DEF CancelTimer, At
    <3> QED
      BY <2>2, <3>1, KnownReports DEF Ends, Ending
  <2>3. CASE u = a /\ ~ CancelTimer(a)
    <3>1. Cancelled(a) /\ report'[a] = report[a]
      BY <1>2, <2>3, WorkCases, HandlerMoves, SaverMoves, Different
         DEF Moves, Keeps, Cancelled
    <3> QED
      BY <2>3, <3>1, KnownReports DEF Cancelled
  <2> QED
    BY <2>1, <2>2, <2>3
<1>3. ASSUME NEW u \in Handlers, Ending(u)'
      PROVE  lockEnd' = u
  <2>1. CASE u # a
    <3>1. lockEnd = u /\ u # Free
      BY <1>3, <2>1, OtherHandlers, Different DEF Ended, LockOwned, Ending
    <3>2. UnlockEnd(a) => lockEnd = a
      <4>1. UnlockEnd(a) => a \in Handlers /\ pc[a] = "unlock"
        BY Different DEF UnlockEnd, At, TypeOK, TimerLabels
      <4> QED
        BY <4>1 DEF Ended, LockOwned, Ending
    <3> QED
      BY <2>1, <3>1, <3>2, LocksStep
  <2>2. CASE u = a /\ LockEnd(a)
    BY <2>2 DEF LockEnd
  <2>3. CASE u = a /\ ~ LockEnd(a)
    <3>1. Ending(a) /\ ~ UnlockEnd(a)
      BY <1>3, <2>3, WorkCases, HandlerMoves, SaverMoves, Different DEF Moves, Ending
    <3>2. lockEnd' = lockEnd
      BY <2>3, <3>1, LocksStep
    <3> QED
      BY <2>3, <3>1, <3>2 DEF Ended, LockOwned
  <2> QED
    BY <2>1, <2>2, <2>3
<1> QED
  BY <1>1, <1>2, <1>3 DEF Ended, EndsKnown, LockOwned, Ends, Ending, Cancelled

-----------------------------------------------------------------------------
(* Ending a report.                                                        *)

(* A report leaves the map by the thread that removes it, and enters it    *)
(* while its timeout thread is new.                                        *)
LEMMA MapChanges ==
  ASSUME TypeOK, Numbers, NEW a \in Actors, Work(a), NEW i \in Ids
  PROVE  /\ i \in mapReport /\ i \notin mapReport' =>
              RemoveReport(a) /\ pc[a] = "remove" /\ report[a] = i
         /\ i \notin mapReport /\ i \in mapReport' =>
              pc[i] = "new" /\ \A k \in Kinds : files[k, i] = "none"
<1>1. i \in mapReport /\ i \notin mapReport' => RemoveReport(a) /\ report[a] = i
  BY MapStep
<1>2. i \notin mapReport /\ i \in mapReport' => StoreReport(a) /\ report[a] = i
  BY MapStep
<1>3. RemoveReport(a) => pc[a] = "remove"
  BY DEF RemoveReport, At
<1>4. StoreReport(a) => a \in Handlers /\ pc[a] = "store"
  BY Different DEF StoreReport, At, TypeOK, TimerLabels
<1>5. StoreReport(a) => pc[report[a]] = "new"
  BY <1>4 DEF Numbers, Numbered
<1>6. pc[i] = "new" => \A k \in Kinds : files[k, i] = "none"
  BY DEF Numbers, Fresh
<1> QED
  BY <1>1, <1>2, <1>3, <1>5, <1>6

(* The file of the timeout is the timeout thread's own, the other two are  *)
(* those of the handler that owns the lock.                                *)
LEMMA OwnFiles ==
  ASSUME TypeOK, Numbers, Ended, NEW a \in Actors, Work(a), NEW i \in Ids
  PROVE  /\ a # i => files'["TIMEOUT", i] = files["TIMEOUT", i]
         /\ \A k \in {"FINISH", "FAIL"} :
              files'[k, i] # files[k, i] =>
                /\ a \in Handlers /\ lockEnd = a /\ kind[a] = k /\ report[a] = i
                /\ \/ OpenFile(a) /\ pc[a] = "open" /\ files'[k, i] = "empty"
                   \/ /\ WriteFile(a) /\ pc[a] = "write" /\ files'[k, i] = "written"
                      /\ i \in mapReport
<1>1. (OpenFile(a) => pc[a] = "open") /\ (WriteFile(a) => pc[a] = "write" /\ report[a] \in mapReport)
  BY DEF OpenFile, WriteFile, At
<1>2. pc[a] \in {"open", "write"} =>
        /\ a \in Handlers => kind[a] \in {"FINISH", "FAIL"} /\ lockEnd = a
        /\ a \in Ids => kind[a] = "TIMEOUT" /\ report[a] = a
  BY KnownReports
<1>3. ASSUME NEW k \in Kinds
      PROVE  \/ files'[k, i] = files[k, i]
             \/ OpenFile(a) /\ k = kind[a] /\ i = report[a] /\ files'[k, i] = "empty"
             \/ WriteFile(a) /\ k = kind[a] /\ i = report[a] /\ files'[k, i] = "written"
  BY FilesStep
<1>4. a # i => files'["TIMEOUT", i] = files["TIMEOUT", i]
  <2>1. \/ files'["TIMEOUT", i] = files["TIMEOUT", i]
        \/ OpenFile(a) /\ kind[a] = "TIMEOUT" /\ i = report[a]
        \/ WriteFile(a) /\ kind[a] = "TIMEOUT" /\ i = report[a]
    BY <1>3 DEF Kinds
  <2>2. OpenFile(a) \/ WriteFile(a) => kind[a] # "TIMEOUT" \/ report[a] = a
    BY <1>1, <1>2, Different
  <2> QED
    BY <2>1, <2>2
<1>5. ASSUME NEW k \in {"FINISH", "FAIL"}, files'[k, i] # files[k, i]
      PROVE  /\ a \in Handlers /\ lockEnd = a /\ kind[a] = k /\ report[a] = i
             /\ \/ OpenFile(a) /\ pc[a] = "open" /\ files'[k, i] = "empty"
                \/ /\ WriteFile(a) /\ pc[a] = "write" /\ files'[k, i] = "written"
                   /\ i \in mapReport
  <2>1. k \in Kinds /\ k # "TIMEOUT"
    BY DEF Kinds
  <2>2. \/ OpenFile(a) /\ k = kind[a] /\ i = report[a] /\ files'[k, i] = "empty"
        \/ WriteFile(a) /\ k = kind[a] /\ i = report[a] /\ files'[k, i] = "written"
    BY <1>3, <1>5, <2>1
  <2> QED
    BY <1>1, <1>2, <2>1, <2>2, Different
<1> QED
  BY <1>4, <1>5

(* A file the timeout thread has written stays written.                    *)
LEMMA TimeoutKept ==
  ASSUME TypeOK, Numbers, Ended, TimerFile, NEW a \in Actors, Work(a), NEW i \in Ids,
         files["TIMEOUT", i] = "written"
  PROVE  files'["TIMEOUT", i] = "written"
<1>1. CASE a # i
  BY <1>1, OwnFiles
<1>2. CASE a = i
  <2>1. ~ OpenFile(a)
    BY <1>2 DEF TimerFile, OpenFile, At
  <2>2. ASSUME NEW k \in Kinds
        PROVE  files'[k, i] = files[k, i] \/ files'[k, i] = "written"
    <3>1. \/ files'[k, i] = files[k, i]
          \/ OpenFile(a) /\ k = kind[a] /\ i = report[a] /\ files'[k, i] = "empty"
          \/ WriteFile(a) /\ k = kind[a] /\ i = report[a] /\ files'[k, i] = "written"
      BY FilesStep
    <3> QED
      BY <2>1, <3>1
  <2>3. files'["TIMEOUT", i] = files["TIMEOUT", i] \/ files'["TIMEOUT", i] = "written"
    BY <2>2 DEF Kinds
  <2> QED
    BY <2>3
<1> QED
  BY <1>1, <1>2

LEMMA TimerFileStep ==
  ASSUME TypeOK, Numbers, Ended, TimerFile, NEW a \in Actors, Work(a)
  PROVE  TimerFile'
<1> SUFFICES ASSUME NEW i \in Ids
             PROVE  /\ pc'[i] \in {"new", "asleep", "contains", "open"} =>
                         files'["TIMEOUT", i] = "none"
                    /\ pc'[i] = "remove" => files'["TIMEOUT", i] = "written"
  BY DEF TimerFile
<1>1. /\ pc[i] \in {"new", "asleep", "contains", "open"} => files["TIMEOUT", i] = "none"
      /\ pc[i] = "remove" => files["TIMEOUT", i] = "written"
  BY DEF TimerFile
<1>2. CASE i # a
  BY <1>1, <1>2, OtherTimers, OwnFiles
<1>3. CASE i = a
  <2>1. /\ \/ Timeout(a) \/ ContainsKey(a) \/ OpenFile(a) \/ WriteFile(a)
           \/ WriteCrashes(a) \/ RemoveReport(a) \/ SaveFails(a)
        /\ a \in Ids
    BY <1>3, WorkCases, Different
  <2>2. /\ report[i] = i /\ kind[i] = "TIMEOUT"
    BY DEF TypeOK
  <2>3. WriteFile(a) => files'["TIMEOUT", i] = "written"
    BY <1>3, <2>2, FilesStep
  <2>4. files' = files \/ OpenFile(a) \/ WriteFile(a)
    BY FilesStep
  <2> QED
    BY <1>1, <1>3, <2>1, <2>3, <2>4, SaverMoves DEF Moves
<1> QED
  BY <1>2, <1>3

(* A handler that has opened a file has its report, or the timeout thread  *)
(* has written it; nobody else touches the file in between.                *)
LEMMA OpenedStep ==
  ASSUME TypeOK, Numbers, Ended, Saved, NEW a \in Actors, Work(a)
  PROVE  Opened'
<1> DEFINE Right(u) ==
      /\ pc[u] \in {"open", "write"} =>
           report[u] \in mapReport \/ files["TIMEOUT", report[u]] = "written"
      /\ pc[u] = "write" => files[kind[u], report[u]] = "empty"
      /\ pc[u] = "remove" => \E k \in Kinds : files[k, report[u]] = "written"
<1>0. (\A u \in Handlers : Right(u)) /\ TimerFile
  BY DEF Saved, Opened
<1>1. ASSUME NEW u \in Handlers, u # a, pc[u] \in {"open", "write", "remove"}
      PROVE  Right(u)'
  <2> DEFINE i == report[u]
  <2>1. pc'[u] = pc[u] /\ report'[u] = i /\ kind'[u] = kind[u] /\ Right(u)
    BY <1>0, <1>1, OtherHandlers
  <2>2. i \in Ids /\ kind[u] \in {"FINISH", "FAIL"} /\ lockEnd = u /\ u # Free
    BY <1>1, KnownReports, Different
  <2>3. \A k \in {"FINISH", "FAIL"} : files'[k, i] = files[k, i]
    BY <1>1, <2>2, OwnFiles
  <2>4. files["TIMEOUT", i] = "written" => files'["TIMEOUT", i] = "written"
    BY <1>0, <2>2, TimeoutKept
  <2>5. i \in mapReport => i \in mapReport' \/ files'["TIMEOUT", i] = "written"
    <3> SUFFICES ASSUME i \in mapReport, i \notin mapReport'
                 PROVE  files["TIMEOUT", i] = "written"
      BY <2>4
    <3>1. RemoveReport(a) /\ pc[a] = "remove" /\ report[a] = i
      BY <2>2, MapChanges
    <3>2. a \notin Handlers
      BY <1>1, <2>2, <3>1, KnownReports
    <3>3. a \in Ids /\ a = i
      BY <3>1, <3>2, KnownReports, Different
    <3> QED
      BY <1>0, <3>1, <3>3 DEF TimerFile
  <2>6. pc[u] = "remove" => \E k \in Kinds : files'[k, i] = "written"
    <3> SUFFICES ASSUME NEW k \in Kinds, files[k, i] = "written"
                 PROVE  files'[k, i] = "written"
      BY <2>1
    <3>1. CASE k = "TIMEOUT"
      BY <2>4, <3>1
    <3>2. CASE k # "TIMEOUT"
      <4>1. k \in {"FINISH", "FAIL"}
        BY <3>2 DEF Kinds
      <4> QED
        BY <2>3, <4>1
    <3> QED
      BY <3>1, <3>2
  <2>7. pc[u] \in {"open", "write"} => i \in mapReport' \/ files'["TIMEOUT", i] = "written"
    BY <2>1, <2>4, <2>5
  <2>8. pc[u] = "write" => files'[kind[u], i] = "empty"
    BY <2>1, <2>2, <2>3
  <2> HIDE DEF i
  <2> QED
    BY <2>1, <2>6, <2>7, <2>8
<1>2. ASSUME NEW u \in Handlers, u # a, pc[u] \notin {"open", "write", "remove"}
      PROVE  Right(u)'
  BY <1>2, OtherHandlers
<1>3. ASSUME a \in Handlers
      PROVE  Right(a)'
  <2>0. a \notin Ids
    BY <1>3, Different
  <2>1. CASE ContainsKey(a)
    <3>1. mapReport' = mapReport /\ files' = files /\ pc[a] = "contains"
      BY <2>1 DEF ContainsKey, locks, At
    <3>2. report'[a] = report[a] /\ report[a] \in Ids /\ pc[report[a]] # "new"
      BY <2>1, <3>1, SaverMoves, KnownReports DEF Keeps
    <3>3. \/ pc'[a] = "open" /\ report[a] \in mapReport
          \/ pc'[a] = "remove" /\ report[a] \notin mapReport
      BY <2>0, <2>1, SaverMoves DEF Moves
    <3>4. report[a] \in mapReport \/ \E k \in Kinds : files[k, report[a]] = "written"
      BY <3>2 DEF Saved, NothingDiscarded
    <3> QED
      BY <3>1, <3>2, <3>3, <3>4
  <2>2. CASE OpenFile(a)
    <3>1. mapReport' = mapReport /\ pc[a] = "open" /\ pc'[a] = "write"
          /\ report'[a] = report[a] /\ kind'[a] = kind[a]
      BY <2>2, SaverMoves DEF OpenFile, Moves, Keeps
    <3>2. report[a] \in Ids
      BY <3>1, KnownReports
    <3>3. files'[kind[a], report[a]] = "empty"
      BY <2>2, <3>2, FilesStep
    <3>4. report[a] \in mapReport \/ files["TIMEOUT", report[a]] = "written"
      BY <1>0, <1>3, <3>1
    <3>5. files["TIMEOUT", report[a]] = "written" => files'["TIMEOUT", report[a]] = "written"
      BY <1>0, <3>2, TimeoutKept
    <3> QED
      BY <3>1, <3>3, <3>4, <3>5
  <2>3. CASE WriteFile(a)
    <3>1. pc[a] = "write" /\ pc'[a] = "remove" /\ report'[a] = report[a]
      BY <2>3, SaverMoves DEF Moves, Keeps
    <3>2. report[a] \in Ids /\ kind[a] \in Kinds
      BY <3>1, KnownReports
    <3>3. files'[kind[a], report[a]] = "written"
      BY <2>3, <3>2, FilesStep
    <3> QED
      BY <3>1, <3>2, <3>3
  <2>4. CASE ~ ContainsKey(a) /\ ~ OpenFile(a) /\ ~ WriteFile(a)
    <3>1. pc'[a] \notin {"open", "write", "remove"}
      BY <1>3, <2>0, <2>4, WorkCases, HandlerMoves, SaverMoves DEF Moves
    <3> QED
      BY <3>1
  <2> QED
    BY <2>1, <2>2, <2>3, <2>4
<1>4. \A u \in Handlers : Right(u)'
  BY <1>1, <1>2, <1>3
<1> QED
  BY <1>4 DEF Opened

LEMMA WrittenGoesStep ==
  ASSUME TypeOK, Numbers, Ended, Saved, NEW a \in Actors, Work(a)
  PROVE  WrittenGoes'
<1>0. mapReport' \subseteq Ids
  <2>1. mapReport' \subseteq 1 .. seqNo' /\ seqNo' \in 0 .. MaxReports /\ MaxReports \in Nat
    BY TypeStep, Different DEF TypeOK
  <2> QED
    BY <2>1 DEF Ids
<1> SUFFICES ASSUME NEW i \in Ids, i \in mapReport', NEW k \in {"FINISH", "FAIL"},
                    files'[k, i] = "written"
             PROVE  \E t \in Handlers : pc'[t] = "remove" /\ report'[t] = i
  BY <1>0 DEF WrittenGoes
<1>1. CASE files[k, i] = "written"
  <2>1. i \in mapReport
    <3>1. k \in Kinds
      BY DEF Kinds
    <3> QED
      BY <1>0, <1>1, <3>1, MapChanges
  <2>2. PICK t \in Handlers : pc[t] = "remove" /\ report[t] = i
    BY <1>1, <2>1 DEF Saved, WrittenGoes
  <2>3. t # a
    <3> SUFFICES ASSUME t = a
                 PROVE  FALSE
      OBVIOUS
    <3>1. RemoveReport(a)
      BY <2>2, WorkCases, HandlerMoves, SaverMoves, Different DEF Moves
    <3> QED
      BY <2>2, <3>1 DEF RemoveReport
  <2> QED
    BY <2>2, <2>3, OtherHandlers
<1>2. CASE files[k, i] # "written"
  <2>1. a \in Handlers /\ report[a] = i /\ WriteFile(a)
    <3>1. files'[k, i] # files[k, i] /\ files'[k, i] # "empty"
      BY <1>2
    <3>2. \A l \in {"FINISH", "FAIL"} :
            files'[l, i] # files[l, i] =>
              /\ a \in Handlers /\ lockEnd = a /\ kind[a] = l /\ report[a] = i
              /\ \/ OpenFile(a) /\ pc[a] = "open" /\ files'[l, i] = "empty"
                 \/ /\ WriteFile(a) /\ pc[a] = "write" /\ files'[l, i] = "written"
                    /\ i \in mapReport
      BY OwnFiles
    <3> QED
      BY <3>1, <3>2
  <2>2. pc'[a] = "remove" /\ report'[a] = i
    BY <2>1, SaverMoves DEF Moves, Keeps
  <2> QED
    BY <2>1, <2>2
<1> QED
  BY <1>1, <1>2

LEMMA NothingDiscardedStep ==
  ASSUME TypeOK, Numbers, Ended, Saved, NEW a \in Actors, Work(a)
  PROVE  NothingDiscarded'
<1> SUFFICES ASSUME NEW i \in Ids, pc'[i] # "new", i \notin mapReport'
             PROVE  \E k \in Kinds : files'[k, i] = "written"
  BY DEF NothingDiscarded
<1>0. Opened /\ TimerFile /\ NothingDiscarded
  BY DEF Saved
<1>1. CASE pc[i] = "new"
  <2>1. StartTimer(a) /\ i = report[a]
    BY <1>1, NewTimers
  <2>2. a \in Handlers /\ pc[a] = "startTimer"
    BY <2>1, Different DEF StartTimer, At, TypeOK, TimerLabels
  <2>3. i \in mapReport
    BY <2>1, <2>2 DEF Numbers, Numbered
  <2> QED
    BY <2>2, <2>3, MapChanges
<1>2. CASE pc[i] # "new" /\ i \in mapReport
  <2>1. RemoveReport(a) /\ pc[a] = "remove" /\ report[a] = i
    BY <1>2, MapChanges
  <2>2. files' = files
    BY <2>1 DEF RemoveReport
  <2>3. a \in Ids => a = i
    BY <2>1, KnownReports
  <2>4. a \in Ids => files["TIMEOUT", i] = "written"
    BY <1>0, <2>1, <2>3 DEF TimerFile
  <2>5. a \in Handlers => \E k \in Kinds : files[k, i] = "written"
    BY <1>0, <2>1 DEF Opened
  <2> QED
    BY <2>2, <2>4, <2>5, Different DEF Kinds
<1>3. CASE pc[i] # "new" /\ i \notin mapReport
  <2>1. PICK k \in Kinds : files[k, i] = "written"
    BY <1>0, <1>3 DEF NothingDiscarded
  <2>2. CASE k = "TIMEOUT"
    BY <1>0, <2>1, <2>2, TimeoutKept
  <2>3. CASE k # "TIMEOUT" /\ files'[k, i] # "written"
    <3>1. k \in {"FINISH", "FAIL"}
      BY <2>3 DEF Kinds
    <3>2. a \in Handlers /\ report[a] = i /\ pc[a] = "open"
      BY <1>3, <2>1, <2>3, <3>1, OwnFiles
    <3>3. files["TIMEOUT", i] = "written"
      BY <1>0, <1>3, <3>2 DEF Opened
    <3>4. files'["TIMEOUT", i] = "written"
      BY <1>0, <3>3, TimeoutKept
    <3> QED
      BY <3>4 DEF Kinds
  <2> QED
    BY <2>1, <2>2, <2>3
<1> QED
  BY <1>1, <1>2, <1>3

LEMMA EndOnceStep ==
  ASSUME TypeOK, Numbers, Ended, Saved, NEW a \in Actors, Work(a)
  PROVE  EndOnce'
<1> SUFFICES ASSUME NEW i \in Ids, NEW k \in {"FINISH", "FAIL"}, NEW l \in {"FINISH", "FAIL"},
                    k # l, files'[k, i] = "written", files'[l, i] = "written",
                    files[k, i] # "written"
             PROVE  FALSE
  BY DEF Saved, EndOnce
<1>1. a \in Handlers /\ kind[a] = k /\ pc[a] = "write" /\ i \in mapReport /\ lockEnd = a
  <2>1. files'[k, i] # files[k, i] /\ files'[k, i] # "empty"
    OBVIOUS
  <2>2. /\ a \in Handlers /\ lockEnd = a /\ kind[a] = k /\ report[a] = i
        /\ \/ OpenFile(a) /\ pc[a] = "open" /\ files'[k, i] = "empty"
           \/ /\ WriteFile(a) /\ pc[a] = "write" /\ files'[k, i] = "written"
              /\ i \in mapReport
    BY <2>1, OwnFiles
  <2> QED
    BY <2>1, <2>2
<1>2. files[l, i] = "written"
  BY <1>1, OwnFiles
<1>3. PICK t \in Handlers : pc[t] = "remove" /\ report[t] = i
  BY <1>1, <1>2 DEF Saved, WrittenGoes
<1>4. lockEnd = t
  BY <1>3 DEF Ended, LockOwned, Ending
<1> QED
  BY <1>1, <1>3, <1>4

(* A race that was lost stays lost: the report has left the map for good,  *)
(* so the empty file of the request is never written.                      *)
LEMMA LostRaceKept ==
  ASSUME TypeOK, Numbers, Ended, Saved, NEW a \in Actors, Work(a), LostRace
  PROVE  LostRace'
<1>1. PICK i \in Ids : /\ i \notin mapReport /\ pc[i] # "new"
                       /\ files["TIMEOUT", i] = "written"
                       /\ files["FINISH", i] = "empty" \/ files["FAIL", i] = "empty"
  BY DEF LostRace
<1>2. i \notin mapReport' /\ pc'[i] # "new"
  BY <1>1, MapChanges, NewTimers
<1>3. files'["TIMEOUT", i] = "written"
  BY <1>1, TimeoutKept DEF Saved
<1>4. ASSUME NEW k \in {"FINISH", "FAIL"}, files[k, i] = "empty"
      PROVE  files'[k, i] = "empty"
  <2> SUFFICES ASSUME files'[k, i] # files[k, i]
               PROVE  files'[k, i] = "empty"
    BY <1>4
  <2>1. \/ OpenFile(a) /\ pc[a] = "open" /\ files'[k, i] = "empty"
        \/ /\ WriteFile(a) /\ pc[a] = "write" /\ files'[k, i] = "written"
           /\ i \in mapReport
    BY OwnFiles
  <2> QED
    BY <1>1, <2>1
<1>5. files'["FINISH", i] = "empty" \/ files'["FAIL", i] = "empty"
  BY <1>1, <1>4
<1> QED
  BY <1>2, <1>3, <1>5 DEF LostRace

(* The hold of a request that an exception has ended is never given back.  *)
LEMMA HoldsKeptStep ==
  ASSUME TypeOK, Numbers, Ended, Saved, NEW a \in Actors, Work(a)
  PROVE  HoldsKept'
<1> SUFFICES ASSUME NEW t \in thrown'
             PROVE  lockEnd' = t /\ (Ending(t)' => holds' >= 2)
  BY DEF HoldsKept, Ending
<1>1. /\ lockEnd \in Handlers \union {Free} /\ holds \in Nat
      /\ (holds = 0 <=> lockEnd = Free) /\ thrown \subseteq Handlers
  BY DEF TypeOK
<1>2. CASE t \in thrown
  <2>1. lockEnd = t /\ t \in Handlers /\ t # Free /\ holds >= 1 /\ (Ending(t) => holds >= 2)
    BY <1>1, <1>2, Different DEF Saved, HoldsKept
  <2>2. CASE LockEnd(a)
    <3>1. lockEnd' = a /\ a = t /\ holds' = holds + 1
      BY <2>1, <2>2 DEF LockEnd
    <3> QED
      BY <1>1, <2>1, <3>1
  <2>3. CASE UnlockEnd(a)
    <3>1. a \in Handlers /\ pc[a] = "unlock" /\ pc'[a] = "idle"
      BY <2>3, HandlerMoves, Different DEF UnlockEnd, At, TypeOK, TimerLabels, Moves
    <3>2. lockEnd = a
      BY <3>1 DEF Ended, LockOwned, Ending
    <3>3. holds >= 2 /\ a = t
      BY <2>1, <3>1, <3>2 DEF Ending
    <3>4. lockEnd' = lockEnd
      BY <1>1, <2>3, <3>3 DEF UnlockEnd
    <3>5. ~ Ending(t)'
      BY <3>1, <3>3 DEF Ending
    <3> QED
      BY <2>1, <3>4, <3>5
  <2>4. CASE ~ LockEnd(a) /\ ~ UnlockEnd(a)
    <3>1. lockEnd' = lockEnd /\ holds' = holds
      BY <2>4, LocksStep
    <3>2. Ending(t)' => Ending(t)
      <4>1. CASE t # a
        BY <2>1, <4>1, OtherHandlers DEF Ending
      <4>2. CASE t = a
        BY <2>1, <2>4, <4>2, WorkCases, HandlerMoves, SaverMoves, Different
           DEF Moves, Ending
      <4> QED
        BY <4>1, <4>2
    <3> QED
      BY <2>1, <3>1, <3>2
  <2> QED
    BY <2>2, <2>3, <2>4
<1>3. CASE t \notin thrown
  <2>1. /\ t = a
        /\ UnknownReport(a) \/ LogFails(a) \/ (SaveFails(a) /\ a \notin Ids)
    BY <1>3, LocksStep
  <2>2. a \in Handlers /\ Ending(a) /\ pc'[a] = "idle"
    <3>1. a \in Handlers
      BY <2>1, Different DEF UnknownReport, LogFails, At, TypeOK, TimerLabels
    <3> QED
      BY <2>1, <3>1, HandlerMoves, SaverMoves, Different DEF Moves, Ending
  <2>3. lockEnd' = lockEnd
    BY <2>1 DEF UnknownReport, LogFails, SaveFails, locks
  <2>4. ~ Ending(t)'
    BY <2>1, <2>2 DEF Ending
  <2> QED
    BY <2>1, <2>2, <2>3, <2>4 DEF Ended, LockOwned
<1> QED
  BY <1>2, <1>3

LEMMA HoldsExplainedStep ==
  ASSUME TypeOK, Numbers, Ended, Saved, NEW a \in Actors, Work(a)
  PROVE  HoldsExplained'
<1> SUFFICES ASSUME lockEnd' # Free, ~ LostRace', lockEnd' \notin thrown'
             PROVE  Ending(lockEnd)' /\ holds' = 1
  BY DEF HoldsExplained
<1>0. thrown \subseteq thrown' /\ thrown \subseteq {lockEnd'}
  BY LocksStep, HoldsKeptStep DEF HoldsKept
<1>1. thrown = {}
  BY <1>0
<1>2. lockEnd # Free => Ending(lockEnd) /\ holds = 1
  BY <1>1, LostRaceKept DEF Saved, HoldsExplained
<1>3. /\ lockEnd \in Handlers \union {Free} /\ holds \in Nat
      /\ (holds = 0 <=> lockEnd = Free)
  BY DEF TypeOK
<1>4. CASE LockEnd(a)
  <2>1. a \in Handlers /\ pc[a] = "lockEnd" /\ pc'[a] = "cancel"
    BY <1>4, Different, HandlerMoves DEF LockEnd, At, TypeOK, TimerLabels, Moves
  <2>2. lockEnd \in {Free, a} /\ lockEnd' = a /\ holds' = holds + 1
    BY <1>4 DEF LockEnd
  <2>3. lockEnd = Free
    BY <1>2, <2>1, <2>2 DEF Ending
  <2> QED
    BY <1>3, <2>1, <2>2, <2>3 DEF Ending
<1>5. CASE UnlockEnd(a)
  <2>1. a \in Handlers /\ pc[a] = "unlock"
    BY <1>5, Different DEF UnlockEnd, At, TypeOK, TimerLabels
  <2>2. lockEnd = a /\ a # Free
    BY <2>1, Different DEF Ended, LockOwned, Ending
  <2>3. lockEnd' = Free
    BY <1>2, <1>5, <2>2 DEF UnlockEnd
  <2> QED
    BY <2>3
<1>6. CASE ~ LockEnd(a) /\ ~ UnlockEnd(a)
  <2>1. lockEnd' = lockEnd /\ holds' = holds
    BY <1>6, LocksStep
  <2>2. lockEnd \in Handlers /\ Ending(lockEnd) /\ holds = 1
    BY <1>2, <1>3, <2>1
  <2>3. CASE lockEnd # a
    BY <2>1, <2>2, <2>3, OtherHandlers DEF Ending
  <2>4. CASE lockEnd = a /\ ~ WriteCrashes(a)
    <3>1. ~ UnknownReport(a) /\ ~ LogFails(a) /\ ~ SaveFails(a)
      <4>1. a \notin thrown' /\ a \notin Ids
        BY <2>1, <2>2, <2>4, Different
      <4> QED
        BY <4>1 DEF UnknownReport, LogFails, SaveFails
    <3>2. Ending(a)'
      BY <1>6, <2>2, <2>4, <3>1, WorkCases, HandlerMoves, SaverMoves, Different
         DEF Moves, Ending
    <3> QED
      BY <2>1, <2>2, <2>4, <3>2 DEF Ending
  <2>5. CASE lockEnd = a /\ WriteCrashes(a)
    <3> DEFINE i == report[a]
    <3>1. a \in Handlers /\ pc[a] = "write" /\ i \notin mapReport
      BY <2>2, <2>5 DEF WriteCrashes, At
    <3>2. i \in Ids /\ pc[i] # "new" /\ kind[a] \in {"FINISH", "FAIL"}
      BY <3>1, KnownReports
    <3>3. files["TIMEOUT", i] = "written" /\ files[kind[a], i] = "empty"
      BY <3>1 DEF Saved, Opened
    <3>4. files["FINISH", i] = "empty" \/ files["FAIL", i] = "empty"
      BY <3>2, <3>3
    <3> HIDE DEF i
    <3>5. LostRace
      BY <3>1, <3>2, <3>3, <3>4 DEF LostRace
    <3> QED
      BY <3>5, LostRaceKept
  <2> QED
    BY <2>3, <2>4, <2>5
<1> QED
  BY <1>4, <1>5, <1>6

-----------------------------------------------------------------------------
(* The invariant.                                                          *)

LEMMA InitInv == Init => Inv
<1> SUFFICES ASSUME Init
             PROVE  Inv
  OBVIOUS
<1>1. /\ seqNo = 0 /\ lockSeq = Free /\ lockEnd = Free /\ holds = 0
      /\ mapReport = {} /\ thrown = {} /\ unsaved = {}
      /\ files = [f \in Kinds \X Ids |-> "none"]
  BY DEF Init
<1>2. /\ files \in [Kinds \X Ids -> {"none", "empty", "written"}]
      /\ \A k \in Kinds, i \in Ids : files[k, i] = "none"
  <2>1. ASSUME NEW k \in Kinds, NEW i \in Ids
        PROVE  files[k, i] = "none"
    BY <1>1
  <2>2. files \in [Kinds \X Ids -> {"none", "empty", "written"}]
    BY <1>1
  <2> QED
    BY <2>1, <2>2
<1>3. /\ pc \in [Actors -> HandlerLabels \union TimerLabels]
      /\ kind \in [Actors -> Kinds] /\ report \in [Actors -> 0 .. MaxReports]
  BY Different DEF Init, HandlerLabels, TimerLabels, Kinds, Ids
<1>4. /\ \A t \in Handlers : pc[t] = "idle"
      /\ \A i \in Ids : pc[i] = "new" /\ kind[i] = "TIMEOUT" /\ report[i] = i
  BY Different DEF Init
<1>5. TypeOK
  <2>1. MaxReports \in Nat /\ 0 \in 0 .. MaxReports
    BY Different
  <2> QED
    BY <1>1, <1>2, <1>3, <1>4, <2>1 DEF TypeOK, HandlerLabels, TimerLabels
<1>6. WithinReports
  <2>1. Counted = {}
    BY <1>4 DEF Counted
  <2>2. MaxReports \in Nat
    BY Different
  <2> QED
    BY <1>1, <2>1, <2>2, FS_EmptySet DEF WithinReports
<1>7. SeqOwned /\ Numbered /\ Fresh /\ UniqueNumbers
  BY <1>1, <1>2, <1>4 DEF SeqOwned, Numbered, Fresh, UniqueNumbers, Numbering
<1>8. Ended
  BY <1>4 DEF Ended, EndsKnown, LockOwned, Ends, Ending, Cancelled
<1>9. Opened /\ TimerFile /\ WrittenGoes /\ NothingDiscarded
  BY <1>1, <1>2, <1>4 DEF Opened, TimerFile, WrittenGoes, NothingDiscarded, Kinds
<1>10. EndOnce /\ HoldsExplained /\ HoldsKept
  BY <1>1, <1>2 DEF EndOnce, HoldsExplained, HoldsKept, Kinds
<1> QED
  BY <1>5, <1>6, <1>7, <1>8, <1>9, <1>10 DEF Inv, Numbers, Saved

LEMMA StepInv == Inv /\ [Next]_vars => Inv'
<1>1. ASSUME Inv, NEW a \in Actors, Work(a)
      PROVE  Inv'
  <2>1. TypeOK /\ Numbers /\ Ended /\ Saved
    BY <1>1 DEF Inv
  <2>2. TypeOK' /\ Ended'
    BY <1>1, <2>1, TypeStep, EndedStep
  <2>3. Numbers'
    BY <1>1, <2>1, WithinStep, SeqOwnedStep, NumberedStep, FreshStep, UniqueStep
       DEF Numbers
  <2>4. Opened' /\ TimerFile' /\ WrittenGoes'
    BY <1>1, <2>1, OpenedStep, TimerFileStep, WrittenGoesStep DEF Saved
  <2>5. NothingDiscarded' /\ EndOnce' /\ HoldsExplained' /\ HoldsKept'
    BY <1>1, <2>1, NothingDiscardedStep, EndOnceStep, HoldsExplainedStep, HoldsKeptStep
  <2> QED
    BY <2>2, <2>3, <2>4, <2>5 DEF Inv, Saved
<1>2. ASSUME Inv, UNCHANGED vars
      PROVE  Inv'
  <2>1. /\ seqNo' = seqNo /\ lockSeq' = lockSeq /\ lockEnd' = lockEnd /\ holds' = holds
        /\ mapReport' = mapReport /\ files' = files /\ pc' = pc /\ kind' = kind
        /\ report' = report /\ thrown' = thrown /\ unsaved' = unsaved
    BY <1>2 DEF vars, locks, threads, errors
  <2>2. TypeOK'
    BY <1>2, <2>1 DEF Inv, TypeOK
  <2>3. Numbers'
    BY <1>2, <2>1 DEF Inv, Numbers, WithinReports, Counted, SeqOwned, Numbered, Fresh,
                      UniqueNumbers, Numbering
  <2>4. Ended'
    BY <1>2, <2>1 DEF Inv, Ended, EndsKnown, LockOwned, Ends, Ending, Cancelled
  <2>5. (Opened /\ TimerFile)'
    BY <1>2, <2>1 DEF Inv, Saved, Opened, TimerFile
  <2>6. WrittenGoes'
    BY <1>2, <2>1 DEF Inv, Saved, WrittenGoes
  <2>7. (NothingDiscarded /\ EndOnce /\ HoldsExplained /\ HoldsKept)'
    BY <1>2, <2>1 DEF Inv, Saved, NothingDiscarded, EndOnce, HoldsExplained, HoldsKept,
                      Ending, LostRace
  <2> QED
    BY <2>2, <2>3, <2>4, <2>5, <2>6, <2>7 DEF Inv, Saved
<1>3. Next => \E a \in Actors : Work(a)
  <2>1. ASSUME NEW t \in Handlers, Request(t) \/ Handle(t) \/ LogFails(t)
        PROVE  Work(t) /\ t \in Actors
    BY <2>1, Different DEF Work
  <2>3. ASSUME NEW a \in Actors, SaveFails(a)
        PROVE  Work(a)
    BY <2>3 DEF Work
  <2>2. ASSUME NEW i \in Ids, Timer(i)
        PROVE  Work(i) /\ i \in Actors
    BY <2>2, Different DEF Work
  <2> QED
    BY <2>1, <2>2, <2>3 DEF Next
<1> QED
  BY <1>1, <1>2, <1>3

LEMMA Invariant == Spec => []Inv
  BY InitInv, StepInv, PTL DEF Spec

-----------------------------------------------------------------------------
(* Every variable keeps its type, and the lock has holds as long as it has *)
(* an owner.                                                               *)
THEOREM TypesHold == Spec => []TypeOK
<1>1. Inv => TypeOK
  BY DEF Inv
<1> QED
  BY <1>1, Invariant, PTL

(* REPORT: two requests never get the same number, whatever their order.   *)
THEOREM NumbersDiffer == Spec => []UniqueNumbers
<1>1. Inv => UniqueNumbers
  BY DEF Inv, Numbers
<1> QED
  BY <1>1, Invariant, PTL

(* However timeout, FINISH and FAIL interleave, a report leaves the map    *)
(* only after it has been written to one of its files.                     *)
THEOREM ReportsAreSaved == Spec => []NothingDiscarded
<1>1. Inv => NothingDiscarded
  BY DEF Inv, Saved
<1> QED
  BY <1>1, Invariant, PTL

(* No report is written both as finished and as failed.                    *)
THEOREM EndsOneWay == Spec => []EndOnce
<1>1. Inv => EndOnce
  BY DEF Inv, Saved
<1> QED
  BY <1>1, Invariant, PTL

(* A handler that has left keeps the lock, for good, exactly when an       *)
(* exception took it past the unlock: an error of a file, the number of no *)
(* report, or a race for its report lost to the timeout thread.            *)
THEOREM OnlyExceptionsKeepTheLock == Spec => []LockLost
<1>1. Inv => LockLost
  BY DEF Inv, Saved, HoldsExplained, HoldsKept, LockLost, LostRace, RaceLost
<1> QED
  BY <1>1, Invariant, PTL
=============================================================================
