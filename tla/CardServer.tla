------------------------------ MODULE CardServer ------------------------------
(***************************************************************************)
(* The report server of the card validators (study/SP_basic, q4): REPORT   *)
(* numbers and stores a report and starts a thread that times it out,      *)
(* FINISH and FAIL interrupt that thread and end the report under a lock.  *)
(* Whoever ends a report writes it to a file of its own kind and removes   *)
(* it; the timeout thread does so without the lock.                        *)
(*                                                                         *)
(* A step is one access to what the threads share: the sequence number,    *)
(* the locks, the map of reports, a file.  A timeout thread has the number *)
(* of its report, and is in the map of threads from the step that starts   *)
(* it.  Log lines and the contents of reports are left out; that a line    *)
(* cannot be logged is not.                                                *)
(***************************************************************************)
EXTENDS Naturals, FiniteSets

CONSTANTS Handlers,      \* threads of the HTTP server's pool
          MaxReports,    \* bound: REPORT requests
          MaxHolds       \* bound: holds of the lock with which a handler gets a request

ASSUME CardServerAssumption ==
  /\ Handlers # {} /\ IsFiniteSet(Handlers)
  /\ MaxReports \in Nat /\ MaxHolds \in Nat
  /\ Handlers \intersect 1 .. MaxReports = {}

Free == 0                \* nobody holds a lock
ASSUME FreeAssumption == Free \notin Handlers

Ids     == 1 .. MaxReports
Actors  == Handlers \union Ids
Kinds   == {"FINISH", "FAIL", "TIMEOUT"}

VARIABLES
  seqNo, lockSeq,        \* the sequence number and its lock
  lockEnd, holds,        \* owner of the lock lockEnd and its hold count
  mapReport,             \* reports stored
  files,                 \* the report files: "none", "empty" or "written"
  pc, kind,              \* of every thread: what it does next, how it ends a report
  report,                \* the report a handler works on
  thrown,                \* history: handlers that an exception took past the
                         \* unlock: an error of a file, an unknown report
  unsaved                \* history: reports whose file could not be written

locks   == <<lockSeq, lockEnd, holds>>
threads == <<pc, kind, report>>
errors  == <<thrown, unsaved>>
vars    == <<seqNo, locks, mapReport, files, threads, errors>>

Init ==
  /\ seqNo = 0 /\ lockSeq = Free
  /\ lockEnd = Free /\ holds = 0
  /\ mapReport = {}
  /\ files = [f \in Kinds \X Ids |-> "none"]
  /\ pc = [a \in Actors |-> IF a \in Ids THEN "new" ELSE "idle"]
  /\ kind = [a \in Actors |-> "TIMEOUT"]
  /\ report = [a \in Actors |-> IF a \in Ids THEN a ELSE 0]
  /\ thrown = {} /\ unsaved = {}

-----------------------------------------------------------------------------
At(a, label) == pc[a] = label
Goto(a, label) == pc' = [pc EXCEPT ![a] = label]

Answer(t) ==
  /\ Goto(t, "idle")
  /\ report' = [report EXCEPT ![t] = 0]
  /\ kind' = [kind EXCEPT ![t] = "TIMEOUT"]

-----------------------------------------------------------------------------
(* doGet: REPORT                                                           *)

HandleReport(t) ==
  /\ At(t, "idle")
  /\ seqNo + Cardinality({u \in Handlers : pc[u] \in {"lockSeq", "read", "increase"}})
       < MaxReports
  /\ Goto(t, "lockSeq")
  /\ UNCHANGED <<seqNo, locks, mapReport, files, kind, report, errors>>

(* Mutant: the sequence number is not locked.                              *)
PassSeq(t) ==
  /\ At(t, "lockSeq")
  /\ lockSeq' = t
  /\ Goto(t, "read")
  /\ UNCHANGED <<seqNo, lockEnd, holds, mapReport, files, kind, report, errors>>

LockSeq(t) ==
  /\ At(t, "lockSeq") /\ lockSeq = Free
  /\ lockSeq' = t
  /\ Goto(t, "read")
  /\ UNCHANGED <<seqNo, lockEnd, holds, mapReport, files, kind, report, errors>>

(* seqNo++ is a read and a write of an Integer; the number is the one      *)
(* written, as long as the lock is held until it has been read again.      *)
ReadSeqNo(t) ==
  /\ At(t, "read")
  /\ report' = [report EXCEPT ![t] = seqNo + 1]
  /\ Goto(t, "increase")
  /\ UNCHANGED <<seqNo, locks, mapReport, files, kind, errors>>

IncreaseSeqNo(t) ==
  /\ At(t, "increase")
  /\ seqNo' = report[t]
  /\ lockSeq' = Free
  /\ Goto(t, "store")
  /\ UNCHANGED <<lockEnd, holds, mapReport, files, kind, report, errors>>

StoreReport(t) ==
  /\ At(t, "store")
  /\ mapReport' = mapReport \union {report[t]}
  /\ Goto(t, "startTimer")
  /\ UNCHANGED <<seqNo, locks, files, kind, report, errors>>

(* The timeout thread of the report starts to sleep; the client is sent    *)
(* the number, unless it cannot be logged.                                 *)
StartTimer(t) ==
  /\ At(t, "startTimer")
  /\ pc' = [pc EXCEPT ![report[t]] = "asleep", ![t] = "answer"]
  /\ UNCHANGED <<seqNo, locks, mapReport, files, kind, report, errors>>

AnswerReport(t) ==
  /\ At(t, "answer")
  /\ Answer(t)
  /\ UNCHANGED <<seqNo, locks, mapReport, files, errors>>

-----------------------------------------------------------------------------
(* doPost: FINISH and FAIL, which a client may send as often as it likes   *)
(* and for any number.                                                     *)
Interrupted(i) == IF pc[i] = "asleep" THEN "done" ELSE pc[i]

Bounded(t) == lockEnd = t => holds < MaxHolds

(* Mutant: the timer is cancelled before the lock is taken.                *)
HandleEndCancelling(t) ==
  \E i \in Ids, k \in {"FINISH", "FAIL"} :
    /\ At(t, "idle") /\ Bounded(t)
    /\ pc' = [pc EXCEPT ![t] = "lockEnd", ![i] = Interrupted(i)]
    /\ kind' = [kind EXCEPT ![t] = k]
    /\ report' = [report EXCEPT ![t] = i]
    /\ UNCHANGED <<seqNo, locks, mapReport, files, errors>>

HandleEnd(t) ==
  \E i \in Ids, k \in {"FINISH", "FAIL"} :
    /\ At(t, "idle") /\ Bounded(t)
    /\ Goto(t, "lockEnd")
    /\ kind' = [kind EXCEPT ![t] = k]
    /\ report' = [report EXCEPT ![t] = i]
    /\ UNCHANGED <<seqNo, locks, mapReport, files, errors>>

(* Mutant: FINISH and FAIL do not exclude each other.                      *)
PassEnd(t) ==
  /\ At(t, "lockEnd")
  /\ lockEnd' = t /\ holds' = 1
  /\ Goto(t, "cancel")
  /\ UNCHANGED <<seqNo, lockSeq, mapReport, files, kind, report, errors>>

(* ReentrantLock: a thread that already owns it enters once more.          *)
LockEnd(t) ==
  /\ At(t, "lockEnd") /\ lockEnd \in {Free, t}
  /\ lockEnd' = t /\ holds' = holds + 1
  /\ Goto(t, "cancel")
  /\ UNCHANGED <<seqNo, lockSeq, mapReport, files, kind, report, errors>>

(* Mutant: the report is removed before it is saved.                       *)
CancelAndRemove(t) ==
  /\ At(t, "cancel") /\ pc[report[t]] # "new"
  /\ pc' = [pc EXCEPT ![t] = "contains", ![report[t]] = Interrupted(report[t])]
  /\ mapReport' = mapReport \ {report[t]}
  /\ UNCHANGED <<seqNo, locks, files, kind, report, errors>>

(* The interrupt ends the sleep of the timeout thread, and comes to        *)
(* nothing once the sleep is over.                                         *)
CancelTimer(t) ==
  /\ At(t, "cancel") /\ pc[report[t]] # "new"
  /\ pc' = [pc EXCEPT ![t] = "contains", ![report[t]] = Interrupted(report[t])]
  /\ UNCHANGED <<seqNo, locks, mapReport, files, kind, report, errors>>

(* There is no thread with this number: the NullPointerException ends the  *)
(* request, and the lock is kept.                                          *)
UnknownReport(t) ==
  /\ At(t, "cancel") /\ pc[report[t]] = "new"
  /\ thrown' = thrown \union {t}
  /\ Answer(t)
  /\ UNCHANGED <<seqNo, locks, mapReport, files, unsaved>>

(* Mutant: the lock is free after one unlock.                              *)
UnlockOnce(t) ==
  /\ At(t, "unlock")
  /\ holds' = holds - 1
  /\ lockEnd' = Free
  /\ Answer(t)
  /\ UNCHANGED <<seqNo, lockSeq, mapReport, files, errors>>

UnlockEnd(t) ==
  /\ At(t, "unlock")
  /\ holds' = holds - 1
  /\ lockEnd' = IF holds = 1 THEN Free ELSE lockEnd
  /\ Answer(t)
  /\ UNCHANGED <<seqNo, lockSeq, mapReport, files, errors>>

(* The line for the log cannot be written, and the lock is kept.           *)
LogFails(t) ==
  /\ At(t, "unlock")
  /\ thrown' = thrown \union {t}
  /\ Answer(t)
  /\ UNCHANGED <<seqNo, locks, mapReport, files, unsaved>>

-----------------------------------------------------------------------------
(* The timeout thread: five seconds are over.                              *)
Timeout(i) ==
  /\ At(i, "asleep")
  /\ Goto(i, "contains")
  /\ UNCHANGED <<seqNo, locks, mapReport, files, kind, report, errors>>

-----------------------------------------------------------------------------
(* saveReportFile and removeReport, by a handler or by a timeout thread a. *)
File(a) == <<kind[a], report[a]>>

(* Mutant: the handler returns, and keeps the lock.                        *)
SaysNoAndReturns(a) == Goto(a, IF a \in Ids THEN "done" ELSE "idle")

(* The report has gone: the timeout thread ends, the handler goes on.      *)
SaysNo(a) == Goto(a, IF a \in Ids THEN "done" ELSE "remove")

ContainsKey(a) ==
  /\ At(a, "contains")
  /\ IF report[a] \in mapReport THEN Goto(a, "open") ELSE SaysNo(a)
  /\ UNCHANGED <<seqNo, locks, mapReport, files, kind, report, errors>>

OpenFile(a) ==
  /\ At(a, "open")
  /\ files' = [files EXCEPT ![File(a)] = "empty"]
  /\ Goto(a, "write")
  /\ UNCHANGED <<seqNo, locks, mapReport, kind, report, errors>>

WriteFile(a) ==
  /\ At(a, "write") /\ report[a] \in mapReport
  /\ files' = [files EXCEPT ![File(a)] = "written"]
  /\ Goto(a, "remove")
  /\ UNCHANGED <<seqNo, locks, mapReport, kind, report, errors>>

(* The report has gone since containsKey: a NullPointerException ends the  *)
(* timeout thread, or the request, whose handler keeps the lock.           *)
WriteCrashes(a) ==
  /\ At(a, "write") /\ report[a] \notin mapReport
  /\ IF a \in Ids THEN Goto(a, "done") /\ UNCHANGED <<kind, report>> ELSE Answer(a)
  /\ UNCHANGED <<seqNo, locks, mapReport, files, errors>>

(* The file cannot be opened, or not be written: the IOException ends the  *)
(* timeout thread, or the request, whose handler keeps the lock.           *)
SaveFails(a) ==
  /\ At(a, "open") \/ (At(a, "write") /\ report[a] \in mapReport)
  /\ unsaved' = unsaved \union {report[a]}
  /\ IF a \in Ids THEN Goto(a, "done") /\ UNCHANGED <<kind, report, thrown>>
                  ELSE Answer(a) /\ thrown' = thrown \union {a}
  /\ UNCHANGED <<seqNo, locks, mapReport, files>>

RemoveReport(a) ==
  /\ At(a, "remove")
  /\ mapReport' = mapReport \ {report[a]}
  /\ Goto(a, IF a \in Ids THEN "done" ELSE "unlock")
  /\ UNCHANGED <<seqNo, locks, files, kind, report, errors>>

-----------------------------------------------------------------------------
Request(t) == HandleReport(t) \/ HandleEnd(t)

Saving(a) ==
  \/ ContainsKey(a) \/ OpenFile(a) \/ WriteFile(a) \/ WriteCrashes(a)
  \/ RemoveReport(a)

Handle(t) ==
  \/ LockSeq(t) \/ ReadSeqNo(t) \/ IncreaseSeqNo(t)
  \/ StoreReport(t) \/ StartTimer(t) \/ AnswerReport(t)
  \/ LockEnd(t) \/ CancelTimer(t) \/ UnknownReport(t) \/ UnlockEnd(t)
  \/ Saving(t)

Timer(i) == Timeout(i) \/ Saving(i)

Next ==
  \/ \E t \in Handlers : Request(t) \/ Handle(t) \/ LogFails(t)
  \/ \E i \in Ids : Timer(i)
  \/ \E a \in Actors : SaveFails(a)

Spec == Init /\ [][Next]_vars

(* Threads that have something to do are run; a sleep ends.                *)
FairSpec == /\ Spec
            /\ \A t \in Handlers : WF_vars(Handle(t))
            /\ \A i \in Ids : WF_vars(Timer(i))

-----------------------------------------------------------------------------
(* Type invariant; the lock is held as long as there are holds.            *)
HandlerLabels == {"idle", "lockSeq", "read", "increase", "store", "startTimer", "answer",
                  "lockEnd", "cancel", "contains", "open", "write", "remove", "unlock"}
TimerLabels   == {"new", "asleep", "contains", "open", "write", "remove", "done"}

TypeOK ==
  /\ seqNo \in 0 .. MaxReports
  /\ lockSeq \in Handlers \union {Free} /\ lockEnd \in Handlers \union {Free}
  /\ holds \in Nat /\ (holds = 0 <=> lockEnd = Free)
  /\ mapReport \subseteq 1 .. seqNo
  /\ thrown \subseteq Handlers /\ unsaved \subseteq 1 .. seqNo
  /\ files \in [Kinds \X Ids -> {"none", "empty", "written"}]
  /\ pc \in [Actors -> HandlerLabels \union TimerLabels]
  /\ \A t \in Handlers : pc[t] \in HandlerLabels
  /\ \A i \in Ids : pc[i] \in TimerLabels /\ kind[i] = "TIMEOUT" /\ report[i] = i
  /\ kind \in [Actors -> Kinds]
  /\ report \in [Actors -> 0 .. MaxReports]

(* Two REPORTs never get the same number, so no report replaces another    *)
(* and no timeout thread is started twice.                                 *)
Numbering(t) == pc[t] \in {"increase", "store", "startTimer", "answer"}

UniqueNumbers ==
  \A t, u \in Handlers :
    Numbering(t) /\ Numbering(u) /\ report[t] = report[u] => t = u

(* However timeout, FINISH and FAIL interleave, a report leaves the map    *)
(* only after it has been written to one of its files.                     *)
NothingDiscarded ==
  \A i \in Ids :
    pc[i] # "new" => i \in mapReport \/ \E k \in Kinds : files[k, i] = "written"

(* A report is not written both as finished and as failed.                 *)
EndOnce ==
  \A i \in Ids : ~ (files["FINISH", i] = "written" /\ files["FAIL", i] = "written")

(* A handler that has left keeps the lock, and every FINISH and FAIL of    *)
(* the others waits for ever, exactly when an exception took it past the   *)
(* unlock: an error of a file, the number of no report, or a race for the  *)
(* report lost to the timeout thread after the file was opened.            *)
Ending(t) == pc[t] \in {"cancel", "contains", "open", "write", "remove", "unlock"}

RaceLost ==
  \E i \in Ids : /\ files["TIMEOUT", i] = "written"
                 /\ files["FINISH", i] = "empty" \/ files["FAIL", i] = "empty"

LockLost ==
  /\ lockEnd # Free /\ ~ Ending(lockEnd) => lockEnd \in thrown \/ RaceLost
  /\ thrown \subseteq {lockEnd}

(* Every report stored ends unless its file could not be written, even if  *)
(* no client finishes it, and even after the lock was lost: a request that *)
(* waits for it has not yet cancelled the timer.                           *)
ReportEnds == \A i \in Ids : i \in mapReport ~> i \notin mapReport \/ i \in unsaved
=============================================================================
