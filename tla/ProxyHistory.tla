---------------------------- MODULE ProxyHistory ----------------------------
(***************************************************************************)
(* The service proxies of 2022A/SUB4.  Each process cleans the history     *)
(* file when it starts and then forwards requests to the next proxy on     *)
(* their path, or to the service at its end.  A handler appends a line to  *)
(* the file, with MultipleProcessFileWriter, after it has sent the         *)
(* response, so its caller may be ahead of it.  The file is locked with a  *)
(* FileLock, which belongs to the process: a thread that asks for it while *)
(* another of its process has it, or waits for it, ends in an              *)
(* OverlappingFileLockException; and closing a channel may, depending on   *)
(* the operating system, release the lock of the whole process.            *)
(* A proxy passes the URI on as it is, and where it passes it depends on   *)
(* nothing else: a request that met a proxy twice would not come to an end.*)
(* A write may fail and leave a part of the line, and a process may be     *)
(* killed and started again; what is left of a line that is cut short is   *)
(* in the file.  Releasing a lock does not fail.                           *)
(* Bounds: MaxTime.                                                        *)
(***************************************************************************)
EXTENDS Naturals, FiniteSets, Sequences, TraceTree

CONSTANTS
  Processes,     \* the proxies, each in a process of its own
  Requests,
  Path,          \* Path[r]: the proxies request r passes through, in order
  MaxTime

ProxyAssumption ==
  /\ IsFiniteSet(Processes) /\ IsFiniteSet(Requests)
  /\ Path \in [Requests -> Seq(Processes) \ {<<>>}]
  /\ \A r \in Requests : \A j, k \in DOMAIN Path[r] : Path[r][j] = Path[r][k] => j = k
  /\ MaxTime \in Nat

VARIABLES
  up,            \* processes that have started
  pc,            \* the handler of each hop
  stamp,         \* the time in the line a handler is about to write
  file,          \* proxy.txt: what each write has appended
  holder,        \* the handler that holds the lock of the operating system
  breached,      \* a lock was released under its holder by closing a channel
  now,
  torn           \* the handlers whose line was left unfinished

vars == <<up, pc, stamp, file, holder, breached, now, torn>>

Handlers == UNION {{r} \X (1 .. Len(Path[r])) : r \in Requests}
Process(h) == Path[h[1]][h[2]]
Callee(h) == <<h[1], h[2] + 1>>
HasNext(h) == h[2] < Len(Path[h[1]])

None == <<>>
Newline == <<"newline">>

(* What a handler may be doing: the labels of a handler that is in         *)
(* writeToFile, of one that holds or awaits the lock, and of one that has  *)
(* answered its caller.                                                    *)
Locking  == {"blocked", "data", "newline", "release"}
Writing  == {"lock", "close", "abort"} \union Locking
Ended    == {"idle", "failed", "done", "lost", "error", "killed"}
Answered == {"stamp", "done", "lost", "error", "killed"} \union Writing

Init ==
  /\ up = {} /\ holder = None /\ file = <<>> /\ breached = FALSE /\ now = 0 /\ torn = {}
  /\ pc = [h \in Handlers |-> "idle"]
  /\ stamp = [h \in Handlers |-> 0]

-----------------------------------------------------------------------------
At(h, label) == pc[h] = label
Goto(h, label) == pc' = [pc EXCEPT ![h] = label]

(* cleanFile under the lock, then the server of the process starts.        *)
Start(p) ==
  /\ p \notin up /\ holder = None
  /\ up' = up \union {p}
  /\ file' = <<>>
  /\ UNCHANGED <<pc, stamp, holder, breached, now, torn>>

(* The process is killed: the operating system releases its lock, and a    *)
(* line that it has begun stays without its end.                           *)
Kill(p) ==
  /\ p \in up /\ up' = up \ {p}
  /\ LET dead == {h \in Handlers : Process(h) = p /\ pc[h] \notin Ended}
     IN  /\ pc' = [h \in Handlers |->
                    IF h \notin dead THEN pc[h]
                    ELSE IF pc[h] \in Answered THEN "killed" ELSE "failed"]
         /\ torn' = torn \union {h \in dead : At(h, "newline")}
  /\ holder' = IF holder # None /\ Process(holder) = p THEN None ELSE holder
  /\ UNCHANGED <<stamp, file, breached, now>>

(* A client's request reaches the first proxy.                             *)
Arrive(r) ==
  /\ At(<<r, 1>>, "idle") /\ Process(<<r, 1>>) \in up
  /\ Goto(<<r, 1>>, "forward")
  /\ UNCHANGED <<up, stamp, file, holder, breached, now, torn>>

(* The request is sent on; nobody answers for a process that is not up.    *)
Forward(h) ==
  /\ At(h, "forward") /\ HasNext(h)
  /\ IF Process(Callee(h)) \in up
       THEN pc' = [pc EXCEPT ![h] = "waiting", ![Callee(h)] = "forward"]
       ELSE Goto(h, "failed")
  /\ UNCHANGED <<up, stamp, file, holder, breached, now, torn>>

(* The service answers, or with an error: getInputStream throws then, and  *)
(* the handler ends without a line.                                        *)
CallService(h) ==
  /\ At(h, "forward") /\ ~ HasNext(h)
  /\ \E outcome \in {"stamp", "failed"} : Goto(h, outcome)
  /\ UNCHANGED <<up, stamp, file, holder, breached, now, torn>>

(* copyResponseBody closes the output, which completes the response.  Of   *)
(* a process that was killed the response has arrived, or not.             *)
CopyResponse(h) ==
  /\ At(h, "waiting")
  /\ \/ pc[Callee(h)] \in Answered /\ Goto(h, "stamp")
     \/ pc[Callee(h)] \in {"failed", "killed"} /\ Goto(h, "failed")
  /\ UNCHANGED <<up, stamp, file, holder, breached, now, torn>>

Stamp(h) ==
  /\ At(h, "stamp")
  /\ stamp' = [stamp EXCEPT ![h] = now]
  /\ Goto(h, "lock")
  /\ UNCHANGED <<up, file, holder, breached, now, torn>>

-----------------------------------------------------------------------------
(* writeToFile                                                             *)

Overlaps(h) ==
  \E g \in Handlers \ {h} : Process(g) = Process(h) /\ pc[g] \in Locking

(* fileChannel.lock() returns, waits for another process, or throws: the   *)
(* exception is no IOException, so only finally is left to run.            *)
(* Mutant: tryLock instead of lock.                                        *)
TryLock(h) ==
  /\ At(h, "lock") /\ ~ Overlaps(h)
  /\ IF holder = None
       THEN holder' = h /\ Goto(h, "data")
       ELSE holder' = holder /\ Goto(h, "abort")
  /\ UNCHANGED <<up, stamp, file, breached, now, torn>>

LockFile(h) ==
  /\ At(h, "lock") /\ ~ Overlaps(h)
  /\ IF holder = None
       THEN holder' = h /\ Goto(h, "data")
       ELSE holder' = holder /\ Goto(h, "blocked")
  /\ UNCHANGED <<up, stamp, file, breached, now, torn>>

(* Mutant: the lock is taken whoever holds it.                             *)
LockAnyway(h) ==
  /\ At(h, "blocked")
  /\ holder' = h /\ Goto(h, "data")
  /\ UNCHANGED <<up, stamp, file, breached, now, torn>>

LockGranted(h) ==
  /\ At(h, "blocked") /\ holder = None
  /\ holder' = h /\ Goto(h, "data")
  /\ UNCHANGED <<up, stamp, file, breached, now, torn>>

LockOverlaps(h) ==
  /\ At(h, "lock") /\ Overlaps(h)
  /\ Goto(h, "abort")
  /\ UNCHANGED <<up, stamp, file, holder, breached, now, torn>>

(* The line and the line separator are two writes at the end of the file.  *)
WriteData(h) ==
  /\ At(h, "data")
  /\ file' = Append(file, h)
  /\ Goto(h, "newline")
  /\ UNCHANGED <<up, stamp, holder, breached, now, torn>>

WriteNewline(h) ==
  /\ At(h, "newline")
  /\ file' = Append(file, Newline)
  /\ Goto(h, "release")
  /\ UNCHANGED <<up, stamp, holder, breached, now, torn>>

(* An IOException of a write: nothing of the line is in the file, a part   *)
(* of it, or all but the line separator.  The finally block comes next.    *)
WriteFails(h) ==
  /\ \/ At(h, "data") /\ UNCHANGED <<file, torn>>
     \/ At(h, "data") /\ file' = Append(file, h) /\ torn' = torn \union {h}
     \/ At(h, "newline") /\ file' = file /\ torn' = torn \union {h}
  /\ Goto(h, "release")
  /\ UNCHANGED <<up, stamp, holder, breached, now>>

Release(h) ==
  /\ At(h, "release")
  /\ holder' = IF holder = h THEN None ELSE holder
  /\ Goto(h, "close")
  /\ UNCHANGED <<up, stamp, file, breached, now, torn>>

(* close() releases the lock of another handler of the process, or not.    *)
CloseChannel(h) ==
  /\ \/ holder # None /\ Process(holder) = Process(h)
        /\ holder' = None /\ breached' = TRUE
     \/ UNCHANGED <<holder, breached>>
  /\ UNCHANGED <<up, stamp, file, now, torn>>

Close(h) == At(h, "close") /\ Goto(h, "done") /\ CloseChannel(h)

Abort(h) == At(h, "abort") /\ Goto(h, "lost") /\ CloseChannel(h)

(* An IOException of opening the file, or of locking it, after which the   *)
(* channel is closed.                                                      *)
OpenFails(h) == At(h, "lock") /\ Goto(h, "error") /\ CloseChannel(h)

Tick ==
  /\ now < MaxTime
  /\ now' = now + 1
  /\ UNCHANGED <<up, pc, stamp, file, holder, breached, torn>>

-----------------------------------------------------------------------------
Step(h) ==
  \/ Forward(h) \/ CallService(h) \/ CopyResponse(h) \/ Stamp(h)
  \/ LockFile(h) \/ LockGranted(h) \/ LockOverlaps(h)
  \/ WriteData(h) \/ WriteNewline(h) \/ WriteFails(h) \/ Release(h) \/ Close(h) \/ Abort(h)
  \/ OpenFails(h)

Next ==
  \/ \E p \in Processes : Start(p) \/ Kill(p)
  \/ \E r \in Requests : Arrive(r)
  \/ \E h \in Handlers : Step(h)
  \/ Tick

Spec == Init /\ [][Next]_vars

-----------------------------------------------------------------------------
Labels == {"idle", "forward", "waiting", "failed"} \union Answered

TypeOK ==
  /\ up \subseteq Processes
  /\ pc \in [Handlers -> Labels]
  /\ stamp \in [Handlers -> 0 .. MaxTime]
  /\ file \in Seq(Handlers \union {Newline})
  /\ holder \in Handlers \union {None}
  /\ breached \in BOOLEAN
  /\ now \in 0 .. MaxTime
  /\ torn \subseteq Handlers

(* The lines of proxy.txt are whole: what handlers write never gets into   *)
(* one line, not even over errors, kills and restarts, but for a line that *)
(* was itself left without its end; unless the operating system has        *)
(* released a lock because another thread closed its channel.              *)
LinesWhole ==
  ~ breached =>
    \A k \in DOMAIN file : file[k] # Newline =>
      \/ file[k] \in torn
      \/ k < Len(file) /\ file[k + 1] = Newline
      \/ k = Len(file) /\ At(file[k], "newline")

(* A line is lost to an overlap only where another handler of the process  *)
(* has had the lock or is going to, until it has closed or is killed: but  *)
(* for I/O errors, overlapping handlers never keep each other out.         *)
OneWriterGetsThrough ==
  \A h \in Handlers : pc[h] \in {"abort", "lost"} =>
    \E g \in Handlers : Process(g) = Process(h) /\ pc[g] \in Locking \union {"close", "done", "killed"}

(* What TraceServlet shows of a request whose handlers have all written    *)
(* their lines: if each handler stamped its line before its caller did     *)
(* (which the early response does not guarantee) the root is the call of   *)
(* the client, and the tree the chain of the calls, whatever other         *)
(* requests and processes have written in between, as whole lines.         *)
Source(h) == <<"proxy", Process(h)>>
Target(h) == IF HasNext(h) THEN Source(Callee(h)) ELSE <<"service">>
Entry(h)  == [req |-> h[1], time |-> stamp[h], source |-> Source(h), target |-> Target(h)]

History == [k \in {k \in DOMAIN file : file[k] # Newline} |-> Entry(file[k])]
Hops(r) == {h \in Handlers : h[1] = r}

Written(h) == \E k \in DOMAIN file : file[k] = h

TraceIsChain ==
  \A r \in Requests :
    /\ ~ breached /\ torn = {}
    /\ \A h \in Hops(r) : Written(h) /\ (HasNext(h) => stamp[Callee(h)] < stamp[h])
    =>
    LET tree == PopulateTree(History, r)
    IN  /\ tree.root = Entry(<<r, 1>>)
        /\ tree.calls = {<<Entry(h), Entry(Callee(h))>> : h \in {g \in Hops(r) : HasNext(g)}}
=============================================================================
