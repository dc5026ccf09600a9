--------------------------- MODULE ProgramsProofs ---------------------------
(***************************************************************************)
(* The smaller programs, for any instance of each.  The proxies, the       *)
(* pollers and the monitor queue are proved here; what is proved of the    *)
(* socket server and of the memory queue in their own modules holds of     *)
(* them as they run here.                                                  *)
(* Of the proxies, s1 is up, s2 pc, s3 stamp, s4 file, s5 holder, s6       *)
(* breached, s7 now and s8 torn; of the pollers, s1 is main, s2 submitted, *)
(* s3 pc, s4 free, s5 store and s6 given; of the monitor queue, s1 is      *)
(* queue, s2 capacity, s3 waiting and s4 woken.                            *)
(***************************************************************************)
EXTENDS Programs, TLAPS, FiniteSetTheorems, WellFoundedInduction

SP == INSTANCE SocketServerProofs WITH
  spc <- s1, name <- s2, left <- s3, listening <- s4, isStop <- s5, closing <- s6,
  received <- s7, conns <- s8, cpc <- s9, sending <- s10, sent <- s11, backup <- s12,
  logouts <- s13, truncated <- s14, lost <- s15, todo <- s16

QP == INSTANCE MemoryQueueProofs WITH
  Threads <- Users,
  current <- s1, deques <- s2, visibleFrom <- s3, msgId <- s4, pushes <- s5, pulls <- s6,
  pc <- s7, deque <- s8, msg <- s9, at <- s10, leases <- s11, shared <- s12, now <- s13

-----------------------------------------------------------------------------
(* Only one program runs.                                                  *)

LEMMA OneRuns ==
  ASSUME [Next]_vars
  PROVE  /\ program' = program
         /\ program = "history" => H!Next \/ UNCHANGED <<s1, s2, s3, s4, s5, s6, s7, s8>>
         /\ program = "socket" => S!Next \/ UNCHANGED S!vars
         /\ program = "pollers" => P!Next \/ UNCHANGED P!vars
         /\ program = "memory" => \/ Q!Next
                                  \/ UNCHANGED <<s1, s2, s3, s4, s5, s6, s7, s8, s9, s10, s11, s12, s13>>
         /\ program = "monitor" => W!Next \/ UNCHANGED <<s1, s2, s3, s4, s5, s6>>
BY DEF Next, vars, History, Socket, Pollers, Memory, Monitor, Rest13, Rest8, Rest6,
       S!vars, S!server, S!client, P!vars

-----------------------------------------------------------------------------
(* Counting.                                                               *)

(* Every set of numbers that is not empty has a least one: in what follows *)
(* something that held for all numbers below would hold for it as well.    *)
LEMMA LeastNumber ==
  ASSUME NEW T \in SUBSET Nat, T # {}
  PROVE  \E x \in T : \A y \in T : x <= y
<1> DEFINE R == StrictSubsetOrdering(Nat)
           F == FiniteSubsetsOf(Nat)
           U == {0 .. x : x \in T}
<1>1. IsWellFoundedOn(R, F)
  BY FS_StrictSubsetOrderingWellFounded
<1>2. U \subseteq F /\ U # {}
  <2>1. ASSUME NEW x \in T PROVE 0 .. x \in F
    <3>1. x \in Int /\ 0 \in Int /\ 0 .. x \subseteq Nat
      OBVIOUS
    <3>2. IsFiniteSet(0 .. x)
      BY <3>1, FS_Interval
    <3> QED
      BY <3>1, <3>2 DEF FiniteSubsetsOf
  <2> QED
    BY <2>1
<1>3. \E a \in U : \A b \in U : ~ (<<b, a>> \in R)
  <2> HIDE DEF R, F, U
  <2> QED
    BY <1>1, <1>2, WFMin
<1>4. PICK x \in T : \A b \in U : ~ (<<b, 0 .. x>> \in R)
  BY <1>3
<1>5. ASSUME NEW y \in T PROVE x <= y
  <2> SUFFICES ASSUME y < x PROVE FALSE
    OBVIOUS
  <2>1. 0 .. y \in U /\ 0 .. x \in U
    OBVIOUS
  <2>2. 0 .. y \subseteq 0 .. x /\ 0 .. y # 0 .. x
    <3>1. x \in 0 .. x /\ x \notin 0 .. y
      OBVIOUS
    <3> QED
      BY <3>1
  <2>3. <<0 .. y, 0 .. x>> \in R
    BY <2>2, <2>1, <1>2 DEF StrictSubsetOrdering, FiniteSubsetsOf
  <2> QED
    BY <2>1, <2>3, <1>4
<1> QED
  BY <1>5

(* A set of numbers with 0 and with the successor of each of its numbers   *)
(* up to n has all of them.                                                *)
LEMMA CountUp ==
  ASSUME NEW n \in Nat, NEW T, 0 \in T,
         \A k \in 0 .. n - 1 : k \in T => k + 1 \in T
  PROVE  0 .. n \subseteq T
<1> DEFINE Missed == (0 .. n) \ T
<1> SUFFICES ASSUME Missed # {} PROVE FALSE
  OBVIOUS
<1>1. PICK k \in Missed : \A j \in Missed : k <= j
  <2>1. Missed \in SUBSET Nat
    OBVIOUS
  <2> HIDE DEF Missed
  <2> QED
    BY <2>1, LeastNumber
<1>2. k # 0 /\ k \in 0 .. n
  OBVIOUS
<1>3. k - 1 \in 0 .. n - 1 /\ k - 1 \in T
  <2>1. k - 1 \in 0 .. n - 1
    BY <1>2
  <2>2. k - 1 \notin Missed
    BY <1>1, <1>2
  <2> QED
    BY <2>1, <2>2
<1>4. (k - 1) + 1 = k
  BY <1>2
<1> QED
  BY <1>3, <1>4

-----------------------------------------------------------------------------
(* The proxies and the history file.                                       *)

(* A handler starts with its request, once: what its caller starts has not *)
(* run before.                                                             *)
StartedOnce ==
  \A h \in H!Handlers : H!HasNext(h) /\ s2[h] \in {"idle", "forward"} => H!At(H!Callee(h), "idle")

(* As long as no channel was closed under it, the lock of a handler that   *)
(* writes is its own.                                                      *)
WriterHolds ==
  ~ s6 => \A h \in H!Handlers : s2[h] \in {"data", "newline", "release"} => s5 = h

HistoryInv == H!TypeOK /\ StartedOnce /\ WriterHolds /\ H!LinesWhole /\ H!OneWriterGetsThrough

-----------------------------------------------------------------------------
(* Handlers are pairs, the other entries of the file and the lock are not. *)
LEMMA HandlerPairs ==
  ASSUME H!ProxyAssumption, NEW h \in H!Handlers
  PROVE  /\ h # H!Newline /\ h # H!None
         /\ h[1] \in Requests /\ h[2] \in 1 .. Len(Path[h[1]])
         /\ Len(Path[h[1]]) \in Nat
         /\ H!HasNext(h) => H!Callee(h) \in H!Handlers /\ H!Callee(h) # h
<1>1. PICK r \in Requests : h \in {r} \X (1 .. Len(Path[r]))
  BY DEF H!Handlers
<1>2. PICK k \in 1 .. Len(Path[r]) : h = <<r, k>>
  BY <1>1
<1>3. Len(Path[r]) \in Nat
  BY DEF H!ProxyAssumption
<1>4. h # H!Newline /\ h # H!None
  BY <1>2 DEF H!Newline, H!None
<1>5. ASSUME H!HasNext(h) PROVE H!Callee(h) \in H!Handlers /\ H!Callee(h) # h
  <2>1. k + 1 \in 1 .. Len(Path[r]) /\ k + 1 # k
    BY <1>2, <1>3, <1>5 DEF H!HasNext
  <2>2. H!Callee(h) = <<r, k + 1>>
    BY <1>2 DEF H!Callee
  <2>3. <<r, k + 1>> \in {r} \X (1 .. Len(Path[r]))
    BY <2>1
  <2> QED
    BY <1>2, <2>1, <2>2, <2>3 DEF H!Handlers
<1> QED
  BY <1>2, <1>3, <1>4, <1>5

LEMMA FirstHandler ==
  ASSUME H!ProxyAssumption, NEW r \in Requests
  PROVE  <<r, 1>> \in H!Handlers
<1>1. 1 \in 1 .. Len(Path[r])
  BY DEF H!ProxyAssumption
<1>2. <<r, 1>> \in {r} \X (1 .. Len(Path[r]))
  BY <1>1
<1> QED
  BY <1>2 DEF H!Handlers

LEMMA HistoryInit ==
  ASSUME H!ProxyAssumption, H!Init
  PROVE  HistoryInv
<1>1. \A h \in H!Handlers : H!HasNext(h) => H!Callee(h) \in H!Handlers
  BY HandlerPairs
<1>2. H!TypeOK
  <2>1. /\ s1 \subseteq Processes /\ s2 \in [H!Handlers -> H!Labels] /\ s6 \in BOOLEAN
        /\ s8 \subseteq H!Handlers
    BY DEF H!Init, H!Labels
  <2>2. s3 \in [H!Handlers -> 0 .. MaxStamp] /\ s7 \in 0 .. MaxStamp
    BY DEF H!Init, H!ProxyAssumption
  <2>3. s4 \in Seq(H!Handlers \union {H!Newline}) /\ s5 \in H!Handlers \union {H!None}
    BY DEF H!Init
  <2> QED
    BY <2>1, <2>2, <2>3 DEF H!TypeOK
<1>3. StartedOnce /\ WriterHolds
  BY <1>1 DEF H!Init, StartedOnce, WriterHolds, H!At
<1>4. H!LinesWhole /\ H!OneWriterGetsThrough
  BY DEF H!Init, H!LinesWhole, H!OneWriterGetsThrough
<1> QED
  BY <1>2, <1>3, <1>4 DEF HistoryInv

-----------------------------------------------------------------------------
(* What a step does to the control of the handlers.                        *)

LEMMA Moves ==
  ASSUME H!TypeOK, NEW h \in H!Handlers, NEW label \in H!Labels, H!Goto(h, label)
  PROVE  /\ s2' \in [H!Handlers -> H!Labels] /\ s2'[h] = label
         /\ \A g \in H!Handlers : g # h => s2'[g] = s2[g]
  BY DEF H!Goto, H!TypeOK

(* Only a request, or its caller, starts a handler; the others go on.      *)
Ahead(h, label) ==
  /\ ~ H!At(h, "idle") /\ label \in H!Labels \ {"idle", "forward"}
  /\ H!Goto(h, label)

LEMMA AheadKeeps ==
  ASSUME H!ProxyAssumption, H!TypeOK, StartedOnce, NEW h \in H!Handlers, NEW label, Ahead(h, label)
  PROVE  StartedOnce'
<1>1. /\ s2'[h] = label /\ label \notin {"idle", "forward"} /\ s2[h] # "idle"
      /\ \A g \in H!Handlers : g # h => s2'[g] = s2[g]
  BY Moves DEF Ahead, H!At
<1>2. ASSUME NEW g \in H!Handlers, H!HasNext(g), s2'[g] \in {"idle", "forward"}
      PROVE  s2'[H!Callee(g)] = "idle"
  <2>1. s2'[g] = s2[g]
    BY <1>1, <1>2
  <2>2. s2[H!Callee(g)] = "idle" /\ H!Callee(g) \in H!Handlers
    BY <1>2, <2>1, HandlerPairs DEF StartedOnce, H!At
  <2> QED
    BY <1>1, <2>2
<1> QED
  BY <1>2 DEF StartedOnce, H!At, H!HasNext, H!Callee

(* Every step of a handler but a Forward that succeeds takes it ahead.     *)
LEMMA StepsAhead ==
  ASSUME H!ProxyAssumption, H!TypeOK, NEW h \in H!Handlers, H!Step(h)
  PROVE  \/ \E label : Ahead(h, label)
         \/ H!Forward(h) /\ H!Process(H!Callee(h)) \in s1
<1> USE DEF Ahead, H!At, H!Labels, H!Answered, H!Writing, H!Locking
<1>1. CASE H!Forward(h)
  BY <1>1 DEF H!Forward
<1>2. CASE H!CallService(h)
  BY <1>2 DEF H!CallService
<1>3. CASE H!CopyResponse(h)
  BY <1>3 DEF H!CopyResponse
<1>4. CASE H!Stamp(h)
  BY <1>4 DEF H!Stamp
<1>5. CASE H!LockFile(h) \/ H!LockGranted(h) \/ H!LockOverlaps(h)
  BY <1>5 DEF H!LockFile, H!LockGranted, H!LockOverlaps
<1>6. CASE H!WriteData(h) \/ H!WriteNewline(h) \/ H!WriteFails(h) \/ H!Release(h)
  BY <1>6 DEF H!WriteData, H!WriteNewline, H!WriteFails, H!Release
<1>7. CASE H!Close(h) \/ H!Abort(h) \/ H!OpenFails(h)
  BY <1>7 DEF H!Close, H!Abort, H!OpenFails
<1> QED
  BY <1>1, <1>2, <1>3, <1>4, <1>5, <1>6, <1>7 DEF H!Step

(* A Forward that succeeds starts a handler that nobody has started.       *)
LEMMA ForwardStarts ==
  ASSUME H!ProxyAssumption, H!TypeOK, StartedOnce, NEW h \in H!Handlers,
         H!Forward(h), H!Process(H!Callee(h)) \in s1
  PROVE  /\ s2' \in [H!Handlers -> H!Labels]
         /\ H!Callee(h) \in H!Handlers /\ H!Callee(h) # h
         /\ s2[h] = "forward" /\ s2'[h] = "waiting"
         /\ s2[H!Callee(h)] = "idle" /\ s2'[H!Callee(h)] = "forward"
         /\ \A g \in H!Handlers : g # h /\ g # H!Callee(h) => s2'[g] = s2[g]
<1>1. H!Callee(h) \in H!Handlers /\ H!Callee(h) # h
  BY HandlerPairs DEF H!Forward
<1>2. s2[h] = "forward" /\ s2[H!Callee(h)] = "idle"
  BY DEF H!Forward, H!At, StartedOnce
<1>3. s2' = [s2 EXCEPT ![h] = "waiting", ![H!Callee(h)] = "forward"]
  BY DEF H!Forward
<1> QED
  BY <1>1, <1>2, <1>3 DEF H!TypeOK, H!Labels

LEMMA ArriveStarts ==
  ASSUME H!ProxyAssumption, H!TypeOK, NEW r \in Requests, H!Arrive(r)
  PROVE  /\ <<r, 1>> \in H!Handlers /\ s2[<<r, 1>>] = "idle" /\ s2'[<<r, 1>>] = "forward"
         /\ s2' \in [H!Handlers -> H!Labels]
         /\ \A g \in H!Handlers : g # <<r, 1>> => s2'[g] = s2[g]
  BY FirstHandler, Moves DEF H!Arrive, H!At, H!Labels

(* A kill ends handlers, and that is all it does to their control.         *)
LEMMA KillEnds ==
  ASSUME H!TypeOK, NEW p \in Processes, H!Kill(p)
  PROVE  /\ s2' \in [H!Handlers -> H!Labels]
         /\ \A g \in H!Handlers :
              \/ s2'[g] = s2[g] \/ (s2'[g] = "failed" /\ s2[g] \notin H!Answered \union H!Ended)
              \/ s2'[g] = "killed" /\ s2[g] \in H!Answered \ H!Ended
         /\ \A g \in H!Handlers : H!At(g, "newline") => s2'[g] = "newline" \/ g \in s8'
  BY DEF H!Kill, H!TypeOK, H!Labels, H!Answered, H!At, H!Ended

LEMMA StartedStep ==
  ASSUME H!ProxyAssumption, H!TypeOK, StartedOnce, [H!Next]_H!vars
  PROVE  StartedOnce'
<1>1. ASSUME UNCHANGED s2 PROVE StartedOnce'
  BY <1>1 DEF StartedOnce, H!At
<1>2. ASSUME NEW r \in Requests, H!Arrive(r) PROVE StartedOnce'
  <2> DEFINE a == <<r, 1>>
  <2>1. /\ a \in H!Handlers /\ a[2] = 1 /\ s2[a] = "idle"
        /\ \A g \in H!Handlers : g # a => s2'[g] = s2[g]
    BY <1>2, ArriveStarts
  <2>2. ASSUME NEW g \in H!Handlers, H!HasNext(g), s2'[g] \in {"idle", "forward"}
        PROVE  s2'[H!Callee(g)] = "idle"
    <3>1. s2[g] \in {"idle", "forward"}
      BY <2>1, <2>2
    <3>2. s2[H!Callee(g)] = "idle" /\ H!Callee(g) \in H!Handlers
      BY <2>2, <3>1, HandlerPairs DEF StartedOnce, H!At
    <3>3. H!Callee(g) # a
      <4>1. H!Callee(g)[2] = g[2] + 1 /\ g[2] \in Nat /\ g[2] >= 1
        <5>1. g[2] \in 1 .. Len(Path[g[1]]) /\ Len(Path[g[1]]) \in Nat
          BY HandlerPairs
        <5> QED
          BY <5>1 DEF H!Callee
      <4> QED
        BY <2>1, <4>1
    <3> QED
      BY <2>1, <3>2, <3>3
  <2> QED
    BY <2>2 DEF StartedOnce, H!At, H!HasNext, H!Callee
<1>3. ASSUME NEW h \in H!Handlers, H!Forward(h), H!Process(H!Callee(h)) \in s1 PROVE StartedOnce'
  <2>1. /\ H!Callee(h) \in H!Handlers /\ H!Callee(h) # h
        /\ s2'[h] = "waiting" /\ s2[H!Callee(h)] = "idle"
        /\ \A g \in H!Handlers : g # h /\ g # H!Callee(h) => s2'[g] = s2[g]
    BY <1>3, ForwardStarts
  <2>2. ASSUME NEW g \in H!Handlers, H!HasNext(g), s2'[g] \in {"idle", "forward"}
        PROVE  s2'[H!Callee(g)] = "idle"
    <3>1. s2[g] \in {"idle", "forward"} /\ g # h
      BY <2>1, <2>2
    <3>2. s2[H!Callee(g)] = "idle" /\ H!Callee(g) \in H!Handlers
      BY <2>2, <3>1, HandlerPairs DEF StartedOnce, H!At
    <3>3. H!Callee(g) # H!Callee(h)
      <4>1. /\ g = <<g[1], g[2]>> /\ g[2] \in Nat
            /\ h = <<h[1], h[2]>> /\ h[2] \in Nat
        BY HandlerPairs DEF H!Handlers
      <4> QED
        BY <3>1, <4>1 DEF H!Callee
    <3>4. H!Callee(g) # h
      BY <1>3, <3>2 DEF H!Forward, H!At
    <3> QED
      BY <2>1, <3>2, <3>3, <3>4
  <2> QED
    BY <2>2 DEF StartedOnce, H!At, H!HasNext, H!Callee
<1>4. ASSUME NEW h \in H!Handlers, H!Step(h) PROVE StartedOnce'
  BY <1>3, <1>4, StepsAhead, AheadKeeps
<1>5. ASSUME NEW p \in Processes, H!Kill(p) PROVE StartedOnce'
  <2>1. ASSUME NEW g \in H!Handlers, H!HasNext(g), s2'[g] \in {"idle", "forward"}
        PROVE  s2'[H!Callee(g)] = "idle"
    <3>1. s2[g] \in {"idle", "forward"}
      BY <1>5, <2>1, KillEnds
    <3>2. s2[H!Callee(g)] = "idle" /\ H!Callee(g) \in H!Handlers
      BY <2>1, <3>1, HandlerPairs DEF StartedOnce, H!At
    <3> QED
      BY <1>5, <3>2, KillEnds DEF H!Ended
  <2> QED
    BY <2>1 DEF StartedOnce, H!At, H!HasNext, H!Callee
<1> QED
  BY <1>1, <1>2, <1>4, <1>5 DEF H!Next, H!Start, H!Tick, H!vars

-----------------------------------------------------------------------------
LEMMA HistoryTypes ==
  ASSUME H!ProxyAssumption, H!TypeOK, StartedOnce, [H!Next]_H!vars
  PROVE  H!TypeOK'
<1>1. s2' \in [H!Handlers -> H!Labels]
  <2>1. ASSUME NEW h \in H!Handlers, H!Step(h) PROVE s2' \in [H!Handlers -> H!Labels]
    BY <2>1, StepsAhead, ForwardStarts, Moves DEF Ahead
  <2>2. ASSUME UNCHANGED s2 PROVE s2' \in [H!Handlers -> H!Labels]
    BY <2>2 DEF H!TypeOK
  <2> QED
    BY <2>1, <2>2, ArriveStarts, KillEnds DEF H!Next, H!Start, H!Tick, H!vars
<1>2. s1' \subseteq Processes
  <2>1. s1' = s1 \/ \E p \in Processes : s1' \in {s1 \union {p}, s1 \ {p}}
    BY DEF H!Next, H!Start, H!Kill, H!Arrive, H!Tick, H!vars, H!Step, H!Forward, H!CallService, H!CopyResponse, H!Stamp,
           H!LockFile, H!LockGranted, H!LockOverlaps, H!WriteData, H!WriteNewline, H!WriteFails, H!Release,
           H!Close, H!Abort, H!OpenFails, H!CloseChannel
  <2> QED
    BY <2>1 DEF H!TypeOK
<1>3. s5' \in H!Handlers \union {H!None} /\ s6' \in BOOLEAN
  <2>1. /\ \/ s5' \in {s5, H!None} \/ \E h \in H!Handlers : s5' = h
        /\ s6' \in {s6, TRUE}
    BY DEF H!Next, H!Start, H!Kill, H!Arrive, H!Tick, H!vars, H!Step, H!Forward, H!CallService, H!CopyResponse, H!Stamp,
           H!LockFile, H!LockGranted, H!LockOverlaps, H!WriteData, H!WriteNewline, H!WriteFails, H!Release,
           H!Close, H!Abort, H!OpenFails, H!CloseChannel
  <2> QED
    BY <2>1 DEF H!TypeOK
<1>4. s4' \in Seq(H!Handlers \union {H!Newline})
  <2> DEFINE Entries == H!Handlers \union {H!Newline}
  <2>1. \/ s4' = s4 \/ s4' = <<>>
        \/ \E x \in Entries : s4' = Append(s4, x)
    BY DEF H!Next, H!Start, H!Kill, H!Arrive, H!Tick, H!vars, H!Step, H!Forward, H!CallService, H!CopyResponse, H!Stamp,
           H!LockFile, H!LockGranted, H!LockOverlaps, H!WriteData, H!WriteNewline, H!WriteFails, H!Release,
           H!Close, H!Abort, H!OpenFails, H!CloseChannel
  <2>2. s4 \in Seq(Entries)
    BY DEF H!TypeOK
  <2>3. s4' \in Seq(Entries)
    <3> HIDE DEF Entries
    <3>1. <<>> \in Seq(Entries)
      OBVIOUS
    <3>2. ASSUME NEW x \in Entries, s4' = Append(s4, x) PROVE s4' \in Seq(Entries)
      BY <2>2, <3>2
    <3> QED
      BY <2>1, <2>2, <3>1, <3>2
  <2> QED
    BY <2>3
<1>5. s3' \in [H!Handlers -> 0 .. MaxStamp] /\ s7' \in 0 .. MaxStamp
  <2>1. /\ s3' = s3 \/ \E h \in H!Handlers : s3' = [s3 EXCEPT ![h] = s7]
        /\ s7' = s7 \/ (s7 < MaxStamp /\ s7' = s7 + 1)
    BY DEF H!Next, H!Start, H!Kill, H!Arrive, H!Tick, H!vars, H!Step, H!Forward, H!CallService, H!CopyResponse, H!Stamp,
           H!LockFile, H!LockGranted, H!LockOverlaps, H!WriteData, H!WriteNewline, H!WriteFails, H!Release,
           H!Close, H!Abort, H!OpenFails, H!CloseChannel
  <2>2. s3 \in [H!Handlers -> 0 .. MaxStamp] /\ s7 \in 0 .. MaxStamp /\ MaxStamp \in Nat
    BY DEF H!TypeOK, H!ProxyAssumption
  <2>3. s7' \in 0 .. MaxStamp
    BY <2>1, <2>2
  <2>4. s3' \in [H!Handlers -> 0 .. MaxStamp]
    BY <2>1, <2>2
  <2> QED
    BY <2>3, <2>4
<1>6. s8' \subseteq H!Handlers
  <2>1. \/ s8' = s8 \/ \E h \in H!Handlers : s8' = s8 \union {h}
        \/ \E p \in Processes : H!Kill(p)
    BY DEF H!Next, H!Start, H!Arrive, H!Tick, H!vars, H!Step, H!Forward, H!CallService, H!CopyResponse, H!Stamp,
           H!LockFile, H!LockGranted, H!LockOverlaps, H!WriteData, H!WriteNewline, H!WriteFails, H!Release,
           H!Close, H!Abort, H!OpenFails, H!CloseChannel
  <2> QED
    BY <2>1 DEF H!TypeOK, H!Kill
<1> QED
  BY <1>1, <1>2, <1>3, <1>4, <1>5, <1>6 DEF H!TypeOK

-----------------------------------------------------------------------------
(* The lock.                                                               *)

Inside == {"data", "newline", "release"}

(* Steps that neither enter nor leave the part under the lock.             *)
LEMMA OutsideSteps ==
  ASSUME H!ProxyAssumption, H!TypeOK, StartedOnce,
         \/ \E p \in Processes : H!Start(p)
         \/ \E r \in Requests : H!Arrive(r)
         \/ \E h \in H!Handlers : H!Forward(h) \/ H!CallService(h) \/ H!CopyResponse(h) \/ H!Stamp(h)
                                  \/ H!LockOverlaps(h)
         \/ H!Tick \/ UNCHANGED H!vars
  PROVE  /\ UNCHANGED <<s5, s6>>
         /\ \A g \in H!Handlers : s2[g] \in Inside \/ s2'[g] \in Inside => s2'[g] = s2[g]
<1>1. UNCHANGED <<s5, s6>>
  BY DEF H!Start, H!Arrive, H!Forward, H!CallService, H!CopyResponse, H!Stamp, H!LockOverlaps, H!Tick, H!vars
<1>2. ASSUME NEW h \in H!Handlers, NEW label \in H!Labels \ Inside,
             s2[h] \notin Inside, H!Goto(h, label), NEW g \in H!Handlers,
             s2[g] \in Inside \/ s2'[g] \in Inside
      PROVE  s2'[g] = s2[g]
  BY <1>2, Moves
<1>3. ASSUME NEW r \in Requests, H!Arrive(r), NEW g \in H!Handlers,
             s2[g] \in Inside \/ s2'[g] \in Inside
      PROVE  s2'[g] = s2[g]
  BY <1>3, ArriveStarts DEF Inside
<1>4. ASSUME NEW h \in H!Handlers, H!Forward(h), NEW g \in H!Handlers,
             s2[g] \in Inside \/ s2'[g] \in Inside
      PROVE  s2'[g] = s2[g]
  <2>1. CASE H!Process(H!Callee(h)) \in s1
    BY <1>4, <2>1, ForwardStarts DEF Inside
  <2>2. CASE H!Process(H!Callee(h)) \notin s1
    <3>1. H!Goto(h, "failed") /\ s2[h] = "forward"
      BY <1>4, <2>2 DEF H!Forward, H!At
    <3> QED
      BY <1>2, <1>4, <3>1 DEF H!Labels, Inside
  <2> QED
    BY <2>1, <2>2
<1>5. ASSUME NEW h \in H!Handlers,
             H!CallService(h) \/ H!CopyResponse(h) \/ H!Stamp(h) \/ H!LockOverlaps(h),
             NEW g \in H!Handlers, s2[g] \in Inside \/ s2'[g] \in Inside
      PROVE  s2'[g] = s2[g]
  <2>1. \E label \in H!Labels \ Inside : H!Goto(h, label)
    BY <1>5 DEF H!CallService, H!CopyResponse, H!Stamp, H!LockOverlaps, H!Labels, H!Answered, H!Writing,
                H!Locking, Inside
  <2>2. s2[h] \notin Inside
    BY <1>5 DEF H!CallService, H!CopyResponse, H!Stamp, H!LockOverlaps, H!At, Inside
  <2> QED
    BY <1>2, <1>5, <2>1, <2>2
<1>6. ASSUME UNCHANGED s2, NEW g \in H!Handlers PROVE s2'[g] = s2[g]
  BY <1>6
<1> QED
  BY <1>1, <1>3, <1>4, <1>5, <1>6 DEF H!Start, H!Tick, H!vars

(* The end of a handler's writing, or of one that could not open the file, *)
(* where closing the channel either leaves the lock alone or breaches it.  *)
LEMMA CloseSteps ==
  ASSUME H!TypeOK, NEW h \in H!Handlers, H!Close(h) \/ H!Abort(h) \/ H!OpenFails(h)
  PROVE  /\ ~ s6' => UNCHANGED <<s5, s6>>
         /\ UNCHANGED <<s4, s8>> /\ s2[h] \notin Inside /\ s2'[h] \notin Inside
         /\ \A g \in H!Handlers : g # h => s2'[g] = s2[g]
<1>1. ~ s6' => UNCHANGED <<s5, s6>>
  BY DEF H!Close, H!Abort, H!OpenFails, H!CloseChannel
<1>2. UNCHANGED <<s4, s8>>
  BY DEF H!Close, H!Abort, H!OpenFails, H!CloseChannel
<1>3. H!Goto(h, "done") \/ H!Goto(h, "lost") \/ H!Goto(h, "error")
  BY DEF H!Close, H!Abort, H!OpenFails
<1>4. s2[h] \notin Inside
  BY DEF H!Close, H!Abort, H!OpenFails, H!At, Inside
<1> QED
  BY <1>1, <1>2, <1>3, <1>4, Moves DEF H!Labels, H!Answered, H!Writing, Inside

LEMMA HoldsStep ==
  ASSUME H!ProxyAssumption, H!TypeOK, StartedOnce, WriterHolds, [H!Next]_H!vars
  PROVE  WriterHolds'
<1> SUFFICES ASSUME ~ s6', NEW g \in H!Handlers, s2'[g] \in Inside
             PROVE  s5' = g
  BY DEF WriterHolds, Inside
<1>1. ~ s6 => \A f \in H!Handlers : s2[f] \in Inside => s5 = f
  BY DEF WriterHolds, Inside
<1>2. CASE \/ \E p \in Processes : H!Start(p)
           \/ \E r \in Requests : H!Arrive(r)
           \/ \E h \in H!Handlers : H!Forward(h) \/ H!CallService(h) \/ H!CopyResponse(h) \/ H!Stamp(h)
                                    \/ H!LockOverlaps(h)
           \/ H!Tick \/ UNCHANGED H!vars
  BY <1>1, <1>2, OutsideSteps
<1>3. ASSUME NEW h \in H!Handlers, H!LockFile(h) \/ H!LockGranted(h) PROVE s5' = g
  <2>1. \E label \in {"data", "blocked"} : H!Goto(h, label)
    BY <1>3 DEF H!LockFile, H!LockGranted
  <2>2. /\ \A f \in H!Handlers : f # h => s2'[f] = s2[f]
        /\ s2'[h] = "data" \/ (s2'[h] = "blocked" /\ H!LockFile(h))
        /\ s6' = s6
    BY <1>3, <2>1, Moves DEF H!LockFile, H!LockGranted, H!Labels, H!Answered, H!Writing, H!Locking
  <2>3. CASE s5 = H!None
    <3>1. s5' = h
      BY <1>3, <2>3 DEF H!LockFile, H!LockGranted
    <3>2. g = h
      BY <1>1, <2>2, <2>3, HandlerPairs
    <3> QED
      BY <3>1, <3>2
  <2>4. CASE s5 # H!None
    <3>1. s5' = s5 /\ H!Goto(h, "blocked")
      BY <1>3, <2>4 DEF H!LockFile, H!LockGranted
    <3>2. s2'[h] = "blocked"
      BY <3>1, Moves DEF H!Labels, H!Answered, H!Writing, H!Locking
    <3> QED
      BY <1>1, <2>2, <3>1, <3>2 DEF Inside
  <2> QED
    BY <2>3, <2>4
<1>4. ASSUME NEW h \in H!Handlers, H!WriteData(h) \/ H!WriteNewline(h) \/ H!WriteFails(h) PROVE s5' = g
  <2>1. \E label \in Inside : H!Goto(h, label)
    BY <1>4 DEF H!WriteData, H!WriteNewline, H!WriteFails, Inside
  <2>2. s2[h] \in Inside /\ UNCHANGED <<s5, s6>>
    BY <1>4 DEF H!WriteData, H!WriteNewline, H!WriteFails, Inside, H!At
  <2>3. \A f \in H!Handlers : f # h => s2'[f] = s2[f]
    BY <2>1, Moves DEF H!Labels, H!Answered, H!Writing, H!Locking, Inside
  <2> QED
    BY <1>1, <2>2, <2>3
<1>5. ASSUME NEW h \in H!Handlers, H!Release(h) PROVE s5' = g
  <2>1. s2[h] \in Inside /\ s6' = s6 /\ H!Goto(h, "close")
    BY <1>5 DEF H!Release, Inside, H!At
  <2>2. g # h /\ s2'[g] = s2[g]
    BY <2>1, Moves DEF H!Labels, H!Answered, H!Writing, Inside
  <2>3. s5 = h /\ s5 = g
    BY <1>1, <2>1, <2>2
  <2> QED
    BY <2>2, <2>3
<1>6. ASSUME NEW h \in H!Handlers, H!Close(h) \/ H!Abort(h) \/ H!OpenFails(h) PROVE s5' = g
  BY <1>1, <1>6, CloseSteps
<1>7. ASSUME NEW p \in Processes, H!Kill(p) PROVE s5' = g
  <2>1. s6' = s6 /\ s2[g] \in Inside /\ s2'[g] = s2[g]
    BY <1>7, KillEnds DEF H!Kill, Inside
  <2>2. s5 = g /\ g # H!None
    BY <1>1, <2>1, HandlerPairs
  <2>3. H!Process(g) # p
    <3>1. s2'[g] = IF H!Process(g) = p THEN "killed" ELSE s2[g]
      BY <1>7, <2>1 DEF H!Kill, Inside, H!Answered, H!Writing, H!Locking, H!Ended
    <3> QED
      BY <2>1, <3>1 DEF Inside
  <2> QED
    BY <1>7, <2>2, <2>3 DEF H!Kill
<1> QED
  BY <1>2, <1>3, <1>4, <1>5, <1>6, <1>7 DEF H!Next, H!Step

-----------------------------------------------------------------------------
(* The lines.                                                              *)

(* What LinesWhole says of the entry at position k of the file f.          *)
WholeAt(f, k) ==
  f[k] # H!Newline =>
    \/ f[k] \in s8
    \/ k < Len(f) /\ f[k + 1] = H!Newline
    \/ k = Len(f) /\ H!At(f[k], "newline")

LEMMA FileTypes ==
  ASSUME H!TypeOK
  PROVE  /\ s4 \in Seq(H!Handlers \union {H!Newline}) /\ Len(s4) \in Nat
         /\ DOMAIN s4 = 1 .. Len(s4)
         /\ \A k \in DOMAIN s4 : s4[k] # H!Newline => s4[k] \in H!Handlers
<1> DEFINE Entries == H!Handlers \union {H!Newline}
<1>1. s4 \in Seq(Entries)
  BY DEF H!TypeOK
<1>2. Len(s4) \in Nat /\ DOMAIN s4 = 1 .. Len(s4) /\ \A k \in DOMAIN s4 : s4[k] \in Entries
  <2> HIDE DEF Entries
  <2> QED
    BY <1>1
<1> QED
  BY <1>1, <1>2

(* The lines stay whole as long as nothing is added and the handler that   *)
(* is between its two writes stays there, or leaves its line unfinished.   *)
LEMMA LinesStay ==
  ASSUME H!TypeOK, H!LinesWhole, s4' = s4, ~ s6' => ~ s6, s8 \subseteq s8',
         \A g \in H!Handlers : s2[g] = "newline" => s2'[g] = "newline" \/ g \in s8'
  PROVE  H!LinesWhole'
<1> SUFFICES ASSUME ~ s6', NEW k \in DOMAIN s4', s4'[k] # H!Newline
             PROVE  WholeAt(s4, k)'
  BY DEF H!LinesWhole, WholeAt
<1>1. WholeAt(s4, k) /\ s4[k] # H!Newline /\ s4[k] \in H!Handlers
  BY FileTypes DEF H!LinesWhole, WholeAt
<1> QED
  BY <1>1 DEF WholeAt, H!At

(* The data goes to the end of the file, where a handler that has not      *)
(* written its line separator yet would still have the lock.               *)
LEMMA DataStep ==
  ASSUME H!ProxyAssumption, H!TypeOK, WriterHolds, H!LinesWhole, NEW h \in H!Handlers,
         H!At(h, "data"), s4' = Append(s4, h), ~ s6' => ~ s6, s8 \subseteq s8',
         s2'[h] = "newline" \/ h \in s8', \A g \in H!Handlers : g # h => s2'[g] = s2[g]
  PROVE  H!LinesWhole'
<1> SUFFICES ASSUME ~ s6, NEW k \in DOMAIN s4', s4'[k] # H!Newline
             PROVE  WholeAt(s4, k)'
  BY DEF H!LinesWhole, WholeAt
<1>1. s2[h] = "data"
  BY DEF H!At
<1>2. ASSUME NEW j \in DOMAIN s4, s4[j] # H!Newline
      PROVE  s4[j] \in s8 \/ (j < Len(s4) /\ s4[j + 1] = H!Newline)
  <2>1. WholeAt(s4, j) /\ s4[j] \in H!Handlers
    BY <1>2, FileTypes DEF H!LinesWhole, WholeAt
  <2>2. s2[s4[j]] # "newline"
    <3> SUFFICES ASSUME s2[s4[j]] = "newline" PROVE FALSE
      OBVIOUS
    <3>1. s5 = s4[j] /\ s5 = h
      BY <1>1, <2>1 DEF WriterHolds
    <3> QED
      BY <1>1, <3>1
  <2> QED
    BY <1>2, <2>1, <2>2 DEF WholeAt, H!At
<1>3. /\ Len(s4) \in Nat /\ DOMAIN s4 = 1 .. Len(s4)
      /\ Len(s4') = Len(s4) + 1 /\ DOMAIN s4' = 1 .. Len(s4) + 1
      /\ \A j \in 1 .. Len(s4) : s4'[j] = s4[j]
      /\ s4'[Len(s4) + 1] = h
  <2> DEFINE Entries == H!Handlers \union {H!Newline}
  <2>1. s4 \in Seq(Entries) /\ h \in Entries
    BY FileTypes
  <2> HIDE DEF Entries
  <2> QED
    BY <2>1
<1>4. CASE k = Len(s4) + 1
  BY <1>3, <1>4 DEF WholeAt, H!At
<1>5. CASE k # Len(s4) + 1
  <2>1. k \in DOMAIN s4 /\ s4[k] # H!Newline /\ s4'[k] = s4[k] /\ k \in Nat
    BY <1>3, <1>5
  <2>2. s4[k] \in s8 \/ (k < Len(s4) /\ s4[k + 1] = H!Newline)
    BY <1>2, <2>1
  <2>3. s4'[k] \in s8' \/ (k < Len(s4') /\ s4'[k + 1] = H!Newline)
    BY <1>3, <2>1, <2>2
  <2> QED
    BY <2>3 DEF WholeAt
<1> QED
  BY <1>4, <1>5

(* The line separator goes behind the data of the same handler.            *)
LEMMA NewlineStep ==
  ASSUME H!ProxyAssumption, H!TypeOK, H!LinesWhole, NEW h \in H!Handlers, H!WriteNewline(h)
  PROVE  H!LinesWhole'
<1> SUFFICES ASSUME ~ s6, NEW k \in DOMAIN s4', s4'[k] # H!Newline
             PROVE  WholeAt(s4, k)'
  BY DEF H!LinesWhole, WholeAt, H!WriteNewline
<1>1. /\ Len(s4) \in Nat /\ DOMAIN s4 = 1 .. Len(s4)
      /\ Len(s4') = Len(s4) + 1 /\ DOMAIN s4' = 1 .. Len(s4) + 1
      /\ \A j \in 1 .. Len(s4) : s4'[j] = s4[j]
      /\ s4'[Len(s4) + 1] = H!Newline
  <2> DEFINE Entries == H!Handlers \union {H!Newline}
  <2>1. s4 \in Seq(Entries) /\ H!Newline \in Entries /\ s4' = Append(s4, H!Newline)
    BY FileTypes DEF H!WriteNewline
  <2> HIDE DEF Entries
  <2> QED
    BY <2>1
<1>2. k \in DOMAIN s4 /\ s4[k] # H!Newline /\ s4'[k] = s4[k] /\ k \in Nat
  BY <1>1
<1>3. WholeAt(s4, k)
  BY <1>2 DEF H!LinesWhole, WholeAt
<1>4. s8' = s8
  BY DEF H!WriteNewline
<1>5. s4'[k] \in s8' \/ (k < Len(s4') /\ s4'[k + 1] = H!Newline)
  BY <1>1, <1>2, <1>3, <1>4 DEF WholeAt
<1> QED
  BY <1>5 DEF WholeAt

LEMMA LinesStep ==
  ASSUME H!ProxyAssumption, H!TypeOK, StartedOnce, WriterHolds, H!LinesWhole, [H!Next]_H!vars
  PROVE  H!LinesWhole'
<1>1. ASSUME NEW p \in Processes, H!Start(p) PROVE H!LinesWhole'
  BY <1>1 DEF H!Start, H!LinesWhole
<1>2. CASE \/ \E r \in Requests : H!Arrive(r)
           \/ \E h \in H!Handlers : H!Forward(h) \/ H!CallService(h) \/ H!CopyResponse(h) \/ H!Stamp(h)
                                    \/ H!LockOverlaps(h)
           \/ H!Tick \/ UNCHANGED H!vars
  <2>1. UNCHANGED <<s4, s8>>
    BY <1>2 DEF H!Arrive, H!Forward, H!CallService, H!CopyResponse, H!Stamp, H!LockOverlaps, H!Tick, H!vars
  <2>2. s6' = s6 /\ \A g \in H!Handlers : s2[g] = "newline" => s2'[g] = "newline"
    BY <1>2, OutsideSteps DEF Inside
  <2> QED
    BY <2>1, <2>2, LinesStay
<1>3. ASSUME NEW h \in H!Handlers, H!LockFile(h) \/ H!LockGranted(h) \/ H!Release(h) PROVE H!LinesWhole'
  <2>1. /\ \E label \in {"data", "blocked", "close"} : H!Goto(h, label)
        /\ s2[h] # "newline" /\ UNCHANGED <<s4, s6, s8>>
    BY <1>3 DEF H!LockFile, H!LockGranted, H!Release, H!At
  <2>2. \A g \in H!Handlers : g # h => s2'[g] = s2[g]
    BY <2>1, Moves DEF H!Labels, H!Answered, H!Writing, H!Locking
  <2> QED
    BY <2>1, <2>2, LinesStay
<1>4. ASSUME NEW h \in H!Handlers, H!Close(h) \/ H!Abort(h) \/ H!OpenFails(h) PROVE H!LinesWhole'
  BY <1>4, CloseSteps, LinesStay DEF Inside
<1>5. ASSUME NEW p \in Processes, H!Kill(p) PROVE H!LinesWhole'
  <2>1. UNCHANGED <<s4, s6>> /\ s8 \subseteq s8'
    BY <1>5 DEF H!Kill
  <2>2. \A g \in H!Handlers : s2[g] = "newline" => s2'[g] = "newline" \/ g \in s8'
    BY <1>5, KillEnds DEF H!At
  <2> QED
    BY <2>1, <2>2, LinesStay
<1>6. ASSUME NEW h \in H!Handlers, H!WriteData(h) PROVE H!LinesWhole'
  <2>1. s2'[h] = "newline" /\ \A g \in H!Handlers : g # h => s2'[g] = s2[g]
    BY <1>6, Moves DEF H!WriteData, H!Labels, H!Answered, H!Writing, H!Locking
  <2> QED
    BY <1>6, <2>1, DataStep DEF H!WriteData
<1>7. ASSUME NEW h \in H!Handlers, H!WriteFails(h) PROVE H!LinesWhole'
  <2>1. s6' = s6 /\ s8 \subseteq s8' /\ \A g \in H!Handlers : g # h => s2'[g] = s2[g]
    BY <1>7, Moves DEF H!WriteFails, H!Labels, H!Answered, H!Writing, H!Locking
  <2>2. CASE H!At(h, "data") /\ s4' = Append(s4, h) /\ s8' = s8 \union {h}
    BY <2>1, <2>2, DataStep
  <2>3. CASE s4' = s4 /\ (H!At(h, "newline") => h \in s8')
    BY <2>1, <2>3, LinesStay DEF H!At
  <2> QED
    BY <1>7, <2>2, <2>3 DEF H!WriteFails, H!At
<1> QED
  BY <1>1, <1>2, <1>3, <1>4, <1>5, <1>6, <1>7, NewlineStep DEF H!Next, H!Step

-----------------------------------------------------------------------------
(* Who writes.                                                             *)

(* A handler that has, or awaits, the lock is never sent away from it.     *)
Getting == H!Locking \union {"close", "done", "killed"}
Leaving == {"abort", "lost"}

LEMMA GoingOn ==
  ASSUME H!ProxyAssumption, H!TypeOK, StartedOnce, [H!Next]_H!vars, NEW g \in H!Handlers
  PROVE  /\ s2[g] \in Getting => s2'[g] \in Getting
         /\ s2'[g] \in Leaving => s2[g] \in Leaving \/ H!LockOverlaps(g)
<1> USE DEF Getting, Leaving, H!Locking
<1>1. ASSUME UNCHANGED s2
      PROVE  /\ s2[g] \in Getting => s2'[g] \in Getting
             /\ s2'[g] \in Leaving => s2[g] \in Leaving
  BY <1>1
<1>2. ASSUME NEW r \in Requests, H!Arrive(r)
      PROVE  /\ s2[g] \in Getting => s2'[g] \in Getting
             /\ s2'[g] \in Leaving => s2[g] \in Leaving
  BY <1>2, ArriveStarts
<1>3. ASSUME NEW h \in H!Handlers, H!Step(h)
      PROVE  /\ s2[g] \in Getting => s2'[g] \in Getting
             /\ s2'[g] \in Leaving => s2[g] \in Leaving \/ H!LockOverlaps(g)
  <2>1. CASE H!Forward(h) /\ H!Process(H!Callee(h)) \in s1
    BY <2>1, ForwardStarts
  <2>2. CASE ~ (H!Forward(h) /\ H!Process(H!Callee(h)) \in s1)
    <3>1. PICK label : Ahead(h, label)
      BY <1>3, <2>2, StepsAhead
    <3>2. s2'[h] = label /\ \A f \in H!Handlers : f # h => s2'[f] = s2[f]
      BY <3>1, Moves DEF Ahead
    <3>3. s2[h] \in Getting => s2'[h] \in Getting
      BY <1>3, <3>2, Moves
         DEF H!Step, H!Forward, H!CallService, H!CopyResponse, H!Stamp, H!LockFile, H!LockGranted,
             H!LockOverlaps, H!WriteData, H!WriteNewline, H!WriteFails, H!Release, H!Close, H!Abort, H!OpenFails, H!At,
             H!Labels, H!Answered, H!Writing
    <3>4. s2'[h] \in Leaving => s2[h] \in Leaving \/ H!LockOverlaps(h)
      <4>1. CASE H!Forward(h) \/ H!CallService(h) \/ H!CopyResponse(h) \/ H!Stamp(h)
        BY <2>2, <4>1, Moves
           DEF H!Forward, H!CallService, H!CopyResponse, H!Stamp, H!Labels, H!Answered, H!Writing
      <4>2. CASE H!LockFile(h) \/ H!LockGranted(h)
        BY <4>2, Moves DEF H!LockFile, H!LockGranted, H!Labels, H!Answered, H!Writing
      <4>3. CASE H!WriteData(h) \/ H!WriteNewline(h) \/ H!WriteFails(h) \/ H!Release(h) \/ H!Close(h)
              \/ H!OpenFails(h)
        BY <4>3, Moves
           DEF H!WriteData, H!WriteNewline, H!WriteFails, H!Release, H!Close, H!OpenFails, H!Labels, H!Answered, H!Writing
      <4>4. CASE H!Abort(h)
        BY <4>4 DEF H!Abort, H!At
      <4> QED
        BY <1>3, <4>1, <4>2, <4>3, <4>4 DEF H!Step
    <3> QED
      BY <3>2, <3>3, <3>4
  <2> QED
    BY <2>1, <2>2
<1>4. ASSUME NEW p \in Processes, H!Kill(p)
      PROVE  /\ s2[g] \in Getting => s2'[g] \in Getting
             /\ s2'[g] \in Leaving => s2[g] \in Leaving
  BY <1>4, KillEnds DEF H!Answered, H!Writing
<1> QED
  BY <1>1, <1>2, <1>3, <1>4 DEF H!Next, H!Start, H!Tick, H!vars

LEMMA WriterStep ==
  ASSUME H!ProxyAssumption, H!TypeOK, StartedOnce, H!OneWriterGetsThrough, [H!Next]_H!vars
  PROVE  H!OneWriterGetsThrough'
<1> SUFFICES ASSUME NEW h \in H!Handlers, s2'[h] \in Leaving
             PROVE  \E g \in H!Handlers : H!Process(g) = H!Process(h) /\ s2'[g] \in Getting
  BY DEF H!OneWriterGetsThrough, Leaving, Getting, H!Process
<1>1. \E g \in H!Handlers : H!Process(g) = H!Process(h) /\ s2[g] \in Getting
  <2>1. CASE s2[h] \in Leaving
    BY <2>1 DEF H!OneWriterGetsThrough, Leaving, Getting
  <2>2. CASE H!LockOverlaps(h)
    BY <2>2 DEF H!LockOverlaps, H!Overlaps, Getting
  <2> QED
    BY <2>1, <2>2, GoingOn
<1> QED
  BY <1>1, GoingOn

-----------------------------------------------------------------------------
LEMMA HistoryStep ==
  ASSUME H!ProxyAssumption, HistoryInv, [H!Next]_H!vars
  PROVE  HistoryInv'
BY HistoryTypes, StartedStep, HoldsStep, LinesStep, WriterStep DEF HistoryInv

-----------------------------------------------------------------------------
HistorySafe == program = "history" => HistoryInv

LEMMA HistorySafeInit == Init => HistorySafe
BY Assumptions, HistoryInit DEF Init, HistorySafe

LEMMA HistorySafeStep ==
  ASSUME HistorySafe, [Next]_vars
  PROVE  HistorySafe'
<1> SUFFICES ASSUME program' = "history" PROVE HistoryInv'
  BY DEF HistorySafe
<1>1. HistoryInv
  BY OneRuns DEF HistorySafe
<1>2. H!Next \/ UNCHANGED H!vars
  BY OneRuns DEF H!vars
<1> QED
  BY <1>1, <1>2, Assumptions, HistoryStep

(* The lines of proxy.txt stay whole, however many proxies and requests    *)
(* write them, fail to, are killed and start again, but for a line that    *)
(* was itself left unfinished, and unless closing a channel has released a *)
(* lock.                                                                   *)
THEOREM LinesStayWhole == Spec => []LinesWhole
<1>1. HistorySafe => LinesWhole
  BY DEF HistorySafe, LinesWhole, HistoryInv
<1> QED
  BY <1>1, HistorySafeInit, HistorySafeStep, PTL DEF Spec

(* Of the handlers of a process that ask for the lock at once, one at      *)
(* least gets as far as the file.                                          *)
THEOREM NotAllAreLost == Spec => []OneWriterGetsThrough
<1>1. HistorySafe => OneWriterGetsThrough
  BY DEF HistorySafe, OneWriterGetsThrough, HistoryInv
<1> QED
  BY <1>1, HistorySafeInit, HistorySafeStep, PTL DEF Spec

-----------------------------------------------------------------------------
(* The trace.                                                              *)

(* Lines that are at the places at[1] to at[n], the later in time or of    *)
(* the same time the earlier in the file first, are listed in that order.  *)
LEMMA ListedInOrder ==
  ASSUME NEW file, NEW req, NEW n \in Nat, NEW at \in [1 .. n -> DOMAIN file],
         {k \in DOMAIN file : file[k].req = req} = {at[i] : i \in 1 .. n},
         \A i, m \in 1 .. n : H!Before(file, at[i], at[m]) <=> i < m
  PROVE  H!FlatList(file, req) = [i \in 1 .. n |-> file[at[i]]]
<1> DEFINE Own == {k \in DOMAIN file : file[k].req = req}
           Place(k) == Cardinality({j \in Own : j = k \/ H!Before(file, j, k)})
<1>1. H!FlatList(file, req) = [i \in 1 .. Cardinality(Own) |-> file[CHOOSE k \in Own : Place(k) = i]]
  BY DEF H!FlatList, H!Cardinality, Cardinality
<1>2. \A i, m \in 1 .. n : at[i] = at[m] => i = m
  OBVIOUS
<1>3. ASSUME NEW m \in 0 .. n PROVE Cardinality({at[i] : i \in 1 .. m}) = m
  <2> DEFINE first == [i \in 1 .. m |-> at[i]]
             Firsts == {at[i] : i \in 1 .. m}
  <2>1. 1 .. m \subseteq 1 .. n
    OBVIOUS
  <2>2. first \in Bijection(1 .. m, Firsts)
    <3>1. first \in [1 .. m -> Firsts]
      OBVIOUS
    <3>2. \A i, j \in 1 .. m : first[i] = first[j] => i = j
      BY <1>2, <2>1
    <3>3. \A x \in Firsts : \E i \in 1 .. m : first[i] = x
      OBVIOUS
    <3> HIDE DEF first, Firsts
    <3> QED
      BY <3>1, <3>2, <3>3 DEF Bijection, Injection, Surjection, IsInjective
  <2>3. ExistsBijection(1 .. m, Firsts) /\ m \in Nat
    <3> HIDE DEF first, Firsts
    <3> QED
      BY <2>2 DEF ExistsBijection
  <2> HIDE DEF Firsts
  <2>4. Cardinality(Firsts) = m
    BY <2>3, FS_CountingElements
  <2> QED
    BY <2>4 DEF Firsts
<1>4. Cardinality(Own) = n
  BY <1>3
<1>5. ASSUME NEW m \in 1 .. n PROVE Place(at[m]) = m
  <2>1. {j \in Own : j = at[m] \/ H!Before(file, j, at[m])} = {at[i] : i \in 1 .. m}
    OBVIOUS
  <2> QED
    BY <1>3, <2>1
<1> HIDE DEF Place, Own
<1>6. ASSUME NEW m \in 1 .. n PROVE (CHOOSE k \in Own : Place(k) = m) = at[m]
  <2>1. at[m] \in Own /\ Place(at[m]) = m
    BY <1>5 DEF Own
  <2>2. ASSUME NEW k \in Own, Place(k) = m PROVE k = at[m]
    <3>1. PICK i \in 1 .. n : k = at[i]
      BY <2>2 DEF Own
    <3> QED
      BY <1>5, <2>2, <3>1
  <2> QED
    BY <2>1, <2>2
<1> QED
  BY <1>1, <1>4, <1>6

(* A chain of calls: n entries whose sources are all different, each being *)
(* the target of the entry before it, and the last target none of them.    *)
Chain(e, n) ==
  /\ \A i, m \in 1 .. n : e[i].source = e[m].source => i = m
  /\ \A i \in 1 .. n - 1 : e[i].target = e[i + 1].source
  /\ \A i \in 1 .. n : e[n].target # e[i].source

(* Then the last entry under a source is the only one.                     *)
LEMMA NodeFound ==
  ASSUME NEW n \in Nat, NEW flat, DOMAIN flat = 1 .. n, Chain(flat, n)
  PROVE  /\ \A i \in 1 .. n : H!NodeOf(flat, flat[i].source) = i
         /\ \A i \in 1 .. n - 1 : H!NodeOf(flat, flat[i].target) = i + 1
         /\ n # 0 => H!NodeOf(flat, flat[n].target) = 0
<1>1. ASSUME NEW i \in 1 .. n PROVE H!NodeOf(flat, flat[i].source) = i
  <2>1. {j \in DOMAIN flat : flat[j].source = flat[i].source} = {i}
    BY DEF Chain
  <2> DEFINE Puts == {j \in DOMAIN flat : flat[j].source = flat[i].source}
  <2>2. H!NodeOf(flat, flat[i].source) =
          IF Puts = {} THEN 0 ELSE CHOOSE j \in Puts : \A m \in Puts : m <= j
    BY DEF H!NodeOf
  <2>3. Puts = {i}
    BY <2>1
  <2> HIDE DEF Puts
  <2> QED
    BY <2>2, <2>3
<1>2. ASSUME NEW i \in 1 .. n - 1 PROVE H!NodeOf(flat, flat[i].target) = i + 1
  <2>1. i + 1 \in 1 .. n
    OBVIOUS
  <2>2. flat[i].target = flat[i + 1].source
    BY DEF Chain
  <2> QED
    BY <1>1, <2>1, <2>2
<1>3. ASSUME n # 0 PROVE H!NodeOf(flat, flat[n].target) = 0
  <2>1. {j \in DOMAIN flat : flat[j].source = flat[n].target} = {}
    BY DEF Chain
  <2> QED
    BY <2>1 DEF H!NodeOf
<1> QED
  BY <1>1, <1>2, <1>3

LEMMA TreeOfChain ==
  ASSUME NEW n \in Nat \ {0}, NEW flat, DOMAIN flat = 1 .. n, Chain(flat, n),
         NEW file, NEW req, H!FlatList(file, req) = flat
  PROVE  /\ H!PopulateTree(file, req).root = flat[1]
         /\ H!PopulateTree(file, req).calls = {<<flat[i], flat[i + 1]>> : i \in 1 .. n - 1}
<1> DEFINE Both == {k \in H!Links(flat) : k[1] # 0 /\ k[2] # 0}
           Calls == {<<flat[l[1]], flat[l[2]]>> : l \in Both}
<1>1. H!PopulateTree(file, req) = [root |-> flat[1], calls |-> Calls]
  BY DEF H!PopulateTree
<1>2. H!Links(flat) = {<<i, IF i = n THEN 0 ELSE i + 1>> : i \in 1 .. n}
  <2>1. \A i \in 1 .. n : i = n \/ i \in 1 .. n - 1
    OBVIOUS
  <2>2. \A i \in 1 .. n : /\ H!NodeOf(flat, flat[i].source) = i
                          /\ H!NodeOf(flat, flat[i].target) = IF i = n THEN 0 ELSE i + 1
    BY <2>1, NodeFound
  <2> QED
    BY <2>2 DEF H!Links
<1>3. Both = {<<i, i + 1>> : i \in 1 .. n - 1}
  BY <1>2
<1>4. Calls = {<<flat[i], flat[i + 1]>> : i \in 1 .. n - 1}
  <2> HIDE DEF Both
  <2>1. ASSUME NEW i \in 1 .. n - 1 PROVE <<flat[i], flat[i + 1]>> \in Calls
    <3>1. <<i, i + 1>> \in Both
      BY <1>3
    <3>2. \E l \in Both : l = <<i, i + 1>>
      BY <3>1
    <3> QED
      BY <3>2
  <2>2. ASSUME NEW l \in Both PROVE \E i \in 1 .. n - 1 : <<flat[l[1]], flat[l[2]]>> = <<flat[i], flat[i + 1]>>
    <3>1. PICK i \in 1 .. n - 1 : l = <<i, i + 1>>
      BY <1>3
    <3> QED
      BY <3>1
  <2> DEFINE That == {<<flat[i], flat[i + 1]>> : i \in 1 .. n - 1}
  <2>3. ASSUME NEW c \in That PROVE c \in Calls
    <3>1. PICK i \in 1 .. n - 1 : c = <<flat[i], flat[i + 1]>>
      OBVIOUS
    <3> QED
      BY <2>1, <3>1
  <2>4. ASSUME NEW c \in Calls PROVE c \in That
    <3>1. PICK l \in Both : c = <<flat[l[1]], flat[l[2]]>>
      OBVIOUS
    <3> QED
      BY <2>2, <3>1
  <2> HIDE DEF Calls
  <2> QED
    BY <2>3, <2>4
<1> QED
  BY <1>1, <1>4

(* A handler is in the file once at most, and only after it has written,   *)
(* or tried to: it writes its line once, even if a proxy that starts       *)
(* empties the file.                                                       *)
Wrote == {"newline", "release", "close", "done", "killed"}

WroteOnce ==
  /\ \A k \in DOMAIN s4 : s4[k] # H!Newline => s2[s4[k]] \in Wrote
  /\ \A j, k \in DOMAIN s4 : s4[j] = s4[k] /\ s4[j] # H!Newline => j = k

LEMMA WroteStays ==
  ASSUME H!ProxyAssumption, H!TypeOK, StartedOnce, [H!Next]_H!vars, NEW g \in H!Handlers,
         s2[g] \in Wrote
  PROVE  s2'[g] \in Wrote
<1> USE DEF Wrote
<1>1. ASSUME NEW r \in Requests, H!Arrive(r) PROVE s2'[g] \in Wrote
  BY <1>1, ArriveStarts
<1>2. ASSUME NEW h \in H!Handlers, H!Step(h) PROVE s2'[g] \in Wrote
  <2>1. CASE H!Forward(h) /\ H!Process(H!Callee(h)) \in s1
    BY <2>1, ForwardStarts
  <2>2. CASE ~ (H!Forward(h) /\ H!Process(H!Callee(h)) \in s1)
    <3>1. PICK label : Ahead(h, label)
      BY <1>2, <2>2, StepsAhead
    <3>2. s2'[h] = label /\ \A f \in H!Handlers : f # h => s2'[f] = s2[f]
      BY <3>1, Moves DEF Ahead
    <3>3. s2[h] \in Wrote => s2'[h] \in Wrote
      BY <1>2, <3>2, Moves
         DEF H!Step, H!Forward, H!CallService, H!CopyResponse, H!Stamp, H!LockFile, H!LockGranted,
             H!LockOverlaps, H!WriteData, H!WriteNewline, H!WriteFails, H!Release, H!Close, H!Abort,
             H!OpenFails, H!At,
             H!Labels, H!Answered, H!Writing, H!Locking
    <3> QED
      BY <3>2, <3>3
  <2> QED
    BY <2>1, <2>2
<1>3. ASSUME UNCHANGED s2 PROVE s2'[g] \in Wrote
  BY <1>3
<1>4. ASSUME NEW p \in Processes, H!Kill(p) PROVE s2'[g] \in Wrote
  BY <1>4, KillEnds DEF H!Answered, H!Writing, H!Locking, H!Ended
<1> QED
  BY <1>1, <1>2, <1>3, <1>4 DEF H!Next, H!Start, H!Tick, H!vars

LEMMA WroteStep ==
  ASSUME H!ProxyAssumption, H!TypeOK, StartedOnce, WroteOnce, [H!Next]_H!vars
  PROVE  WroteOnce'
<1> DEFINE Entries == H!Handlers \union {H!Newline}
<1>1. \A k \in DOMAIN s4 : s4[k] # H!Newline => s4[k] \in H!Handlers /\ s2'[s4[k]] \in Wrote
  BY FileTypes, WroteStays DEF WroteOnce
<1>2. CASE s4' = s4
  BY <1>1, <1>2 DEF WroteOnce
<1>3. CASE s4' = <<>>
  BY <1>3 DEF WroteOnce
<1>4. ASSUME NEW x \in Entries, s4' = Append(s4, x)
      PROVE  /\ DOMAIN s4 = 1 .. Len(s4) /\ Len(s4) \in Nat
             /\ DOMAIN s4' = 1 .. Len(s4) + 1 /\ s4'[Len(s4) + 1] = x
             /\ \A k \in 1 .. Len(s4) : s4'[k] = s4[k]
  <2>1. s4 \in Seq(Entries)
    BY FileTypes
  <2> HIDE DEF Entries
  <2> QED
    BY <1>4, <2>1
<1>5. ASSUME NEW h \in H!Handlers, H!WriteNewline(h) PROVE WroteOnce'
  <2>1. s4' = Append(s4, H!Newline) /\ H!Newline \in Entries
    BY <1>5 DEF H!WriteNewline
  <2>2. ASSUME NEW k \in DOMAIN s4', s4'[k] # H!Newline
        PROVE  k \in DOMAIN s4 /\ s4'[k] = s4[k]
    BY <1>4, <2>1, <2>2
  <2> QED
    BY <1>1, <2>2 DEF WroteOnce
<1>6. ASSUME NEW h \in H!Handlers, H!WriteData(h) \/ H!WriteFails(h), s4' # s4 PROVE WroteOnce'
  <2>1. s4' = Append(s4, h) /\ h \in Entries
    BY <1>6 DEF H!WriteData, H!WriteFails
  <2>2. s2[h] = "data" /\ s2'[h] \in {"newline", "release"}
    BY <1>6, Moves DEF H!WriteData, H!WriteFails, H!At, H!Labels, H!Answered, H!Writing, H!Locking
  <2>3. \A k \in DOMAIN s4 : s4[k] # h
    BY <2>2, HandlerPairs DEF WroteOnce, Wrote
  <2>4. ASSUME NEW k \in DOMAIN s4' PROVE k = Len(s4) + 1 \/ (k \in DOMAIN s4 /\ s4'[k] = s4[k])
    BY <1>4, <2>1
  <2>5. s4'[Len(s4) + 1] = h
    BY <1>4, <2>1
  <2>6. ASSUME NEW k \in DOMAIN s4', s4'[k] # H!Newline PROVE s2'[s4'[k]] \in Wrote
    BY <1>1, <2>2, <2>4, <2>5, <2>6 DEF Wrote
  <2>7. ASSUME NEW j \in DOMAIN s4', NEW k \in DOMAIN s4', s4'[j] = s4'[k], s4'[j] # H!Newline
        PROVE  j = k
    BY <2>3, <2>4, <2>5, <2>7 DEF WroteOnce
  <2> QED
    BY <2>6, <2>7 DEF WroteOnce
<1> QED
  BY <1>2, <1>3, <1>5, <1>6
     DEF H!Next, H!Start, H!Kill, H!Arrive, H!Tick, H!vars, H!Step, H!Forward, H!CallService, H!CopyResponse, H!Stamp,
         H!LockFile, H!LockGranted, H!LockOverlaps, H!Release, H!Close, H!Abort, H!OpenFails,
         H!CloseChannel

-----------------------------------------------------------------------------
(* The lines of a request, all of whose handlers have written theirs.      *)
AllWritten(r) ==
  \A h \in H!Hops(r) : H!Written(h) /\ (H!HasNext(h) => s3[H!Callee(h)] < s3[h])

LEMMA HopsOf ==
  ASSUME H!ProxyAssumption, NEW r \in Requests
  PROVE  /\ Len(Path[r]) \in Nat \ {0} /\ DOMAIN Path[r] = 1 .. Len(Path[r])
         /\ H!Hops(r) = {<<r, m>> : m \in 1 .. Len(Path[r])}
         /\ \A m \in 1 .. Len(Path[r]) :
              /\ <<r, m>> \in H!Handlers
              /\ H!HasNext(<<r, m>>) <=> m # Len(Path[r])
              /\ H!Callee(<<r, m>>) = <<r, m + 1>>
              /\ H!Process(<<r, m>>) = Path[r][m]
<1> DEFINE n == Len(Path[r])
<1>1. n \in Nat \ {0} /\ DOMAIN Path[r] = 1 .. n
  BY DEF H!ProxyAssumption
<1>2. ASSUME NEW m \in 1 .. n PROVE <<r, m>> \in H!Hops(r)
  <2>1. <<r, m>> \in {r} \X (1 .. Len(Path[r]))
    OBVIOUS
  <2> QED
    BY <2>1 DEF H!Hops, H!Handlers
<1>3. ASSUME NEW h \in H!Hops(r) PROVE \E m \in 1 .. n : h = <<r, m>>
  <2>1. PICK q \in Requests : h \in {q} \X (1 .. Len(Path[q]))
    BY DEF H!Hops, H!Handlers
  <2>2. q = r
    BY <2>1 DEF H!Hops
  <2> QED
    BY <2>1, <2>2
<1>4. H!Hops(r) = {<<r, m>> : m \in 1 .. n}
  <2> DEFINE Places == {<<r, m>> : m \in 1 .. n}
  <2>1. \A h \in H!Hops(r) : h \in Places
    BY <1>3
  <2>2. \A h \in Places : h \in H!Hops(r)
    BY <1>2
  <2> HIDE DEF Places
  <2>3. H!Hops(r) = Places
    BY <2>1, <2>2
  <2> QED
    BY <2>3 DEF Places
<1>5. ASSUME NEW m \in 1 .. n
      PROVE  /\ <<r, m>> \in H!Handlers
             /\ H!HasNext(<<r, m>>) <=> m # n
             /\ H!Callee(<<r, m>>) = <<r, m + 1>>
             /\ H!Process(<<r, m>>) = Path[r][m]
  <2>1. <<r, m>> \in H!Handlers
    BY <1>2 DEF H!Hops
  <2>2. m < n <=> m # n
    BY <1>1
  <2> QED
    BY <2>1, <2>2 DEF H!HasNext, H!Callee, H!Process
<1> QED
  BY <1>1, <1>4, <1>5

(* The later on its path, the earlier a handler has stamped its line.      *)
LEMMA StampsFall ==
  ASSUME H!ProxyAssumption, H!TypeOK, NEW r \in Requests, AllWritten(r),
         NEW i \in 1 .. Len(Path[r]), NEW m \in 1 .. Len(Path[r]), i < m
  PROVE  s3[<<r, m>>] < s3[<<r, i>>]
<1> DEFINE n == Len(Path[r])
           T == {d \in Nat : d = 0 \/ i + d > n \/ s3[<<r, i + d>>] < s3[<<r, i>>]}
<1>1. n \in Nat \ {0}
  BY HopsOf
<1>2. ASSUME NEW j \in 1 .. n PROVE s3[<<r, j>>] \in Nat
  <2>1. <<r, j>> \in H!Handlers
    BY HopsOf
  <2> QED
    BY <2>1 DEF H!TypeOK, H!ProxyAssumption
<1>3. ASSUME NEW j \in 1 .. n, j # n PROVE s3[<<r, j + 1>>] < s3[<<r, j>>]
  <2>1. <<r, j>> \in H!Hops(r) /\ H!HasNext(<<r, j>>) /\ H!Callee(<<r, j>>) = <<r, j + 1>>
    BY <1>3, HopsOf
  <2> QED
    BY <2>1 DEF AllWritten
<1>4. 0 \in T
  OBVIOUS
<1>5. ASSUME NEW d \in 0 .. n - 1, d \in T PROVE d + 1 \in T
  <2> SUFFICES ASSUME i + (d + 1) <= n PROVE s3[<<r, i + (d + 1)>>] < s3[<<r, i>>]
    BY <1>1
  <2>1. i + d \in 1 .. n /\ i + d # n /\ i + d + 1 = i + (d + 1) /\ i + (d + 1) \in 1 .. n
    BY <1>1
  <2>2. s3[<<r, i + (d + 1)>>] < s3[<<r, i + d>>]
    BY <1>3, <2>1
  <2>3. d = 0 \/ s3[<<r, i + d>>] < s3[<<r, i>>]
    BY <1>5, <1>1, <2>1
  <2>4. d = 0 => i + d = i
    OBVIOUS
  <2>5. s3[<<r, i + (d + 1)>>] \in Nat /\ s3[<<r, i + d>>] \in Nat /\ s3[<<r, i>>] \in Nat
    BY <1>2, <2>1
  <2> QED
    BY <2>2, <2>3, <2>4, <2>5
<1>6. 0 .. n \subseteq T
  <2> HIDE DEF T
  <2> QED
    BY <1>1, <1>4, <1>5, CountUp
<1>7. m - i \in 0 .. n /\ i + (m - i) = m /\ m - i # 0 /\ ~ (m > n)
  BY <1>1
<1> QED
  BY <1>6, <1>7

(* What TraceServlet reads of them is the chain of their calls.            *)
LEMMA TraceRead ==
  ASSUME H!ProxyAssumption, H!TypeOK, WroteOnce, NEW r \in Requests, AllWritten(r)
  PROVE  LET tree == H!PopulateTree(H!History, r)
         IN  /\ tree.root = H!Entry(<<r, 1>>)
             /\ tree.calls = {<<H!Entry(h), H!Entry(H!Callee(h))>> : h \in {g \in H!Hops(r) : H!HasNext(g)}}
<1> DEFINE n == Len(Path[r])
           Lines == {k \in DOMAIN s4 : s4[k] # H!Newline}
           at == [m \in 1 .. n |-> CHOOSE k \in DOMAIN s4 : s4[k] = <<r, m>>]
           flat == [m \in 1 .. n |-> H!Entry(<<r, m>>)]
<1>1. n \in Nat \ {0}
  BY HopsOf
<1>2. ASSUME NEW m \in 1 .. n PROVE at[m] \in Lines /\ s4[at[m]] = <<r, m>>
  <2>1. <<r, m>> \in H!Hops(r) /\ <<r, m>> \in H!Handlers
    BY HopsOf
  <2>2. \E k \in DOMAIN s4 : s4[k] = <<r, m>>
    BY <2>1 DEF AllWritten, H!Written
  <2>3. <<r, m>> # H!Newline
    BY <2>1, HandlerPairs
  <2> QED
    BY <2>2, <2>3
<1>3. H!History = [k \in Lines |-> H!Entry(s4[k])]
  BY DEF H!History
<1>4. DOMAIN H!History = Lines /\ \A k \in Lines : H!History[k] = H!Entry(s4[k])
  BY <1>3
<1>5. at \in [1 .. n -> DOMAIN H!History]
  BY <1>2, <1>4
<1>6. {k \in DOMAIN H!History : H!History[k].req = r} = {at[m] : m \in 1 .. n}
  <2>1. ASSUME NEW k \in Lines, H!History[k].req = r PROVE \E m \in 1 .. n : k = at[m]
    <3>1. s4[k] \in H!Handlers /\ s4[k][1] = r
      BY <1>4, <2>1, FileTypes DEF H!Entry
    <3>2. s4[k] \in H!Hops(r)
      BY <3>1 DEF H!Hops
    <3>3. PICK m \in 1 .. n : s4[k] = <<r, m>>
      BY <3>2, HopsOf
    <3>4. k = at[m]
      BY <1>2, <3>3 DEF WroteOnce
    <3> QED
      BY <3>4
  <2>2. ASSUME NEW m \in 1 .. n PROVE at[m] \in Lines /\ H!History[at[m]].req = r
    <3>1. at[m] \in Lines /\ H!History[at[m]] = H!Entry(<<r, m>>)
      <4> HIDE DEF at, Lines
      <4> QED
        BY <1>2, <1>4
    <3>2. H!Entry(<<r, m>>).req = r
      BY DEF H!Entry
    <3> HIDE DEF at, Lines
    <3> QED
      BY <3>1, <3>2
  <2> HIDE DEF at, Lines
  <2> QED
    BY <1>4, <2>1, <2>2
<1>7. \A m \in 1 .. n : H!History[at[m]] = flat[m]
  BY <1>2, <1>4
<1>8. \A m \in 1 .. n : /\ flat[m].time = s3[<<r, m>>] /\ flat[m].time \in Nat /\ at[m] \in Nat
                        /\ flat[m].source = <<"proxy", Path[r][m]>>
                        /\ m # n => flat[m].target = <<"proxy", Path[r][m + 1]>>
                        /\ m = n => flat[m].target = <<"service">>
  <2> TAKE m \in 1 .. n
  <2>1. flat[m] = [req |-> r, time |-> s3[<<r, m>>], source |-> H!Source(<<r, m>>), target |-> H!Target(<<r, m>>)]
    BY DEF H!Entry
  <2>2. s3[<<r, m>>] \in Nat
    <3>1. <<r, m>> \in H!Handlers
      BY HopsOf
    <3> QED
      BY <3>1 DEF H!TypeOK, H!ProxyAssumption
  <2>3. H!Source(<<r, m>>) = <<"proxy", Path[r][m]>>
    BY HopsOf DEF H!Source
  <2>4. m = n => H!Target(<<r, m>>) = <<"service">>
    BY HopsOf DEF H!Target
  <2>5. ASSUME m # n PROVE H!Target(<<r, m>>) = <<"proxy", Path[r][m + 1]>>
    <3>1. m + 1 \in 1 .. n
      BY <1>1, <2>5
    <3>2. H!Process(<<r, m + 1>>) = Path[r][m + 1]
      BY <3>1, HopsOf
    <3>3. H!HasNext(<<r, m>>) /\ H!Callee(<<r, m>>) = <<r, m + 1>>
      BY <2>5, HopsOf
    <3> QED
      BY <3>2, <3>3 DEF H!Target, H!Source
  <2>6. at[m] \in Nat
    <3>1. at[m] \in 1 .. Len(s4)
      BY <1>2, FileTypes
    <3> HIDE DEF at
    <3> QED
      BY <3>1, FileTypes
  <2> HIDE DEF flat, at
  <2> QED
    BY <2>1, <2>2, <2>3, <2>4, <2>5, <2>6
<1>9. \A i, m \in 1 .. n : H!Before(H!History, at[i], at[m]) <=> i < m
  <2> TAKE i, m \in 1 .. n
  <2>1. /\ i < m => s3[<<r, m>>] < s3[<<r, i>>]
        /\ m < i => s3[<<r, i>>] < s3[<<r, m>>]
    BY StampsFall
  <2>2. i \in Int /\ m \in Int
    OBVIOUS
  <2> HIDE DEF flat, at
  <2> QED
    BY <1>7, <1>8, <2>1, <2>2 DEF H!Before
<1>10. H!FlatList(H!History, r) = flat
  <2>1. [m \in 1 .. n |-> H!History[at[m]]] = flat
    BY <1>7
  <2>2. n \in Nat
    BY <1>1
  <2> HIDE DEF flat, at, n
  <2>3. H!FlatList(H!History, r) = [m \in 1 .. n |-> H!History[at[m]]]
    BY <1>5, <1>6, <1>9, <2>2, ListedInOrder
  <2> QED
    BY <2>1, <2>3
<1>11. Chain(flat, n)
  <2>1. ASSUME NEW i \in 1 .. n, NEW m \in 1 .. n, flat[i].source = flat[m].source PROVE i = m
    <3>1. <<"proxy", Path[r][i]>> = <<"proxy", Path[r][m]>>
      <4> HIDE DEF flat, n
      <4>1. flat[i].source = <<"proxy", Path[r][i]>>
        BY <1>8
      <4>2. flat[m].source = <<"proxy", Path[r][m]>>
        BY <1>8
      <4> QED
        BY <2>1, <4>1, <4>2
    <3>2. i \in DOMAIN Path[r] /\ m \in DOMAIN Path[r]
      BY HopsOf
    <3> QED
      BY <3>1, <3>2 DEF H!ProxyAssumption
  <2>2. ASSUME NEW i \in 1 .. n - 1 PROVE flat[i].target = flat[i + 1].source
    <3>1. i \in 1 .. n /\ i # n /\ i + 1 \in 1 .. n
      BY <1>1
    <3> HIDE DEF flat, n
    <3>2. flat[i].target = <<"proxy", Path[r][i + 1]>>
      BY <1>8, <3>1
    <3>3. flat[i + 1].source = <<"proxy", Path[r][i + 1]>>
      BY <1>8, <3>1
    <3> QED
      BY <3>2, <3>3
  <2>3. ASSUME NEW i \in 1 .. n PROVE flat[n].target # flat[i].source
    <3>1. n \in 1 .. n
      BY <1>1
    <3> HIDE DEF flat, n
    <3>2. flat[n].target = <<"service">>
      BY <1>8, <3>1
    <3>3. flat[i].source = <<"proxy", Path[r][i]>>
      BY <1>8
    <3> QED
      BY <3>2, <3>3
  <2> HIDE DEF flat
  <2> QED
    BY <2>1, <2>2, <2>3 DEF Chain
<1>12. /\ H!PopulateTree(H!History, r).root = flat[1]
       /\ H!PopulateTree(H!History, r).calls = {<<flat[i], flat[i + 1]>> : i \in 1 .. n - 1}
  <2>1. DOMAIN flat = 1 .. n
    OBVIOUS
  <2> HIDE DEF flat
  <2> QED
    BY <1>1, <1>10, <1>11, <2>1, TreeOfChain
<1>13. {<<flat[i], flat[i + 1]>> : i \in 1 .. n - 1}
         = {<<H!Entry(h), H!Entry(H!Callee(h))>> : h \in {g \in H!Hops(r) : H!HasNext(g)}}
  <2> DEFINE Pairs == {<<flat[i], flat[i + 1]>> : i \in 1 .. n - 1}
             Calls == {<<H!Entry(h), H!Entry(H!Callee(h))>> : h \in {g \in H!Hops(r) : H!HasNext(g)}}
  <2>1. ASSUME NEW i \in 1 .. n - 1
        PROVE  /\ i \in 1 .. n /\ i # n
               /\ <<flat[i], flat[i + 1]>> = <<H!Entry(<<r, i>>), H!Entry(H!Callee(<<r, i>>))>>
    <3>1. i \in 1 .. n /\ i + 1 \in 1 .. n /\ i # n
      BY <1>1
    <3>2. H!Callee(<<r, i>>) = <<r, i + 1>>
      BY <3>1, HopsOf
    <3> QED
      BY <3>1, <3>2
  <2>2. ASSUME NEW c \in Pairs PROVE c \in Calls
    <3>1. PICK i \in 1 .. n - 1 : c = <<flat[i], flat[i + 1]>>
      OBVIOUS
    <3>2. <<r, i>> \in {g \in H!Hops(r) : H!HasNext(g)}
      BY <2>1, HopsOf
    <3> QED
      BY <2>1, <3>1, <3>2
  <2>3. ASSUME NEW c \in Calls PROVE c \in Pairs
    <3>1. PICK h \in {g \in H!Hops(r) : H!HasNext(g)} : c = <<H!Entry(h), H!Entry(H!Callee(h))>>
      OBVIOUS
    <3>2. PICK i \in 1 .. n : h = <<r, i>>
      BY HopsOf
    <3>3. i # n
      BY <3>1, <3>2, HopsOf
    <3>4. i \in 1 .. n - 1
      BY <1>1, <3>3
    <3> QED
      BY <2>1, <3>1, <3>2, <3>4
  <2> HIDE DEF Pairs, Calls
  <2>4. Pairs = Calls
    BY <2>2, <2>3
  <2> QED
    BY <2>4 DEF Pairs, Calls
<1>14. flat[1] = H!Entry(<<r, 1>>)
  BY <1>1
<1> QED
  BY <1>12, <1>13, <1>14

WroteSafe == program = "history" => WroteOnce

(* Whatever proxies and requests run, and however their lines are mixed:   *)
(* what TraceServlet shows of a request all of whose handlers have written *)
(* their lines, each before its caller, is the chain of its calls.         *)
THEOREM TraceShowsTheCalls == Spec => []TraceIsChain
<1>1. Init => WroteSafe
  BY DEF Init, WroteSafe, WroteOnce, H!Init
<1>2. HistorySafe /\ WroteSafe /\ [Next]_vars => WroteSafe'
  <2> SUFFICES ASSUME HistorySafe, WroteSafe, [Next]_vars, program' = "history" PROVE WroteOnce'
    BY DEF WroteSafe
  <2>1. HistoryInv /\ WroteOnce
    BY OneRuns DEF HistorySafe, WroteSafe
  <2>2. H!Next \/ UNCHANGED H!vars
    BY OneRuns DEF H!vars
  <2> QED
    BY <2>1, <2>2, Assumptions, WroteStep DEF HistoryInv
<1>3. HistorySafe /\ WroteSafe => TraceIsChain
  <2> SUFFICES ASSUME HistoryInv, WroteOnce PROVE H!TraceIsChain
    BY DEF HistorySafe, WroteSafe, TraceIsChain
  <2> QED
    BY Assumptions, TraceRead DEF H!TraceIsChain, HistoryInv, AllWritten
<1> QED
  BY <1>1, <1>2, <1>3, HistorySafeInit, HistorySafeStep, PTL DEF Spec

-----------------------------------------------------------------------------
(* The socket server and the client of S are those of SP.                  *)

LEMMA SameServer ==
  /\ S!SocketAssumption => SP!SocketAssumption
  /\ S!Init => SP!Init
  /\ SP!ServerSurvives => S!ServerSurvives
  /\ SP!FilesArrive => S!FilesArrive
BY DEF S!SocketAssumption, SP!SocketAssumption, S!NoFile, SP!NoFile, S!Init, SP!Init,
       S!ServerSurvives, SP!ServerSurvives, S!Ended, SP!Ended, S!FilesArrive,
       SP!FilesArrive, S!PiecesInOrder, SP!PiecesInOrder, S!Unread, SP!Unread, S!Brings,
       SP!Brings, S!Header, SP!Header, S!Last, SP!Last, S!IsFiniteSet, SP!IsFiniteSet

LEMMA SameServerSteps == S!Next => SP!Next
BY DEF S!NoFile, SP!NoFile, S!server, SP!server, S!client, SP!client, S!vars, SP!vars,
       S!Header, SP!Header, S!Bind, SP!Bind, S!End, SP!End, S!TestStop, SP!TestStop,
       S!Accept, SP!Accept, S!Connection, SP!Connection, S!Read, SP!Read,
       S!ReadHeader, SP!ReadHeader, S!ReadBody, SP!ReadBody, S!BodyRead, SP!BodyRead,
       S!Brings, SP!Brings, S!InHand, SP!InHand, S!Lose, SP!Lose, S!SaveFails, SP!SaveFails,
       S!Sending, SP!Sending,
       S!Disconnect, SP!Disconnect, S!ReadFails, SP!ReadFails, S!Serve, SP!Serve,
       S!SetStop, SP!SetStop, S!CloseSocket, SP!CloseSocket, S!Here, SP!Here, S!Write,
       SP!Write, S!Connected, SP!Connected, S!Logout, SP!Logout, S!WriteHeader,
       SP!WriteHeader, S!WriteData, SP!WriteData, S!MoveFileToBackup,
       SP!MoveFileToBackup, S!Finish, SP!Finish, S!WriteFails, SP!WriteFails, S!Die,
       SP!Die, S!Send, SP!Send, S!Next, SP!Next

SocketSafe == program = "socket" => SP!Inv

LEMMA SocketSafeInit == Init => SocketSafe
<1> SUFFICES ASSUME Init, program = "socket" PROVE SP!Inv
  BY DEF SocketSafe
<1>1. S!Init /\ S!SocketAssumption
  BY Assumptions DEF Init
<1> QED
  BY <1>1, SameServer, SP!InitInv

LEMMA SocketSafeStep ==
  ASSUME SocketSafe, [Next]_vars
  PROVE  SocketSafe'
<1> SUFFICES ASSUME program' = "socket" PROVE SP!Inv'
  BY DEF SocketSafe
<1>1. SP!Inv
  BY OneRuns DEF SocketSafe
<1>2. SP!Next \/ UNCHANGED SP!vars
  BY OneRuns, SameServerSteps
     DEF S!vars, S!server, S!client, SP!vars, SP!server, SP!client
<1> QED
  BY <1>1, <1>2, Assumptions, SameServer, SP!StepInv

(* Once it listens, the thread of the socket server ends by QUIT, or       *)
(* because a client has left in the middle of a file, and for no other     *)
(* reason.                                                                 *)
THEOREM ServerStays == Spec => []ServerSurvives
<1>1. SocketSafe => ServerSurvives
  BY SameServer DEF SocketSafe, ServerSurvives, SP!Inv, SP!SocketInv
<1> QED
  BY <1>1, SocketSafeInit, SocketSafeStep, PTL DEF Spec

(* Whoever dies, stops or cannot write: what the server has of a file are  *)
(* pieces of it, each sending in order from the first; and of a file in    *)
(* BACKUP the last piece last, but for one that is still to be read or     *)
(* whose connection ended before that.                                     *)
THEOREM FilesAreWhole == Spec => []FilesArrive
<1>1. ASSUME SocketSafe PROVE FilesArrive
  <2> SUFFICES ASSUME SP!Inv PROVE SP!FilesArrive
    BY <1>1, SameServer DEF SocketSafe, FilesArrive
  <2>1. SP!SocketAssumption /\ SP!TypeOK /\ SP!Places /\ SP!Transfer
    BY Assumptions, SameServer DEF SP!Inv, SP!SocketInv
  <2> QED
    BY <2>1, SP!TransferArrives
<1> QED
  BY <1>1, SocketSafeInit, SocketSafeStep, PTL DEF Spec

-----------------------------------------------------------------------------
(* The memory queue of Q is that of QP.                                    *)

LEMMA SameQueue ==
  /\ Q!MemoryAssumption => QP!MemoryAssumption
  /\ Q!Init => QP!Init
  /\ QP!LeaseKept => Q!LeaseKept
  /\ QP!DequesBounded => Q!DequesBounded
BY DEF Q!MemoryAssumption, QP!MemoryAssumption, Q!Init, QP!Init, Q!Messages, QP!Messages,
       Q!LeaseKept, QP!LeaseKept, Q!DequesBounded, QP!DequesBounded,
       Q!IsFiniteSet, QP!IsFiniteSet, Q!Cardinality, QP!Cardinality

LEMMA SameQueueSteps == Q!Next => QP!Next
BY DEF Q!data, QP!data, Q!threads, QP!threads, Q!history, QP!history, Q!vars,
       QP!vars, Q!Messages, QP!Messages, Q!At, QP!At, Q!Goto, QP!Goto, Q!Return,
       QP!Return, Q!Push, QP!Push, Q!PutDeque, QP!PutDeque, Q!Add, QP!Add, Q!Pull,
       QP!Pull, Q!isVisibleAt, QP!isVisibleAt, Q!Pulling, QP!Pulling, Q!InHand,
       QP!InHand, Q!Find, QP!Find, Q!SetMsgId, QP!SetMsgId, Q!ReadClock,
       QP!ReadClock, Q!SetVisibleFrom, QP!SetVisibleFrom, Q!AnswerPull,
       QP!AnswerPull, Q!IsToDelete, QP!IsToDelete, Q!Delete, QP!Delete,
       Q!RemoveMessage, QP!RemoveMessage, Q!Tick, QP!Tick, Q!Step, QP!Step, Q!Next,
       QP!Next,
       Q!RemoveAt, QP!RemoveAt

MemorySafe == program = "memory" => QP!Inv /\ QP!DequesSound

LEMMA MemorySafeInit == Init => MemorySafe
<1> SUFFICES ASSUME Init, program = "memory" PROVE QP!Inv /\ QP!DequesSound
  BY DEF MemorySafe
<1>1. Q!Init /\ Q!MemoryAssumption
  BY Assumptions DEF Init
<1> QED
  BY <1>1, SameQueue, QP!InitSound

LEMMA MemorySafeStep ==
  ASSUME MemorySafe, [Next]_vars
  PROVE  MemorySafe'
<1> SUFFICES ASSUME program' = "memory" PROVE (QP!Inv /\ QP!DequesSound)'
  BY DEF MemorySafe
<1>1. QP!Inv /\ QP!DequesSound
  BY OneRuns DEF MemorySafe
<1>2. QP!Next \/ UNCHANGED QP!vars
  BY OneRuns, SameQueueSteps DEF QP!vars, QP!data, QP!threads, QP!history
<1> QED
  BY <1>1, <1>2, Assumptions, SameQueue, QP!StepSound

(* For any number of threads that push, pull and delete: a message is      *)
(* pulled again under another receipt, and after the visibility timeout of *)
(* the earlier one, unless two pulls had it in hand at once.               *)
THEOREM LeasesAreKept == Spec => []LeaseKept
<1>1. MemorySafe => LeaseKept
  BY SameQueue DEF MemorySafe, LeaseKept, QP!Inv
<1> QED
  BY <1>1, MemorySafeInit, MemorySafeStep, PTL DEF Spec

(* However many messages are pushed, and however often the queue is        *)
(* emptied, there are never more deques than threads.                      *)
THEOREM DequesStayFew == Spec => []DequesBounded
<1>1. MemorySafe => DequesBounded
  BY Assumptions, SameQueue, QP!SoundIsBounded DEF MemorySafe, DequesBounded, QP!Inv
<1> QED
  BY <1>1, MemorySafeInit, MemorySafeStep, PTL DEF Spec

-----------------------------------------------------------------------------
(* The pollers.                                                            *)

(* The loop of removeExpiredStoreItems: its turn for item i, and what its  *)
(* turns leave.                                                            *)
Turn(time, s, i) == IF P!Expired(time, s[i]) THEN P!RemoveAt(s, i) ELSE s

Loops(time, items, after) ==
  after = [i \in 1 .. Len(items) + 1 |->
             IF i > Len(items) THEN items ELSE Turn(time, after[i + 1], i)]

(* There is a function with these values: from the end of the store down.  *)
LEMMA LoopExists ==
  ASSUME NEW time, NEW items, Len(items) \in Nat
  PROVE  \E after : Loops(time, items, after)
<1> DEFINE n == Len(items)
           From(k) == n + 1 - k .. n + 1
           Done(k, a) == a = [i \in From(k) |-> IF i > n THEN items ELSE Turn(time, a[i + 1], i)]
           T == {k \in 0 .. n : \E a : Done(k, a)}
<1>1. 0 \in T
  <2>1. From(0) = {n + 1} /\ n + 1 > n
    OBVIOUS
  <2>2. Done(0, [i \in From(0) |-> items])
    BY <2>1
  <2> HIDE DEF Done
  <2> QED
    BY <2>2
<1>2. ASSUME NEW k \in 0 .. n - 1, k \in T PROVE k + 1 \in T
  <2>1. PICK a : Done(k, a)
    BY <1>2
  <2> DEFINE d == n - k
             b == [i \in From(k + 1) |-> IF i = d THEN Turn(time, a[d + 1], d) ELSE a[i]]
  <2>2. /\ d \in 1 .. n /\ From(k + 1) = {d} \union From(k) /\ d \notin From(k)
        /\ \A i \in From(k) : i \in Int /\ i # d /\ (i <= n => i + 1 \in From(k))
        /\ d + 1 \in From(k)
    OBVIOUS
  <2>3. \A i \in From(k) : b[i] = a[i]
    BY <2>2
  <2>4. ASSUME NEW i \in From(k + 1)
        PROVE  b[i] = IF i > n THEN items ELSE Turn(time, b[i + 1], i)
    <3>1. CASE i = d
      <4>1. ~ (d > n) /\ b[d + 1] = a[d + 1] /\ b[d] = Turn(time, a[d + 1], d)
        BY <2>2, <2>3
      <4> HIDE DEF b, d
      <4> QED
        BY <3>1, <4>1
    <3>2. CASE i # d
      <4>1. i \in From(k) /\ b[i] = a[i]
        BY <2>2, <2>3, <3>2
      <4>2. a[i] = IF i > n THEN items ELSE Turn(time, a[i + 1], i)
        <5> HIDE DEF From, Turn
        <5> QED
          BY <2>1, <4>1
      <4>3. ~ (i > n) => b[i + 1] = a[i + 1]
        BY <2>2, <2>3, <4>1
      <4> HIDE DEF b, From, n
      <4> QED
        BY <4>1, <4>2, <4>3
    <3> QED
      BY <3>1, <3>2
  <2>5. Done(k + 1, b)
    <3>1. b = [i \in From(k + 1) |-> b[i]]
      OBVIOUS
    <3>2. [i \in From(k + 1) |-> b[i]]
            = [i \in From(k + 1) |-> IF i > n THEN items ELSE Turn(time, b[i + 1], i)]
      <4> HIDE DEF b, From, n
      <4> QED
        BY <2>4
    <3> HIDE DEF b, From, n
    <3> QED
      BY <3>1, <3>2
  <2>6. k + 1 \in 0 .. n
    OBVIOUS
  <2> HIDE DEF Done, b
  <2> QED
    BY <2>5, <2>6
<1>3. n \in T
  <2>1. n \in Nat
    OBVIOUS
  <2> HIDE DEF T, n
  <2>2. 0 .. n \subseteq T
    BY <1>1, <1>2, <2>1, CountUp
  <2> QED
    BY <2>1, <2>2
<1>4. From(n) = 1 .. n + 1
  OBVIOUS
<1>5. PICK a : Done(n, a)
  BY <1>3
<1> QED
  BY <1>4, <1>5 DEF Loops

LEMMA LoopResult ==
  ASSUME NEW time, NEW items, Len(items) \in Nat
  PROVE  \E after : Loops(time, items, after) /\ P!removeExpiredStoreItems(time, items) = after[1]
<1> DEFINE a == CHOOSE after : Loops(time, items, after)
<1>1. Loops(time, items, a)
  BY LoopExists
<1>2. P!removeExpiredStoreItems(time, items) = a[1]
  BY DEF P!removeExpiredStoreItems, Loops, Turn
<1> QED
  BY <1>1, <1>2

(* RemoveAt closes the gap.                                                *)
LEMMA Removed ==
  ASSUME NEW Items, NEW s \in Seq(Items), NEW d \in 1 .. Len(s)
  PROVE  /\ P!RemoveAt(s, d) \in Seq(Items) /\ Len(P!RemoveAt(s, d)) = Len(s) - 1
         /\ \A m \in 1 .. Len(s) - 1 : P!RemoveAt(s, d)[m] = IF m < d THEN s[m] ELSE s[m + 1]
<1> DEFINE l == SubSeq(s, 1, d - 1)
           r == SubSeq(s, d + 1, Len(s))
<1>1. Len(s) \in Nat
  OBVIOUS
<1>2. /\ l \in Seq(Items) /\ Len(l) = d - 1 /\ \A m \in 1 .. d - 1 : l[m] = s[m]
      /\ r \in Seq(Items) /\ Len(r) = Len(s) - d /\ \A m \in 1 .. Len(s) - d : r[m] = s[m + d]
  BY <1>1
<1>3. P!RemoveAt(s, d) = l \o r
  BY DEF P!RemoveAt
<1> HIDE DEF l, r
<1>4. l \o r \in Seq(Items) /\ Len(l \o r) = Len(s) - 1
  <2>1. l \in Seq(Items) /\ r \in Seq(Items)
    BY <1>2
  <2>2. l \o r \in Seq(Items)
    BY <2>1
  <2>3. Len(l \o r) = Len(l) + Len(r)
    BY <2>1
  <2> QED
    BY <1>1, <1>2, <2>2, <2>3
<1>5. ASSUME NEW m \in 1 .. Len(s) - 1 PROVE (l \o r)[m] = IF m < d THEN s[m] ELSE s[m + 1]
  <2>1. CASE m < d
    BY <1>1, <1>2, <2>1
  <2>2. CASE ~ (m < d)
    <3>1. (l \o r)[m] = r[m - (d - 1)]
      BY <1>1, <1>2, <2>2
    <3>2. m - (d - 1) \in 1 .. Len(s) - d /\ (m - (d - 1)) + d = m + 1
      BY <1>1, <2>2
    <3> QED
      BY <1>2, <2>2, <3>1, <3>2
  <2> QED
    BY <2>1, <2>2
<1> QED
  BY <1>3, <1>4, <1>5

(* What the turns for the items above d have left are items of the store,  *)
(* those up to d where they were.                                          *)
LeftFrom(d, at, s, items) ==
  /\ P!Selects(at, s, items)
  /\ \A j \in 1 .. d : j \in DOMAIN s /\ at[j] = j

Spared(at, time, d, items) == {j \in P!Range(at) : j = d => ~ P!Expired(time, items[d])}

(* The turn for item d looks at that item, and removes no other.           *)
LEMMA TurnLeaves ==
  ASSUME NEW Items, NEW items \in Seq(Items), NEW time, NEW d \in 1 .. Len(items),
         NEW s \in Seq(Items), NEW at, LeftFrom(d, at, s, items)
  PROVE  /\ Turn(time, s, d) \in Seq(Items)
         /\ \E bt : /\ LeftFrom(d - 1, bt, Turn(time, s, d), items)
                    /\ P!Range(bt) = Spared(at, time, d, items)
<1>1. /\ Len(s) \in Nat /\ DOMAIN s = 1 .. Len(s) /\ d \in DOMAIN s /\ at[d] = d /\ d \in Nat
      /\ Len(items) \in Nat /\ DOMAIN items = 1 .. Len(items)
  BY DEF LeftFrom
<1>2. /\ at \in [1 .. Len(s) -> 1 .. Len(items)]
      /\ \A n, m \in 1 .. Len(s) : n < m => at[n] < at[m]
      /\ \A n \in 1 .. Len(s) : s[n] = items[at[n]]
  BY <1>1 DEF LeftFrom, P!Selects
<1>3. \A j \in 1 .. d : j \in DOMAIN s /\ at[j] = j
  BY DEF LeftFrom
<1>4. s[d] = items[d]
  BY <1>1, <1>2
<1>5. CASE ~ P!Expired(time, s[d])
  <2>1. Turn(time, s, d) = s
    BY <1>5 DEF Turn
  <2>2. P!Range(at) = Spared(at, time, d, items)
    BY <1>4, <1>5 DEF Spared
  <2>3. LeftFrom(d - 1, at, s, items)
    BY <1>1 DEF LeftFrom
  <2> QED
    BY <2>1, <2>2, <2>3
<1>6. CASE P!Expired(time, s[d])
  <2> DEFINE t == P!RemoveAt(s, d)
             bt == [m \in 1 .. Len(s) - 1 |-> IF m < d THEN at[m] ELSE at[m + 1]]
  <2>1. Turn(time, s, d) = t
    BY <1>6 DEF Turn
  <2>2. /\ t \in Seq(Items) /\ Len(t) = Len(s) - 1 /\ DOMAIN t = 1 .. Len(s) - 1
        /\ \A m \in 1 .. Len(s) - 1 : t[m] = IF m < d THEN s[m] ELSE s[m + 1]
    <3>1. /\ t \in Seq(Items) /\ Len(t) = Len(s) - 1
          /\ \A m \in 1 .. Len(s) - 1 : t[m] = IF m < d THEN s[m] ELSE s[m + 1]
      BY <1>1, Removed
    <3> HIDE DEF t
    <3> QED
      BY <3>1
  <2> HIDE DEF t
  <2>3. P!Selects(bt, t, items)
    <3>1. bt \in [1 .. Len(s) - 1 -> 1 .. Len(items)]
      BY <1>1, <1>2
    <3>2. ASSUME NEW n \in 1 .. Len(s) - 1, NEW m \in 1 .. Len(s) - 1, n < m PROVE bt[n] < bt[m]
      <4>1. /\ n \in 1 .. Len(s) /\ m \in 1 .. Len(s) /\ n + 1 \in 1 .. Len(s) /\ m + 1 \in 1 .. Len(s)
            /\ n < m + 1 /\ n + 1 < m + 1
        BY <1>1, <3>2
      <4> QED
        BY <1>1, <1>2, <3>2, <4>1
    <3>3. ASSUME NEW n \in 1 .. Len(s) - 1 PROVE t[n] = items[bt[n]]
      <4>1. n \in 1 .. Len(s) /\ n + 1 \in 1 .. Len(s)
        BY <1>1
      <4> QED
        BY <1>2, <2>2, <4>1
    <3> HIDE DEF bt
    <3> QED
      BY <1>1, <2>2, <3>1, <3>2, <3>3 DEF P!Selects
  <2>4. \A j \in 1 .. d - 1 : j \in DOMAIN t /\ bt[j] = j
    BY <1>1, <1>3, <2>2
  <2>5. P!Range(bt) = P!Range(at) \ {d}
    <3>1. ASSUME NEW m \in 1 .. Len(s), m # d PROVE at[m] \in P!Range(bt)
      <4>1. CASE m < d
        <5>1. m \in 1 .. Len(s) - 1 /\ bt[m] = at[m]
          BY <1>1, <4>1
        <5> QED
          BY <5>1 DEF P!Range
      <4>2. CASE d < m
        <5>1. m - 1 \in 1 .. Len(s) - 1 /\ ~ (m - 1 < d) /\ (m - 1) + 1 = m
          BY <1>1, <4>2
        <5>2. bt[m - 1] = at[m]
          BY <5>1
        <5> HIDE DEF bt
        <5>3. DOMAIN bt = 1 .. Len(s) - 1
          BY DEF bt
        <5> QED
          BY <5>1, <5>2, <5>3 DEF P!Range
      <4> QED
        BY <1>1, <3>1, <4>1, <4>2
    <3>2. ASSUME NEW m \in 1 .. Len(s) - 1 PROVE bt[m] \in P!Range(at) /\ bt[m] # d
      <4>1. PICK k \in 1 .. Len(s) : bt[m] = at[k] /\ k # d
        <5>1. m \in 1 .. Len(s) /\ m + 1 \in 1 .. Len(s) /\ (~ (m < d) => m + 1 # d)
          BY <1>1
        <5> QED
          BY <5>1
      <4>2. at[k] # d
        BY <1>1, <1>2, <4>1
      <4> QED
        BY <1>2, <4>1, <4>2 DEF P!Range
    <3>3. DOMAIN bt = 1 .. Len(s) - 1 /\ DOMAIN at = 1 .. Len(s)
      BY <1>2
    <3> HIDE DEF bt
    <3> QED
      BY <1>1, <3>1, <3>2, <3>3 DEF P!Range
  <2>6. LeftFrom(d - 1, bt, t, items)
    BY <2>3, <2>4 DEF LeftFrom
  <2>7. P!Range(bt) = Spared(at, time, d, items)
    <3> HIDE DEF bt
    <3> QED
      BY <1>4, <1>6, <2>5 DEF Spared
  <2> HIDE DEF bt
  <2> QED
    BY <2>1, <2>2, <2>6, <2>7
<1> QED
  BY <1>5, <1>6

(* The whole loop removes the expired items and no other.                  *)
LEMMA LoopLeavesFresh ==
  ASSUME NEW Items, NEW items \in Seq(Items), NEW time
  PROVE  /\ P!removeExpiredStoreItems(time, items) \in Seq(Items)
         /\ \E at : /\ P!Selects(at, P!removeExpiredStoreItems(time, items), items)
                    /\ P!Range(at) = {j \in DOMAIN items : ~ P!Expired(time, items[j])}
<1> DEFINE n == Len(items)
           Fresh(k) == {j \in 1 .. n : j > n - k => ~ P!Expired(time, items[j])}
<1>1. n \in Nat /\ DOMAIN items = 1 .. n
  OBVIOUS
<1>2. PICK after : /\ Loops(time, items, after)
                   /\ P!removeExpiredStoreItems(time, items) = after[1]
  BY <1>1, LoopResult
<1>3. \A i \in 1 .. n + 1 : after[i] = IF i > n THEN items ELSE Turn(time, after[i + 1], i)
  BY <1>2 DEF Loops
<1> DEFINE Left(k) == /\ after[n + 1 - k] \in Seq(Items)
                      /\ \E at : /\ LeftFrom(n - k, at, after[n + 1 - k], items)
                                 /\ P!Range(at) = Fresh(k)
           T == {k \in 0 .. n : Left(k)}
<1>4. 0 \in T
  <2> DEFINE id == [j \in 1 .. n |-> j]
  <2>1. n + 1 \in 1 .. n + 1 /\ n + 1 > n /\ n + 1 - 0 = n + 1 /\ n - 0 = n
    BY <1>1
  <2>2. after[n + 1 - 0] = items
    BY <1>3, <2>1
  <2>3. LeftFrom(n, id, items, items)
    BY <1>1 DEF LeftFrom, P!Selects
  <2>4. P!Range(id) = Fresh(0)
    BY <1>1 DEF P!Range
  <2>5. Left(0)
    <3> HIDE DEF id, Fresh
    <3> QED
      BY <2>1, <2>2, <2>3, <2>4
  <2> HIDE DEF Left
  <2> QED
    BY <1>1, <2>5
<1>5. ASSUME NEW k \in 0 .. n - 1, k \in T PROVE k + 1 \in T
  <2> DEFINE d == n - k
  <2>1. /\ d \in 1 .. n /\ n + 1 - (k + 1) = d /\ n + 1 - k = d + 1 /\ n - (k + 1) = d - 1
        /\ k + 1 \in 0 .. n /\ d \in 1 .. n + 1 /\ ~ (d > n)
    <3> HIDE DEF n
    <3> QED
      BY <1>1
  <2>2. after[d + 1] \in Seq(Items)
    BY <1>5, <2>1
  <2>3. PICK at : LeftFrom(d, at, after[d + 1], items) /\ P!Range(at) = Fresh(k)
    BY <1>5, <2>1
  <2>4. after[d] = Turn(time, after[d + 1], d)
    <3> HIDE DEF d
    <3> QED
      BY <1>3, <2>1
  <2>5. {j \in Fresh(k) : j = d => ~ P!Expired(time, items[d])} = Fresh(k + 1)
    BY <1>1, <2>1
  <2> HIDE DEF d, Fresh
  <2>6. /\ Turn(time, after[d + 1], d) \in Seq(Items)
        /\ \E bt : /\ LeftFrom(d - 1, bt, Turn(time, after[d + 1], d), items)
                   /\ P!Range(bt) = Spared(at, time, d, items)
    BY <2>1, <2>2, <2>3, TurnLeaves
  <2>7. PICK bt : /\ LeftFrom(d - 1, bt, Turn(time, after[d + 1], d), items)
                  /\ P!Range(bt) = Spared(at, time, d, items)
    BY <2>6
  <2>8. Left(k + 1)
    BY <2>1, <2>3, <2>4, <2>5, <2>6, <2>7 DEF Spared
  <2> HIDE DEF Left
  <2> QED
    BY <2>1, <2>8
<1>6. n \in T
  <2> HIDE DEF T, n
  <2>1. 0 .. n \subseteq T
    BY <1>1, <1>4, <1>5, CountUp
  <2> QED
    BY <1>1, <2>1
<1>7. n + 1 - n = 1 /\ n - n = 0 /\ Fresh(n) = {j \in DOMAIN items : ~ P!Expired(time, items[j])}
  BY <1>1
<1> HIDE DEF n, Fresh
<1>8. after[1] \in Seq(Items) /\ \E at : LeftFrom(0, at, after[1], items) /\ P!Range(at) = Fresh(n)
  BY <1>6, <1>7
<1> QED
  BY <1>2, <1>7, <1>8 DEF LeftFrom

-----------------------------------------------------------------------------
(* The store of a worker.  An item that is kept after the next input was   *)
(* kept before it and has not expired for it; the input itself is kept.    *)
LEMMA KeptByNext ==
  ASSUME NEW Items, NEW s \in Seq(Items), NEW input \in Items
  PROVE  LET longer == Append(s, input)
         IN  \A i \in 1 .. Len(s) + 1 :
               P!Kept(longer, i) <=> \/ i = Len(s) + 1
                                     \/ i <= Len(s) /\ P!Kept(s, i) /\ ~ P!Expired(input.time, s[i])
<1> DEFINE n == Len(s)
           longer == Append(s, input)
<1>1. n \in Nat /\ Len(longer) = n + 1 /\ longer[n + 1] = input /\ \A i \in 1 .. n : longer[i] = s[i]
  OBVIOUS
<1>2. P!Kept(longer, n + 1)
  <2> HIDE DEF longer, n
  <2>1. (n + 1) + 1 .. Len(longer) = {}
    BY <1>1
  <2> QED
    BY <2>1 DEF P!Kept
<1>3. ASSUME NEW i \in 1 .. n
      PROVE  P!Kept(longer, i) <=> P!Kept(s, i) /\ ~ P!Expired(input.time, s[i])
  <2> HIDE DEF longer
  <2>1. /\ i + 1 .. Len(longer) = (i + 1 .. n) \union {n + 1} /\ longer[i] = s[i]
        /\ \A j \in i + 1 .. n : longer[j] = s[j]
    BY <1>1
  <2> QED
    BY <1>1, <2>1 DEF P!Kept
<1> HIDE DEF longer
<1>4. \A i \in 1 .. n + 1 : i = n + 1 \/ i \in 1 .. n
  BY <1>1
<1> QED
  BY <1>1, <1>2, <1>3, <1>4 DEF longer

FreshStore(at, part, whole) ==
  /\ P!Selects(at, part, whole)
  /\ P!Range(at) = {i \in DOMAIN whole : P!Kept(whole, i)}

LEMMA StoreByNext ==
  ASSUME NEW Items, NEW s \in Seq(Items), NEW part \in Seq(Items), NEW input \in Items, NEW fresh \in Seq(Items),
         NEW at, FreshStore(at, part, s),
         NEW bt, P!Selects(bt, fresh, part),
         P!Range(bt) = {j \in DOMAIN part : ~ P!Expired(input.time, part[j])}
  PROVE  \E ct : FreshStore(ct, Append(fresh, input), Append(s, input))
<1> DEFINE n == Len(s)
           l == Len(fresh)
           longer == Append(s, input)
           more == Append(fresh, input)
           ct == [m \in 1 .. l + 1 |-> IF m <= l THEN at[bt[m]] ELSE n + 1]
<1>1. /\ n \in Nat /\ Len(longer) = n + 1 /\ longer[n + 1] = input /\ DOMAIN longer = 1 .. n + 1
      /\ \A i \in 1 .. n : longer[i] = s[i]
      /\ l \in Nat /\ Len(more) = l + 1 /\ more[l + 1] = input /\ DOMAIN more = 1 .. l + 1
      /\ \A i \in 1 .. l : more[i] = fresh[i]
      /\ DOMAIN s = 1 .. n /\ DOMAIN fresh = 1 .. l /\ DOMAIN part = 1 .. Len(part) /\ Len(part) \in Nat
  OBVIOUS
<1>2. /\ at \in [1 .. Len(part) -> 1 .. n]
      /\ \A j, k \in 1 .. Len(part) : j < k => at[j] < at[k]
      /\ \A j \in 1 .. Len(part) : part[j] = s[at[j]]
  BY <1>1 DEF FreshStore, P!Selects
<1>3. /\ bt \in [1 .. l -> 1 .. Len(part)]
      /\ \A j, k \in 1 .. l : j < k => bt[j] < bt[k]
      /\ \A j \in 1 .. l : fresh[j] = part[bt[j]]
  BY <1>1 DEF P!Selects
<1>4. \A i \in 1 .. n + 1 : P!Kept(longer, i) <=> \/ i = n + 1
                                                  \/ i <= n /\ P!Kept(s, i) /\ ~ P!Expired(input.time, s[i])
  BY KeptByNext
<1> HIDE DEF n, l, longer, more
<1>5. ct \in [1 .. l + 1 -> 1 .. n + 1] /\ ct[l + 1] = n + 1
      /\ \A m \in 1 .. l : ct[m] = at[bt[m]] /\ ct[m] \in 1 .. n
  <2>1. \A m \in 1 .. l : at[bt[m]] \in 1 .. n
    BY <1>2, <1>3
  <2> QED
    BY <1>1, <2>1
<1> HIDE DEF ct
<1>6. P!Selects(ct, more, longer)
  <2>1. ASSUME NEW j \in 1 .. l + 1, NEW k \in 1 .. l + 1, j < k PROVE ct[j] < ct[k]
    <3>1. j \in 1 .. l
      BY <1>1, <2>1
    <3>2. CASE k \in 1 .. l
      <4>1. bt[j] \in 1 .. Len(part) /\ bt[k] \in 1 .. Len(part) /\ bt[j] < bt[k]
        BY <1>3, <2>1, <3>1, <3>2
      <4>2. at[bt[j]] < at[bt[k]]
        BY <1>2, <4>1
      <4> QED
        BY <1>5, <3>1, <3>2, <4>2
    <3>3. CASE k = l + 1
      BY <1>1, <1>5, <3>1, <3>3
    <3> QED
      BY <1>1, <3>2, <3>3
  <2>2. ASSUME NEW j \in 1 .. l + 1 PROVE more[j] = longer[ct[j]]
    <3>1. CASE j \in 1 .. l
      <4>1. more[j] = fresh[j] /\ fresh[j] = part[bt[j]] /\ part[bt[j]] = s[at[bt[j]]]
        BY <1>1, <1>2, <1>3, <3>1
      <4>2. longer[ct[j]] = s[at[bt[j]]]
        BY <1>1, <1>5, <3>1
      <4> QED
        BY <4>1, <4>2
    <3>2. CASE j = l + 1
      BY <1>1, <1>5, <3>2
    <3> QED
      BY <1>1, <3>1, <3>2
  <2> QED
    BY <1>1, <1>5, <2>1, <2>2 DEF P!Selects
<1>7. P!Range(ct) = {i \in 1 .. n + 1 : P!Kept(longer, i)}
  <2>1. ASSUME NEW m \in 1 .. l + 1 PROVE P!Kept(longer, ct[m])
    <3>1. CASE m \in 1 .. l
      <4>1. bt[m] \in 1 .. Len(part) /\ bt[m] \in P!Range(bt)
        BY <1>3, <3>1 DEF P!Range
      <4>2. ~ P!Expired(input.time, s[ct[m]])
        BY <1>1, <1>2, <1>5, <3>1, <4>1
      <4>3. ct[m] \in P!Range(at)
        BY <1>2, <1>5, <3>1, <4>1 DEF P!Range
      <4>4. P!Kept(s, ct[m])
        BY <4>3 DEF FreshStore
      <4> QED
        BY <1>1, <1>4, <1>5, <3>1, <4>2, <4>4
    <3>2. CASE m = l + 1
      BY <1>1, <1>4, <1>5, <3>2
    <3> QED
      BY <1>1, <3>1, <3>2
  <2>2. ASSUME NEW i \in 1 .. n + 1, P!Kept(longer, i) PROVE \E m \in 1 .. l + 1 : ct[m] = i
    <3>1. CASE i = n + 1
      BY <1>1, <1>5, <3>1
    <3>2. CASE i # n + 1
      <4>1. i \in 1 .. n /\ P!Kept(s, i) /\ ~ P!Expired(input.time, s[i])
        BY <1>1, <1>4, <2>2, <3>2
      <4>2. PICK j \in 1 .. Len(part) : at[j] = i
        <5>1. i \in P!Range(at)
          BY <1>1, <4>1 DEF FreshStore
        <5> QED
          BY <1>2, <5>1 DEF P!Range
      <4>3. j \in P!Range(bt)
        BY <1>1, <1>2, <4>1, <4>2
      <4>4. PICK m \in 1 .. l : bt[m] = j
        BY <1>3, <4>3 DEF P!Range
      <4>5. m \in 1 .. l + 1 /\ ct[m] = i
        BY <1>1, <1>5, <4>2, <4>4
      <4> QED
        BY <4>5
    <3> QED
      BY <3>1, <3>2
  <2>3. P!Range(ct) = {ct[m] : m \in 1 .. l + 1} /\ \A m \in 1 .. l + 1 : ct[m] \in 1 .. n + 1
    BY <1>5 DEF P!Range
  <2> QED
    BY <2>1, <2>2, <2>3
<1>8. FreshStore(ct, more, longer)
  BY <1>1, <1>6, <1>7 DEF FreshStore
<1> QED
  BY <1>8 DEF more, longer

-----------------------------------------------------------------------------
(* main and the pollers.                                                   *)

(* main has a queue to put or to submit as long as it is at it, and the    *)
(* pollers of the queues to come are new.                                  *)
MainSound ==
  /\ s1 \in {"put", "resize", "submit"} => s2 < Queues
  /\ \A q \in P!Q : q > s2 => s3[q] = "new"

PollersInv == P!TypeOK /\ MainSound /\ P!StoreFresh

PollerLabels == {"new", "queued", "poll", "run", "post", "dead"}
Running == {"poll", "run", "post"}

LEMMA PollerTypes ==
  ASSUME P!PollersAssumption, P!TypeOK
  PROVE  /\ Queues \in Nat /\ s2 \in Nat /\ s2 <= Queues /\ Pool \in Nat
         /\ s3 \in [P!Q -> PollerLabels] /\ s4 \in 0 .. Pool
         /\ s5 \in [P!Q -> Seq(Inputs)] /\ s6 \in [P!Q -> Seq(Inputs)]
         /\ IsFiniteSet(P!Active) /\ Cardinality(P!Active) \in Nat /\ s4 = Pool - Cardinality(P!Active)
<1>1. /\ Queues \in Nat /\ s2 \in Nat /\ s2 <= Queues /\ Pool \in Nat
      /\ s3 \in [P!Q -> PollerLabels] /\ s4 \in 0 .. Pool
      /\ s5 \in [P!Q -> Seq(Inputs)] /\ s6 \in [P!Q -> Seq(Inputs)]
  BY DEF P!PollersAssumption, P!TypeOK, PollerLabels
<1>2. IsFiniteSet(P!Active)
  <2>1. IsFiniteSet(1 .. Queues)
    BY <1>1, FS_Interval
  <2>2. P!Active \in SUBSET (1 .. Queues)
    BY DEF P!Active, P!Q
  <2> QED
    BY <2>1, <2>2, FS_Subset
<1>3. Cardinality(P!Active) \in Nat
  BY <1>2, FS_CardinalityType
<1>4. P!Cardinality(P!Active) = Cardinality(P!Active)
  BY DEF P!Cardinality, Cardinality
<1>5. s4 = Pool - Cardinality(P!Active)
  BY <1>4 DEF P!TypeOK
<1> QED
  BY <1>1, <1>2, <1>3, <1>5

(* A poller that goes on, starts or ends is counted so.                    *)
LEMMA ActiveCount ==
  ASSUME P!PollersAssumption, P!TypeOK, NEW q \in P!Q, NEW label \in PollerLabels,
         s3' = [s3 EXCEPT ![q] = label]
  PROVE  /\ s3' \in [P!Q -> PollerLabels] /\ s3'[q] = label
         /\ \A r \in P!Q : r # q => s3'[r] = s3[r]
         /\ Cardinality(P!Active') =
              Cardinality(P!Active) + (IF label \in Running THEN 1 ELSE 0)
                                    - (IF s3[q] \in Running THEN 1 ELSE 0)
<1>1. /\ s3' \in [P!Q -> PollerLabels] /\ s3'[q] = label
      /\ \A r \in P!Q : r # q => s3'[r] = s3[r]
  BY PollerTypes
<1>2. /\ P!Active = {r \in P!Q : s3[r] \in Running} /\ P!Active' = {r \in P!Q : s3'[r] \in Running}
      /\ IsFiniteSet(P!Active) /\ Cardinality(P!Active) \in Nat
  BY PollerTypes DEF P!Active, Running
<1>3. P!Active' = IF label \in Running THEN P!Active \union {q} ELSE P!Active \ {q}
  BY <1>1, <1>2
<1>4. q \in P!Active <=> s3[q] \in Running
  BY <1>2
<1>5. CASE label \in Running
  <2>1. Cardinality(P!Active') = IF q \in P!Active THEN Cardinality(P!Active) ELSE Cardinality(P!Active) + 1
    BY <1>2, <1>3, <1>5, FS_AddElement
  <2> QED
    BY <1>1, <1>2, <1>4, <1>5, <2>1
<1>6. CASE label \notin Running
  <2>1. Cardinality(P!Active') = IF q \in P!Active THEN Cardinality(P!Active) - 1 ELSE Cardinality(P!Active)
    BY <1>2, <1>3, <1>6, FS_RemoveElement
  <2> QED
    BY <1>1, <1>2, <1>4, <1>6, <2>1
<1> QED
  BY <1>5, <1>6

(* Every step leaves the pollers as they are, or takes one to its next     *)
(* label; a thread is taken when it starts and left when it ends.          *)
PollerStep(q, label) ==
  /\ s3' = [s3 EXCEPT ![q] = label]
  /\ s3[q] # "new"
  /\ s4' = s4 + (IF s3[q] \in Running THEN 1 ELSE 0) - (IF label \in Running THEN 1 ELSE 0)
  /\ label \in Running \ {s3[q]} => s4 > 0 \/ s3[q] \in Running
  /\ UNCHANGED <<s1, s2>>

LEMMA PollersMove ==
  ASSUME P!PollersAssumption, P!TypeOK, NEW q \in P!Q, P!Dispatch(q) \/ P!Poll(q) \/ P!Work(q)
  PROVE  \E label \in PollerLabels : PollerStep(q, label)
<1> USE PollerTypes DEF PollerStep, PollerLabels, Running
<1>0. s4 \in Nat
  OBVIOUS
<1>1. CASE P!Dispatch(q)
  <2>1. PollerStep(q, "poll")
    BY <1>0, <1>1 DEF P!Dispatch
  <2> QED
    BY <2>1
<1>2. CASE P!RequestFails(q) \/ P!WorkerMissing(q)
  <2>1. PollerStep(q, "dead")
    BY <1>0, <1>2 DEF P!RequestFails, P!WorkerMissing, P!Die
  <2> QED
    BY <2>1
<1>3. CASE P!RequestInput(q)
  <2>1. PollerStep(q, "run")
    BY <1>0, <1>3 DEF P!RequestInput
  <2> QED
    BY <2>1
<1>4. CASE P!RunWorker(q)
  <2>1. /\ s3[q] = "run" /\ UNCHANGED <<s1, s2, s4>>
        /\ s3' = [s3 EXCEPT ![q] = "post"] \/ s3' = [s3 EXCEPT ![q] = "poll"]
    BY <1>4, Zenon DEF P!RunWorker
  <2>2. PollerStep(q, "post") \/ PollerStep(q, "poll")
    BY <1>0, <2>1
  <2> QED
    BY <2>2
<1>5. CASE P!PostResult(q)
  <2>1. PollerStep(q, "poll")
    BY <1>0, <1>5 DEF P!PostResult
  <2> QED
    BY <2>1
<1> QED
  BY <1>1, <1>2, <1>3, <1>4, <1>5 DEF P!Poll, P!Work

LEMMA MainMoves ==
  ASSUME P!PollersAssumption, P!TypeOK, MainSound, P!Main
  PROVE  /\ UNCHANGED <<s4, s5, s6>> /\ MainSound'
         /\ s1' \in {"put", "resize", "submit", "await", "ended"} /\ s2' \in 0 .. Queues
         /\ \/ UNCHANGED s3
            \/ \E q \in P!Q : s3[q] = "new" /\ s3' = [s3 EXCEPT ![q] = "queued"]
<1>1. CASE P!PutWorker \/ P!Resized \/ P!Terminated
  <2>1. /\ UNCHANGED <<s2, s3, s4, s5, s6>>
        /\ s1' \in {"put", "resize", "submit", "await", "ended"}
        /\ s1' \in {"put", "resize", "submit"} => s1 \in {"put", "resize", "submit"}
    BY <1>1 DEF P!PutWorker, P!Resized, P!Terminated
  <2>2. s2' \in 0 .. Queues
    BY <2>1 DEF P!TypeOK
  <2> QED
    BY <2>1, <2>2 DEF MainSound
<1>2. CASE P!Submit
  <2>1. /\ s1 = "submit" /\ s2' = s2 + 1 /\ UNCHANGED <<s4, s5, s6>>
        /\ s3' = [s3 EXCEPT ![s2 + 1] = "queued"]
        /\ s1' = IF s2 + 1 = Queues THEN "await" ELSE "put"
    BY <1>2 DEF P!Submit
  <2>2. s2 + 1 \in P!Q /\ s2' \in 0 .. Queues /\ s2 \in Nat /\ Queues \in Nat
    BY <2>1, PollerTypes DEF MainSound, P!Q
  <2>3. s3[s2 + 1] = "new"
    BY <2>2 DEF MainSound
  <2>4. s1' \in {"put", "resize", "submit"} => s2' < Queues
    BY <2>1, <2>2
  <2>5. ASSUME NEW q \in P!Q, q > s2' PROVE s3'[q] = "new"
    <3>1. q > s2 /\ q # s2 + 1
      BY <2>1, <2>2, <2>5 DEF P!Q
    <3> QED
      BY <2>1, <3>1, PollerTypes DEF MainSound
  <2> QED
    BY <2>1, <2>2, <2>3, <2>4, <2>5 DEF MainSound
<1> QED
  BY <1>1, <1>2 DEF P!Main

(* What a worker is run on and what it stores.                             *)
LEMMA WorkerStores ==
  ASSUME P!PollersAssumption, P!TypeOK, P!StoreFresh, NEW q \in P!Q, P!RunWorker(q)
  PROVE  /\ s5' \in [P!Q -> Seq(Inputs)] /\ s6' \in [P!Q -> Seq(Inputs)]
         /\ P!StoreFresh'
<1>1. PICK input \in Inputs :
        /\ s5' = [s5 EXCEPT ![q] = Append(P!removeExpiredStoreItems(input.time, s5[q]), input)]
        /\ s6' = [s6 EXCEPT ![q] = Append(s6[q], input)]
  BY Zenon DEF P!RunWorker
<1> DEFINE fresh == P!removeExpiredStoreItems(input.time, s5[q])
<1>2. s5[q] \in Seq(Inputs) /\ s6[q] \in Seq(Inputs)
  BY PollerTypes
<1>3. fresh \in Seq(Inputs)
  BY <1>2, LoopLeavesFresh
<1>4. PICK bt : /\ P!Selects(bt, fresh, s5[q])
                /\ P!Range(bt) = {j \in DOMAIN s5[q] : ~ P!Expired(input.time, s5[q][j])}
  BY <1>2, LoopLeavesFresh
<1>5. PICK at : FreshStore(at, s5[q], s6[q])
  BY DEF P!StoreFresh, FreshStore
<1> HIDE DEF fresh
<1>6. PICK ct : FreshStore(ct, Append(fresh, input), Append(s6[q], input))
  BY <1>2, <1>3, <1>4, <1>5, StoreByNext
<1>7. /\ s5'[q] = Append(fresh, input) /\ s6'[q] = Append(s6[q], input)
      /\ \A r \in P!Q : r # q => s5'[r] = s5[r] /\ s6'[r] = s6[r]
  BY <1>1, PollerTypes DEF fresh
<1>8. /\ Append(fresh, input) \in Seq(Inputs) /\ Append(s6[q], input) \in Seq(Inputs)
  BY <1>2, <1>3
<1>9. s5' \in [P!Q -> Seq(Inputs)] /\ s6' \in [P!Q -> Seq(Inputs)]
  BY <1>1, <1>8, PollerTypes DEF fresh
<1>10. ASSUME NEW r \in P!Q PROVE \E dt : FreshStore(dt, s5'[r], s6'[r])
  <2>1. CASE r = q
    BY <1>6, <1>7, <2>1
  <2>2. CASE r # q
    BY <1>7, <2>2 DEF P!StoreFresh, FreshStore
  <2> QED
    BY <2>1, <2>2
<1>11. P!StoreFresh'
  BY <1>10 DEF P!StoreFresh, FreshStore, P!Selects, P!Kept, P!Expired, P!Range
<1> QED
  BY <1>9, <1>11

LEMMA PollersInit ==
  ASSUME P!PollersAssumption, P!Init
  PROVE  PollersInv
<1>1. s3 = [q \in P!Q |-> "new"] /\ s5 = [q \in P!Q |-> <<>>] /\ s6 = [q \in P!Q |-> <<>>]
  BY DEF P!Init
<1>2. Queues \in Nat /\ Pool \in Nat /\ s4 = Pool
  BY DEF P!Init, P!PollersAssumption
<1>3. P!Cardinality(P!Active) = 0
  <2>1. P!Active = {}
    BY <1>1 DEF P!Active
  <2> QED
    BY <2>1, FS_EmptySet DEF P!Cardinality, Cardinality
<1>4. P!TypeOK
  <2>1. s1 \in {"put", "resize", "submit", "await", "ended"} /\ s2 \in 0 .. Queues
    BY <1>2 DEF P!Init
  <2>2. s4 \in 0 .. Pool /\ s4 = Pool - P!Cardinality(P!Active)
    BY <1>2, <1>3
  <2>3. s5 \in [P!Q -> Seq(Inputs)] /\ s6 \in [P!Q -> Seq(Inputs)]
    BY <1>1
  <2>4. s3 \in [P!Q -> {"new", "queued", "poll", "run", "post", "dead"}]
    BY <1>1
  <2> QED
    BY <2>1, <2>2, <2>3, <2>4 DEF P!TypeOK
<1>5. MainSound
  <2>1. s2 = 0 /\ s1 \in {"await", "put"} /\ (s1 = "put" => Queues # 0)
    BY DEF P!Init
  <2> QED
    BY <1>1, <1>2, <2>1 DEF MainSound
<1>6. P!StoreFresh
  <2> SUFFICES ASSUME NEW q \in P!Q PROVE \E at : FreshStore(at, s5[q], s6[q])
    BY DEF P!StoreFresh, FreshStore, P!Selects
  <2>1. s5[q] = <<>> /\ s6[q] = <<>>
    BY <1>1
  <2>2. FreshStore(<<>>, <<>>, <<>>)
    <3>1. DOMAIN <<>> = {}
      OBVIOUS
    <3>2. P!Selects(<<>>, <<>>, <<>>)
      BY <3>1 DEF P!Selects
    <3>3. P!Range(<<>>) = {}
      BY <3>1 DEF P!Range
    <3> QED
      BY <3>1, <3>2, <3>3 DEF FreshStore
  <2> QED
    BY <2>1, <2>2
<1> QED
  BY <1>4, <1>5, <1>6 DEF PollersInv

LEMMA PollersKept ==
  ASSUME P!PollersAssumption, PollersInv, [P!Next]_P!vars
  PROVE  PollersInv'
<1>0. P!TypeOK /\ MainSound /\ P!StoreFresh
  BY DEF PollersInv
<1>1. P!Cardinality(P!Active)' = Cardinality(P!Active')
  BY DEF P!Cardinality, Cardinality
<1>2. ASSUME UNCHANGED <<s5, s6>> PROVE P!StoreFresh' /\ s5' \in [P!Q -> Seq(Inputs)] /\ s6' \in [P!Q -> Seq(Inputs)]
  <2>1. s5' \in [P!Q -> Seq(Inputs)] /\ s6' \in [P!Q -> Seq(Inputs)]
    BY <1>0, <1>2, PollerTypes
  <2>2. \A q \in P!Q : \E at : FreshStore(at, s5[q], s6[q])
    BY <1>0 DEF P!StoreFresh, FreshStore
  <2>3. \A q \in P!Q : \E at : FreshStore(at, s5'[q], s6'[q])
    BY <1>2, <2>2
  <2>4. P!StoreFresh'
    BY <2>3 DEF P!StoreFresh, FreshStore, P!Selects, P!Kept, P!Expired, P!Range
  <2> QED
    BY <2>1, <2>4
<1>3. CASE UNCHANGED P!vars
  <2>1. UNCHANGED <<s1, s2, s3, s4, s5, s6>>
    BY <1>3 DEF P!vars
  <2>2. P!Active' = P!Active
    BY <2>1 DEF P!Active
  <2>3. P!TypeOK'
    BY <1>0, <1>1, <2>1, <2>2, PollerTypes DEF P!TypeOK
  <2>4. MainSound'
    BY <1>0, <2>1 DEF MainSound
  <2> QED
    BY <1>2, <2>1, <2>3, <2>4 DEF PollersInv
<1>4. CASE P!Main
  <2>1. /\ UNCHANGED <<s4, s5, s6>> /\ MainSound'
        /\ s1' \in {"put", "resize", "submit", "await", "ended"} /\ s2' \in 0 .. Queues
    BY <1>0, <1>4, MainMoves
  <2>2. s3' \in [P!Q -> PollerLabels] /\ Cardinality(P!Active') = Cardinality(P!Active)
    <3>1. CASE UNCHANGED s3
      <4>1. P!Active' = P!Active
        BY <3>1 DEF P!Active
      <4> QED
        BY <1>0, <3>1, <4>1, PollerTypes
    <3>2. ASSUME NEW q \in P!Q, s3[q] = "new", s3' = [s3 EXCEPT ![q] = "queued"]
          PROVE  s3' \in [P!Q -> PollerLabels] /\ Cardinality(P!Active') = Cardinality(P!Active)
      <4>1. "queued" \in PollerLabels /\ "queued" \notin Running /\ s3[q] \notin Running
        BY <3>2 DEF PollerLabels, Running
      <4>2. /\ s3' \in [P!Q -> PollerLabels]
            /\ Cardinality(P!Active') =
                 Cardinality(P!Active) + (IF "queued" \in Running THEN 1 ELSE 0)
                                       - (IF s3[q] \in Running THEN 1 ELSE 0)
        BY <1>0, <3>2, <4>1, ActiveCount
      <4>3. Cardinality(P!Active) \in Nat
        BY <1>0, PollerTypes
      <4> QED
        BY <4>1, <4>2, <4>3
    <3> QED
      BY <1>0, <1>4, <3>1, <3>2, MainMoves
  <2>3. P!TypeOK'
    BY <1>0, <1>1, <1>2, <2>1, <2>2, PollerTypes DEF P!TypeOK, PollerLabels
  <2> QED
    BY <1>2, <2>1, <2>3 DEF PollersInv
<1>5. ASSUME NEW q \in P!Q, P!Dispatch(q) \/ P!Poll(q) \/ P!Work(q) PROVE PollersInv'
  <2>1. PICK label \in PollerLabels : PollerStep(q, label)
    BY <1>0, <1>5, PollersMove
  <2>2. /\ s3' \in [P!Q -> PollerLabels]
        /\ \A r \in P!Q : r # q => s3'[r] = s3[r]
        /\ Cardinality(P!Active') =
             Cardinality(P!Active) + (IF label \in Running THEN 1 ELSE 0)
                                   - (IF s3[q] \in Running THEN 1 ELSE 0)
    BY <1>0, <2>1, ActiveCount DEF PollerStep
  <2>3. s4' \in 0 .. Pool /\ s4' = Pool - Cardinality(P!Active')
    <3>1. /\ s4 \in 0 .. Pool /\ Pool \in Nat /\ Cardinality(P!Active) \in Nat
          /\ s4 = Pool - Cardinality(P!Active)
      BY <1>0, PollerTypes
    <3>2. s3[q] \in Running => Cardinality(P!Active) > 0
      <4>1. ASSUME s3[q] \in Running PROVE Cardinality(P!Active) # 0
        <5>1. q \in P!Active
          BY <4>1 DEF P!Active, Running
        <5> QED
          BY <1>0, <5>1, PollerTypes, FS_EmptySet
      <4> QED
        BY <3>1, <4>1
    <3> QED
      BY <2>1, <2>2, <3>1, <3>2 DEF PollerStep
  <2>4. MainSound' /\ UNCHANGED <<s1, s2>>
    BY <1>0, <2>1, <2>2 DEF MainSound, PollerStep
  <2>5. P!StoreFresh' /\ s5' \in [P!Q -> Seq(Inputs)] /\ s6' \in [P!Q -> Seq(Inputs)]
    <3>1. CASE P!RunWorker(q)
      BY <1>0, <3>1, WorkerStores
    <3>2. CASE ~ P!RunWorker(q)
      <4>1. UNCHANGED <<s5, s6>>
        BY <1>5, <3>2 DEF P!Dispatch, P!Poll, P!Work, P!RequestFails, P!RequestInput,
                          P!WorkerMissing, P!PostResult, P!Die
      <4> QED
        BY <1>2, <4>1
    <3> QED
      BY <3>1, <3>2
  <2>6. P!TypeOK'
    BY <1>0, <1>1, <2>2, <2>3, <2>4, <2>5, PollerTypes DEF P!TypeOK, PollerLabels
  <2> QED
    BY <2>4, <2>5, <2>6 DEF PollersInv
<1> QED
  BY <1>3, <1>4, <1>5 DEF P!Next

PollersSafe == program = "pollers" => PollersInv

LEMMA PollersSafeInit == Init => PollersSafe
BY Assumptions, PollersInit DEF Init, PollersSafe

LEMMA PollersSafeStep ==
  ASSUME PollersSafe, [Next]_vars
  PROVE  PollersSafe'
<1> SUFFICES ASSUME program' = "pollers" PROVE PollersInv'
  BY DEF PollersSafe
<1>1. PollersInv
  BY OneRuns DEF PollersSafe
<1>2. P!Next \/ UNCHANGED P!vars
  BY OneRuns
<1> QED
  BY <1>1, <1>2, Assumptions, PollersKept

(* Whatever inputs a worker is given, and in whatever order of their times:*)
(* its store holds, in the order in which they were given, every input     *)
(* that no later one has found expired, and no other.                      *)
THEOREM StoresAreFresh == Spec => []StoreFresh
<1>1. PollersSafe => StoreFresh
  BY DEF PollersSafe, PollersInv, StoreFresh
<1> QED
  BY <1>1, PollersSafeInit, PollersSafeStep, PTL DEF Spec

-----------------------------------------------------------------------------
(* The monitor queue.                                                      *)

(* What the steps keep: a capacity is a number, so an empty queue is never *)
(* taken for a full one.                                                   *)
MonitorSafe == s2 \in Capacities /\ W!NobodyForgotten

LEMMA InitMonitorSafe == W!Init => MonitorSafe
  BY DEF W!Init, MonitorSafe, W!NobodyForgotten

(* A get adds its thread to the wait set only when there is no element,    *)
(* and takes an element only when nobody waits.                            *)
LEMMA TestQueueMonitorSafe ==
  ASSUME MonitorSafe, NEW t \in Threads, W!TestQueue(t)
  PROVE  MonitorSafe'
<1>1. CASE s1 = <<>>
  BY <1>1 DEF W!TestQueue, MonitorSafe, W!NobodyForgotten
<1>2. CASE s1 # <<>>
  BY <1>2 DEF W!TestQueue, MonitorSafe, W!NobodyForgotten
<1> QED
  BY <1>1, <1>2

(* A put that adds wakes everybody; one that is refused leaves the queue   *)
(* as it is, and wakes one thread at most.                                 *)
LEMMA PutMonitorSafe ==
  ASSUME W!MonitorAssumption, MonitorSafe, W!Put
  PROVE  MonitorSafe'
<1>1. s2' \in Capacities
  BY DEF W!Put
<1>2. CASE s2 = 0 \/ Len(s1) < s2'
  BY <1>1, <1>2 DEF W!Put, W!NotifyAll, MonitorSafe, W!NobodyForgotten
<1>3. CASE ~ (s2 = 0 \/ Len(s1) < s2')
  <2>1. s1' = s1 /\ (s3 = {} => s3' = {})
    BY <1>3 DEF W!Put, W!Notify
  <2> QED
    BY <1>1, <2>1 DEF MonitorSafe, W!NobodyForgotten
<1> QED
  BY <1>2, <1>3

(* Methods that take elements away, and time, wake nobody, and leave a     *)
(* queue without elements as it is.                                        *)
LEMMA RemovingMonitorSafe ==
  ASSUME MonitorSafe,
         W!Expire \/ \E t \in Threads :
                     W!GetNoWait(t) \/ W!Peek(t) \/ W!RemoveElementById(t) \/ W!Clear(t)
  PROVE  MonitorSafe'
<1>1. s2' = s2 /\ s3' = s3
  BY DEF W!GetNoWait, W!Peek, W!RemoveElementById, W!Clear, W!Expire
<1>2. ASSUME s1 = <<>> PROVE s1' = <<>>
  <2>1. DOMAIN s1 = {}
    BY <1>2
  <2>2. CASE W!Expire
    BY <2>1, <2>2 DEF W!Expire
  <2>3. ASSUME NEW t \in Threads, W!GetNoWait(t) PROVE s1' = <<>>
    <3>1. {k \in DOMAIN s1 : s1[k] = "valid"} = {}
      BY <2>1
    <3> QED
      BY <2>3, <3>1 DEF W!GetNoWait
  <2>4. ASSUME NEW t \in Threads, W!Peek(t) PROVE s1' = <<>>
    BY <1>2, <2>4 DEF W!Peek
  <2>5. ASSUME NEW t \in Threads, W!RemoveElementById(t) PROVE s1' = <<>>
    BY <2>1, <2>5 DEF W!RemoveElementById
  <2>6. ASSUME NEW t \in Threads, W!Clear(t) PROVE s1' = <<>>
    BY <2>6 DEF W!Clear
  <2> QED
    BY <2>2, <2>3, <2>4, <2>5, <2>6
<1> QED
  BY <1>1, <1>2 DEF MonitorSafe, W!NobodyForgotten

LEMMA StepMonitorSafe ==
  ASSUME W!MonitorAssumption, MonitorSafe, [W!Next]_W!vars
  PROVE  MonitorSafe'
<1>1. CASE W!Put
  BY <1>1, PutMonitorSafe
<1>2. CASE W!SetCapacity
  BY <1>2 DEF W!SetCapacity, MonitorSafe, W!NobodyForgotten
<1>3. CASE W!Expire \/ \E t \in Threads :
                       W!GetNoWait(t) \/ W!Peek(t) \/ W!RemoveElementById(t) \/ W!Clear(t)
  BY <1>3, RemovingMonitorSafe
<1>4. CASE \E t \in Threads : W!Get(t) \/ W!Resume(t)
  BY <1>4, TestQueueMonitorSafe DEF W!Get, W!Resume
<1>5. ASSUME NEW t \in Threads, W!Interrupt(t) PROVE MonitorSafe'
  BY <1>5 DEF W!Interrupt, MonitorSafe, W!NobodyForgotten
<1>6. CASE UNCHANGED W!vars
  BY <1>6 DEF W!vars, MonitorSafe, W!NobodyForgotten
<1> QED
  BY <1>1, <1>2, <1>3, <1>4, <1>5, <1>6 DEF W!Next

MonitorInv == program = "monitor" => MonitorSafe

(* No thread stays in the wait set of MyQueue.get while there is an        *)
(* element, whoever interrupts, removes, or puts on a full queue.          *)
THEOREM NobodyWaitsBesideElements == Spec => []NobodyForgotten
<1>1. Init => MonitorInv
  BY InitMonitorSafe DEF Init, MonitorInv
<1>2. MonitorInv /\ [Next]_vars => MonitorInv'
  <2> SUFFICES ASSUME MonitorInv, [Next]_vars, program' = "monitor" PROVE MonitorSafe'
    BY DEF MonitorInv
  <2>1. MonitorSafe
    BY OneRuns DEF MonitorInv
  <2>2. W!Next \/ UNCHANGED W!vars
    BY OneRuns DEF W!vars
  <2> QED
    BY <2>1, <2>2, Assumptions, StepMonitorSafe
<1>3. MonitorInv => NobodyForgotten
  BY DEF MonitorInv, MonitorSafe, NobodyForgotten
<1> QED
  BY <1>1, <1>2, <1>3, PTL DEF Spec

(* The types of the monitor queue.  Threads that wait, and threads that    *)
(* are to test the queue again, are different ones.                        *)
LEMMA InitMonitorTyped ==
  ASSUME W!MonitorAssumption, W!Init
  PROVE  W!TypeOK
  BY DEF W!Init, W!MonitorAssumption, W!TypeOK

LEMMA QueueLeft ==
  ASSUME NEW Items, NEW q \in Seq(Items)
  PROVE  /\ q # <<>> => Tail(q) \in Seq(Items)
         /\ \A k \in DOMAIN q : W!RemoveAt(q, k) \in Seq(Items) /\ SubSeq(q, k, Len(q)) \in Seq(Items)
         /\ \A k \in DOMAIN q, x \in Items : [q EXCEPT ![k] = x] \in Seq(Items)
<1>1. ASSUME NEW k \in DOMAIN q PROVE W!RemoveAt(q, k) \in Seq(Items) /\ SubSeq(q, k, Len(q)) \in Seq(Items)
  <2>1. k \in 1 .. Len(q) /\ Len(q) \in Nat
    OBVIOUS
  <2>2. /\ SubSeq(q, 1, k - 1) \in Seq(Items) /\ SubSeq(q, k + 1, Len(q)) \in Seq(Items)
        /\ SubSeq(q, k, Len(q)) \in Seq(Items)
    BY <2>1
  <2> QED
    BY <2>2 DEF W!RemoveAt
<1>2. ASSUME NEW k \in DOMAIN q, NEW x \in Items PROVE [q EXCEPT ![k] = x] \in Seq(Items)
  OBVIOUS
<1>3. ASSUME q # <<>> PROVE Tail(q) \in Seq(Items)
  BY <1>3
<1> QED
  BY <1>1, <1>2, <1>3

LEMMA QueueTyped ==
  ASSUME W!MonitorAssumption, W!TypeOK, [W!Next]_W!vars
  PROVE  s1' \in Seq({"valid", "expired"})
<1> DEFINE Elements == {"valid", "expired"}
<1>1. s1 \in Seq(Elements)
  BY DEF W!TypeOK
<1>2. CASE UNCHANGED s1
  BY <1>1, <1>2
<1>3. CASE W!Put
  <2>1. UNCHANGED s1 \/ \E x \in Elements : s1' = Append(s1, x)
    BY <1>3 DEF W!Put
  <2> HIDE DEF Elements
  <2>2. s1' \in Seq(Elements)
    BY <1>1, <2>1
  <2> QED
    BY <2>2 DEF Elements
<1>4. CASE W!Expire
  <2>1. \E k \in DOMAIN s1 : s1' = [s1 EXCEPT ![k] = "expired"]
    BY <1>4 DEF W!Expire
  <2>2. "expired" \in Elements
    OBVIOUS
  <2> HIDE DEF Elements
  <2>3. s1' \in Seq(Elements)
    BY <1>1, <2>1, <2>2, QueueLeft
  <2> QED
    BY <2>3 DEF Elements
<1>5. ASSUME NEW t \in Threads, W!Get(t) \/ W!Resume(t) PROVE s1' \in Seq(Elements)
  <2>1. UNCHANGED s1 \/ (s1 # <<>> /\ s1' = Tail(s1))
    BY <1>5 DEF W!Get, W!Resume, W!TestQueue
  <2> HIDE DEF Elements
  <2> QED
    BY <1>1, <2>1, QueueLeft
<1>6. ASSUME NEW t \in Threads, W!GetNoWait(t) PROVE s1' \in Seq(Elements)
  <2> DEFINE valid == {k \in DOMAIN s1 : s1[k] = "valid"}
             first == CHOOSE k \in valid : \A j \in valid : k <= j
  <2>1. s1' = IF valid = {} THEN <<>> ELSE SubSeq(s1, first, Len(s1))
    BY <1>6 DEF W!GetNoWait
  <2> HIDE DEF Elements
  <2>2. CASE valid = {}
    BY <2>1, <2>2
  <2>3. CASE valid # {}
    <3>1. \E k \in valid : \A j \in valid : k <= j
      <4>1. valid \in SUBSET Nat
        BY <1>1
      <4> HIDE DEF valid
      <4> QED
        BY <2>3, <4>1, LeastNumber
    <3>2. first \in DOMAIN s1
      BY <3>1
    <3> HIDE DEF first
    <3> QED
      BY <1>1, <2>1, <2>3, <3>2, QueueLeft
  <2> QED
    BY <2>2, <2>3
<1>7. ASSUME NEW t \in Threads, W!Peek(t) PROVE s1' \in Seq(Elements)
  <2>1. s1 # <<>> /\ s1' \in {s1, Tail(s1)}
    BY <1>7 DEF W!Peek
  <2> HIDE DEF Elements
  <2> QED
    BY <1>1, <2>1, QueueLeft
<1>8. ASSUME NEW t \in Threads, W!RemoveElementById(t) PROVE s1' \in Seq(Elements)
  <2>1. \E k \in DOMAIN s1 : s1' = W!RemoveAt(s1, k)
    BY <1>8 DEF W!RemoveElementById
  <2> HIDE DEF Elements
  <2> QED
    BY <1>1, <2>1, QueueLeft
<1>9. ASSUME NEW t \in Threads, W!Clear(t) PROVE s1' \in Seq(Elements)
  BY <1>9 DEF W!Clear
<1>10. ASSUME W!SetCapacity \/ UNCHANGED W!vars \/ \E t \in Threads : W!Interrupt(t) PROVE UNCHANGED s1
  BY <1>10 DEF W!SetCapacity, W!vars, W!Interrupt
<1> QED
  BY <1>2, <1>3, <1>4, <1>5, <1>6, <1>7, <1>8, <1>9, <1>10 DEF W!Next

LEMMA WaitersTyped ==
  ASSUME W!MonitorAssumption, W!TypeOK, [W!Next]_W!vars
  PROVE  s3' \subseteq Threads /\ s4' \subseteq Threads \ s3'
<1> USE DEF W!TypeOK
<1>1. CASE W!Put
  BY <1>1 DEF W!Put, W!NotifyAll, W!Notify
<1>2. ASSUME NEW t \in Threads, W!Get(t) \/ W!Resume(t) \/ W!Interrupt(t)
      PROVE  s3' \subseteq Threads /\ s4' \subseteq Threads \ s3'
  BY <1>2 DEF W!Get, W!Resume, W!Interrupt, W!TestQueue, W!Idle
<1>3. CASE UNCHANGED <<s3, s4>>
  BY <1>3
<1> QED
  BY <1>1, <1>2, <1>3
     DEF W!Next, W!vars, W!SetCapacity, W!Expire, W!GetNoWait, W!Peek, W!RemoveElementById, W!Clear

LEMMA StepMonitorTyped ==
  ASSUME W!MonitorAssumption, W!TypeOK, [W!Next]_W!vars
  PROVE  W!TypeOK'
<1>1. s1' \in Seq({"valid", "expired"}) /\ s3' \subseteq Threads /\ s4' \subseteq Threads \ s3'
  BY QueueTyped, WaitersTyped
<1>2. /\ s2' = s2 \/ s2' \in Capacities
      /\ s5' = s5 \/ (s5 < MaxPuts /\ s5' = s5 + 1)
      /\ s6' = s6 \/ (s6 < MaxWakes /\ s6' = s6 + 1)
  BY DEF W!Next, W!vars, W!Put, W!SetCapacity, W!Expire, W!Get, W!Resume, W!TestQueue, W!Interrupt,
         W!GetNoWait, W!Peek, W!RemoveElementById, W!Clear
<1>3. MaxPuts \in Nat /\ MaxWakes \in Nat
  BY DEF W!MonitorAssumption
<1>4. s2' \in Capacities /\ s5' \in 0 .. MaxPuts /\ s6' \in 0 .. MaxWakes
  BY <1>2, <1>3 DEF W!TypeOK
<1> QED
  BY <1>1, <1>4 DEF W!TypeOK

-----------------------------------------------------------------------------
(* Types of all the programs.                                              *)

MonitorTyped == program = "monitor" => W!TypeOK

LEMMA SameTypes ==
  /\ SP!TypeOK => S!TypeOK
  /\ QP!TypeOK => Q!TypeOK
BY DEF SP!TypeOK, S!TypeOK, SP!NoFile, S!NoFile, QP!TypeOK, Q!TypeOK, QP!Messages, Q!Messages,
       QP!Labels, Q!Labels, QP!Pulling, Q!Pulling

(* Each of the programs keeps its variables in their types; the pollers'   *)
(* part says that as many threads of the pool are free as run no poller.   *)
THEOREM ProgramsTyped == Spec => []TypeOK
<1>1. Init => MonitorTyped
  BY Assumptions, InitMonitorTyped DEF Init, MonitorTyped
<1>2. MonitorTyped /\ [Next]_vars => MonitorTyped'
  <2> SUFFICES ASSUME MonitorTyped, [Next]_vars, program' = "monitor" PROVE W!TypeOK'
    BY DEF MonitorTyped
  <2>1. W!TypeOK
    BY OneRuns DEF MonitorTyped
  <2>2. W!Next \/ UNCHANGED W!vars
    BY OneRuns DEF W!vars
  <2> QED
    BY <2>1, <2>2, Assumptions, StepMonitorTyped
<1>3. HistorySafe /\ SocketSafe /\ PollersSafe /\ MemorySafe /\ MonitorTyped => TypeOK
  BY SameTypes
     DEF HistorySafe, HistoryInv, SocketSafe, SP!Inv, SP!SocketInv, PollersSafe, PollersInv,
         MemorySafe, QP!Inv, MonitorTyped, TypeOK
<1> QED
  BY <1>1, <1>2, <1>3, HistorySafeInit, HistorySafeStep, SocketSafeInit, SocketSafeStep,
     PollersSafeInit, PollersSafeStep, MemorySafeInit, MemorySafeStep, PTL DEF Spec
=============================================================================
