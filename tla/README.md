# Verification of NodleKang/javatest

The repository is a collection of small Java programs: a messaging service with
HTTP handlers (2021), service proxies with a call history (2022A), pollers that
feed workers from input queues (2022B), a queue library (`queue_service`),
monitor queues, and studies of sockets, threads and files. What they share, and
what is hard to test in them, is concurrency over queues: handlers of a thread
pool, processes with a lock directory, monitors and timeout threads. This
directory holds TLA+ models of these parts, TLC configurations that check them
on small instances, and proofs checked by TLAPS.

Run everything in this directory: `tlc -config X.cfg M` checks module `M`,
`tlapm M.tla` its proofs.

## Inventory

| component | state | operations | hard because of | correct means |
|---|---|---|---|---|
| Message queue service, `2021/SUB4/.../queue/MyQueueService`, `Message`, and `servlet/MyServlet` | a `ConcurrentLinkedQueue` of shared, mutable messages (visible, timer, failures), a second one for dead letters | SEND, RECEIVE (with WaitTime), ACK, FAIL, DLQ; every request but SEND first restores timed out messages and moves the failed ones | no method is synchronized; requests run on the Jetty pool | nothing lost or stranded, one consumer per message, leases end, limits hold, everybody is answered |
| Queue registry, `MyQueueManager` and `handleCreate` | singleton, map from names to services | getInstance, createQueueService, getQueueService | lazy creation with one test outside the lock, get then put | one manager, its map assigned, queue and dead letter queue together |
| HTTP server of the service, `MyServer` | Jetty server and pool | start, stop | pool of at most 100 threads, of which waiting RECEIVEs keep some | requests find a thread |
| File queue, `queue_service/FileQueueService` | a file of records, a lock directory | push, pull, delete, purgeQueue | several threads and processes, crashes, interrupts, errors of the file system | mutual exclusion, nothing lost, leases respected, the lock released |
| Memory queue, `MemoryQueueService`; earlier service, `2021/SUB3` | a deque of shared messages with `visibleFrom` | push, pull, delete; add, pop, remove, restore | threads without locks | one consumer per message until the timeout |
| Monitor queues, `process/MyQueue`, `study/.../Queue/MsgQueue` | a list guarded by `synchronized` | get, getNoWait, peek, put; enqueue, dequeue, get, set, delete | wait and notify, expiry, capacity | no waiter is forgotten, capacity respected |
| Card validator report server, `study/.../q4/server` | report map, timer map, sequence number, two locks; a socket and the files received | REPORT, FINISH, FAIL, timeout after 5 s; accept, receive, close | timeout thread against handlers, exceptions under a lock; connections that end anywhere, close at any moment | one outcome per report, nobody blocked; the server survives its clients and ends on QUIT |
| Card validator client, q1 to q4 | a file of validations | log in, validate, send | files told apart by sizes only, moved once written to the socket | the file arrives |
| Trace tree, `2022A/SUB4/.../HistoryAnalyzer`, `flat_list_to_tree` | history lines | populateTree | names used twice, order by time | the tree is that of the calls |
| Service proxy, `ProxyServlet`, `ProxyConfigReader`, `MultipleProcessFileWriter` | routes, history file | forward, append a line | several processes append under a file lock | one line per call |
| Pollers and workers, `2022B` | a worker per input queue with its store | poll, run, expire, post the result | one thread per queue, failures of requests | every queue is read for ever, items expire |
| Log merging, `multiThreadWriteFile` | one file | append | different monitors | lines stay whole |
| File watcher, `util/MyFileWatcher` | a flag | run, stop | a flag written by two threads | stop ends the watcher |
| Helpers `MyString`, `MyJson`, `MyFile`, ... (copied into most programs), studies of `java.util.concurrent`, processes, sockets, JSON | none beyond a call | conversions, I/O | | |

Handlers call the registry to find a service and call its methods on objects
that all handlers share; a queue calls its dead letter queue through the
registry (`moveMessageToDLQ`). The other programs are independent of each
other; they share only copies of the helpers.

## Modules

| module | models | reads like this |
|---|---|---|
| `MessageQueue` | the service of one queue and its dead letter queue | a thread is a process; a step is one access to the queue or to a field of a message, named after the method it is in (`Take`, `SetProcessTimeoutFrom`, `ReadFailures`, ...) |
| `LeaseQueue` | what the description (`quest.txt`) promises, one event at a time | abstract: ready, leased and dead messages |
| `SerialQueue` | `MessageQueue` run by one thread, mapped to `LeaseQueue` | the refinement mapping |
| `QueueRegistry` | `MyQueueManager`, `handleCreate` | a thread per handler, a step per access to the static field, its map and the class lock |
| `FileQueue` | `FileQueueService` | a client per thread or process, a step per file system operation, faults as actions of their own |
| `CardServer` | the report server of the card validators (q4) | handlers and timeout threads are processes; a step is one access to the sequence number, a lock, the map or a file |
| `ProxyHistory` | the proxies of 2022A/SUB4 and the file they append their history to | a handler per hop of a request; a step is one call to the next hop, the lock or the file |
| `TraceTree` | `populateTree`, from the lines of the file to the tree | operators without state; `ProxyHistory` applies them to what it has written |
| `SocketServer` | `CardSocketServer` and the client's `sendToServer` | the server's thread, the console that closes it, a client that may die; the stream between them |
| `Pollers` | `RunManager2` of 2022B/SUB3, the pool, the workers' stores | main, a poller per queue, the threads of the pool as a count |
| `MemoryQueue` | `MemoryQueueService` | a step is one call to the map, the deque, the clock or a message |
| `MonitorQueue` | `process/MyQueue` | a step is a synchronized method; a get that waits is in `waiting`, then in `woken` |
| `Programs` | `ProxyHistory` with `TraceTree`, `SocketServer`, `Pollers`, `MemoryQueue` and `MonitorQueue` in one: `program` says which of them runs | their variables are mapped to shared ones by `INSTANCE ... WITH`; their constants stay constants |
| `MC...` | instances for TLC: values of constants, symmetry, state constraints | |
| `MessageQueueProofs`, `SerialQueueProofs` | theorems about `MessageQueue`; `SerialQueue` refines `LeaseQueue` | |
| `QueueRegistryProofs`, `FileQueueProofs`, `CardServerProofs` | theorems about these modules | |
| `SocketServerProofs`, `MemoryQueueProofs` | theorems about these modules, with the invariants that `ProgramsProofs` instantiates | |
| `ProgramsProofs` | theorems about `Programs`: the proxies with the trace, the pollers and the monitor queue are proved here, the socket server and the memory queue through their own modules | |

### MessageQueue

The queue is the set of its messages, which are numbered in the order they were
added; `processTimeoutFrom`, `isVisible` and `failures` are the fields of
`Message`; `pc`, `job` and the loop variables are a handler's thread. The loops
of `processTimeoutMessages` and `processOverFailedMessages` use an iterator that
reads one message ahead (`ahead`); the stream of `popMessage` does not.
`failures++` is a read and a write, `isProcessTimeout` reads the timer twice,
`addMessage` tests the size in one step and adds in another. Fields are not
volatile in the code; the model gives them the values of some global order of
the accesses and does not delay a write indefinitely. Each request is one
handler, `Answer` its return. `known`, `acked`, `drained` and `dropped` record
what has happened to messages and guard nothing but which message ids a client
can name.

`Work` counts the steps a request still takes at most: the passes over the queue
that are to come, the messages before the iterator of this one, the rest of the
visit to a message. `OnlySendsProlong` says that every step of a handler lowers
its own count and that no step of another raises it, except a SEND that adds a
message. That the handlers answer does not follow and is not true: the weakly
consistent iterator of the queue can be kept busy by SENDs without an end.

The mapping of `SerialQueue` says when a request takes effect: a lease begins
with `setProcessTimeoutFrom` (or `setVisible(false)` if there is no
ProcessTimeout) and ends when the failure is counted; a dead message counts as
moved when it is added to the dead letter queue.

### QueueRegistry

One queue name. `table` says which names each manager maps; managers are
numbered as they are created. A call on a manager whose map is not assigned
ends the request (`CallCrashes`, the NullPointerException).

### FileQueue

A step is one file system operation; reading the whole file is one step, and so
is appending to the open file, which may have been replaced since (`current`).
The parse of `attempts` is modelled by what it does: the digit 1 is appended,
and beyond `MaxInt` the pull fails and moves the file it has copied so far.
`Faults` selects crashes (a process ends inside), interrupts of a waiting client
(which then removes a lock that it does not hold) and errors of the file system:
a file that cannot be created, opened, read, moved or removed, and `println`,
which says nothing when it fails. The code catches these, prints them and goes
on: a push returns without its record (`PushFails`), and the `finally` clauses of
pull and delete move a copy from which any of the records may be missing
(`PullCopyFails` and `PullMoveCut`, `DeleteCopyFails` and `DeleteMoveCut`). `cut`
remembers the messages whose record was not written. An error loses whole
records; half a line, which the next call could not parse, is left out. `leaked`
is true while the lock that is there was left by a client that has gone.
Bodies of several lines, which would be read back as records of their own, are
not modelled.

### CardServer

Handlers serve REPORT, FINISH and FAIL; the timeout thread of report `i` is the
actor `i`. Both run the same steps of `saveReportFile` and `removeReport`
(`ContainsKey` to `RemoveReport`). A report that goes away between `containsKey`
and `get` is a NullPointerException (`WriteCrashes`): it ends a timeout thread,
or the request of a handler, whose thread then still owns `lockEnd`. So do the
other exceptions between `lock` and `unlock`: a number for which there is no timeout
thread (`UnknownReport`), a report file that cannot be opened or written
(`SaveFails`), a line that cannot be logged (`LogFails`). In a timeout thread
`SaveFails` leaves the report in the map, where only a later FINISH or FAIL ends it.
`thrown` and `unsaved` remember who has thrown and which report was not saved. The
lock is reentrant, so a thread that has kept it can, back in the pool, enter again
while all others wait. Clients send FINISH and FAIL for any number, any number of times.

### ProxyHistory and TraceTree

A handler `<<r, n>>` is the n-th proxy on the path of request r. It answers its
caller when `copyResponseBody` closes the output (`Answered`), before it stamps
and writes its line, so a caller may overtake it. A status of 400 or more makes
`getInputStream` throw, and the handler and its callers end without a line. The
`FileLock` belongs to the process: while one thread holds or awaits it, another
of the same process gets an exception that `catch (IOException e)` lets pass, and
the line is lost (`LockOverlaps`, `Abort`). Closing a channel releases, on POSIX
systems, every lock of the process on the file; `CloseChannel` may do so or not,
and `breached` remembers it. A process that starts cleans the file, with what the
others have written; it may be killed at any step and started again (`Kill`), which
releases its lock. A line is two writes: an IOException in either (`WriteFails`), or
the end of the process between them, leaves a line that goes on in the next one. These
lines are in `torn`, and the properties are about the others.

`TraceTree` sorts as the code does: the file is read backwards, sorted by time
with a stable sort and reversed, so equal times come in the order of the file.
Nodes are found by the name of their source, of which the map keeps the last one.
`TraceIsChain` states what a request is shown as when each handler stamped its
line before its caller did and no line was torn. The premise is one the code does not
ensure.
A path visits a proxy once at most: `createTargetUrl` passes the URI on as it is,
and where a proxy passes it depends on the URI alone, so a request that came back
to a proxy would go round for ever. The names in the lines rest on it.

### SocketServer

`conns` is the accepted connection and the backlog. The pieces of a file carry
its name in the model only; the server takes what it reads for data of the file
whose header came last. `ReadFails` is the `read` that returns -1: the
`IndexOutOfBoundsException` of the write that follows is none of those caught,
and the thread ends. It also ends at once if the port is in use (`Bind`). An
IOException of `writeFile` drops the connection (`SaveFails`), and the client, which
learns of that late, moves files to BACKUP all the same. `renameTo` may fail, which
nobody looks at, so a file may be sent again at the next logout, as it is after the
client has died: the server appends it to what it has. `todo` are the files listed
and not sent yet, `lost` those whose connection ended before they were read.
`isStop` is not volatile; the loop reads it between calls
that block, and the model gives it its last value.

### Pollers

`Pool` is `inputQueueCount` for RunManager2, the cores for RunManager3, and the
number of queues for RunManager1. `Threshold` is 12 in Java. A request without an
answer waits for ever (the timeout is 0), so `RequestInput` and `RequestFails` are
under no fairness. `Matched` follows the `Worker` of SUB1, whose successor is in
a library: a malformed value is stored like any other, and the exception it
raises in every later comparison hides the matches of its queue until it expires.
`removeExpiredStoreItems` goes from the end of the store to its beginning:
`after[i]` is the store once the items from `i` on have had their turn.
`StoreFresh` compares the store with all inputs the worker was given, `given`: it
selects from them, in order, those that no later input has found expired.

### MemoryQueue and MonitorQueue

`leases` are the receipts that `pull` has returned. Two pulls that work on one
message at the same time (`shared`) return it twice, possibly under one receipt;
`LeaseKept` is about all others. A slow first `push` replaces the deque that others
have pushed to in the meantime; `DequesBounded` says that this ends.

In `MonitorQueue` `put` reads the capacity twice, and `setCapacity`, which is not
synchronized, may come in between: `Put` takes its second reading from the new value.
An element is valid or expired; those of the `put` with a timeout
have expired from the start, since it passes 0 on. `getNoWait` leaves the element
it returns in the queue. `removeElementById` removes any element, and the ids are
left out; `findElementById` and `size` change nothing.

## Runs

| run | instance | shows |
|---|---|---|
| `queue` | 2 threads, 2 messages and a third before any RECEIVE, size 1, all times 1, no retry, no WaitTime (4.6 million states) | type invariant; no message stranded; every accepted message accounted for; the queue and the dead letter queue at most one message over their size, which happens; no step but a SEND takes another handler farther from its answer, over all interleavings of two handlers |
| `queue_live` | 2 threads, 1 message, 1 retry, fair | a lease nobody answers ends as long as cleansing requests come |
| `queue_nolease` | no ProcessTimeout, WaitTime 1, 1 retry, fair | only FAIL shows a message again; a waiting RECEIVE does not overlook a message for ever |
| `serial` | 1 thread, 3 messages, size 2, 1 retry | the steps of the queue implement `LeaseQueue` |
| `registry` | 2 threads, fair | at most one manager per thread, the map assigned when the lock is free, dead letter queue beside the queue, requests end |
| `file_queue` | 2 clients, 2 pushes, 2 pulls, time to 5, all faults (3.0 million states) | mutual exclusion; who can have left the lock that is there; no message lost but by an error while its record is written; no deleted one back; order and leases kept, until a lock is removed under its holder |
| `card_server` | 2 handlers, 2 reports, 2 holds, exceptions, fair (1.3 million states) | numbers are unique, nothing is discarded unwritten, FINISH and FAIL exclude each other, the lock is kept for ever only by an exception past the unlock or the race with the timeout, and even then every report ends whose file could be written |
| `programs` | proxies: 2 processes, paths of length 2 and 1, time to 1; socket server: files of 2 reads and 1, 2 logouts, fair; pollers: 3 queues, 2 threads, 3 inputs, fair; memory queue: 2 threads, 3 pushes, 2 pulls, time to 4; monitor queue: 3 threads, 3 puts, capacity 1 or none | lines of the history run together only behind one that was torn, while no lock is released under its holder, overlapping handlers never all lose theirs, the trace is the chain of calls; pieces of files arrive in order and to the last unless the connection ended, the server ends only by QUIT or a file cut short, and does end; stores hold what has not expired, pollers get the threads of those that failed; leases of the memory queue are a timeout apart, deques are replaced a bounded number of times; nobody waits beside an element |
| `one_consumer` | 2 threads (violation) | two RECEIVEs are handed the same message |
| `receive_answers` | 2 threads, fair (violation) | a waiting RECEIVE without a message never answers |
| `dead_letters_kept` | 1 thread (violation) | a message moved to a full dead letter queue is lost |
| `file_queue_delete` | 2 clients without faults, fair (violation) | after a pull nobody gets the lock, so the delete of the message never ends |

Bounds. Two threads suffice for the races here: each is between a test and the
write that follows it in another thread. With two messages, a size of 1
and MaxFailCount 0 every path is taken, the full queue and the full dead letter
queue included; `serial` uses the larger sizes. Each overshoot happens in
`queue`: two SENDs pass the test of a queue of size 1 together, and two cleansings move
two messages to a dead letter queue of size 1. The third message is what would exceed
the bound; `ThirdComesEarly` leaves it out once a message has been handed out, when it
would only multiply the states. `MaxMessages` and `Horizon`
bound requests, not handlers: after the last RECEIVE time goes on until leases
and waits have ended. In `file_queue`, `MaxInt = 11` stands for 2^31 - 1 and
makes the third delivery fail instead of the eleventh, `Horizon = 5` leaves time
for it. In `card_server` a handler that has kept the lock takes it again up to
`MaxHolds` times. The constraint `UntilBreached` stops at the first lock removed under its
holder: the invariants promise nothing afterwards, and `breached` never becomes
false. In `programs` the programs share nothing but the run. Two handlers of one
process meet a third of another, which is what an overlap and a wait for the lock
take; time 1 gives the two lines of a request different stamps. Three inputs with
an expiry of 1 fill a store with two items that expire at once, which a loop in
the wrong direction confuses; three queues for two threads leave one waiting.
A timeout of 1 and time to 4 allow a second lease after the first has ended.

Fairness. `FairSpec` assumes that a handler that has started is run by its
thread, which the pool and the operating system provide (no lock is involved in
`MessageQueue`; in `QueueRegistry` weak fairness is enough because a thread
inside `synchronized` always leaves; in `CardServer` handlers and timeout threads
are run, and nobody is promised the lock), and that time passes. In `SocketServer`
the server's thread runs, the console finishes `close`, and a connected client
goes on to send or dies; in `Pollers` main and the pollers run between their
requests, which may stay without an answer. Nothing is assumed
about clients: `LeaseEnds` therefore has the premise that requests which cleanse
the queue keep coming, since the service has no thread of its own for it.

## Proofs

`MessageQueueProofs` proves for every set of threads, every number of messages
and every size, timeout and limit:

* `TypeCorrect`: the type invariant, with `WithinBound`: adds in progress never
  exceed the bound on messages, without which `sent` is not inductive;
* `OvershootBounded`: the size of the queue and the adds granted stay below
  QueueSize plus the number of threads; the step that counts is `HandleSend`,
  which adds one thread to `Adding` while the handling thread itself was not in it;
* `DeadLettersBounded`: the same for the dead letter queue, strengthened by the
  threads between `MoveTestSize` and `MoveAdd` (`Moving`);
* `NothingStranded`: no interleaving of `popMessage` and `restoreMessage` strands
  a message. The invariant is not inductive: it needs that a message number
  beyond `sent` still has its initial fields (`Fresh`), because `AddMessage`
  brings such a message into the queue;
* `NothingVanishes`: every accepted message is in one of its places. Each action
  that takes a message out of one place names the next;
* `HiddenUntilFail`: an action property. Without a ProcessTimeout no step shows a
  hidden message again but the last one of a FAIL on it. The invariant is
  `NoTimers`: no timer is ever set, so no thread sees one expired, and whoever is
  in `restoreMessage` got there by a FAIL.

`SerialQueueProofs` proves the refinement, for one thread (`OneThread`) and any
number of messages, sizes, times and limits:

* `OneThreadKeepsPromise`: `KeepsPromise`, that is `Lease!Promise`. The mapping is
  defined by what is stored, dead, leased and due; a step is one event of
  `LeaseQueue` or changes none of them. What it needs is `Serial`, which says at
  each label that what the thread has read is still so: `TimesSound` (a restore is
  either a FAIL or one of a message whose lease is over), `CleanSound` and
  `MoveSound` (outside the cleansing no dead message is stored, and within it only
  those the loop has not come to), `PopSound` (the message popMessage takes is the
  oldest available one). None of this holds with two threads: `one_consumer`
  violates the consequence.

`QueueRegistryProofs` proves for every set of threads, from one inductive
invariant `Safe`:

* `RegistryTyped`: the type invariant, mutual exclusion on the class lock included;
* `ManagersBounded`: at most one manager per thread is ever created. `Creators`
  are the threads that tested the field while it was null; they only shrink once
  a manager is published, and each leaves by creating one;
* `MapAssigned`: the published manager has its map whenever nobody is inside
  synchronized. It rests on `Sound` (a thread about to assign or return finds an
  instance, and puts go to a manager with a map);
* `QueuesPaired`: when all handlers are done, the published manager has the dead
  letter queue of every queue it holds. Before that a missing dead letter queue
  is owed by some thread: `Paired` says a CREATE is on its way to the published
  manager (`Pending`). `Tables` (only a manager with a map holds services) shows
  that a newly published manager owes nothing, and that a thread that fails for
  want of a map was not the one that owed.

`FileQueueProofs` proves for any clients, timeout, bounds and `Faults`, from the
inductive invariant `Typed /\ Whole`:

* `TypesHold`: the type invariant. `Staged` says which step belongs to which call,
  `WithinPushes` bounds the pushes on their way, `OpenedExists` says that an open
  file that is still the one at the path exists;
* `OnlyOneInside` and `LockHasOwner`: mutual exclusion, and who has left a lock that
  nobody is inside of: `Owned` says that the lock is there exactly for the client inside
  or as the last one left it, until an interrupt removes what was left. `Whole` promises this until `breached`, and the proof
  shows that the removal by an interrupted client is the only step that gets there;
* `NoMessageLost`, `DeletedIsGone`, `OrderIsKept`: what the copies do to the file.
  `Copies` relates the temporary file of a client to the file as it still is: the same
  with one record marked, a part of that (`Thinned`) after an error, or the file without
  the records of one receipt, or a part of that. It is kept because nobody else is inside,
  and is why the move loses nothing but what an error has cut. That a part keeps the order
  rests on `SelectKeeps`, for which `RankNumbers` counts the positions;
* `LeaseIsHeld`: a delivery whose time is not over has its receipt in the record.
  `Leases` adds that the record is hidden at least that long, and `ReceiptsAgree`
  that a receipt names one message.

`CardServerProofs` proves for any handlers and any number of reports, from one
invariant `Inv`:

* `TypesHold`; `NumbersDiffer`: `SeqOwned` and `Numbered` follow a number from the lock
  under which it is read to the thread that it starts, which is new until then;
* `ReportsAreSaved`, `EndsOneWay`: three kinds of threads remove a report. `Opened`
  says that one that has passed `containsKey` still has the report, or its timeout has
  been written, and `WrittenGoes` that a report a handler has written is about to
  be removed by it;
* `OnlyExceptionsKeepTheLock`: `HoldsExplained`, that a handler has one hold on the lock, or
  has thrown, or the race has been lost; and `HoldsKept`, that one that has thrown keeps it
  for good, so nobody else ever throws.

`ProgramsProofs` proves of `Programs`, for any instance of each program that meets the
assumptions (`Assumptions`); since only one program runs (`OneRuns`), each proof is
one about its own module:

* `LinesStayWhole`, `NotAllAreLost` (proxies): `WriterHolds`, that who writes has the lock
  as long as no lock was breached, and `StartedOnce`, that a handler that has not
  called its successor yet finds it idle, so nobody writes a line twice. An error or a
  kill that leaves the writer puts its line into `torn`, and gives the lock up. A handler
  that has, or awaits, the lock is never turned away: that is why the first of the
  overlapping ones gets through;
* `ServerStays` (socket server): what a connection carries is a stream. `Streams` says
  that each piece follows from the one before it and the sizes, that the first goes on
  where the server is, and that the last is where the client is, or has ended a file
  unless a client has died within one. With it a read at the end of the stream
  in the middle of a file has `truncated` as its only cause;
* `FilesAreWhole` (socket server): `Transfer` says where a file is whose sending has begun:
  lost, still to be read, being read, or with its last piece last at the server; and that
  while it is read the server has as many of its pieces as the count says. A piece that is
  read follows the one before it by `Streams`. Each step moves one file from one of these
  places to the next, whoever has died or stopped (`OthersArrive`, `DroppedArrive`);
* `LeasesAreKept` (memory queue): who has a message in hand that no two pulls had at
  once draws a later receipt and hides it for longer than any lease it has had
  (`Succeeds`), and nobody else has it (`HandsApart`);
* `DequesStayFew` (memory queue): deques and threads that still want to put one are
  at most as many as the threads. A thread that wants to found no deque, so it was counted
  before there was one;
* `TraceShowsTheCalls` (proxies and trace): `WroteOnce`, that a handler is in the file
  once at most and only behind its first write, though a proxy that starts empties the
  file between two writes of others. So each handler of a request that is wholly
  written has one line (`HopsOf`, `StampsFall`: the later on the path, the earlier its
  stamp), `populateTree` lists them along the path (`ListedInOrder`), and links each
  with the one after it (`NodeFound`, `TreeOfChain`), because no name is a source twice;
* `StoresAreFresh` (pollers): the loop is a recursive function, and the prover needs to
  be shown that one exists (`LoopExists`). `LeftFrom` says what its turns leave:
  the items before `i` are where they were, and from `i` on those that have not
  expired (`TurnLeaves`, `LoopLeavesFresh`). This fails for a loop in the other
  direction, which is the bug that the property is for. An input later, what it has
  found expired is gone from both sides (`KeptByNext`, `StoreByNext`);
* `ProgramsTyped`: the type invariants of all the programs. That of the pollers counts
  the free threads and needs `MainSound`: a poller that main has not submitted yet is
  new. That of the monitor queue says that no thread is waiting and woken at once;
* `NobodyWaitsBesideElements` (monitor queue): inductive once capacities are numbers: a put that
  finds the queue full then finds elements, so nobody waits whom its single
  `notify` would pass over.

Where a proof goes on from one item, stamp or line to the next, it is by the least number:
`LeastNumber` follows from the well-foundedness of finite sets under inclusion, and
`CountUp` from it, so neither takes an operator as a parameter, which the provers
could not instantiate.

Every inductive invariant was checked by TLC on the instance of its run before it
was proved. Each proof has a lemma per action or group of actions; the theorem
combines them with `PTL`. The assumptions are those the modules name, and TLC evaluates them:
`ConstantsAssumption` in `MessageQueue`, `OneThread` in `SerialQueue`,
`ThreadsAssumption` and `NoneAssumption` in `QueueRegistry`, those of `FileQueue` and
`CardServer` (sets of clients and handlers are finite, bounds are numbers), and in
`Programs` the conjunction of what its modules require: finite sets of processes, files and threads,
paths that are not empty and visit a proxy once, sizes, times and capacities that are numbers.

Model-checked only: liveness (`LeaseEnds`, `WaiterServed`,
`RequestsEnd`, `ReportEnds`, `CloseEnds`, `QueuesGetThreads`), since fairness is out of the prover's
reach, `OnlySendsProlong`, and the violations. Every invariant that a passing run
checks is proved, and so are `OnlyFailRestores` and the refinement.

## Not modelled

HTTP, JSON and the reading of bodies; Jetty; console programs; conversion and
file helpers. The Java memory model is approximated as said above. Further:

* `MyServer` of 2021/SUB4: the pool of 100 threads; every request of `MessageQueue`
  has a thread. The start of the server is the same unsynchronized singleton as
  `MyQueueManager.getInstance`.
* `2021/SUB3`: the version before SUB4. Its queue hides messages for a time, as
  `MemoryQueueService` does, and is not modelled beside it.
* `study/.../Queue/MsgQueue`: called by a console program, one line at a time.
* `multiThreadWriteFile`: two threads append to one file under different monitors.
  Whether lines mix is decided by how one append reaches the file, which the code
  does not say.
* `util/MyFileWatcher`: a flag with two assignments.
* `RunManager1`: its `client.stop()` after 20 seconds, which ends requests anywhere.
* The routes and header copying of `ProxyServlet`; the HTML of `TraceServlet`;
  `makeReport` of the report server, a count over files.
* `.metadata` directories: state of the Eclipse workspaces that was committed with
  the programs. The JavaScript in them declares browser libraries for the editor
  and belongs to none of the programs, which are written in Java.

Everything else in the inventory without a module is listed in `PROJECT.json`
with its reason.

## Plan

What the next extensions would be:

1. The pool of the messaging service's server, and requests without a thread.
2. A registry that tells the services of one name apart (two CREATEs that both
   answer Ok).
3. `OnlySendsProlong` for any number of messages: it needs the cardinality of the
   messages before an iterator, step by step.
