---------------------------- MODULE SocketServer ----------------------------
(***************************************************************************)
(* CardSocketServer of the card validators and the client that sends it    *)
(* the validation files when the inspector logs out.  A connection is what *)
(* has been sent and not been read, and how it has ended: <<f, 0>> stands   *)
(* for the name and the size of file f, <<f, k>> for the data of one read. *)
(* The client may die while it sends; it moves a file to the backup folder *)
(* when it has written it, and sends the others again at the next logout.  *)
(* Saving a piece and moving a file may fail, and of a connection that the *)
(* server has dropped the client learns late.  Closing one does not fail.  *)
(* Bounds: MaxLogouts.                                                     *)
(***************************************************************************)
EXTENDS Naturals, Sequences, FiniteSets, SequencesExt

CONSTANTS
  Files,
  Size,          \* Size[f]: how many reads file f takes
  MaxLogouts

NoFile == "none"

SocketAssumption ==
  /\ IsFiniteSet(Files) /\ NoFile \notin Files
  /\ Size \in [Files -> Nat]
  /\ MaxLogouts \in Nat

VARIABLES
  spc, name, left,     \* the server's thread, the file it reads, what is left
  listening,           \* the server socket is open
  isStop,
  closing,             \* close() has set isStop and not yet closed the socket
  received,            \* the files in SERVER: the data appended to each
  conns,               \* connections, accepted (the first) or waiting
  cpc, sending, sent,  \* the client, the file it sends, the data written of it
  todo,                \* files that are listed and have not been sent
  backup,              \* files moved to BACKUP
  logouts,
  truncated,           \* a client has left in the middle of a file
  lost                 \* files whose connection ended before they were read

server == <<spc, name, left, listening, isStop, closing, received>>
client == <<cpc, sending, sent, todo, backup, logouts, truncated>>
vars == <<server, conns, client, lost>>

Header(f) == <<f, 0>>

Init ==
  /\ spc = "bind" /\ name = NoFile /\ left = 0
  /\ listening = FALSE /\ isStop = FALSE /\ closing = FALSE
  /\ received = [f \in Files |-> <<>>]
  /\ conns = <<>>
  /\ cpc = "idle" /\ sending = NoFile /\ sent = 0 /\ todo = {} /\ backup = {}
  /\ logouts = 0 /\ truncated = FALSE /\ lost = {}

-----------------------------------------------------------------------------
(* What a connection that ends leaves unread: files that are to come, and  *)
(* the rest of the one that is being read.                                 *)
Brings(i, f) == \E k \in DOMAIN conns[i].data : conns[i].data[k] = Header(f)
InHand(f) == spc = "body" /\ name = f /\ left > 0

Lose(I) ==
  lost' = lost \union {f \in Files : (1 \in I /\ InHand(f)) \/ \E i \in I : Brings(i, f)}

-----------------------------------------------------------------------------
(* CardSocketServer.run                                                    *)

(* The thread ends at once if the port is in use.                          *)
Bind ==
  /\ spc = "bind"
  /\ \/ spc' = "test" /\ listening' = TRUE
     \/ spc' = "unbound" /\ listening' = FALSE
  /\ UNCHANGED <<name, left, isStop, closing, received, conns, client, lost>>

(* The loop ends, and what waits in the backlog is refused.                *)
End ==
  /\ spc' = "ended" /\ listening' = FALSE
  /\ conns' = <<>> /\ Lose(DOMAIN conns)
  /\ UNCHANGED <<name, left, isStop, closing, received, client>>

TestStop ==
  /\ spc = "test"
  /\ \/ isStop /\ End
     \/ ~ isStop /\ spc' = "accept"
        /\ UNCHANGED <<name, left, listening, isStop, closing, received, conns, client, lost>>

(* accept() on a closed socket throws the SocketException that is ignored. *)
Accept ==
  /\ spc = "accept"
  /\ \/ listening /\ conns # <<>> /\ spc' = "header"
     \/ ~ listening /\ spc' = "test"
  /\ UNCHANGED <<name, left, listening, isStop, closing, received, conns, client, lost>>

Connection == Head(conns)
Read == conns' = [conns EXCEPT ![1].data = Tail(@)]

ReadHeader ==
  /\ spc = "header" /\ Connection.data # <<>>
  /\ name' = Head(Connection.data)[1] /\ left' = Size[name']
  /\ spc' = "body" /\ Read
  /\ UNCHANGED <<listening, isStop, closing, received, client, lost>>

(* Each piece read is appended to the file of that name.                   *)
ReadBody ==
  /\ spc = "body" /\ left > 0 /\ Connection.data # <<>>
  /\ left' = left - 1
  /\ received' = [received EXCEPT ![name] = Append(@, Head(Connection.data))]
  /\ Read
  /\ UNCHANGED <<spc, name, listening, isStop, closing, client, lost>>

BodyRead ==
  /\ spc = "body" /\ left = 0
  /\ spc' = "header"
  /\ UNCHANGED <<name, left, listening, isStop, closing, received, conns, client, lost>>

(* Mutant: the error is caught within the loop that reads the connection.  *)
DisconnectAndReadOn ==
  /\ spc \in {"header", "body"} /\ Connection.data = <<>>
  /\ \/ Connection.end = "reset" /\ (spc = "body" => left > 0)
     \/ Connection.end = "closed" /\ spc = "header"
  /\ spc' = "header" /\ conns' = Tail(conns) /\ Lose({1})
  /\ UNCHANGED <<name, left, listening, isStop, closing, received, client>>

(* The connection has ended before a header, or was reset: an IOException  *)
(* that is caught, and on to the next connection.                          *)
Disconnect ==
  /\ spc \in {"header", "body"} /\ Connection.data = <<>>
  /\ \/ Connection.end = "reset" /\ (spc = "body" => left > 0)
     \/ Connection.end = "closed" /\ spc = "header"
  /\ spc' = "test" /\ conns' = Tail(conns) /\ Lose({1})
  /\ UNCHANGED <<name, left, listening, isStop, closing, received, client>>

(* writeFile throws: the piece has been written, or not, and the rest of   *)
(* the connection is dropped.                                              *)
SaveFails ==
  /\ spc = "body" /\ left > 0 /\ Connection.data # <<>>
  /\ received' \in {received, [received EXCEPT ![name] = Append(@, Head(Connection.data))]}
  /\ spc' = "test" /\ conns' = Tail(conns) /\ Lose({1})
  /\ UNCHANGED <<name, left, listening, isStop, closing, client>>

(* Mutant: an end between two files is taken like one within a file.       *)
ReadFailsAnywhere ==
  /\ spc \in {"header", "body"} /\ Connection.data = <<>>
  /\ Connection.end = "closed"
  /\ End

(* At the end of the stream read returns -1, and the write of -1 bytes     *)
(* throws an IndexOutOfBoundsException that nobody catches.                *)
ReadFails ==
  /\ spc = "body" /\ left > 0 /\ Connection.data = <<>>
  /\ Connection.end = "closed"
  /\ End

Serve ==
  \/ Bind \/ TestStop \/ Accept \/ ReadHeader \/ ReadBody \/ SaveFails \/ BodyRead
  \/ Disconnect \/ ReadFails

(* close(), from the console: first the flag, then the socket.             *)
SetStop ==
  /\ ~ isStop
  /\ isStop' = TRUE /\ closing' = TRUE
  /\ UNCHANGED <<spc, name, left, listening, received, conns, client, lost>>

(* Mutant: the socket is left open.                                        *)
LeaveSocket ==
  /\ closing /\ closing' = FALSE
  /\ UNCHANGED <<spc, name, left, listening, isStop, received, conns, client, lost>>

(* There is no socket before the thread has created it.  Connections that  *)
(* were not accepted yet are refused with it.                              *)
CloseSocket ==
  /\ closing /\ closing' = FALSE
  /\ listening' = FALSE
  /\ IF spc \in {"header", "body"}
       THEN conns' = <<Connection>> /\ Lose(DOMAIN conns \ {1})
       ELSE conns' = <<>> /\ Lose(DOMAIN conns)
  /\ UNCHANGED <<spc, name, left, isStop, received, client>>

-----------------------------------------------------------------------------
(* Validator.sendToServer                                                  *)

Here == Len(conns)           \* the client's connection is the last one
Write(x) == conns' = [conns EXCEPT ![Here].data = Append(@, x)]
Sending == cpc \in {"sending", "file"}
Connected == Sending /\ conns # <<>> /\ conns[Here].end = "open"

(* The files are listed once the connection is there.                      *)
Logout ==
  /\ cpc = "idle" /\ logouts < MaxLogouts
  /\ logouts' = logouts + 1
  /\ IF listening
       THEN /\ conns' = Append(conns, [data |-> <<>>, end |-> "open"])
            /\ cpc' = "sending" /\ todo' = Files \ backup
       ELSE UNCHANGED <<conns, cpc, todo>>
  /\ UNCHANGED <<server, sending, sent, backup, truncated, lost>>

WriteHeader ==
  /\ cpc = "sending"
  /\ \E f \in todo :
       /\ sending' = f /\ sent' = 0 /\ todo' = todo \ {f}
       /\ IF Connected
            THEN Write(Header(f)) /\ lost' = lost \ {f}
            ELSE conns' = conns /\ lost' = lost \union {f}
  /\ cpc' = "file"
  /\ UNCHANGED <<server, backup, logouts, truncated>>

WriteData ==
  /\ cpc = "file" /\ sent < Size[sending]
  /\ sent' = sent + 1
  /\ IF Connected THEN Write(<<sending, sent + 1>>) ELSE conns' = conns
  /\ UNCHANGED <<server, cpc, sending, todo, backup, logouts, truncated, lost>>

(* Mutant: the file is moved before its data is written.                   *)
MoveFileEarly ==
  /\ cpc = "file" /\ sent = 0
  /\ backup' \in {backup, backup \union {sending}}
  /\ cpc' = "sending"
  /\ UNCHANGED <<server, conns, sending, sent, todo, logouts, truncated, lost>>

(* What renameTo answers is not looked at: a file that it has not moved is *)
(* sent again at the next logout.                                          *)
MoveFileToBackup ==
  /\ cpc = "file" /\ sent = Size[sending]
  /\ backup' \in {backup, backup \union {sending}}
  /\ cpc' = "sending"
  /\ UNCHANGED <<server, conns, sending, sent, todo, logouts, truncated, lost>>

Finish ==
  /\ cpc = "sending" /\ todo = {}
  /\ conns' = IF Connected THEN [conns EXCEPT ![Here].end = "closed"] ELSE conns
  /\ cpc' = "idle"
  /\ UNCHANGED <<server, sending, sent, todo, backup, logouts, truncated, lost>>

(* Writing to a connection the server has closed ends in an IOException,   *)
(* though not at once.                                                     *)
WriteFails ==
  /\ Sending /\ ~ Connected
  /\ cpc' = "idle"
  /\ UNCHANGED <<server, conns, sending, sent, todo, backup, logouts, truncated, lost>>

(* The client dies, or cannot read a file: the connection is closed; or it *)
(* is reset, which drops what has not been read.                           *)
Die ==
  /\ Connected
  /\ \/ conns' = [conns EXCEPT ![Here].end = "closed"]
        /\ truncated' = (truncated \/ (cpc = "file" /\ sent < Size[sending]))
        /\ lost' = lost
     \/ conns' = [conns EXCEPT ![Here] = [data |-> <<>>, end |-> "reset"]]
        /\ truncated' = truncated
        /\ Lose({Here})
  /\ cpc' = "idle"
  /\ UNCHANGED <<server, sending, sent, todo, backup, logouts>>

Send == WriteHeader \/ WriteData \/ MoveFileToBackup \/ Finish \/ WriteFails

Next == Serve \/ SetStop \/ CloseSocket \/ Logout \/ Send \/ Die

Spec == Init /\ [][Next]_vars

(* The server's thread runs, the console finishes close(), and a client    *)
(* that has connected goes on until it has sent its files, or dies.        *)
Fairness == WF_vars(Serve) /\ WF_vars(CloseSocket) /\ WF_vars(Send)

-----------------------------------------------------------------------------
TypeOK ==
  /\ spc \in {"bind", "unbound", "test", "accept", "header", "body", "ended"}
  /\ name \in Files \union {NoFile} /\ left \in Nat
  /\ {listening, isStop, closing, truncated} \subseteq BOOLEAN
  /\ received \in [Files -> Seq(Files \X Nat)]
  /\ conns \in Seq([data : Seq(Files \X Nat), end : {"open", "closed", "reset"}])
  /\ cpc \in {"idle", "sending", "file"}
  /\ sending \in Files \union {NoFile} /\ sent \in Nat
  /\ todo \subseteq Files /\ backup \subseteq Files /\ lost \subseteq Files /\ logouts \in 0 .. MaxLogouts
  /\ spc \in {"header", "body"} => conns # <<>>

(* What the server has of a file are pieces of that file, in order and     *)
(* from the first on at each sending, though nothing but sizes separates   *)
(* the files; and of a file in BACKUP it has the last piece last, unless   *)
(* the file is still to be read, or its connection ended before that,      *)
(* whoever died, stopped or could not write.                               *)
Unread(f) == \E i \in DOMAIN conns : Brings(i, f)

PiecesInOrder(f) ==
  \A k \in DOMAIN received[f] :
    \/ received[f][k] = <<f, 1>>
    \/ k > 1 /\ received[f][k] = <<f, received[f][k - 1][2] + 1>>

FilesArrive ==
  \A f \in Files :
    /\ PiecesInOrder(f)
    /\ f \in backup /\ Size[f] > 0 =>
         \/ f \in lost \/ Unread(f) \/ (spc = "body" /\ name = f)
         \/ received[f] # <<>> /\ Last(received[f]) = <<f, Size[f]>>

Ended == spc \in {"ended", "unbound"}

(* Nothing but QUIT, or a client that leaves in the middle of a file and   *)
(* whose connection is not reset, ends the server once it listens.         *)
ServerSurvives == spc = "ended" => isStop \/ truncated

(* After QUIT the server's thread ends, wherever close() met it.           *)
CloseEnds == isStop ~> Ended
=============================================================================
