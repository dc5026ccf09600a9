------------------------- MODULE SocketServerProofs -------------------------
(***************************************************************************)
(* The socket server and its client, for any files of any sizes: what a    *)
(* connection carries is a stream, the header of a file, its data, and the *)
(* next header, and the server knows from the sizes alone where it is.     *)
(***************************************************************************)
EXTENDS SocketServer, TLAPS

Items == Files \X Nat
Connections == [data : Seq(Items), end : {"open", "closed", "reset"}]

Complete(x) == x[2] = Size[x[1]]
Follows(x, y) == IF Complete(x) THEN y[2] = 0 ELSE y = <<x[1], x[2] + 1>>
Chained(d) == \A k \in 1 .. Len(d) - 1 : Follows(d[k], d[k + 1])

(* Connection i is read, and the server is in the middle of a file.        *)
Middle(i) == i = 1 /\ spc = "body" /\ left > 0

(* What has not been read goes on where the server is, and ends where the  *)
(* client is, or where a client has left that did not die within a file.   *)
GoesOn(d, middle) ==
  d # <<>> => (IF middle THEN d[1] = <<name, Size[name] - left + 1>> ELSE d[1][2] = 0)

EndsComplete(d, middle) == IF d # <<>> THEN Complete(d[Len(d)]) ELSE ~ middle

EndsAtClient(d, middle) ==
  IF d # <<>> THEN d[Len(d)] = <<sending, sent>>
  ELSE IF middle THEN name = sending /\ sent = Size[name] - left
  ELSE sent = Size[sending]

Stream(c, middle) ==
  /\ Chained(c.data) /\ GoesOn(c.data, middle)
  /\ c.end = "open" =>
       IF cpc = "file" THEN EndsAtClient(c.data, middle) ELSE EndsComplete(c.data, middle)
  /\ c.end = "closed" /\ ~ truncated => EndsComplete(c.data, middle)

Streams == \A i \in DOMAIN conns : Stream(conns[i], Middle(i))

(* The client has one connection, the last.                                *)
OneOpen == \A i \in DOMAIN conns : conns[i].end = "open" => i = Len(conns) /\ cpc # "idle"

Places ==
  /\ spc = "body" => name \in Files /\ left <= Size[name]
  /\ cpc = "file" => sending \in Files /\ sent <= Size[sending]

SocketInv == TypeOK /\ Places /\ OneOpen /\ Streams /\ ServerSurvives

-----------------------------------------------------------------------------
LEMMA ConnTypes ==
  ASSUME TypeOK
  PROVE  /\ conns \in Seq(Connections) /\ Len(conns) \in Nat /\ DOMAIN conns = 1 .. Len(conns)
         /\ conns # <<>> <=> Len(conns) > 0
         /\ \A i \in DOMAIN conns :
              /\ conns[i] \in Connections /\ conns[i].data \in Seq(Items)
              /\ conns[i].end \in {"open", "closed", "reset"}
              /\ conns[i] = [data |-> conns[i].data, end |-> conns[i].end]
<1> DEFINE C == Connections
<1>1. conns \in Seq(C)
  BY DEF TypeOK, Items, Connections
<1>2. \A c \in C : /\ c.data \in Seq(Items) /\ c.end \in {"open", "closed", "reset"}
                   /\ c = [data |-> c.data, end |-> c.end]
  BY DEF Connections
<1> HIDE DEF C
<1>3. /\ Len(conns) \in Nat /\ DOMAIN conns = 1 .. Len(conns)
      /\ \A i \in DOMAIN conns : conns[i] \in C
      /\ conns # <<>> <=> Len(conns) > 0
  BY <1>1
<1> QED
  BY <1>1, <1>2, <1>3 DEF C

LEMMA ConnChanges ==
  ASSUME TypeOK, NEW i \in DOMAIN conns, NEW d \in Seq(Items), NEW e \in {"open", "closed", "reset"},
         conns' = [conns EXCEPT ![i] = [data |-> d, end |-> e]]
  PROVE  /\ conns' \in Seq(Connections) /\ Len(conns') = Len(conns) /\ DOMAIN conns' = DOMAIN conns
         /\ conns'[i].data = d /\ conns'[i].end = e
         /\ \A j \in DOMAIN conns : j # i => conns'[j] = conns[j]
<1> DEFINE c == [data |-> d, end |-> e]
<1>1. c \in Connections /\ c.data = d /\ c.end = e
  BY DEF Connections
<1> HIDE DEF c
<1>2. conns \in Seq(Connections) /\ i \in 1 .. Len(conns) /\ conns' = [conns EXCEPT ![i] = c]
  BY ConnTypes DEF c
<1> QED
  BY <1>1, <1>2

LEMMA ConnDrops ==
  ASSUME TypeOK, conns # <<>>, conns' = Tail(conns)
  PROVE  /\ conns' \in Seq(Connections) /\ Len(conns') = Len(conns) - 1
         /\ DOMAIN conns' = 1 .. Len(conns) - 1
         /\ \A j \in DOMAIN conns' : j + 1 \in DOMAIN conns /\ conns'[j] = conns[j + 1]
<1> DEFINE C == Connections
<1>1. conns \in Seq(C) /\ conns # <<>> /\ conns' = Tail(conns)
  BY ConnTypes
<1> HIDE DEF C
<1>2. conns' \in Seq(C) /\ Len(conns') = Len(conns) - 1 /\ Len(conns) \in Nat
      /\ DOMAIN conns' = 1 .. Len(conns) - 1 /\ DOMAIN conns = 1 .. Len(conns)
  BY <1>1
<1>3. \A j \in DOMAIN conns' : j + 1 \in DOMAIN conns /\ conns'[j] = conns[j + 1]
  BY <1>1, <1>2
<1> QED
  BY <1>2, <1>3 DEF C

LEMMA ItemsTail ==
  ASSUME NEW d \in Seq(Items), d # <<>>
  PROVE  /\ Tail(d) \in Seq(Items) /\ Len(d) \in Nat /\ Len(d) > 0 /\ Len(Tail(d)) = Len(d) - 1
         /\ \A k \in 1 .. Len(d) - 1 : Tail(d)[k] = d[k + 1]
         /\ Head(d) = d[1] /\ d[1] \in Items
         /\ Tail(d) # <<>> <=> Len(d) > 1
<1> DEFINE I == Items
<1>1. d \in Seq(I) /\ d # <<>>
  OBVIOUS
<1> HIDE DEF I
<1>2. Tail(d) \in Seq(I) /\ Len(d) \in Nat /\ Len(d) > 0 /\ Len(Tail(d)) = Len(d) - 1
  BY <1>1
<1>3. \A k \in 1 .. Len(d) - 1 : Tail(d)[k] = d[k + 1]
  BY <1>1, <1>2
<1>4. Head(d) = d[1] /\ d[1] \in I
  BY <1>1, <1>2
<1>5. Tail(d) # <<>> <=> Len(d) > 1
  <2>1. \A t \in Seq(I) : t # <<>> <=> Len(t) > 0
    OBVIOUS
  <2>2. Tail(d) # <<>> <=> Len(Tail(d)) > 0
    BY <1>2, <2>1
  <2>3. Len(d) - 1 > 0 <=> Len(d) > 1
    BY <1>2
  <2> QED
    BY <1>2, <2>2, <2>3
<1> QED
  BY <1>2, <1>3, <1>4, <1>5 DEF I

LEMMA ItemsAppend ==
  ASSUME NEW d \in Seq(Items), NEW x \in Items
  PROVE  /\ Append(d, x) \in Seq(Items) /\ Len(d) \in Nat /\ Len(Append(d, x)) = Len(d) + 1
         /\ Append(d, x) # <<>>
         /\ \A k \in 1 .. Len(d) : Append(d, x)[k] = d[k]
         /\ Append(d, x)[Len(d) + 1] = x
         /\ d # <<>> <=> Len(d) > 0
<1> DEFINE I == Items
<1>1. d \in Seq(I) /\ x \in I
  OBVIOUS
<1> HIDE DEF I
<1> QED
  BY <1>1 DEF I

(* Reading and writing keep a stream one.                                  *)
LEMMA ChainTail ==
  ASSUME NEW d \in Seq(Items), d # <<>>, Chained(d)
  PROVE  /\ Chained(Tail(d))
         /\ Tail(d) # <<>> => Follows(d[1], Tail(d)[1]) /\ Tail(d)[Len(Tail(d))] = d[Len(d)]
         /\ Tail(d) = <<>> => d[Len(d)] = d[1]
<1>1. \A k \in 1 .. Len(Tail(d)) - 1 : Follows(Tail(d)[k], Tail(d)[k + 1])
  BY ItemsTail DEF Chained
<1>2. ASSUME Tail(d) # <<>>
      PROVE  Follows(d[1], Tail(d)[1]) /\ Tail(d)[Len(Tail(d))] = d[Len(d)]
  BY <1>2, ItemsTail DEF Chained
<1>3. ASSUME Tail(d) = <<>> PROVE d[Len(d)] = d[1]
  BY <1>3, ItemsTail
<1> QED
  BY <1>1, <1>2, <1>3 DEF Chained

LEMMA ChainAppend ==
  ASSUME NEW d \in Seq(Items), NEW x \in Items, Chained(d), d # <<>> => Follows(d[Len(d)], x)
  PROVE  /\ Chained(Append(d, x))
         /\ Append(d, x)[1] = IF d = <<>> THEN x ELSE d[1]
         /\ Append(d, x)[Len(Append(d, x))] = x
<1>1. Append(d, x)[1] = IF d = <<>> THEN x ELSE d[1]
  BY ItemsAppend
<1>2. Append(d, x)[Len(Append(d, x))] = x
  BY ItemsAppend
<1>3. ASSUME NEW k \in 1 .. Len(Append(d, x)) - 1
      PROVE  Follows(Append(d, x)[k], Append(d, x)[k + 1])
  <2>1. k \in 1 .. Len(d) /\ Append(d, x)[k] = d[k] /\ Len(d) \in Nat /\ d # <<>>
    BY ItemsAppend
  <2>2. CASE k = Len(d)
    BY <2>1, <2>2, ItemsAppend
  <2>3. CASE k # Len(d)
    <3>1. k \in 1 .. Len(d) - 1 /\ Append(d, x)[k + 1] = d[k + 1]
      BY <2>1, <2>3, ItemsAppend
    <3> QED
      BY <2>1, <3>1 DEF Chained
  <2> QED
    BY <2>2, <2>3
<1> QED
  BY <1>1, <1>2, <1>3 DEF Chained

(* A connection that a step does not touch.                                *)
LEMMA Untouched ==
  ASSUME NEW i, NEW j, conns'[i] = conns[j], Middle(i)' <=> Middle(j),
         Stream(conns[j], Middle(j)),
         Middle(j) => UNCHANGED <<name, left>>,
         truncated => truncated',
         conns[j].end = "open" => UNCHANGED <<cpc, sending, sent>>
  PROVE  Stream(conns[i], Middle(i))'
BY DEF Stream, GoesOn, EndsComplete, EndsAtClient

-----------------------------------------------------------------------------
(* What the steps do to the connections.                                   *)

LEMMA OneField ==
  ASSUME NEW T, NEW E, NEW c \in [data : T, end : E]
  PROVE  /\ \A d : [c EXCEPT !.data = d] = [data |-> d, end |-> c.end]
         /\ \A e : [c EXCEPT !.end = e] = [data |-> c.data, end |-> e]
OBVIOUS

LEMMA Reads ==
  ASSUME TypeOK, spc \in {"header", "body"}, Connection.data # <<>>, Read
  PROVE  /\ 1 \in DOMAIN conns /\ Connection = conns[1] /\ conns[1].data # <<>>
         /\ conns' \in Seq(Connections) /\ Len(conns') = Len(conns) /\ DOMAIN conns' = DOMAIN conns
         /\ conns'[1].data = Tail(conns[1].data) /\ conns'[1].end = conns[1].end
         /\ \A j \in DOMAIN conns : j # 1 => conns'[j] = conns[j]
<1>1. conns # <<>> /\ 1 \in DOMAIN conns
  BY ConnTypes DEF TypeOK
<1>2. Connection = conns[1]
  BY <1>1, ConnTypes DEF Connection
<1>3. Tail(conns[1].data) \in Seq(Items) /\ conns[1].end \in {"open", "closed", "reset"}
  BY <1>1, <1>2, ConnTypes, ItemsTail
<1>4. conns' = [conns EXCEPT ![1] = [data |-> Tail(conns[1].data), end |-> conns[1].end]]
  <2>1. conns' = [conns EXCEPT ![1] = [conns[1] EXCEPT !.data = Tail(conns[1].data)]]
    BY <1>1 DEF Read
  <2>2. conns[1] \in Connections
    BY <1>1, ConnTypes
  <2>3. \A d : [conns[1] EXCEPT !.data = d] = [data |-> d, end |-> conns[1].end]
    BY <2>2, OneField DEF Connections
  <2> QED
    BY <2>1, <2>3
<1> QED
  BY <1>1, <1>2, <1>3, <1>4, ConnChanges

LEMMA ClientsConnection ==
  ASSUME TypeOK, Connected
  PROVE  /\ Here \in DOMAIN conns /\ conns[Here].end = "open" /\ Here = Len(conns)
         /\ cpc \in {"sending", "file"}
         /\ conns[Here].data \in Seq(Items) /\ conns[Here] \in Connections
BY ConnTypes DEF Connected, Sending, Here

LEMMA Writes ==
  ASSUME TypeOK, Connected, NEW x \in Items, Write(x)
  PROVE  /\ conns' \in Seq(Connections) /\ Len(conns') = Len(conns) /\ DOMAIN conns' = DOMAIN conns
         /\ conns'[Here].data = Append(conns[Here].data, x) /\ conns'[Here].end = "open"
         /\ \A j \in DOMAIN conns : j # Here => conns'[j] = conns[j]
<1> DEFINE d == Append(conns[Here].data, x)
<1>1. d \in Seq(Items)
  BY ClientsConnection, ItemsAppend
<1>2. \A e : [conns[Here] EXCEPT !.data = e] = [data |-> e, end |-> "open"]
  BY ClientsConnection, OneField DEF Connections
<1>3. conns' = [conns EXCEPT ![Here] = [conns[Here] EXCEPT !.data = d]]
  BY ClientsConnection DEF Write
<1> HIDE DEF d
<1>4. conns' = [conns EXCEPT ![Here] = [data |-> d, end |-> "open"]]
  BY <1>2, <1>3
<1> QED
  BY <1>1, <1>4, ClientsConnection, ConnChanges DEF d

LEMMA Closes ==
  ASSUME TypeOK, Connected, conns' = [conns EXCEPT ![Here].end = "closed"]
  PROVE  /\ conns' \in Seq(Connections) /\ Len(conns') = Len(conns) /\ DOMAIN conns' = DOMAIN conns
         /\ conns'[Here].data = conns[Here].data /\ conns'[Here].end = "closed"
         /\ \A j \in DOMAIN conns : j # Here => conns'[j] = conns[j]
<1>1. [conns[Here] EXCEPT !.end = "closed"] = [data |-> conns[Here].data, end |-> "closed"]
  BY ClientsConnection, OneField DEF Connections
<1>2. conns' = [conns EXCEPT ![Here] = [conns[Here] EXCEPT !.end = "closed"]]
  BY ClientsConnection
<1>3. conns' = [conns EXCEPT ![Here] = [data |-> conns[Here].data, end |-> "closed"]]
  BY <1>1, <1>2
<1> QED
  BY <1>3, ClientsConnection, ConnChanges

LEMMA Resets ==
  ASSUME TypeOK, Connected, conns' = [conns EXCEPT ![Here] = [data |-> <<>>, end |-> "reset"]]
  PROVE  /\ conns' \in Seq(Connections) /\ Len(conns') = Len(conns) /\ DOMAIN conns' = DOMAIN conns
         /\ conns'[Here].data = <<>> /\ conns'[Here].end = "reset"
         /\ \A j \in DOMAIN conns : j # Here => conns'[j] = conns[j]
<1>1. <<>> \in Seq(Items)
  OBVIOUS
<1> QED
  BY <1>1, ClientsConnection, ConnChanges

LEMMA Connects ==
  ASSUME TypeOK, conns' = Append(conns, [data |-> <<>>, end |-> "open"])
  PROVE  /\ conns' \in Seq(Connections) /\ Len(conns') = Len(conns) + 1
         /\ DOMAIN conns' = 1 .. Len(conns) + 1
         /\ conns'[Len(conns) + 1].data = <<>> /\ conns'[Len(conns) + 1].end = "open"
         /\ \A j \in DOMAIN conns : j # Len(conns) + 1 /\ conns'[j] = conns[j]
<1> DEFINE C == Connections
           c == [data |-> <<>>, end |-> "open"]
<1>1. c \in C /\ c.data = <<>> /\ c.end = "open"
  BY DEF Connections
<1>2. conns \in Seq(C) /\ conns' = Append(conns, c)
  BY ConnTypes
<1> HIDE DEF C, c
<1>3. /\ conns' \in Seq(C) /\ Len(conns') = Len(conns) + 1 /\ Len(conns) \in Nat
      /\ DOMAIN conns' = 1 .. Len(conns) + 1 /\ conns'[Len(conns) + 1] = c
      /\ \A j \in 1 .. Len(conns) : conns'[j] = conns[j]
  BY <1>1, <1>2
<1>4. DOMAIN conns = 1 .. Len(conns) /\ \A j \in 1 .. Len(conns) : j # Len(conns) + 1
  BY <1>3, ConnTypes
<1> QED
  BY <1>1, <1>3, <1>4 DEF C

(* What CloseSocket leaves.                                                *)
LEMMA Refuses ==
  ASSUME TypeOK, spc \in {"header", "body"}, conns' = <<Connection>>
  PROVE  /\ conns' \in Seq(Connections) /\ Len(conns') = 1 /\ DOMAIN conns' = {1}
         /\ 1 \in DOMAIN conns /\ conns'[1] = conns[1]
<1>1. conns # <<>> /\ 1 \in DOMAIN conns
  BY ConnTypes DEF TypeOK
<1>2. Connection = conns[1] /\ conns[1] \in Connections
  BY <1>1, ConnTypes DEF Connection
<1> QED
  BY <1>1, <1>2

-----------------------------------------------------------------------------
(* Types.                                                                  *)

LEMMA ConnsStep ==
  ASSUME SocketAssumption, TypeOK, Places, Next
  PROVE  conns' \in Seq(Connections) /\ (spc' \in {"header", "body"} => conns' # <<>>)
<1> DEFINE Kept == conns' \in Seq(Connections) /\ (spc' \in {"header", "body"} => conns' # <<>>)
<1>1. \A d : d \in Seq(Connections) => (d # <<>> <=> Len(d) > 0)
  OBVIOUS
<1>2. conns \in Seq(Connections) /\ (spc \in {"header", "body"} => conns # <<>>)
  BY ConnTypes DEF TypeOK
<1>3. CASE conns' = conns
  <2>1. spc' \in {"header", "body"} => spc \in {"header", "body"} \/ conns # <<>>
    BY <1>3 DEF Next, Serve, Bind, TestStop, End, Accept, ReadHeader, ReadBody, BodyRead, Disconnect,
        ReadFails, SaveFails, SetStop, CloseSocket, Logout, Send, WriteHeader, WriteData, MoveFileToBackup,
        Finish, WriteFails, Die, server, client
  <2> QED
    BY <1>2, <1>3, <2>1
<1>4. CASE End
  BY <1>4 DEF End
<1>5. CASE ReadHeader \/ ReadBody
  <2>1. spc \in {"header", "body"} /\ Connection.data # <<>> /\ Read
    BY <1>5 DEF ReadHeader, ReadBody
  <2> QED
    BY <1>1, <2>1, Reads, ConnTypes
<1>6. CASE Disconnect \/ SaveFails
  <2>1. conns # <<>> /\ conns' = Tail(conns) /\ spc' = "test"
    BY <1>2, <1>6 DEF Disconnect, SaveFails
  <2> QED
    BY <2>1, ConnDrops
<1>7. CASE CloseSocket
  <2>1. spc' = spc
    BY <1>7 DEF CloseSocket
  <2>2. CASE spc \in {"header", "body"}
    <3>1. conns' = <<Connection>>
      BY <1>7, <2>2 DEF CloseSocket
    <3> QED
      BY <1>1, <2>2, <3>1, Refuses
  <2>3. CASE spc \notin {"header", "body"}
    BY <1>7, <2>1, <2>3 DEF CloseSocket
  <2> QED
    BY <2>2, <2>3
<1>8. CASE Logout /\ conns' # conns
  <2>1. conns' = Append(conns, [data |-> <<>>, end |-> "open"])
    BY <1>8 DEF Logout
  <2>2. Len(conns') > 0
    BY <2>1, Connects, ConnTypes
  <2> QED
    BY <1>1, <2>1, <2>2, Connects
<1>9. CASE (WriteHeader \/ WriteData) /\ conns' # conns
  <2>1. PICK x \in Items : Connected /\ Write(x) /\ spc' = spc
    <3>1. CASE WriteHeader
      BY <1>9, <3>1 DEF WriteHeader, Header, Items, server, TypeOK
    <3>2. CASE WriteData
      <4>1. <<sending, sent + 1>> \in Items
        BY <3>2 DEF WriteData, TypeOK, Places, Items
      <4> QED
        BY <1>9, <3>2, <4>1 DEF WriteData, server
    <3> QED
      BY <1>9, <3>1, <3>2
  <2>2. Len(conns') > 0
    BY <2>1, Writes, ClientsConnection, ConnTypes
  <2> QED
    BY <1>1, <2>1, <2>2, Writes
<1>10. CASE Finish /\ conns' # conns
  <2>1. Connected /\ conns' = [conns EXCEPT ![Here].end = "closed"] /\ spc' = spc
    BY <1>10 DEF Finish, server
  <2> QED
    BY <1>1, <2>1, Closes, ClientsConnection, ConnTypes
<1>11. CASE Die
  <2>1. /\ Connected /\ spc' = spc
        /\ \/ conns' = [conns EXCEPT ![Here].end = "closed"]
           \/ conns' = [conns EXCEPT ![Here] = [data |-> <<>>, end |-> "reset"]]
    BY <1>11 DEF Die, server
  <2> QED
    BY <1>1, <2>1, Closes, Resets, ClientsConnection, ConnTypes
<1>12. \/ conns' = conns \/ End \/ ReadHeader \/ ReadBody \/ Disconnect \/ SaveFails \/ CloseSocket
       \/ (conns' # conns /\ (Logout \/ WriteHeader \/ WriteData \/ Finish)) \/ Die
  BY DEF Next, Serve, Bind, TestStop, Accept, BodyRead, ReadFails, SaveFails, SetStop, Send,
         MoveFileToBackup, WriteFails, server
<1> QED
  BY <1>3, <1>4, <1>5, <1>6, <1>7, <1>8, <1>9, <1>10, <1>11, <1>12

LEMMA HeaderRead ==
  ASSUME TypeOK, ReadHeader
  PROVE  /\ name' = conns[1].data[1][1] /\ name' \in Files /\ left' = Size[name']
         /\ conns[1].data[1] \in Items
BY Reads, ConnTypes, ItemsTail DEF ReadHeader, Items

LEMMA BodyPiece ==
  ASSUME TypeOK, ReadBody \/ SaveFails
  PROVE  /\ \/ received' = [received EXCEPT ![name] = Append(@, conns[1].data[1])]
            \/ received' = received /\ SaveFails
         /\ conns # <<>> /\ 1 \in DOMAIN conns /\ Connection = conns[1]
         /\ conns[1].data # <<>> /\ conns[1].data[1] \in Items
<1>1. conns # <<>> /\ 1 \in DOMAIN conns /\ Connection = conns[1]
  BY ConnTypes DEF ReadBody, SaveFails, Connection, TypeOK
<1>2. /\ conns[1].data \in Seq(Items) /\ conns[1].data # <<>>
      /\ Head(conns[1].data) = conns[1].data[1] /\ conns[1].data[1] \in Items
  BY <1>1, ConnTypes, ItemsTail DEF ReadBody, SaveFails
<1> QED
  BY <1>1, <1>2 DEF ReadBody, SaveFails

LEMMA TypeStep ==
  ASSUME SocketAssumption, TypeOK, Places, [Next]_vars
  PROVE  TypeOK'
<1>1. CASE UNCHANGED vars
  BY <1>1 DEF vars, server, client, TypeOK
<1> SUFFICES ASSUME Next PROVE TypeOK'
  BY <1>1
<1>2. conns' \in Seq(Connections) /\ (spc' \in {"header", "body"} => conns' # <<>>)
  BY ConnsStep
<1>3. name' \in Files \union {NoFile} /\ left' \in Nat
  <2>1. CASE ReadHeader
    BY <2>1, HeaderRead DEF SocketAssumption
  <2>2. CASE ReadBody
    BY <2>2 DEF ReadBody, TypeOK
  <2>3. CASE UNCHANGED <<name, left>>
    BY <2>3 DEF TypeOK
  <2> QED
    BY <2>1, <2>2, <2>3
       DEF Next, Serve, Bind, TestStop, End, Accept, BodyRead, Disconnect, ReadFails, SaveFails, SetStop,
           CloseSocket, Logout, Send, WriteHeader, WriteData, MoveFileToBackup, Finish,
           WriteFails, Die, server
<1>4. received' \in [Files -> Seq(Files \X Nat)]
  <2>1. CASE ReadBody \/ SaveFails
    <3>1. conns[1].data[1] \in Files \X Nat
      BY <2>1, BodyPiece DEF Items
    <3>2. \A q \in Seq(Files \X Nat) : Append(q, conns[1].data[1]) \in Seq(Files \X Nat)
      BY <3>1
    <3>3. received \in [Files -> Seq(Files \X Nat)]
      BY DEF TypeOK
    <3>4. \/ received' = [received EXCEPT ![name] = Append(@, conns[1].data[1])]
          \/ received' = received
      BY <2>1, BodyPiece
    <3> HIDE DEF TypeOK
    <3>5. CASE received' = [received EXCEPT ![name] = Append(@, conns[1].data[1])]
      BY <3>2, <3>3, <3>5
    <3> QED
      BY <3>3, <3>4, <3>5
  <2>2. CASE received' = received
    BY <2>2 DEF TypeOK
  <2> QED
    BY <2>1, <2>2
       DEF Next, Serve, Bind, TestStop, End, Accept, ReadHeader, BodyRead, Disconnect, ReadFails, SaveFails,
           SetStop, CloseSocket, Logout, Send, WriteHeader, WriteData, MoveFileToBackup, Finish,
           WriteFails, Die, server
<1>5. spc' \in {"bind", "unbound", "test", "accept", "header", "body", "ended"}
  BY DEF TypeOK, Next, Serve, Bind, TestStop, End, Accept, ReadHeader, ReadBody, BodyRead,
         Disconnect, ReadFails, SaveFails, SetStop, CloseSocket, Logout, Send, WriteHeader, WriteData,
         MoveFileToBackup, Finish, WriteFails, Die, server
<1>6. {listening', isStop', closing', truncated'} \subseteq BOOLEAN
  BY DEF TypeOK, Next, Serve, Bind, TestStop, End, Accept, ReadHeader, ReadBody, BodyRead,
         Disconnect, ReadFails, SaveFails, SetStop, CloseSocket, Logout, Send, WriteHeader, WriteData,
         MoveFileToBackup, Finish, WriteFails, Die, server, client
<1>7. /\ cpc' \in {"idle", "sending", "file"}
      /\ sending' \in Files \union {NoFile} /\ sent' \in Nat
  BY DEF TypeOK, Next, Serve, Bind, TestStop, End, Accept, ReadHeader, ReadBody, BodyRead,
         Disconnect, ReadFails, SaveFails, SetStop, CloseSocket, Logout, Send, WriteHeader, WriteData,
         MoveFileToBackup, Finish, WriteFails, Die, server, client
<1>8. backup' \subseteq Files /\ logouts' \in 0 .. MaxLogouts
  <2>1. backup' = backup \/ (MoveFileToBackup /\ backup' = backup \union {sending})
    BY DEF Next, Serve, Bind, TestStop, End, Accept, ReadHeader, ReadBody, BodyRead,
         Disconnect, ReadFails, SaveFails, SetStop, CloseSocket, Logout, Send, WriteHeader, WriteData,
         MoveFileToBackup, Finish, WriteFails, Die, server, client
  <2>2. logouts' = logouts \/ (logouts < MaxLogouts /\ logouts' = logouts + 1)
    BY DEF Next, Serve, Bind, TestStop, End, Accept, ReadHeader, ReadBody, BodyRead,
         Disconnect, ReadFails, SaveFails, SetStop, CloseSocket, Logout, Send, WriteHeader, WriteData,
         MoveFileToBackup, Finish, WriteFails, Die, server, client
  <2> QED
    BY <2>1, <2>2 DEF TypeOK, Places, SocketAssumption, MoveFileToBackup
<1>9. todo' \subseteq Files
  BY DEF TypeOK, Next, Serve, Bind, TestStop, End, Accept, ReadHeader, ReadBody, BodyRead,
         Disconnect, ReadFails, SaveFails, SetStop, CloseSocket, Logout, Send, WriteHeader, WriteData,
         MoveFileToBackup, Finish, WriteFails, Die, server, client
<1>10. lost' \subseteq Files
  <2>1. lost' = lost \/ (\E I : Lose(I)) \/ WriteHeader
    BY DEF Next, Serve, Bind, TestStop, End, Accept, ReadHeader, ReadBody, BodyRead,
           Disconnect, ReadFails, SaveFails, SetStop, CloseSocket, Logout, Send, WriteData,
           MoveFileToBackup, Finish, WriteFails, Die
  <2>2. ASSUME NEW I, Lose(I) PROVE lost' \subseteq Files
    BY <2>2 DEF Lose, TypeOK
  <2>3. CASE WriteHeader
    BY <2>3 DEF WriteHeader, TypeOK
  <2> QED
    BY <2>1, <2>2, <2>3 DEF TypeOK
<1> QED
  BY <1>2, <1>3, <1>4, <1>5, <1>6, <1>7, <1>8, <1>9, <1>10 DEF TypeOK, Connections, Items

LEMMA PlacesStep ==
  ASSUME SocketAssumption, TypeOK, Places, [Next]_vars
  PROVE  Places'
<1>1. CASE ReadHeader
  <2>1. name' \in Files /\ left' = Size[name'] /\ Size[name'] \in Nat
    BY <1>1, HeaderRead DEF SocketAssumption
  <2>2. UNCHANGED client
    BY <1>1 DEF ReadHeader
  <2> QED
    BY <2>1, <2>2 DEF Places, client
<1>2. CASE ReadBody
  <2>1. /\ name \in Files /\ left <= Size[name] /\ name' = name /\ left' = left - 1 /\ left \in Nat
        /\ Size[name] \in Nat /\ UNCHANGED client
    BY <1>2 DEF ReadBody, Places, TypeOK, SocketAssumption
  <2> QED
    BY <2>1 DEF Places, client
<1>3. CASE WriteHeader
  <2>1. \A f \in Files : 0 <= Size[f]
    BY DEF SocketAssumption
  <2> QED
    BY <1>3, <2>1 DEF WriteHeader, Places, server, TypeOK
<1>4. CASE WriteData
  <2>1. /\ sending \in Files /\ sent < Size[sending] /\ sent \in Nat /\ Size[sending] \in Nat
        /\ sent' = sent + 1 /\ sending' = sending /\ UNCHANGED server
    BY <1>4 DEF WriteData, Places, TypeOK, SocketAssumption
  <2> QED
    BY <2>1 DEF Places, server
<1>5. CASE ~ ReadHeader /\ ~ ReadBody /\ ~ WriteHeader /\ ~ WriteData
  <2>1. UNCHANGED <<name, left>> /\ (spc' = "body" => spc = "body")
    BY <1>5 DEF Next, Serve, Bind, TestStop, End, Accept, BodyRead, Disconnect, ReadFails, SaveFails,
         SetStop, CloseSocket, Logout, Send, MoveFileToBackup, Finish,
         WriteFails, Die, server, client, vars
  <2>2. cpc' = "file" => cpc = "file" /\ sending' = sending /\ sent' = sent
    BY <1>5 DEF Next, Serve, Bind, TestStop, End, Accept, BodyRead, Disconnect, ReadFails, SaveFails,
         SetStop, CloseSocket, Logout, Send, MoveFileToBackup, Finish,
         WriteFails, Die, server, client, vars
  <2> QED
    BY <2>1, <2>2 DEF Places
<1> QED
  BY <1>1, <1>2, <1>3, <1>4, <1>5

-----------------------------------------------------------------------------
(* Streams stay streams.                                                   *)

LEMMA NothingOpen ==
  ASSUME TypeOK, OneOpen, ~ Connected
  PROVE  \A i \in DOMAIN conns : conns[i].end # "open"
<1> SUFFICES ASSUME NEW i \in DOMAIN conns, conns[i].end = "open" PROVE Connected
  OBVIOUS
<1>1. i = Len(conns) /\ cpc \in {"sending", "file"}
  BY DEF OneOpen, TypeOK
<1>2. conns # <<>>
  BY ConnTypes
<1> QED
  BY <1>1, <1>2 DEF Connected, Sending, Here

(* Streams and the open connection, after a step that leaves connections   *)
(* as they are, and the client where it is if it has one.                  *)
LEMMA InertSteps ==
  ASSUME TypeOK, OneOpen, Streams,
         \/ Bind \/ (TestStop /\ conns' = conns) \/ Accept \/ BodyRead \/ SetStop
         \/ (Logout /\ conns' = conns) \/ WriteFails \/ UNCHANGED vars
         \/ ~ Connected /\ (WriteHeader \/ WriteData \/ MoveFileToBackup \/ Finish)
  PROVE  OneOpen' /\ Streams'
<1>1. conns' = conns /\ UNCHANGED <<name, left, truncated>>
  BY DEF Bind, TestStop, End, Accept, BodyRead, SetStop, Logout, WriteFails, vars, server, client,
         WriteHeader, WriteData, MoveFileToBackup, Finish
<1>2. \A i \in DOMAIN conns : conns[i].end = "open" => UNCHANGED <<cpc, sending, sent>>
  <2>1. CASE ~ Connected
    BY <2>1, NothingOpen
  <2>2. CASE Logout
    BY <2>2 DEF Logout, OneOpen
  <2>3. CASE Connected /\ ~ Logout
    BY <2>3 DEF Bind, TestStop, End, Accept, BodyRead, SetStop, WriteFails, vars, server, client
  <2> QED
    BY <2>1, <2>2, <2>3
<1>3. \A i \in DOMAIN conns : Middle(i)' <=> Middle(i)
  BY DEF Middle, Bind, TestStop, End, Accept, BodyRead, SetStop, Logout, WriteFails,
         WriteHeader, WriteData, MoveFileToBackup, Finish, vars, server, client
<1>4. OneOpen'
  BY <1>1, <1>2 DEF OneOpen
<1>5. ASSUME NEW i \in DOMAIN conns PROVE Stream(conns[i], Middle(i))'
  BY <1>1, <1>2, <1>3, Untouched DEF Streams
<1> QED
  BY <1>1, <1>4, <1>5 DEF Streams

(* The server takes the first piece of a stream, and knows from the size   *)
(* whether it was the last of a file.                                      *)
LEMMA PieceRead ==
  ASSUME SocketAssumption, TypeOK, Places, Streams, ReadHeader \/ ReadBody
  PROVE  LET x == conns[1].data[1]
         IN  /\ x \in Items /\ spc' = "body"
             /\ x = <<name', Size[name'] - left'>>
             /\ Middle(1)' <=> ~ Complete(x)
<1>1. conns[1].data[1] \in Items /\ 1 \in DOMAIN conns /\ conns[1].data # <<>>
  BY Reads, HeaderRead, BodyPiece DEF ReadHeader, ReadBody
<1> DEFINE x == conns[1].data[1]
<1>2. x = <<x[1], x[2]>> /\ x[1] \in Files /\ x[2] \in Nat /\ Size[x[1]] \in Nat
  BY <1>1 DEF Items, SocketAssumption
<1>3. GoesOn(conns[1].data, Middle(1))
  BY <1>1 DEF Streams, Stream
<1>4. CASE ReadHeader
  <2>1. ~ Middle(1)
    BY <1>4 DEF ReadHeader, Middle
  <2>2. x[2] = 0
    BY <1>1, <1>3, <2>1 DEF GoesOn
  <2>3. name' = x[1] /\ left' = Size[x[1]] /\ spc' = "body"
    BY <1>4, HeaderRead DEF ReadHeader
  <2>4. x = <<name', Size[name'] - left'>>
    BY <1>2, <2>2, <2>3
  <2>5. Middle(1)' <=> ~ Complete(x)
    BY <1>2, <2>2, <2>3 DEF Middle, Complete
  <2> QED
    BY <1>1, <2>3, <2>4, <2>5
<1>5. CASE ReadBody
  <2>1. Middle(1) /\ spc' = "body" /\ name' = name /\ left' = left - 1 /\ left \in Nat /\ left > 0
    BY <1>5 DEF ReadBody, Middle, TypeOK
  <2>2. x = <<name, Size[name] - left + 1>>
    BY <1>1, <1>3, <2>1 DEF GoesOn
  <2>3. x[1] = name /\ x[2] = Size[name] - left + 1
    BY <2>2
  <2>4. x = <<name', Size[name'] - left'>>
    BY <1>2, <2>1, <2>2, <2>3
  <2>5. Middle(1)' <=> ~ Complete(x)
    BY <1>2, <2>1, <2>3 DEF Middle, Complete
  <2> QED
    BY <1>1, <2>1, <2>4, <2>5
<1> QED
  BY <1>4, <1>5

LEMMA ReadingSteps ==
  ASSUME SocketAssumption, TypeOK, Places, OneOpen, Streams, ReadHeader \/ ReadBody
  PROVE  OneOpen' /\ Streams'
<1>1. /\ 1 \in DOMAIN conns /\ conns[1].data # <<>> /\ conns[1].data \in Seq(Items)
      /\ Len(conns') = Len(conns) /\ DOMAIN conns' = DOMAIN conns
      /\ conns'[1].data = Tail(conns[1].data) /\ conns'[1].end = conns[1].end
      /\ \A j \in DOMAIN conns : j # 1 => conns'[j] = conns[j]
  BY Reads, ConnTypes DEF ReadHeader, ReadBody
<1>2. UNCHANGED <<cpc, sending, sent, truncated>>
  BY DEF ReadHeader, ReadBody, client
<1>3. OneOpen'
  BY <1>1, <1>2 DEF OneOpen
<1>4. ASSUME NEW i \in DOMAIN conns, i # 1 PROVE Stream(conns[i], Middle(i))'
  BY <1>1, <1>2, <1>4, Untouched DEF Streams, Middle
<1>5. PICK d : d = conns[1].data
  OBVIOUS
<1>6. /\ d \in Seq(Items) /\ d # <<>> /\ d[1] \in Items
      /\ d[1] = <<name', Size[name'] - left'>> /\ (Middle(1)' <=> ~ Complete(d[1]))
  BY <1>1, <1>5, PieceRead
<1>7. PICK m \in BOOLEAN : m <=> Middle(1)'
  BY DEF Middle
<1>8. Stream(conns[1], Middle(1)) /\ Chained(d)
  BY <1>1, <1>5 DEF Streams, Stream
<1>9. /\ Chained(Tail(d))
      /\ Tail(d) # <<>> => Follows(d[1], Tail(d)[1]) /\ Tail(d)[Len(Tail(d))] = d[Len(d)]
      /\ Tail(d) = <<>> => d[Len(d)] = d[1]
  BY <1>6, <1>8, ChainTail
<1>10. d[1][1] = name' /\ d[1][2] = Size[name'] - left'
  BY <1>6
<1>11. GoesOn(Tail(d), m)'
  BY <1>6, <1>7, <1>9, <1>10 DEF GoesOn, Follows
<1>12. Complete(d[Len(d)]) => EndsComplete(Tail(d), m)
  BY <1>6, <1>7, <1>9 DEF EndsComplete
<1>13. d[Len(d)] = <<sending, sent>> => EndsAtClient(Tail(d), m)'
  <2> SUFFICES ASSUME d[Len(d)] = <<sending, sent>> PROVE EndsAtClient(Tail(d), m)'
    OBVIOUS
  <2>1. CASE Tail(d) # <<>>
    BY <1>2, <1>9, <2>1 DEF EndsAtClient
  <2>2. CASE Tail(d) = <<>>
    <3>1. d[1][1] = sending /\ d[1][2] = sent
      BY <1>9, <2>2
    <3> QED
      BY <1>2, <1>6, <1>7, <1>10, <2>2, <3>1 DEF EndsAtClient, Complete
  <2> QED
    BY <2>1, <2>2
<1>14. Stream(conns[1], Middle(1))'
  BY <1>1, <1>2, <1>5, <1>6, <1>7, <1>8, <1>9, <1>11, <1>12, <1>13
     DEF Stream, EndsComplete, EndsAtClient, GoesOn
<1> QED
  BY <1>1, <1>3, <1>4, <1>14 DEF Streams

(* Connections that go away leave the others as they are: they are not     *)
(* being read.                                                             *)
LEMMA LeavingSteps ==
  ASSUME TypeOK, OneOpen, Streams, End \/ Disconnect \/ SaveFails \/ CloseSocket
  PROVE  OneOpen' /\ Streams'
<1>1. CASE conns' = <<>>
  BY <1>1 DEF OneOpen, Streams
<1>2. UNCHANGED <<cpc, sending, sent, truncated, name, left>>
  BY DEF End, Disconnect, SaveFails, CloseSocket, client
<1>3. CASE Disconnect \/ SaveFails
  <2>1. conns # <<>> /\ conns' = Tail(conns) /\ spc' = "test"
    BY <1>3 DEF Disconnect, SaveFails, TypeOK
  <2>2. /\ Len(conns') = Len(conns) - 1 /\ DOMAIN conns' = 1 .. Len(conns) - 1
        /\ \A j \in DOMAIN conns' : j + 1 \in DOMAIN conns /\ conns'[j] = conns[j + 1]
    BY <2>1, ConnDrops
  <2>3. OneOpen'
    BY <1>2, <2>2, ConnTypes DEF OneOpen
  <2>4. ASSUME NEW i \in DOMAIN conns' PROVE Stream(conns[i], Middle(i))'
    <3>1. i \in Nat /\ i >= 1
      BY <2>2
    <3>2. ~ Middle(i)' /\ ~ Middle(i + 1)
      BY <2>1, <3>1 DEF Middle
    <3>3. i + 1 \in DOMAIN conns /\ conns'[i] = conns[i + 1] /\ Stream(conns[i + 1], Middle(i + 1))
      BY <2>2 DEF Streams
    <3> QED
      BY <1>2, <3>2, <3>3, Untouched
  <2> QED
    BY <2>3, <2>4 DEF Streams
<1>4. CASE CloseSocket /\ conns' # <<>>
  <2>1. spc \in {"header", "body"} /\ conns' = <<Connection>> /\ spc' = spc
    BY <1>4 DEF CloseSocket
  <2>2. Len(conns') = 1 /\ DOMAIN conns' = {1} /\ 1 \in DOMAIN conns /\ conns'[1] = conns[1]
    BY <2>1, Refuses
  <2>3. OneOpen'
    BY <1>2, <2>2 DEF OneOpen
  <2>4. Stream(conns[1], Middle(1))'
    BY <1>2, <2>1, <2>2, Untouched DEF Streams, Middle
  <2> QED
    BY <2>2, <2>3, <2>4 DEF Streams
<1> QED
  BY <1>1, <1>3, <1>4 DEF End

LEMMA ConnectingStep ==
  ASSUME TypeOK, OneOpen, Streams, Logout, conns' # conns
  PROVE  OneOpen' /\ Streams'
<1>1. /\ cpc = "idle" /\ cpc' = "sending" /\ conns' = Append(conns, [data |-> <<>>, end |-> "open"])
      /\ UNCHANGED <<sending, sent, truncated, name, left, spc>>
  BY DEF Logout, server
<1>2. /\ Len(conns') = Len(conns) + 1 /\ Len(conns) \in Nat
      /\ DOMAIN conns' = 1 .. Len(conns) + 1 /\ DOMAIN conns = 1 .. Len(conns)
      /\ conns'[Len(conns) + 1].data = <<>> /\ conns'[Len(conns) + 1].end = "open"
      /\ \A j \in DOMAIN conns : j # Len(conns) + 1 /\ conns'[j] = conns[j]
  BY <1>1, Connects, ConnTypes
<1>3. \A j \in DOMAIN conns : conns[j].end # "open"
  BY <1>1 DEF OneOpen
<1>4. PICK n : n = Len(conns) + 1
  OBVIOUS
<1>5. DOMAIN conns' = DOMAIN conns \union {n} /\ n = Len(conns')
  BY <1>2, <1>4
<1>6. OneOpen'
  BY <1>1, <1>2, <1>3, <1>4, <1>5 DEF OneOpen
<1>7. ASSUME NEW i \in DOMAIN conns PROVE Stream(conns[i], Middle(i))'
  BY <1>1, <1>2, <1>3, Untouched DEF Streams, Middle
<1>8. ~ Middle(n)'
  <2>1. ASSUME spc \in {"header", "body"} PROVE n # 1
    BY <1>2, <1>4, <2>1, ConnTypes DEF TypeOK
  <2> QED
    BY <1>1, <2>1 DEF Middle
<1>9. Stream(conns[n], Middle(n))'
  <2>1. conns'[n].data = <<>> /\ conns'[n].end = "open"
    BY <1>2, <1>4
  <2>2. Chained(<<>>)
    BY DEF Chained
  <2> QED
    BY <1>1, <1>8, <2>1, <2>2 DEF Stream, GoesOn, EndsComplete
<1> QED
  BY <1>5, <1>6, <1>7, <1>9 DEF Streams

-----------------------------------------------------------------------------
(* The client's steps.                                                     *)

(* The other connections have ended.                                       *)
LEMMA OthersStreams ==
  ASSUME TypeOK, OneOpen, Streams, Connected,
         DOMAIN conns' = DOMAIN conns, Len(conns') = Len(conns),
         \A j \in DOMAIN conns : j # Here => conns'[j] = conns[j],
         UNCHANGED server, truncated => truncated',
         conns'[Here].end = "open" => cpc' # "idle",
         \A n \in DOMAIN conns : n = Here => Stream(conns[n], Middle(n))'
  PROVE  OneOpen' /\ Streams'
<1>1. Here \in DOMAIN conns /\ Here = Len(conns)
  BY ClientsConnection
<1>2. OneOpen'
  BY <1>1 DEF OneOpen
<1>3. ASSUME NEW j \in DOMAIN conns, j # Here PROVE Stream(conns[j], Middle(j))'
  <2>1. conns[j].end # "open"
    BY <1>1, <1>3 DEF OneOpen
  <2> QED
    BY <1>3, <2>1, Untouched DEF Streams, Middle, server
<1> QED
  BY <1>2, <1>3 DEF Streams

LEMMA WritingSteps ==
  ASSUME SocketAssumption, TypeOK, Places, OneOpen, Streams, Connected,
         WriteHeader \/ WriteData
  PROVE  OneOpen' /\ Streams'
<1>1. PICK x : /\ x \in Items /\ Connected /\ Write(x) /\ UNCHANGED <<server, truncated>>
               /\ cpc' = "file" /\ x = <<sending', sent'>>
               /\ \/ cpc = "sending" /\ x[2] = 0
                  \/ cpc = "file" /\ x = <<sending, sent + 1>> /\ sent < Size[sending]
  <2>1. CASE WriteHeader
    <3>1. \A f \in todo : Header(f) \in Items /\ Header(f) = <<f, 0>>
      BY DEF Header, Items, TypeOK
    <3> QED
      BY <2>1, <3>1 DEF WriteHeader, server
  <2>2. CASE WriteData
    <3>1. <<sending, sent + 1>> \in Items
      BY <2>2 DEF WriteData, TypeOK, Places, Items
    <3> QED
      BY <2>2, <3>1 DEF WriteData
  <2> QED
    BY <2>1, <2>2
<1>2. PICK n, d : n = Here /\ d = conns[n].data
  OBVIOUS
<1>3. /\ DOMAIN conns' = DOMAIN conns /\ Len(conns') = Len(conns) /\ n \in DOMAIN conns
      /\ conns'[n].data = Append(d, x) /\ conns'[n].end = "open" /\ conns[n].end = "open"
      /\ \A j \in DOMAIN conns : j # Here => conns'[j] = conns[j]
      /\ d \in Seq(Items)
  BY <1>1, <1>2, Writes, ClientsConnection
<1>4. Stream(conns[n], Middle(n))
  BY <1>3 DEF Streams
<1>5. /\ Chained(d) /\ GoesOn(d, Middle(n))
      /\ IF cpc = "file" THEN EndsAtClient(d, Middle(n)) ELSE EndsComplete(d, Middle(n))
  BY <1>2, <1>3, <1>4 DEF Stream
<1>6. d # <<>> => Follows(d[Len(d)], x)
  <2>1. CASE cpc = "sending"
    BY <1>1, <1>5, <2>1 DEF EndsComplete, Follows
  <2>2. ASSUME cpc = "file", d # <<>> PROVE Follows(d[Len(d)], x)
    <3>1. d[Len(d)] = <<sending, sent>> /\ sent < Size[sending] /\ x = <<sending, sent + 1>>
      BY <1>1, <1>5, <2>2 DEF EndsAtClient
    <3>2. sent \in Nat /\ Size[sending] \in Nat
      BY <2>2 DEF TypeOK, Places, SocketAssumption
    <3> QED
      BY <3>1, <3>2 DEF Follows, Complete
  <2> QED
    BY <1>1, <2>1, <2>2
<1>7. d = <<>> => (IF Middle(n) THEN x = <<name, Size[name] - left + 1>> ELSE x[2] = 0)
  <2>1. CASE cpc = "sending"
    BY <1>1, <1>5, <2>1 DEF EndsComplete
  <2>2. ASSUME cpc = "file", d = <<>> PROVE Middle(n) /\ x = <<name, Size[name] - left + 1>>
    <3>1. sent < Size[sending] /\ x = <<sending, sent + 1>> /\ EndsAtClient(d, Middle(n))
      BY <1>1, <1>5, <2>2
    <3>2. sent \in Nat /\ Size[sending] \in Nat
      BY <2>2 DEF TypeOK, Places, SocketAssumption
    <3>3. Middle(n) /\ name = sending /\ sent = Size[name] - left
      BY <2>2, <3>1, <3>2 DEF EndsAtClient
    <3> QED
      BY <3>1, <3>3
  <2> QED
    BY <1>1, <2>1, <2>2
<1>8. /\ Chained(Append(d, x)) /\ Append(d, x) # <<>>
      /\ Append(d, x)[1] = IF d = <<>> THEN x ELSE d[1]
      /\ Append(d, x)[Len(Append(d, x))] = x
  BY <1>1, <1>3, <1>5, <1>6, ChainAppend, ItemsAppend
<1>9. (Middle(n)' <=> Middle(n)) /\ UNCHANGED <<name, left>>
  BY <1>1 DEF server, Middle
<1>10. Stream(conns[n], Middle(n))'
  <2>1. PICK a : a = Append(d, x)
    OBVIOUS
  <2>2. IF Middle(n) THEN a[1] = <<name, Size[name] - left + 1>> ELSE a[1][2] = 0
    BY <1>5, <1>7, <1>8, <2>1 DEF GoesOn
  <2>3. a # <<>> /\ Chained(a) /\ a[Len(a)] = <<sending', sent'>>
    BY <1>1, <1>8, <2>1
  <2>4. conns'[n].data = a /\ conns'[n].end = "open" /\ cpc' = "file"
    BY <1>1, <1>3, <2>1
  <2> QED
    BY <1>9, <2>2, <2>3, <2>4 DEF Stream, GoesOn, EndsAtClient
<1> QED
  BY <1>1, <1>2, <1>3, <1>10, OthersStreams

(* A file that has been written ends where the client stands.              *)
LEMMA FileWritten ==
  ASSUME SocketAssumption, TypeOK, NEW d, NEW middle \in BOOLEAN, sent = Size[sending],
         EndsAtClient(d, middle), middle => left > 0, Places, cpc = "file",
         middle => name \in Files
  PROVE  EndsComplete(d, middle)
<1>1. CASE d # <<>>
  BY <1>1 DEF EndsAtClient, EndsComplete, Complete
<1>2. CASE d = <<>>
  <2>1. ASSUME middle PROVE FALSE
    <3>1. Size[name] = Size[name] - left /\ left > 0 /\ left \in Nat /\ Size[name] \in Nat
      BY <1>2, <2>1 DEF EndsAtClient, TypeOK, SocketAssumption
    <3> QED
      BY <3>1
  <2> QED
    BY <1>2, <2>1 DEF EndsComplete
<1> QED
  BY <1>1, <1>2

LEMMA StandingSteps ==
  ASSUME SocketAssumption, TypeOK, Places, OneOpen, Streams, Connected,
         MoveFileToBackup \/ Finish \/ Die
  PROVE  OneOpen' /\ Streams'
<1>1. PICK n : n = Here
  OBVIOUS
<1>2. Connected /\ n \in DOMAIN conns /\ conns[n].end = "open" /\ cpc \in {"sending", "file"}
      /\ UNCHANGED <<server, sending, sent>>
  BY <1>1, ClientsConnection DEF MoveFileToBackup, Finish, Die
<1>3. Stream(conns[n], Middle(n)) /\ (Middle(n)' <=> Middle(n)) /\ UNCHANGED <<name, left>>
  BY <1>2 DEF Streams, Middle, server
<1>4. cpc = "file" /\ sent = Size[sending] => EndsComplete(conns[n].data, Middle(n))
  <2> SUFFICES ASSUME cpc = "file", sent = Size[sending]
               PROVE  EndsComplete(conns[n].data, Middle(n))
    OBVIOUS
  <2>1. EndsAtClient(conns[n].data, Middle(n))
    BY <1>2, <1>3 DEF Stream
  <2>2. Middle(n) \in BOOLEAN /\ (Middle(n) => left > 0 /\ name \in Files)
    BY DEF Middle, Places
  <2> QED
    BY <2>1, <2>2, FileWritten
<1>5. cpc = "sending" => EndsComplete(conns[n].data, Middle(n))
  BY <1>2, <1>3 DEF Stream
<1>6. CASE MoveFileToBackup
  <2>1. cpc = "file" /\ sent = Size[sending] /\ cpc' = "sending" /\ conns' = conns
        /\ truncated' = truncated
    BY <1>6 DEF MoveFileToBackup
  <2>2. Stream(conns[n], Middle(n))'
    BY <1>3, <1>4, <2>1 DEF Stream, GoesOn, EndsComplete
  <2> QED
    BY <1>1, <1>2, <2>1, <2>2, OthersStreams
<1>7. CASE (Finish \/ Die) /\ conns' = [conns EXCEPT ![Here].end = "closed"]
  <2>1. /\ DOMAIN conns' = DOMAIN conns /\ Len(conns') = Len(conns)
        /\ conns'[n].data = conns[n].data /\ conns'[n].end = "closed"
        /\ \A j \in DOMAIN conns : j # Here => conns'[j] = conns[j]
    BY <1>1, <1>2, <1>7, Closes
  <2>2. truncated => truncated'
    BY <1>7 DEF Finish, Die
  <2>3. ~ truncated' => EndsComplete(conns[n].data, Middle(n))
    <3>1. CASE Finish
      BY <1>5, <3>1 DEF Finish
    <3>2. ASSUME Die, ~ truncated', cpc = "file" PROVE sent = Size[sending]
      <4>1. cpc = "file" /\ ~ (sent < Size[sending]) /\ sent <= Size[sending]
            /\ sent \in Nat /\ Size[sending] \in Nat
        <5>1. truncated' = (truncated \/ (cpc = "file" /\ sent < Size[sending]))
          BY <1>1, <3>2, <1>7, Closes, Resets DEF Die
        <5> QED
          BY <3>2, <5>1 DEF Places, TypeOK, SocketAssumption
      <4> QED
        BY <4>1
    <3> QED
      BY <1>2, <1>4, <1>5, <1>7, <3>1, <3>2
  <2>4. Stream(conns[n], Middle(n))'
    BY <1>3, <2>1, <2>3 DEF Stream, GoesOn, EndsComplete
  <2> QED
    BY <1>1, <1>2, <2>1, <2>2, <2>4, OthersStreams
<1>8. CASE Die /\ conns' = [conns EXCEPT ![Here] = [data |-> <<>>, end |-> "reset"]]
  <2>1. /\ DOMAIN conns' = DOMAIN conns /\ Len(conns') = Len(conns)
        /\ conns'[n].data = <<>> /\ conns'[n].end = "reset"
        /\ \A j \in DOMAIN conns : j # Here => conns'[j] = conns[j]
    BY <1>1, <1>2, <1>8, Resets
  <2>2. truncated => truncated'
    BY <1>8 DEF Die
  <2>3. Stream(conns[n], Middle(n))'
    BY <2>1 DEF Stream, GoesOn, Chained
  <2> QED
    BY <1>1, <1>2, <2>1, <2>2, <2>3, OthersStreams
<1> QED
  BY <1>6, <1>7, <1>8 DEF Finish, Die

-----------------------------------------------------------------------------
(* The server ends only where it may.                                      *)

LEMMA StreamsStep ==
  ASSUME SocketAssumption, TypeOK, Places, OneOpen, Streams, [Next]_vars
  PROVE  OneOpen' /\ Streams'
<1>1. CASE \/ Bind \/ (TestStop /\ conns' = conns) \/ Accept \/ BodyRead \/ SetStop
           \/ (Logout /\ conns' = conns) \/ WriteFails \/ UNCHANGED vars
           \/ ~ Connected /\ (WriteHeader \/ WriteData \/ MoveFileToBackup \/ Finish)
  BY <1>1, InertSteps
<1>2. CASE End \/ Disconnect \/ SaveFails \/ CloseSocket
  BY <1>2, LeavingSteps
<1>3. \/ Bind \/ (TestStop /\ conns' = conns) \/ Accept \/ BodyRead \/ SetStop
      \/ (Logout /\ conns' = conns) \/ WriteFails \/ UNCHANGED vars
      \/ End \/ Disconnect \/ SaveFails \/ CloseSocket \/ ReadHeader \/ ReadBody
      \/ (Logout /\ conns' # conns) \/ WriteHeader \/ WriteData \/ MoveFileToBackup \/ Finish
      \/ (Die /\ Connected)
  BY DEF Next, Serve, Send, TestStop, ReadFails, Die
<1> QED
  BY <1>1, <1>2, <1>3, ReadingSteps, ConnectingStep, WritingSteps, StandingSteps

(* A read that fails in the body of a file is the end of a stream that a   *)
(* client has left within a file.                                          *)
LEMMA FailsTruncated ==
  ASSUME TypeOK, Streams, ReadFails
  PROVE  truncated
<1>1. /\ 1 \in DOMAIN conns /\ Connection = conns[1] /\ conns[1].data = <<>>
      /\ conns[1].end = "closed" /\ Middle(1)
  BY ConnTypes DEF ReadFails, SaveFails, Connection, Middle, TypeOK
<1> QED
  BY <1>1 DEF Streams, Stream, EndsComplete

LEMMA SurvivesStep ==
  ASSUME TypeOK, Streams, ServerSurvives, [Next]_vars
  PROVE  ServerSurvives'
<1>1. isStop => isStop'
  BY DEF Next, Serve, Bind, TestStop, End, Accept, ReadHeader, ReadBody, BodyRead, Disconnect,
         ReadFails, SaveFails, SetStop, CloseSocket, Logout, Send, WriteHeader, WriteData,
         MoveFileToBackup, Finish, WriteFails, Die, server, vars
<1>2. truncated => truncated'
  BY DEF Next, Serve, Bind, TestStop, End, Accept, ReadHeader, ReadBody, BodyRead, Disconnect,
         ReadFails, SaveFails, SetStop, CloseSocket, Logout, Send, WriteHeader, WriteData,
         MoveFileToBackup, Finish, WriteFails, Die, client, vars
<1>3. spc' = "ended" => spc = "ended" \/ isStop \/ ReadFails
  BY DEF Next, Serve, Bind, TestStop, Accept, ReadHeader, ReadBody, BodyRead, Disconnect,
         SaveFails, SetStop, CloseSocket, Logout, Send, WriteHeader, WriteData,
         MoveFileToBackup, Finish, WriteFails, Die, server, vars
<1> QED
  BY <1>1, <1>2, <1>3, FailsTruncated DEF ServerSurvives, Ended

LEMMA SocketInvInit == SocketAssumption /\ Init => SocketInv
<1> SUFFICES ASSUME SocketAssumption, Init PROVE SocketInv
  OBVIOUS
<1>1. TypeOK
  <2>1. <<>> \in Seq(Files \X Nat) /\ 0 \in 0 .. MaxLogouts
    BY DEF SocketAssumption
  <2>2. received \in [Files -> Seq(Files \X Nat)]
    BY <2>1 DEF Init
  <2>3. conns \in Seq([data : Seq(Files \X Nat), end : {"open", "closed", "reset"}])
    BY DEF Init
  <2> QED
    BY <2>1, <2>2, <2>3 DEF Init, TypeOK
<1>2. DOMAIN conns = {}
  BY DEF Init
<1> QED
  BY <1>1, <1>2 DEF Init, SocketInv, Places, OneOpen, Streams, ServerSurvives, Ended

LEMMA SocketInvStep ==
  ASSUME SocketAssumption, SocketInv, [Next]_vars
  PROVE  SocketInv'
BY TypeStep, PlacesStep, StreamsStep, SurvivesStep DEF SocketInv

-----------------------------------------------------------------------------
(* What the server has of a file, and where the rest of it is.             *)

Begun(f)   == f \in backup \/ (cpc = "file" /\ sending = f)
Reading(f) == spc = "body" /\ name = f
LastIs(f, n) == received[f] # <<>> /\ Last(received[f]) = <<f, n>>

Arrived(f) ==
  /\ PiecesInOrder(f)
  /\ Reading(f) /\ left < Size[f] => LastIs(f, Size[f] - left)
  /\ Begun(f) /\ Size[f] > 0 =>
       f \in lost \/ Unread(f) \/ Reading(f) \/ LastIs(f, Size[f])

Transfer == \A f \in Files : Arrived(f)

-----------------------------------------------------------------------------
(* A file of which a step changes only where the rest of it is.            *)
LEMMA ArrivedStays ==
  ASSUME SocketAssumption, NEW f \in Files, Arrived(f), received'[f] = received[f],
         Reading(f)' => Reading(f) /\ left' = left,
         Begun(f)' => Begun(f) \/ f \in lost' \/ Unread(f)',
         f \in lost => f \in lost' \/ Unread(f)',
         Unread(f) => f \in lost' \/ Unread(f)' \/ Reading(f)',
         Reading(f) => f \in lost' \/ Reading(f)' \/ left = 0
  PROVE  Arrived(f)'
<1>1. PiecesInOrder(f)'
  BY DEF Arrived, PiecesInOrder
<1>2. \A n : LastIs(f, n) => LastIs(f, n)'
  BY DEF LastIs
<1>3. (Reading(f) /\ left < Size[f] => LastIs(f, Size[f] - left))'
  BY <1>2 DEF Arrived
<1>4. ASSUME Begun(f)', Size[f] > 0, f \notin lost', ~ Unread(f)', ~ Reading(f)'
      PROVE  LastIs(f, Size[f])'
  <2>1. Begun(f) /\ f \notin lost /\ ~ Unread(f)
    BY <1>4
  <2>2. CASE Reading(f)
    <3>1. left = 0 /\ Size[f] - left = Size[f]
      BY <1>4, <2>2 DEF SocketAssumption
    <3> QED
      BY <1>2, <1>4, <2>2, <3>1 DEF Arrived
  <2>3. CASE ~ Reading(f)
    BY <1>2, <1>4, <2>1, <2>3 DEF Arrived
  <2> QED
    BY <2>2, <2>3
<1> QED
  BY <1>1, <1>3, <1>4 DEF Arrived

LEMMA BringsStays ==
  ASSUME NEW f, NEW i, NEW j, Brings(i, f), conns'[j].data = conns[i].data
  PROVE  Brings(j, f)'
BY DEF Brings, Header

LEMMA UnreadStays ==
  ASSUME NEW f, \A i \in DOMAIN conns : i \in DOMAIN conns' /\ conns'[i].data = conns[i].data
  PROVE  Unread(f) => Unread(f)'
BY BringsStays DEF Unread

(* Writing leaves what has been written.                                   *)
LEMMA UnreadWritten ==
  ASSUME TypeOK, Connected, NEW x \in Items, Write(x), NEW f, Unread(f) \/ x = Header(f)
  PROVE  Unread(f)'
<1>1. /\ DOMAIN conns' = DOMAIN conns /\ Here \in DOMAIN conns
      /\ conns'[Here].data = Append(conns[Here].data, x) /\ conns[Here].data \in Seq(Items)
      /\ \A j \in DOMAIN conns : j # Here => conns'[j] = conns[j]
  BY Writes, ClientsConnection
<1>2. PICK n, d : n = Here /\ d = conns[n].data
  OBVIOUS
<1>3. /\ Len(d) + 1 \in DOMAIN Append(d, x) /\ Append(d, x)[Len(d) + 1] = x
      /\ \A k \in DOMAIN d : k \in DOMAIN Append(d, x) /\ Append(d, x)[k] = d[k]
  <2> DEFINE I == Items
  <2>1. d \in Seq(I) /\ x \in I
    BY <1>1, <1>2
  <2> HIDE DEF I
  <2> QED
    BY <2>1
<1>4. conns'[n].data = Append(d, x) /\ n \in DOMAIN conns'
  BY <1>1, <1>2
<1>5. CASE x = Header(f)
  BY <1>3, <1>4, <1>5 DEF Unread, Brings, Header
<1>6. CASE Unread(f)
  <2>1. PICK i \in DOMAIN conns : Brings(i, f)
    BY <1>6 DEF Unread
  <2>2. CASE i = n
    <3>1. PICK k \in DOMAIN d : d[k] = Header(f)
      BY <1>2, <2>1, <2>2 DEF Brings
    <3> QED
      BY <1>3, <1>4, <3>1 DEF Unread, Brings, Header
  <2>3. CASE i # n
    BY <1>1, <1>2, <2>1, <2>3, BringsStays DEF Unread
  <2> QED
    BY <2>2, <2>3
<1> QED
  BY <1>5, <1>6

(* Reading takes the header of the file that is read from then on.         *)
LEMMA UnreadRead ==
  ASSUME TypeOK, spc \in {"header", "body"}, Connection.data # <<>>, Read,
         NEW f, Unread(f), conns[1].data[1] # Header(f)
  PROVE  Unread(f)'
<1>1. PICK d : d = conns[1].data
  OBVIOUS
<1>2. /\ d \in Seq(Items) /\ d # <<>> /\ 1 \in DOMAIN conns
      /\ DOMAIN conns' = DOMAIN conns /\ conns'[1].data = Tail(d)
      /\ \A j \in DOMAIN conns : j # 1 => conns'[j] = conns[j]
  BY <1>1, Reads, ConnTypes
<1>3. \A k \in DOMAIN d : k # 1 => k - 1 \in DOMAIN Tail(d) /\ Tail(d)[k - 1] = d[k]
  <2> DEFINE I == Items
  <2>1. d \in Seq(I) /\ d # <<>>
    BY <1>2
  <2> HIDE DEF I
  <2> QED
    BY <2>1
<1>4. PICK i \in DOMAIN conns : Brings(i, f)
  BY DEF Unread
<1>5. CASE i = 1
  <2>1. PICK k \in DOMAIN d : d[k] = Header(f)
    BY <1>1, <1>4, <1>5 DEF Brings
  <2>2. k # 1
    BY <1>1, <2>1
  <2> QED
    <3>1. PICK l, e : l = k - 1 /\ e = Tail(d)
      OBVIOUS
    <3>2. l \in DOMAIN e /\ e[l] = Header(f) /\ conns'[1].data = e /\ 1 \in DOMAIN conns'
      BY <1>2, <1>3, <2>1, <2>2, <3>1
    <3> QED
      BY <3>2 DEF Unread, Brings, Header
<1>6. CASE i # 1
  BY <1>2, <1>4, <1>6, BringsStays DEF Unread
<1> QED
  BY <1>5, <1>6

(* What is not read is recorded with the connection that goes.             *)
LEMMA UnreadLost ==
  ASSUME NEW I, Lose(I), NEW f \in Files,
         \A i \in DOMAIN conns : i \in I \/ \E j \in DOMAIN conns' : conns'[j].data = conns[i].data,
         I \subseteq DOMAIN conns
  PROVE  /\ Unread(f) => f \in lost' \/ Unread(f)'
         /\ f \in lost => f \in lost'
         /\ 1 \in I /\ InHand(f) => f \in lost'
<1>1. f \in lost => f \in lost'
  BY DEF Lose
<1>2. 1 \in I /\ InHand(f) => f \in lost'
  BY DEF Lose
<1>3. ASSUME NEW i \in DOMAIN conns, Brings(i, f) PROVE f \in lost' \/ Unread(f)'
  <2>1. CASE i \in I
    BY <1>3, <2>1 DEF Lose
  <2>2. CASE i \notin I
    <3>1. PICK j \in DOMAIN conns' : conns'[j].data = conns[i].data
      BY <1>3, <2>2
    <3> QED
      BY <1>3, <3>1, BringsStays DEF Unread
  <2> QED
    BY <2>1, <2>2
<1> QED
  BY <1>1, <1>2, <1>3 DEF Unread

-----------------------------------------------------------------------------
(* The steps that neither read, nor write a header, nor drop a connection. *)
LEMMA OthersArrive ==
  ASSUME SocketAssumption, TypeOK, Places, Transfer,
         \/ Bind \/ (TestStop /\ ~ End) \/ Accept \/ SetStop \/ Logout \/ WriteData
         \/ MoveFileToBackup \/ Finish \/ WriteFails \/ BodyRead \/ UNCHANGED vars
         \/ Die /\ conns' = [conns EXCEPT ![Here].end = "closed"] /\ lost' = lost
  PROVE  Transfer'
<1> SUFFICES ASSUME NEW f \in Files PROVE Arrived(f)'
  BY DEF Transfer
<1>1. received'[f] = received[f] /\ lost' = lost
  BY DEF Bind, TestStop, Accept, SetStop, Logout, WriteData, MoveFileToBackup, Finish, WriteFails,
         BodyRead, Die, vars, server
<1>2. /\ Reading(f)' => Reading(f) /\ left' = left
      /\ Reading(f) => Reading(f)' \/ left = 0
  BY DEF Reading, Bind, TestStop, Accept, SetStop, Logout, WriteData, MoveFileToBackup, Finish,
         WriteFails, BodyRead, Die, vars, server
<1>3. Begun(f)' => Begun(f)
  BY DEF Begun, Bind, TestStop, Accept, SetStop, Logout, WriteData, MoveFileToBackup, Finish,
         WriteFails, BodyRead, Die, vars, client
<1>4. Unread(f) => Unread(f)'
  <2>1. CASE conns' = conns
    BY <2>1, UnreadStays
  <2>2. CASE conns' = [conns EXCEPT ![Here].end = "closed"] /\ Connected
    BY <2>2, UnreadStays, Closes
  <2>3. CASE conns' = Append(conns, [data |-> <<>>, end |-> "open"])
    <3>1. PICK m \in Nat : DOMAIN conns = 1 .. m /\ DOMAIN conns' = 1 .. m + 1
      BY <2>3, Connects, ConnTypes
    <3>2. \A j \in 1 .. m : j \in 1 .. m + 1
      BY <3>1
    <3>3. \A j \in DOMAIN conns : conns'[j] = conns[j]
      BY <2>3, Connects
    <3>4. \A j \in DOMAIN conns : j \in DOMAIN conns' /\ conns'[j] = conns[j]
      BY <3>1, <3>2, <3>3, Zenon
    <3> QED
      BY <3>4, UnreadStays
  <2>4. CASE WriteData /\ Connected
    <3>1. <<sending, sent + 1>> \in Items /\ Write(<<sending, sent + 1>>)
      BY <2>4 DEF WriteData, TypeOK, Places, Items
    <3> QED
      BY <2>4, <3>1, UnreadWritten
  <2> QED
    BY <2>1, <2>2, <2>3, <2>4
       DEF Bind, TestStop, Accept, SetStop, Logout, WriteData, MoveFileToBackup, Finish, WriteFails,
           BodyRead, Die, vars
<1> QED
  BY <1>1, <1>2, <1>3, <1>4, ArrivedStays DEF Transfer

LEMMA WriteHeaderArrives ==
  ASSUME SocketAssumption, TypeOK, Transfer, WriteHeader
  PROVE  Transfer'
<1>1. PICK g \in Files :
        /\ sending' = g /\ cpc = "sending" /\ UNCHANGED <<server, backup>>
        /\ IF Connected THEN Write(Header(g)) /\ lost' = lost \ {g}
           ELSE conns' = conns /\ lost' = lost \union {g}
  BY DEF WriteHeader, TypeOK
<1>2. \A f : f # g => (Begun(f)' => Begun(f)) /\ (f \in lost <=> f \in lost')
  BY <1>1 DEF Begun
<1>3. \A f \in Files : Unread(f) \/ (f = g /\ Connected) => Unread(f)'
  <2>1. CASE Connected
    <3>1. Header(g) \in Items /\ Write(Header(g))
      BY <1>1, <2>1 DEF Header, Items
    <3> QED
      BY <2>1, <3>1, UnreadWritten
  <2>2. CASE ~ Connected
    BY <1>1, <2>2, UnreadStays
  <2> QED
    BY <2>1, <2>2
<1>4. g \in lost' \/ Unread(g)'
  BY <1>1, <1>3
<1>5. \A f : (Reading(f)' <=> Reading(f)) /\ received' = received /\ left' = left
  BY <1>1 DEF Reading, server
<1> SUFFICES ASSUME NEW f \in Files PROVE Arrived(f)'
  BY DEF Transfer
<1>6. f \in lost => f \in lost' \/ Unread(f)'
  BY <1>2, <1>4
<1>7. Begun(f)' => Begun(f) \/ f \in lost' \/ Unread(f)'
  BY <1>2, <1>4
<1> QED
  BY <1>3, <1>5, <1>6, <1>7, ArrivedStays DEF Transfer

LEMMA ReadHeaderArrives ==
  ASSUME SocketAssumption, TypeOK, Places, Streams, Transfer, ReadHeader
  PROVE  Transfer'
<1>1. /\ name' \in Files /\ left' = Size[name'] /\ spc = "header" /\ spc' = "body"
      /\ UNCHANGED <<received, client, lost>> /\ Size[name'] \in Nat
  BY HeaderRead DEF ReadHeader, SocketAssumption
<1>2. conns[1].data[1] = <<name', Size[name'] - left'>>
  BY PieceRead
<1>3. conns[1].data[1] = Header(name')
  BY <1>1, <1>2 DEF Header
<1> SUFFICES ASSUME NEW f \in Files PROVE Arrived(f)'
  BY DEF Transfer
<1>4. Begun(f)' => Begun(f)
  BY <1>1 DEF Begun, client
<1>5. CASE f = name'
  <2>1. Reading(f)' /\ ~ (left < Size[f])'
    BY <1>1, <1>5 DEF Reading
  <2>2. PiecesInOrder(f)'
    BY <1>1 DEF Transfer, Arrived, PiecesInOrder
  <2> QED
    BY <2>1, <2>2 DEF Arrived
<1>6. CASE f # name'
  <2>1. conns[1].data[1] # Header(f)
    BY <1>3, <1>6 DEF Header
  <2>2. Unread(f) => Unread(f)'
    BY <2>1, UnreadRead DEF ReadHeader
  <2>3. ~ Reading(f) /\ ~ Reading(f)'
    BY <1>1, <1>6 DEF Reading
  <2> QED
    BY <1>1, <1>4, <2>2, <2>3, ArrivedStays DEF Transfer
<1> QED
  BY <1>5, <1>6

(* The piece that is saved goes on with the file, or begins it.            *)
LEMMA PieceSaved ==
  ASSUME SocketAssumption, TypeOK, Places, Streams, Transfer, ReadBody \/ SaveFails
  PROVE  /\ name \in Files /\ left \in Nat /\ left > 0 /\ left <= Size[name] /\ Size[name] \in Nat
         /\ conns[1].data[1] = <<name, Size[name] - left + 1>>
         /\ \A f \in Files : /\ PiecesInOrder(f)'
                             /\ f # name => received'[f] = received[f]
         /\ \/ received' = received /\ SaveFails
            \/ received'[name] # <<>> /\ Last(received'[name]) = <<name, Size[name] - left + 1>>
<1>1. /\ name \in Files /\ left > 0 /\ left \in Nat
      /\ left <= Size[name] /\ Size[name] \in Nat /\ spc = "body" /\ Middle(1)
  BY DEF ReadBody, SaveFails, Places, TypeOK, SocketAssumption, Middle
<1>2. PICK n \in Nat : n = Size[name] - left /\ Size[name] - left + 1 = n + 1
  BY <1>1
<1>3. /\ \/ received' = [received EXCEPT ![name] = Append(@, conns[1].data[1])]
         \/ received' = received /\ SaveFails
      /\ 1 \in DOMAIN conns /\ conns[1].data # <<>>
  BY BodyPiece
<1>4. conns[1].data[1] = <<name, n + 1>>
  BY <1>1, <1>2, <1>3 DEF Streams, Stream, GoesOn
<1>5. CASE received' = received /\ SaveFails
  BY <1>1, <1>2, <1>4, <1>5 DEF Transfer, Arrived, PiecesInOrder
<1>6. CASE received' = [received EXCEPT ![name] = Append(@, <<name, n + 1>>)]
  <2>1. PICK q : q = received[name]
    OBVIOUS
  <2>2. /\ q \in Seq(Items) /\ <<name, n + 1>> \in Items
        /\ received'[name] = Append(q, <<name, n + 1>>)
        /\ \A f \in Files : f # name => received'[f] = received[f]
    BY <1>1, <1>6, <2>1 DEF TypeOK, Items
  <2>3. n = 0 \/ (q # <<>> /\ Last(q) = <<name, n>>)
    BY <1>1, <1>2, <2>1 DEF Transfer, Arrived, Reading, LastIs
  <2>4. /\ DOMAIN Append(q, <<name, n + 1>>) = DOMAIN q \union {Len(q) + 1}
        /\ Len(q) + 1 \notin DOMAIN q /\ Len(q) \in Nat /\ DOMAIN q = 1 .. Len(q)
        /\ Append(q, <<name, n + 1>>)[Len(q) + 1] = <<name, n + 1>>
        /\ \A k \in DOMAIN q : Append(q, <<name, n + 1>>)[k] = q[k]
        /\ q # <<>> => Len(q) > 0 /\ Last(q) = q[Len(q)]
        /\ Append(q, <<name, n + 1>>) # <<>>
        /\ Last(Append(q, <<name, n + 1>>)) = <<name, n + 1>>
    <3> DEFINE I == Items
               x == <<name, n + 1>>
    <3>1. q \in Seq(I) /\ x \in I
      BY <2>2
    <3> HIDE DEF I, x
    <3>2. /\ DOMAIN Append(q, x) = DOMAIN q \union {Len(q) + 1}
          /\ Len(q) + 1 \notin DOMAIN q /\ Len(q) \in Nat /\ DOMAIN q = 1 .. Len(q)
          /\ Append(q, x)[Len(q) + 1] = x /\ Len(Append(q, x)) = Len(q) + 1
          /\ \A k \in DOMAIN q : Append(q, x)[k] = q[k]
          /\ q # <<>> => Len(q) > 0
          /\ Append(q, x) # <<>>
      BY <3>1
    <3>3. Last(Append(q, x)) = x /\ Last(q) = q[Len(q)]
      BY <3>2 DEF Last
    <3> QED
      BY <3>2, <3>3 DEF x
  <2>5. PiecesInOrder(name)'
    <3>1. PICK a : a = Append(q, <<name, n + 1>>)
      OBVIOUS
    <3>2. ASSUME NEW k \in DOMAIN a
          PROVE  a[k] = <<name, 1>> \/ (k > 1 /\ a[k] = <<name, a[k - 1][2] + 1>>)
      <4>1. CASE k = Len(q) + 1
        <5>1. CASE n = 0
          <6>1. a[k] = <<name, n + 1>> /\ n + 1 = 1
            BY <2>4, <3>1, <4>1, <5>1
          <6> QED
            BY <6>1
        <5>2. CASE n # 0
          <6>1. Len(q) > 0 /\ q[Len(q)] = <<name, n>> /\ Len(q) \in DOMAIN q
            BY <2>3, <2>4, <5>2
          <6>2. a[k - 1] = <<name, n>> /\ a[k - 1][2] = n /\ k > 1
            BY <2>4, <3>1, <4>1, <6>1
          <6> QED
            BY <2>4, <3>1, <4>1, <6>2
        <5> QED
          BY <5>1, <5>2
      <4>2. CASE k # Len(q) + 1
        <5>1. k \in DOMAIN q /\ a[k] = q[k] /\ (k > 1 => k - 1 \in DOMAIN q /\ a[k - 1] = q[k - 1])
          BY <2>4, <3>1, <3>2, <4>2
        <5>2. q[k] = <<name, 1>> \/ (k > 1 /\ q[k] = <<name, q[k - 1][2] + 1>>)
          BY <1>1, <2>1, <5>1 DEF Transfer, Arrived, PiecesInOrder
        <5> QED
          BY <5>1, <5>2
      <4> QED
        BY <4>1, <4>2
    <3>3. \A f : f = name => PiecesInOrder(f)'
      BY <2>2, <3>1, <3>2 DEF PiecesInOrder
    <3>4. name' = name
      BY DEF ReadBody, SaveFails
    <3> QED
      BY <3>3, <3>4 DEF PiecesInOrder
  <2>6. ASSUME NEW f \in Files, f # name PROVE PiecesInOrder(f)'
    BY <2>2, <2>6 DEF Transfer, Arrived, PiecesInOrder
  <2>7. name' = name
    BY DEF ReadBody, SaveFails
  <2>8. \A f \in Files : PiecesInOrder(f)'
    BY <2>5, <2>6, <2>7 DEF PiecesInOrder
  <2> QED
    BY <1>1, <1>2, <1>4, <2>2, <2>4, <2>8
<1> QED
  BY <1>3, <1>4, <1>5, <1>6

LEMMA ReadBodyArrives ==
  ASSUME SocketAssumption, TypeOK, Places, Streams, Transfer, ReadBody
  PROVE  Transfer'
<1>1. /\ name' = name /\ left' = left - 1 /\ spc = "body" /\ spc' = "body"
      /\ UNCHANGED <<client, lost>> /\ ~ SaveFails
  <2>1. left' = left - 1 /\ spc' = "body" /\ spc = "body" /\ name' = name /\ UNCHANGED <<client, lost>>
    BY DEF ReadBody
  <2>2. ~ SaveFails
    BY <2>1 DEF SaveFails
  <2> QED
    BY <2>1, <2>2
<1>2. /\ name \in Files /\ left \in Nat /\ left > 0 /\ left <= Size[name] /\ Size[name] \in Nat
      /\ conns[1].data[1] = <<name, Size[name] - left + 1>>
      /\ \A f \in Files : PiecesInOrder(f)' /\ (f # name => received'[f] = received[f])
      /\ received'[name] # <<>> /\ Last(received'[name]) = <<name, Size[name] - left + 1>>
  BY <1>1, PieceSaved
<1>3. \A f : conns[1].data[1] # Header(f)
  BY <1>2 DEF Header
<1> SUFFICES ASSUME NEW f \in Files PROVE Arrived(f)'
  BY DEF Transfer
<1>4. Begun(f)' => Begun(f)
  BY <1>1 DEF Begun, client
<1>5. Unread(f) => Unread(f)'
  BY <1>3, UnreadRead DEF ReadBody
<1>6. CASE f = name
  <2>1. Reading(f)' /\ Size[f] - left' = Size[f] - left + 1
    BY <1>1, <1>2, <1>6 DEF Reading
  <2>2. received'[f] # <<>> /\ Last(received'[f]) = <<f, Size[f] - left'>>
    BY <1>2, <1>6, <2>1
  <2>3. PiecesInOrder(f)'
    BY <1>2
  <2> QED
    BY <2>1, <2>2, <2>3 DEF Arrived, LastIs
<1>7. CASE f # name
  <2>1. ~ Reading(f) /\ ~ Reading(f)'
    BY <1>1, <1>7 DEF Reading
  <2> QED
    BY <1>1, <1>2, <1>4, <1>5, <1>7, <2>1, ArrivedStays DEF Transfer
<1> QED
  BY <1>6, <1>7

(* A connection is dropped: what it had of a file is lost.                 *)
LEMMA DroppedArrive ==
  ASSUME SocketAssumption, TypeOK, Places, Streams, Transfer,
         \/ (End /\ (spc = "body" => left > 0)) \/ Disconnect \/ SaveFails \/ CloseSocket
         \/ Die /\ Lose({Here}) /\ conns' = [conns EXCEPT ![Here] = [data |-> <<>>, end |-> "reset"]]
  PROVE  Transfer'
<1>1. PICK I : /\ Lose(I) /\ I \subseteq DOMAIN conns
               /\ \A i \in DOMAIN conns :
                    i \in I \/ \E j \in DOMAIN conns' : conns'[j].data = conns[i].data
               /\ \A f : Reading(f) => Reading(f)' \/ (1 \in I /\ InHand(f))
  <2>1. CASE End /\ (spc = "body" => left > 0)
    <3>1. Lose(DOMAIN conns)
      BY <2>1 DEF End
    <3>2. \A f : Reading(f) => 1 \in DOMAIN conns /\ InHand(f)
      BY <2>1, ConnTypes DEF Reading, InHand, TypeOK
    <3> QED
      BY <3>1, <3>2
  <2>2. CASE Disconnect \/ SaveFails
    <3>1. /\ Lose({1}) /\ conns # <<>> /\ conns' = Tail(conns) /\ 1 \in DOMAIN conns
          /\ spc = "body" => left > 0
      BY <2>2, ConnTypes DEF Disconnect, SaveFails, TypeOK
    <3>2. ASSUME NEW i \in DOMAIN conns, i # 1
          PROVE  \E j \in DOMAIN conns' : conns'[j].data = conns[i].data
      <4>1. PICK m \in Nat : DOMAIN conns' = 1 .. m - 1 /\ DOMAIN conns = 1 .. m
        BY <3>1, ConnDrops, ConnTypes
      <4>2. \A h \in 1 .. m : h # 1 => h - 1 \in 1 .. m - 1 /\ h - 1 + 1 = h
        BY <4>1
      <4>3. PICK j \in DOMAIN conns' : j + 1 = i
        BY <3>2, <4>1, <4>2, Zenon
      <4>4. \A h \in DOMAIN conns' : conns'[h] = conns[h + 1]
        BY <3>1, ConnDrops
      <4> QED
        BY <4>3, <4>4
    <3>3. \A f : Reading(f) => InHand(f)
      BY <3>1 DEF Reading, InHand
    <3> QED
      BY <3>1, <3>2, <3>3
  <2>3. CASE CloseSocket /\ spc \in {"header", "body"}
    <3>1. Lose(DOMAIN conns \ {1}) /\ conns' = <<Connection>> /\ UNCHANGED <<spc, name>>
      BY <2>3 DEF CloseSocket
    <3>2. DOMAIN conns' = {1} /\ conns'[1] = conns[1]
      BY <2>3, <3>1, Refuses
    <3> QED
      BY <3>1, <3>2 DEF Reading
  <2>4. CASE CloseSocket /\ spc \notin {"header", "body"}
    <3>1. Lose(DOMAIN conns) /\ UNCHANGED <<spc, name>>
      BY <2>4 DEF CloseSocket
    <3> QED
      BY <3>1 DEF Reading
  <2>5. CASE Die /\ Lose({Here}) /\ conns' = [conns EXCEPT ![Here] = [data |-> <<>>, end |-> "reset"]]
    <3>1. Connected /\ UNCHANGED <<spc, name>>
      BY <2>5 DEF Die, server
    <3>2. /\ Here \in DOMAIN conns /\ DOMAIN conns' = DOMAIN conns
          /\ \A j \in DOMAIN conns : j # Here => conns'[j] = conns[j]
      BY <2>5, <3>1, Resets, ClientsConnection
    <3> QED
      BY <2>5, <3>1, <3>2 DEF Reading
  <2> QED
    BY <2>1, <2>2, <2>3, <2>4, <2>5
<1>2. \A f : /\ Begun(f)' => Begun(f)
             /\ Reading(f)' => Reading(f) /\ left' = left
  BY DEF Begun, Reading, End, Disconnect, SaveFails, CloseSocket, Die, client, server
<1>3. ASSUME NEW f \in Files
      PROVE  /\ Unread(f) => f \in lost' \/ Unread(f)'
             /\ f \in lost => f \in lost'
             /\ Reading(f) => f \in lost' \/ Reading(f)'
  BY <1>1, UnreadLost
<1> SUFFICES ASSUME NEW f \in Files PROVE Arrived(f)'
  BY DEF Transfer
<1>4. CASE received'[f] = received[f]
  BY <1>2, <1>3, <1>4, ArrivedStays DEF Transfer
<1>5. CASE received'[f] # received[f]
  <2>1. SaveFails
    BY <1>5 DEF End, Disconnect, CloseSocket, Die, server
  <2>2. f = name /\ PiecesInOrder(f)'
    BY <1>5, <2>1, PieceSaved
  <2>3. Reading(f) /\ ~ Reading(f)'
    BY <2>1, <2>2 DEF SaveFails, Reading
  <2> QED
    BY <1>3, <2>2, <2>3 DEF Arrived
<1> QED
  BY <1>4, <1>5

LEMMA TransferStep ==
  ASSUME SocketAssumption, TypeOK, Places, Streams, Transfer, [Next]_vars
  PROVE  Transfer'
<1>1. \/ Bind \/ (TestStop /\ ~ End) \/ Accept \/ SetStop \/ Logout \/ WriteData
      \/ MoveFileToBackup \/ Finish \/ WriteFails \/ BodyRead \/ UNCHANGED vars
      \/ (Die /\ conns' = [conns EXCEPT ![Here].end = "closed"] /\ lost' = lost)
      \/ WriteHeader \/ ReadHeader \/ ReadBody
      \/ (End /\ (spc = "body" => left > 0)) \/ Disconnect \/ SaveFails \/ CloseSocket
      \/ (Die /\ Lose({Here}) /\ conns' = [conns EXCEPT ![Here] = [data |-> <<>>, end |-> "reset"]])
  BY DEF Next, Serve, Send, TestStop, ReadFails, Die
<1> QED
  BY <1>1, OthersArrive, WriteHeaderArrives, ReadHeaderArrives, ReadBodyArrives, DroppedArrive

LEMMA TransferInit == ASSUME SocketAssumption, Init PROVE Transfer
BY DEF Init, Transfer, Arrived, PiecesInOrder, Begun, Reading

LEMMA TransferArrives ==
  ASSUME SocketAssumption, TypeOK, Places, Transfer
  PROVE  FilesArrive
BY DEF Transfer, Arrived, FilesArrive, Begun, Reading, LastIs

-----------------------------------------------------------------------------
Inv == SocketInv /\ Transfer

LEMMA InitInv == ASSUME SocketAssumption, Init PROVE Inv
BY SocketInvInit, TransferInit DEF Inv

LEMMA StepInv == ASSUME SocketAssumption, Inv, [Next]_vars PROVE Inv'
BY SocketInvStep, TransferStep DEF Inv, SocketInv

LEMMA Invariant == ASSUME SocketAssumption PROVE Spec => []Inv
<1>1. Init => Inv
  BY InitInv
<1>2. Inv /\ [Next]_vars => Inv'
  BY StepInv
<1> QED
  BY <1>1, <1>2, PTL DEF Spec

(* The states of server, connections and client are of their types.        *)
THEOREM TypesHold == ASSUME SocketAssumption PROVE Spec => []TypeOK
<1>1. Inv => TypeOK
  BY DEF Inv, SocketInv
<1> QED
  BY <1>1, Invariant, PTL

(* Once it listens, the thread of the socket server ends by QUIT, or       *)
(* because a client has left in the middle of a file, and for no other     *)
(* reason, whatever files are sent, cut and sent again.                    *)
THEOREM ServerStays == ASSUME SocketAssumption PROVE Spec => []ServerSurvives
<1>1. Inv => ServerSurvives
  BY DEF Inv, SocketInv
<1> QED
  BY <1>1, Invariant, PTL

(* Whoever dies, stops or cannot write: what the server has of a file are  *)
(* pieces of it, each sending in order from the first; and of a file in    *)
(* BACKUP the last piece last, but for one that is still to be read or     *)
(* whose connection ended before that.                                     *)
THEOREM FilesAreWhole == ASSUME SocketAssumption PROVE Spec => []FilesArrive
<1>1. ASSUME SocketAssumption, Inv PROVE FilesArrive
  BY <1>1, TransferArrives DEF Inv, SocketInv
<1> QED
  BY <1>1, Invariant, PTL
=============================================================================
