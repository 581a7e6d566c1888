----------------------------- MODULE SelectServer -----------------------------
(***************************************************************************)
(* The echo server with one select loop of src/sem1/lab7/task7_3           *)
(* (thrid_server.c).  Sockets are blocking, so flushClientBuffer waits for *)
(* its client; SIGPIPE has its default action.  A socket number stands for *)
(* its client: a number is free when it is reused, and the sets of a round *)
(* are built before its accept.                                            *)
(***************************************************************************)
EXTENDS EchoNet

CONSTANTS
  MAX,        \* slots in clients[]
  ReadSize,   \* sizeof(buffer)
  SendSize,   \* sizeof(sendBuffer)
  None

Slots == 1 .. MAX

VARIABLES
  socket, sendBuffer, sendLength, sendOffset,   \* clients[]
  pc,         \* "select", "accept", "read", "flush" or "killed"
  i,
  sock,       \* the local socket of the client loop
  readSet, writeSet, listenReady

table == <<socket, sendBuffer, sendLength, sendOffset>>
round == <<pc, i, sock, readSet, writeSet, listenReady>>
vars == <<net, table, round>>

Init ==
  /\ NetInit
  /\ socket = [s \in Slots |-> None]
  /\ sendBuffer = [s \in Slots |-> [k \in 1 .. SendSize |-> 0]]
  /\ sendLength = [s \in Slots |-> 0]
  /\ sendOffset = [s \in Slots |-> 0]
  /\ pc = "select"
  /\ i = 1
  /\ sock = None
  /\ readSet = {} /\ writeSet = {} /\ listenReady = FALSE

-----------------------------------------------------------------------------
(* Mutant: a client is written to only once its buffer is full. *)
WritableIfFull(s) ==
  sendLength[s] = SendSize /\ (unread[socket[s]] < Window \/ err[socket[s]] # "no")

(* FD_SET(socket, &writeSet) if there is something to send, and send would *)
(* not block *)
Writable(s) ==
  sendLength[s] > 0 /\ (unread[socket[s]] < Window \/ err[socket[s]] # "no")

(* the sets of a round, as select returns them *)
Select ==
  /\ pc = "select"
  /\ LET open == {s \in Slots : socket[s] # None}
     IN  /\ readSet' = {socket[s] : s \in {r \in open : Readable(socket[r])}}
         /\ writeSet' = {socket[s] : s \in {r \in open : Writable(r)}}
  /\ listenReady' = (Queued # {})
  /\ readSet' # {} \/ writeSet' # {} \/ listenReady'
  /\ pc' = "accept"
  /\ UNCHANGED <<net, table, i, sock>>

Starts(n) ==
  /\ i' = n
  /\ IF n <= MAX THEN pc' = "read" /\ sock' = socket'[n]
                 ELSE pc' = "select" /\ sock' = None

FreeSlots == {s \in Slots : socket[s] = None}

(* send of the notice and close; the send does not wait, nothing having    *)
(* been sent before, and fails unnoticed if the client has reset           *)
Refuse(c) ==
  /\ conn' = [conn EXCEPT ![c] = "refused"]
  /\ \/ err[c] = "no" /\ Delivers(c, Notice) /\ UNCHANGED err
     \/ err[c] = "pending" /\ SeesError(c) /\ UNCHANGED <<got, unread>>
  /\ UNCHANGED table

(* addClient: the first free slot, or a refusal *)
AddClient(c) ==
  IF FreeSlots = {}
  THEN Refuse(c)
  ELSE LET s == CHOOSE r \in FreeSlots : \A q \in FreeSlots : r <= q
       IN  /\ socket' = [socket EXCEPT ![s] = c]
           /\ sendLength' = [sendLength EXCEPT ![s] = 0]
           /\ sendOffset' = [sendOffset EXCEPT ![s] = 0]
           /\ conn' = [conn EXCEPT ![c] = "open"]
           /\ UNCHANGED <<sendBuffer, err, got, unread>>

Accept ==
  /\ pc = "accept"
  /\ IF listenReady THEN \E c \in Queued : AddClient(c)
                    ELSE UNCHANGED <<table, conn, err, got, unread>>
  /\ Starts(1)
  /\ UNCHANGED <<sent, taken, shut, readSet, writeSet, listenReady>>

(* deleteClient *)
DeleteClient(s) ==
  /\ Closes(socket[s])
  /\ socket' = [socket EXCEPT ![s] = None]
  /\ sendLength' = [sendLength EXCEPT ![s] = 0]
  /\ sendOffset' = [sendOffset EXCEPT ![s] = 0]
  /\ UNCHANGED sendBuffer

(* Mutant: the message overwrites what waits to be sent. *)
StoreOver(s, toRead) ==
  /\ sendBuffer' = [sendBuffer EXCEPT ![s] =
       [k \in 1 .. SendSize |-> IF k <= toRead THEN taken[socket[s]] + k ELSE @[k]]]
  /\ sendLength' = [sendLength EXCEPT ![s] = @ + toRead]
  /\ UNCHANGED <<socket, sendOffset, conn>>

(* memcpy(sendBuffer + sendLength, buffer, toRead) *)
Store(s, toRead) ==
  /\ sendBuffer' = [sendBuffer EXCEPT ![s] =
       [k \in 1 .. SendSize |->
          IF k \in sendLength[s] + 1 .. sendLength[s] + toRead
          THEN taken[socket[s]] + k - sendLength[s] ELSE @[k]]]
  /\ sendLength' = [sendLength EXCEPT ![s] = @ + toRead]
  /\ UNCHANGED <<socket, sendOffset, conn>>

(* handleMessage: a failed read leaves the client where it is *)
HandleMessage(s) ==
  LET c == socket[s]
      toRead == IF Available(c) < ReadSize THEN Available(c) ELSE ReadSize
  IN  \/ /\ HasError(c)
         /\ SeesError(c)
         /\ UNCHANGED <<conn, table, taken>>
      \/ /\ AtEnd(c)
         /\ DeleteClient(s)
         /\ UNCHANGED <<taken, err>>
      \/ /\ toRead > 0
         /\ IF sendLength[s] + toRead > SendSize
            THEN DeleteClient(s)
            ELSE Store(s, toRead)
         /\ taken' = [taken EXCEPT ![c] = @ + toRead]
         /\ UNCHANGED err

Read ==
  /\ pc = "read"
  /\ IF sock # None /\ sock \in readSet
     THEN HandleMessage(i)
     ELSE UNCHANGED <<conn, table, taken, err>>
  /\ pc' = "flush"
  /\ UNCHANGED <<sent, shut, got, unread, i, sock, readSet, writeSet,
                 listenReady>>

(* one round of the loop of flushClientBuffer *)
SendSome(s) ==
  LET c == socket[s]
      n == Room(c, sendLength[s])
      left == sendLength[s] - n
  IN  /\ err[c] = "no"
      /\ n > 0
      /\ Delivers(c, [k \in 1 .. n |-> sendBuffer[s][sendOffset[s] + k]])
      /\ sendLength' = [sendLength EXCEPT ![s] = left]
      /\ sendOffset' = [sendOffset EXCEPT ![s] = IF left = 0 THEN 0 ELSE @ + n]
      /\ UNCHANGED <<conn, taken, err, socket, sendBuffer, pc, i, sock>>

(* the first error is returned; after that, send raises SIGPIPE *)
SendFails(s) ==
  LET c == socket[s]
  IN  \/ /\ err[c] = "pending"
         /\ SeesError(c)
         /\ Starts(i + 1)
      \/ /\ err[c] = "seen"
         /\ pc' = "killed"
         /\ UNCHANGED <<err, i, sock>>

Flush ==
  /\ pc = "flush"
  /\ IF sock # None /\ sock \in writeSet /\ sendLength[i] > 0
     THEN \/ SendSome(i)
          \/ /\ UNCHANGED <<conn, taken, got, unread, table>>
             /\ SendFails(i)
     ELSE /\ UNCHANGED <<conn, taken, err, got, unread, table>>
          /\ Starts(i + 1)
  /\ UNCHANGED <<sent, shut, readSet, writeSet, listenReady>>

Server == Select \/ Accept \/ Read \/ Flush

Next ==
  \/ Server
  \/ \E c \in Clients : ClientStep(c) /\ UNCHANGED <<table, round>>

Spec == Init /\ [][Next]_vars

-----------------------------------------------------------------------------
(* Every connection the server holds open is in exactly one slot, and      *)
(* every slot holds an open one: none is leaked when the table is full,    *)
(* when a client leaves, or when one is dropped.                           *)
SocketsOwned ==
  /\ \A c \in Clients :
       conn[c] = "open" <=> Cardinality({s \in Slots : socket[s] = c}) = 1
  /\ \A s \in Slots : socket[s] # None => conn[socket[s]] = "open"
  /\ \A c \in Clients : taken[c] > 0 => conn[c] \in {"open", "closed"}

(* What a client has sent comes back to it, provided clients read and      *)
(* none resets its connection: unless it half-closed, in which case the    *)
(* end is read, and the client deleted, before the rest is flushed, or was *)
(* dropped because its buffer was full.  A reset is excluded since the     *)
(* SIGPIPE it may cause kills the server for all.                          *)
Echoed ==
  \A c \in Clients :
    (conn[c] = "open" /\ Available(c) > 0) ~>
      \/ Len(got[c]) = sent[c]
      \/ conn[c] = "closed" /\ (shut[c] \/ sent[c] > SendSize)
      \/ \E d \in Clients : err[d] # "no"
=============================================================================
