------------------------------ MODULE ForkServer ------------------------------
(***************************************************************************)
(* The echo server with one process per client of src/sem1/lab7/task7_1    *)
(* (tcp_server.c).  A connection ends when no process holds its descriptor *)
(* any more; SIGCHLD interrupts main between two of its steps.             *)
(***************************************************************************)
EXTENDS EchoNet

CONSTANTS
  BUFFER_SIZE,
  None

ASSUME ForkAssumption ==
  /\ BUFFER_SIZE \in Nat \ {0}
  /\ Window \in Nat

VARIABLES
  pc,           \* main: "accept", "fork" or "close"
  clientSocket, \* main's variable
  parentFds,    \* client sockets main has open ...
  childFds,     \* ... and those of each client's child
  child,        \* "none", "recv", "send", "exit", "zombie" or "reaped"
  buffer,       \* what the child still has to send of its buffer ...
  bytesSent,    \* ... and whether this send has sent some of it
  sigchld,      \* SIGCHLD is pending: several of them are one
  handling      \* main is in sigchldHandler

procs == <<pc, clientSocket, parentFds, childFds, child, buffer, bytesSent,
           sigchld, handling>>
vars == <<net, procs>>

Init ==
  /\ NetInit
  /\ pc = "accept"
  /\ clientSocket = None
  /\ parentFds = {}
  /\ childFds = [c \in Clients |-> {}]
  /\ child = [c \in Clients |-> "none"]
  /\ buffer = [c \in Clients |-> <<>>]
  /\ bytesSent = [c \in Clients |-> FALSE]
  /\ sigchld = FALSE
  /\ handling = FALSE

(* close: the connections whose last descriptor this was *)
Release ==
  LET held == parentFds' \cup UNION {childFds'[d] : d \in Clients}
  IN  conn' = [c \in Clients |->
                 IF conn[c] = "open" /\ c \notin held THEN "closed" ELSE conn[c]]

-----------------------------------------------------------------------------
(* main *)
Accept ==
  /\ pc = "accept" /\ ~handling
  /\ \E c \in Queued :
       /\ clientSocket' = c
       /\ parentFds' = parentFds \cup {c}
       /\ conn' = [conn EXCEPT ![c] = "open"]
  /\ pc' = "fork"
  /\ UNCHANGED <<sent, taken, shut, err, got, unread, childFds, child, buffer,
                 bytesSent, sigchld, handling>>

(* the child inherits every descriptor; fork may fail *)
Fork ==
  /\ pc = "fork" /\ ~handling
  /\ \/ /\ child' = [child EXCEPT ![clientSocket] = "recv"]
        /\ childFds' = [childFds EXCEPT ![clientSocket] = parentFds]
     \/ UNCHANGED <<child, childFds>>
  /\ pc' = "close"
  /\ UNCHANGED <<net, clientSocket, parentFds, buffer, bytesSent, sigchld,
                 handling>>

(* Mutant: main keeps the socket it gave to a child. *)
CloseOnlyIfForkFailed ==
  /\ pc = "close" /\ ~handling
  /\ parentFds' = IF child[clientSocket] = "none"
                  THEN parentFds \ {clientSocket} ELSE parentFds
  /\ pc' = "accept"
  /\ UNCHANGED <<childFds, clientSocket>>
  /\ Release
  /\ UNCHANGED <<sent, taken, shut, err, got, unread, child, buffer, bytesSent,
                 sigchld, handling>>

CloseSocket ==
  /\ pc = "close" /\ ~handling
  /\ parentFds' = parentFds \ {clientSocket}
  /\ pc' = "accept"
  /\ UNCHANGED <<childFds, clientSocket>>
  /\ Release
  /\ UNCHANGED <<sent, taken, shut, err, got, unread, child, buffer, bytesSent,
                 sigchld, handling>>

(* sigchldHandler: SIGCHLD is blocked while it runs *)
Signal ==
  /\ sigchld /\ ~handling
  /\ sigchld' = FALSE
  /\ handling' = TRUE
  /\ UNCHANGED <<net, pc, clientSocket, parentFds, childFds, child, buffer,
                 bytesSent>>

Zombies == {c \in Clients : child[c] = "zombie"}

(* Mutant: one waitpid per signal. *)
WaitOnce ==
  /\ handling
  /\ \/ \E c \in Zombies : child' = [child EXCEPT ![c] = "reaped"]
     \/ Zombies = {} /\ UNCHANGED child
  /\ handling' = FALSE
  /\ UNCHANGED <<net, pc, clientSocket, parentFds, childFds, buffer, bytesSent,
                 sigchld>>

(* while (waitpid(-1, NULL, WNOHANG) > 0) *)
Wait ==
  /\ handling
  /\ \/ /\ \E c \in Zombies : child' = [child EXCEPT ![c] = "reaped"]
        /\ UNCHANGED handling
     \/ /\ Zombies = {}
        /\ handling' = FALSE
        /\ UNCHANGED child
  /\ UNCHANGED <<net, pc, clientSocket, parentFds, childFds, buffer, bytesSent,
                 sigchld>>

Main == Accept \/ Fork \/ CloseSocket \/ Signal \/ Wait

-----------------------------------------------------------------------------
(* handleClient, in the child of c *)
Recv(c) ==
  LET n == IF Available(c) < BUFFER_SIZE THEN Available(c) ELSE BUFFER_SIZE
  IN  /\ child[c] = "recv"
      /\ \/ /\ n > 0
            /\ buffer' = [buffer EXCEPT ![c] = [k \in 1 .. n |-> taken[c] + k]]
            /\ taken' = [taken EXCEPT ![c] = @ + n]
            /\ child' = [child EXCEPT ![c] = "send"]
            /\ UNCHANGED err
         \/ /\ HasError(c)
            /\ SeesError(c)
            /\ child' = [child EXCEPT ![c] = "exit"]
            /\ UNCHANGED <<buffer, taken>>
         \/ /\ AtEnd(c)
            /\ child' = [child EXCEPT ![c] = "exit"]
            /\ UNCHANGED <<buffer, taken, err>>
      /\ bytesSent' = [bytesSent EXCEPT ![c] = FALSE]
      /\ UNCHANGED <<conn, sent, shut, got, unread, pc, clientSocket, parentFds,
                     childFds, sigchld, handling>>

(* Mutant: send does not wait for the client to make room. *)
TransferNoWait(c) ==
  LET n == Room(c, Len(buffer[c]))
  IN  /\ err[c] = "no"
      /\ Delivers(c, SubSeq(buffer[c], 1, n))
      /\ buffer' = [buffer EXCEPT ![c] = <<>>]
      /\ child' = [child EXCEPT ![c] = "recv"]
      /\ bytesSent' = [bytesSent EXCEPT ![c] = TRUE]
      /\ UNCHANGED err

(* send blocks until all of its bytes are out ... *)
Transfer(c) ==
  LET n == Room(c, Len(buffer[c]))
  IN  /\ err[c] = "no" /\ n > 0
      /\ Delivers(c, SubSeq(buffer[c], 1, n))
      /\ buffer' = [buffer EXCEPT ![c] = SubSeq(@, n + 1, Len(@))]
      /\ child' = [child EXCEPT ![c] = IF n = Len(buffer[c]) THEN "recv" ELSE @]
      /\ bytesSent' = [bytesSent EXCEPT ![c] = TRUE]
      /\ UNCHANGED err

(* ... or the connection is reset: after some bytes that is a short count, *)
(* which handleClient does not compare, and recv returns the error         *)
TransferFails(c) ==
  /\ err[c] = "pending"
  /\ IF bytesSent[c]
     THEN /\ child' = [child EXCEPT ![c] = "recv"]
          /\ UNCHANGED err
     ELSE /\ child' = [child EXCEPT ![c] = "exit"]
          /\ SeesError(c)
  /\ buffer' = [buffer EXCEPT ![c] = <<>>]
  /\ UNCHANGED <<got, unread, bytesSent>>

SendBack(c) ==
  /\ child[c] = "send"
  /\ Transfer(c) \/ TransferFails(c)
  /\ UNCHANGED <<conn, sent, taken, shut, pc, clientSocket, parentFds, childFds,
                 sigchld, handling>>

(* close and exit, which closes whatever the child still has open *)
Exit(c) ==
  /\ child[c] = "exit"
  /\ childFds' = [childFds EXCEPT ![c] = {}]
  /\ child' = [child EXCEPT ![c] = "zombie"]
  /\ sigchld' = TRUE
  /\ UNCHANGED <<parentFds>>
  /\ Release
  /\ UNCHANGED <<sent, taken, shut, err, got, unread, pc, clientSocket, buffer,
                 bytesSent, handling>>

ChildOf(c) == Recv(c) \/ SendBack(c) \/ Exit(c)

Next ==
  \/ Main
  \/ \E c \in Clients : ChildOf(c)
  \/ \E c \in Clients : ClientStep(c) /\ UNCHANGED procs

Spec == Init /\ [][Next]_vars

-----------------------------------------------------------------------------
(* Only the child of a client keeps that client's socket: between two      *)
(* clients main holds none, and no child inherits the socket of another,   *)
(* so a connection ends as soon as its own child has finished.             *)
SocketsOwned ==
  /\ pc = "accept" => parentFds = {}
  /\ \A c \in Clients : childFds[c] \subseteq {c}
  /\ \A c \in Clients : child[c] \in {"zombie", "reaped"} /\ pc = "accept"
                          => conn[c] = "closed"

(* Everything a client sent has come back when its connection is closed,   *)
(* also to a client that shut down its sending side, unless the connection *)
(* was reset or no child could be started.                                 *)
EchoedWhole ==
  \A c \in Clients :
    conn[c] = "closed" /\ err[c] = "no" /\ child[c] # "none" => Len(got[c]) = sent[c]

(* No child that has exited is forgotten, though SIGCHLDs that arrive      *)
(* while one is pending, or while one is being handled, are one: as long   *)
(* as there is a zombie, main is in the handler or about to enter it.      *)
NoZombieForgotten == Zombies # {} => sigchld \/ handling
=============================================================================
