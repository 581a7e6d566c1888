-------------------------------- MODULE EchoNet --------------------------------
(***************************************************************************)
(* The clients of the two TCP echo servers of src/sem1/lab7 and the        *)
(* connections to them, as the servers see them: the socket calls by what  *)
(* they return.  The clients are any that connect; thrid_client.c and      *)
(* tcp_client.c, which send a line and read an answer in turn, are among   *)
(* them, and so are others that send ahead, shut down or reset.            *)
(***************************************************************************)
EXTENDS Integers, Sequences, FiniteSets

CONSTANTS
  Clients,
  MaxSend,   \* bound: bytes a client sends
  Window     \* bytes a client's host takes before the client reads them

VARIABLES
  conn,     \* "new", "queued", "open", "refused" or "closed" by the server
  sent,     \* bytes each client has sent ...
  taken,    \* ... and how many of them the server has read
  shut,     \* the client has shut down its sending side
  err,      \* "no"; after a reset "pending", then "seen" once it was returned
  got,      \* what has reached the client's host from the server
  unread    \* how many of those the client has not read

net == <<conn, sent, taken, shut, err, got, unread>>

NetInit ==
  /\ conn = [c \in Clients |-> "new"]
  /\ sent = [c \in Clients |-> 0]
  /\ taken = [c \in Clients |-> 0]
  /\ shut = [c \in Clients |-> FALSE]
  /\ err = [c \in Clients |-> "no"]
  /\ got = [c \in Clients |-> <<>>]
  /\ unread = [c \in Clients |-> 0]

Queued == {c \in Clients : conn[c] = "queued"}
Closes(c) == conn' = [conn EXCEPT ![c] = "closed"]

-----------------------------------------------------------------------------
Connect(c) ==
  /\ conn[c] = "new"
  /\ conn' = [conn EXCEPT ![c] = "queued"]
  /\ UNCHANGED <<sent, taken, shut, err, got, unread>>

Send(c) ==
  /\ conn[c] \in {"queued", "open"} /\ ~shut[c] /\ err[c] = "no"
  /\ sent[c] < MaxSend
  /\ sent' = [sent EXCEPT ![c] = @ + 1]
  /\ UNCHANGED <<conn, taken, shut, err, got, unread>>

Shutdown(c) ==
  /\ conn[c] \in {"queued", "open"} /\ ~shut[c]
  /\ shut' = [shut EXCEPT ![c] = TRUE]
  /\ UNCHANGED <<conn, sent, taken, err, got, unread>>

Reset(c) ==
  /\ conn[c] \in {"queued", "open"} /\ err[c] = "no"
  /\ err' = [err EXCEPT ![c] = "pending"]
  /\ UNCHANGED <<conn, sent, taken, shut, got, unread>>

Drain(c) ==
  /\ unread[c] > 0
  /\ unread' = [unread EXCEPT ![c] = 0]
  /\ UNCHANGED <<conn, sent, taken, shut, err, got>>

ClientStep(c) == Connect(c) \/ Send(c) \/ Shutdown(c) \/ Reset(c) \/ Drain(c)

-----------------------------------------------------------------------------
(* recv: data that has arrived, then a pending error, then the end *)
Available(c) == sent[c] - taken[c]
HasError(c) == Available(c) = 0 /\ err[c] = "pending"
AtEnd(c) == Available(c) = 0 /\ ~HasError(c) /\ (shut[c] \/ err[c] = "seen")
Readable(c) == Available(c) > 0 \/ HasError(c) \/ AtEnd(c)

SeesError(c) == err' = [err EXCEPT ![c] = "seen"]

(* send: how many bytes go out at once, none while the client's window is  *)
(* full; an error if the connection was reset                              *)
Room(c, n) == IF n <= Window - unread[c] THEN n ELSE Window - unread[c]

Delivers(c, bytes) ==
  /\ got' = [got EXCEPT ![c] = @ \o bytes]
  /\ unread' = [unread EXCEPT ![c] = @ + Len(bytes)]

(* "Server is full.\n", as one byte that no client sends *)
Notice == <<0>>

Refused == {c \in Clients : conn[c] = "refused"}

(* Both servers implement Echo: a client that is served gets back what it  *)
(* sent and nothing else; one that the select server refuses gets the      *)
(* notice and nothing else.                                                *)
Promise == INSTANCE Echo WITH refused <- Refused

ImplementsEcho == Promise!Spec
=============================================================================
