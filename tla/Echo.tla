--------------------------------- MODULE Echo ---------------------------------
(***************************************************************************)
(* What an echo server promises: a client that is served gets back what it *)
(* sent, in order, nothing added and nothing twice; one that is refused    *)
(* has got nothing before, gets at most a notice, and nothing after it.    *)
(* The k-th byte a client sends is called k.                               *)
(***************************************************************************)
EXTENDS Naturals, Sequences

CONSTANTS
  Clients,
  Notice      \* what a refused client may be told

VARIABLES
  sent,      \* sent[c]: how many bytes c has sent
  got,       \* got[c]: what has come to it
  refused    \* the clients that are not served

Bytes(m, n) == [k \in 1 .. n - m |-> m + k]

Init ==
  /\ sent = [c \in Clients |-> 0]
  /\ got = [c \in Clients |-> <<>>]
  /\ refused = {}

Send(c) ==
  /\ c \notin refused
  /\ sent' = [sent EXCEPT ![c] = @ + 1]
  /\ UNCHANGED <<got, refused>>

Return(c) ==
  /\ c \notin refused
  /\ \E n \in Len(got[c]) + 1 .. sent[c] : got' = [got EXCEPT ![c] = Bytes(0, n)]
  /\ UNCHANGED <<sent, refused>>

Refuse(c) ==
  /\ c \notin refused /\ got[c] = <<>>
  /\ refused' = refused \union {c}
  /\ got' = [got EXCEPT ![c] = Notice] \/ UNCHANGED got
  /\ UNCHANGED sent

Next == \E c \in Clients : Send(c) \/ Return(c) \/ Refuse(c)

Spec == Init /\ [][Next]_<<sent, got, refused>>
=============================================================================
