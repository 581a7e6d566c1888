---------------------------- MODULE MCSem1_proofs ----------------------------
(***************************************************************************)
(* Proofs about the reverser, the tracer and the two echo servers of       *)
(* src/sem1, each for the specification of its own module and for every    *)
(* value of the constants, and for the run that MCSem1 makes of them.      *)
(***************************************************************************)
EXTENDS MCSem1, FiniteSetTheorems, WellFoundedInduction, TLAPS

-----------------------------------------------------------------------------
(* The echo server with one process per client of tcp_server.c: no child   *)
(* is forgotten, no descriptor leaks, and a connection that is not reset   *)
(* is echoed to its end.                                                   *)

Running == {"recv", "send", "exit"}

Typed ==
  /\ conn \in [Clients -> {"new", "queued", "open", "closed"}]
  /\ sent \in [Clients -> Nat]
  /\ taken \in [Clients -> Nat]
  /\ shut \in [Clients -> BOOLEAN]
  /\ err \in [Clients -> {"no", "pending", "seen"}]
  /\ got \in [Clients -> Seq(Nat)]
  /\ unread \in [Clients -> Nat]
  /\ pc \in {"accept", "fork", "close"}
  /\ clientSocket \in Clients \union {None}
  /\ childFds \in [Clients -> SUBSET Clients]
  /\ child \in [Clients -> {"none", "zombie", "reaped"} \union Running]
  /\ buffer \in [Clients -> Seq(Nat)]

(* Who holds which connection open: main the one it is handing over, each  *)
(* running child its own.                                                  *)
Held ==
  /\ pc = "accept" => parentFds = {}
  /\ pc # "accept" => /\ clientSocket \in Clients
                      /\ parentFds = {clientSocket}
                      /\ conn[clientSocket] = "open"
  /\ pc = "fork" => child[clientSocket] = "none"
  /\ \A c \in Clients : childFds[c] = IF child[c] \in Running THEN {c} ELSE {}
  /\ \A c \in Clients : child[c] \in Running => conn[c] = "open"
  /\ \A c \in Clients :
       conn[c] = "open" => c \in parentFds \/ child[c] \in Running
  /\ \A c \in Clients : child[c] # "none" => conn[c] \in {"open", "closed"}

(* Where the bytes of c are: back at c, in its child's buffer, or unread.  *)
Accounted(c) ==
  /\ child[c] = "none" => taken[c] = 0 /\ got[c] = <<>>
  /\ child[c] # "send" => buffer[c] = <<>>
  /\ err[c] = "no" => Len(got[c]) + Len(buffer[c]) = taken[c]
  /\ taken[c] <= sent[c]
  /\ child[c] \in {"exit", "zombie", "reaped"} /\ err[c] = "no"
       => taken[c] = sent[c] /\ shut[c]

Whole == \A c \in Clients : Accounted(c)

IInv == Typed /\ Held /\ Whole /\ NoZombieForgotten

-----------------------------------------------------------------------------
(* What close leaves open: with the descriptors as Held says, a connection *)
(* ends exactly if neither main nor its own child has it.                  *)
LEMMA ReleaseFacts ==
  ASSUME Release, conn \in [Clients -> {"new", "queued", "open", "closed"}],
         NEW K \in SUBSET Clients,
         \A c \in Clients : childFds'[c] = IF c \in K THEN {c} ELSE {}
  PROVE  conn' = [c \in Clients |->
                    IF conn[c] = "open" /\ c \notin parentFds' /\ c \notin K
                    THEN "closed" ELSE conn[c]]
PROOF
<1> DEFINE U == UNION {childFds'[d] : d \in Clients}
<1>1. ASSUME NEW x \in U PROVE x \in K
  <2> PICK d \in Clients : x \in childFds'[d]
    OBVIOUS
  <2> QED
    OBVIOUS
<1>2. ASSUME NEW x \in K PROVE x \in U
  <2>1. x \in Clients /\ x \in childFds'[x]
    OBVIOUS
  <2> QED
    BY <2>1
<1>3. U = K
  <2> HIDE DEF U
  <2> QED
    BY <1>1, <1>2
<1> QED
  BY <1>3 DEF Release

(* What the clients do disturbs neither the processes nor the accounts. *)
LEMMA ClientStepKeeps ==
  ASSUME IInv, NEW c \in Clients, ClientStep(c), UNCHANGED procs
  PROVE  IInv'
PROOF
<1> USE DEF IInv, Typed, procs, Running, net
<1>1. CASE Connect(c)
  <2>1. Typed'
    BY <1>1 DEF Connect
  <2>2. Held'
    BY <1>1 DEF Connect, Held
  <2>3. Whole'
    BY <1>1 DEF Connect, Whole, Accounted
  <2> QED
    BY <1>1, <2>1, <2>2, <2>3 DEF NoZombieForgotten, Zombies
<1>2. CASE Send(c)
  <2>1. Typed'
    BY <1>2 DEF Send
  <2>2. Held'
    BY <1>2 DEF Send, Held
  <2>3. Whole'
    BY <1>2 DEF Send, Whole, Accounted
  <2> QED
    BY <1>2, <2>1, <2>2, <2>3 DEF NoZombieForgotten, Zombies
<1>3. CASE Shutdown(c)
  <2>1. Typed'
    BY <1>3 DEF Shutdown
  <2>2. Held'
    BY <1>3 DEF Shutdown, Held
  <2>3. Whole'
    BY <1>3 DEF Shutdown, Whole, Accounted
  <2> QED
    BY <1>3, <2>1, <2>2, <2>3 DEF NoZombieForgotten, Zombies
<1>4. CASE Reset(c)
  <2>1. Typed'
    BY <1>4 DEF Reset
  <2>2. Held'
    BY <1>4 DEF Reset, Held
  <2>3. Whole'
    BY <1>4 DEF Reset, Whole, Accounted
  <2> QED
    BY <1>4, <2>1, <2>2, <2>3 DEF NoZombieForgotten, Zombies
<1>5. CASE Drain(c)
  <2>1. Typed'
    BY <1>5 DEF Drain
  <2>2. Held'
    BY <1>5 DEF Drain, Held
  <2>3. Whole'
    BY <1>5 DEF Drain, Whole, Accounted
  <2> QED
    BY <1>5, <2>1, <2>2, <2>3 DEF NoZombieForgotten, Zombies
<1> QED
  BY <1>1, <1>2, <1>3, <1>4, <1>5 DEF ClientStep

-----------------------------------------------------------------------------
(* Main hands each connection over and lets go of it before the next. *)
LEMMA MainKeeps ==
  ASSUME IInv, Main
  PROVE  IInv'
PROOF
<1> USE DEF IInv, Typed, Running, net
<1>1. CASE Accept
  <2> PICK c \in Queued : /\ clientSocket' = c
                          /\ parentFds' = parentFds \union {c}
                          /\ conn' = [conn EXCEPT ![c] = "open"]
    BY <1>1 DEF Accept
  <2>1. c \in Clients /\ conn[c] = "queued" /\ child[c] = "none"
    BY DEF Queued, Held
  <2>2. Typed'
    BY <1>1, <2>1 DEF Accept
  <2>3. Held'
    BY <1>1, <2>1 DEF Accept, Held
  <2>4. Whole'
    BY <1>1 DEF Accept, Whole, Accounted
  <2> QED
    BY <1>1, <2>2, <2>3, <2>4 DEF Accept, NoZombieForgotten, Zombies
<1>2. CASE Fork
  <2>1. clientSocket \in Clients /\ parentFds = {clientSocket}
        /\ child[clientSocket] = "none" /\ conn[clientSocket] = "open"
    BY <1>2 DEF Fork, Held
  <2>2. CASE /\ child' = [child EXCEPT ![clientSocket] = "recv"]
             /\ childFds' = [childFds EXCEPT ![clientSocket] = parentFds]
    <3>1. Typed'
      <4>1. child' \in [Clients -> {"none", "zombie", "reaped"} \union Running]
        BY <2>1, <2>2
      <4>2. childFds' \in [Clients -> SUBSET Clients]
        BY <2>1, <2>2
      <4> QED
        BY <1>2, <4>1, <4>2 DEF Fork
    <3>2. Held'
      <4>1. \A c \in Clients :
              /\ child'[c] = IF c = clientSocket THEN "recv" ELSE child[c]
              /\ childFds'[c] = IF c = clientSocket THEN {c} ELSE childFds[c]
        BY <2>1, <2>2
      <4>2. pc' = "close" /\ UNCHANGED <<conn, clientSocket, parentFds>>
        BY <1>2 DEF Fork
      <4>3. \A c \in Clients :
              childFds'[c] = IF child'[c] \in Running THEN {c} ELSE {}
        <5> SUFFICES ASSUME NEW c \in Clients
                     PROVE  childFds'[c] = IF child'[c] \in Running THEN {c} ELSE {}
          OBVIOUS
        <5>1. childFds[c] = IF child[c] \in Running THEN {c} ELSE {}
          BY DEF Held
        <5>2. CASE c = clientSocket
          BY <4>1, <5>2
        <5>3. CASE c # clientSocket
          BY <4>1, <5>1, <5>3
        <5> QED
          BY <5>2, <5>3
      <4>4. \A c \in Clients :
              /\ child'[c] \in Running => conn[c] = "open"
              /\ conn[c] = "open" => c \in parentFds \/ child'[c] \in Running
              /\ child'[c] # "none" => conn[c] \in {"open", "closed"}
        BY <2>1, <4>1 DEF Held
      <4> QED
        BY <2>1, <4>2, <4>3, <4>4 DEF Held
    <3>3. Whole'
      BY <1>2, <2>1, <2>2 DEF Fork, Whole, Accounted
    <3> QED
      BY <1>2, <2>1, <2>2, <3>1, <3>2, <3>3 DEF Fork, NoZombieForgotten, Zombies
  <2>3. CASE UNCHANGED <<child, childFds>>
    <3>1. Typed'
      BY <1>2, <2>3 DEF Fork
    <3>2. Held'
      BY <1>2, <2>1, <2>3 DEF Fork, Held
    <3>3. Whole'
      BY <1>2, <2>3 DEF Fork, Whole, Accounted
    <3> QED
      BY <1>2, <2>3, <3>1, <3>2, <3>3 DEF Fork, NoZombieForgotten, Zombies
  <2> QED
    BY <1>2, <2>2, <2>3 DEF Fork
<1>3. CASE CloseSocket
  <2>1. /\ pc = "close" /\ pc' = "accept" /\ parentFds' = {}
        /\ clientSocket \in Clients
        /\ UNCHANGED <<childFds, clientSocket, sent, taken, shut, err, got,
                       unread, child, buffer, bytesSent, sigchld, handling>>
    BY <1>3 DEF CloseSocket, Held
  <2>2. conn' = [c \in Clients |->
                   IF conn[c] = "open" /\ child[c] \notin Running
                   THEN "closed" ELSE conn[c]]
    <3> DEFINE K == {c \in Clients : child[c] \in Running}
    <3>1. \A c \in Clients : childFds'[c] = IF c \in K THEN {c} ELSE {}
      BY <2>1 DEF Held
    <3>2. conn' = [c \in Clients |->
                     IF conn[c] = "open" /\ c \notin parentFds' /\ c \notin K
                     THEN "closed" ELSE conn[c]]
      <4> HIDE DEF K
      <4> K \in SUBSET Clients
        BY DEF K
      <4> QED
        BY <1>3, <3>1, ReleaseFacts DEF CloseSocket
    <3> QED
      BY <2>1, <3>2
  <2>3. Typed'
    BY <2>1, <2>2
  <2>4. Held'
    BY <2>1, <2>2 DEF Held
  <2>5. Whole'
    BY <2>1 DEF Whole, Accounted
  <2> QED
    BY <2>1, <2>3, <2>4, <2>5 DEF NoZombieForgotten, Zombies
<1>4. CASE Signal
  <2>1. Typed' /\ Held' /\ Whole'
    BY <1>4 DEF Signal, Held, Whole, Accounted
  <2> QED
    BY <1>4, <2>1 DEF Signal, NoZombieForgotten
<1>5. CASE Wait
  <2>1. CASE Zombies = {} /\ handling' = FALSE /\ UNCHANGED child
    <3>1. Typed' /\ Held' /\ Whole'
      BY <1>5, <2>1 DEF Wait, Held, Whole, Accounted
    <3> QED
      BY <2>1, <3>1 DEF NoZombieForgotten, Zombies
  <2>2. ASSUME NEW c \in Zombies, child' = [child EXCEPT ![c] = "reaped"],
               UNCHANGED handling
        PROVE  IInv'
    <3>1. c \in Clients /\ child[c] = "zombie"
      BY <2>2 DEF Zombies
    <3>2. Typed'
      BY <1>5, <2>2, <3>1 DEF Wait
    <3>3. Held'
      <4>1. \A d \in Clients : child'[d] = IF d = c THEN "reaped" ELSE child[d]
        BY <2>2, <3>1
      <4>2. UNCHANGED <<conn, pc, clientSocket, parentFds, childFds>>
        BY <1>5 DEF Wait
      <4> QED
        BY <3>1, <4>1, <4>2 DEF Held
    <3>4. Whole'
      BY <1>5, <2>2, <3>1 DEF Wait, Whole, Accounted
    <3> QED
      BY <1>5, <2>2, <3>2, <3>3, <3>4 DEF Wait, NoZombieForgotten
  <2> QED
    BY <1>5, <2>1, <2>2 DEF Wait
<1> QED
  BY <1>1, <1>2, <1>3, <1>4, <1>5 DEF Main

-----------------------------------------------------------------------------
(* The length of what Transfer leaves and of what it delivers. *)
LEMMA SplitAt ==
  ASSUME NEW b \in Seq(Nat), NEW n \in Nat, n <= Len(b)
  PROVE  /\ SubSeq(b, 1, n) \in Seq(Nat) /\ Len(SubSeq(b, 1, n)) = n
         /\ SubSeq(b, n + 1, Len(b)) \in Seq(Nat)
         /\ Len(SubSeq(b, n + 1, Len(b))) = Len(b) - n
PROOF
  OBVIOUS

(* The length of what a delivery makes of what had come back. *)
LEMMA Appended ==
  ASSUME NEW s \in Seq(Nat), NEW t \in Seq(Nat)
  PROVE  s \o t \in Seq(Nat) /\ Len(s \o t) = Len(s) + Len(t)
PROOF
  OBVIOUS

(* A child moves bytes from its socket through its buffer to the client,   *)
(* and leaves its loop only at the end or after an error.                  *)
LEMMA ChildKeeps ==
  ASSUME IInv, NEW c \in Clients, ChildOf(c)
  PROVE  IInv'
PROOF
<1> USE DEF IInv, Typed, Running
<1>1. CASE Recv(c)
  <2>1. /\ child[c] = "recv" /\ buffer[c] = <<>>
        /\ UNCHANGED <<conn, sent, shut, got, unread, pc, clientSocket, parentFds,
                       childFds, sigchld, handling>>
    BY <1>1 DEF Recv, Held, Whole, Accounted
  <2>2. ASSUME NEW n \in Nat, n <= Available(c), n > 0,
               buffer' = [buffer EXCEPT ![c] = [k \in 1 .. n |-> taken[c] + k]],
               taken' = [taken EXCEPT ![c] = @ + n],
               child' = [child EXCEPT ![c] = "send"],
               UNCHANGED err
        PROVE  IInv'
    <3> DEFINE b == [k \in 1 .. n |-> taken[c] + k]
    <3>1. b \in Seq(Nat) /\ Len(b) = n
      OBVIOUS
    <3> HIDE DEF b
    <3>2. /\ buffer' = [buffer EXCEPT ![c] = b]
          /\ taken' = [taken EXCEPT ![c] = @ + n]
          /\ child' = [child EXCEPT ![c] = "send"]
          /\ err' = err
          /\ n <= sent[c] - taken[c]
      BY <2>2 DEF b, Available
    <3>3. Typed'
      BY <2>1, <3>1, <3>2
    <3>4. Held'
      BY <2>1, <3>2 DEF Held
    <3>5. Whole'
      <4>1. Accounted(c)'
        BY <2>1, <3>1, <3>2 DEF Whole, Accounted
      <4>2. ASSUME NEW d \in Clients, d # c PROVE Accounted(d)'
        BY <2>1, <3>2, <4>2 DEF Whole, Accounted
      <4> QED
        BY <4>1, <4>2 DEF Whole
    <3>6. NoZombieForgotten'
      BY <2>1, <3>2 DEF NoZombieForgotten, Zombies
    <3> QED
      BY <3>3, <3>4, <3>5, <3>6
  <2>3. CASE /\ HasError(c) /\ SeesError(c)
             /\ child' = [child EXCEPT ![c] = "exit"]
             /\ UNCHANGED <<buffer, taken>>
    <3>1. Typed'
      BY <2>1, <2>3 DEF SeesError
    <3>2. Held'
      BY <2>1, <2>3 DEF Held
    <3>3. Whole'
      BY <2>1, <2>3 DEF Whole, Accounted, HasError, SeesError
    <3> QED
      BY <2>1, <2>3, <3>1, <3>2, <3>3 DEF NoZombieForgotten, Zombies
  <2>4. CASE /\ AtEnd(c)
             /\ child' = [child EXCEPT ![c] = "exit"]
             /\ UNCHANGED <<buffer, taken, err>>
    <3>1. Typed'
      BY <2>1, <2>4
    <3>2. Held'
      BY <2>1, <2>4 DEF Held
    <3>3. Whole'
      BY <2>1, <2>4 DEF Whole, Accounted, AtEnd, Available
    <3> QED
      BY <2>1, <2>4, <3>1, <3>2, <3>3 DEF NoZombieForgotten, Zombies
  <2> DEFINE n == IF Available(c) < BUFFER_SIZE THEN Available(c) ELSE BUFFER_SIZE
  <2>5. n \in Nat /\ n <= Available(c)
    BY ForkAssumption DEF Available, Whole, Accounted
  <2>6. \/ /\ n > 0
           /\ buffer' = [buffer EXCEPT ![c] = [k \in 1 .. n |-> taken[c] + k]]
           /\ taken' = [taken EXCEPT ![c] = @ + n]
           /\ child' = [child EXCEPT ![c] = "send"]
           /\ UNCHANGED err
        \/ /\ HasError(c) /\ SeesError(c)
           /\ child' = [child EXCEPT ![c] = "exit"]
           /\ UNCHANGED <<buffer, taken>>
        \/ /\ AtEnd(c)
           /\ child' = [child EXCEPT ![c] = "exit"]
           /\ UNCHANGED <<buffer, taken, err>>
    BY <1>1 DEF Recv
  <2> HIDE DEF n
  <2> QED
    BY <2>2, <2>3, <2>4, <2>5, <2>6
<1>2. CASE SendBack(c) /\ Transfer(c)
  <2> DEFINE n == Room(c, Len(buffer[c]))
             out == SubSeq(buffer[c], 1, n)
             rest == SubSeq(buffer[c], n + 1, Len(buffer[c]))
  <2>1. n \in Nat /\ n <= Len(buffer[c]) /\ err[c] = "no" /\ child[c] = "send"
    BY <1>2, ForkAssumption DEF Transfer, Room, SendBack
  <2>2. /\ out \in Seq(Nat) /\ Len(out) = n
        /\ rest \in Seq(Nat) /\ Len(rest) = Len(buffer[c]) - n
    BY <2>1, SplitAt
  <2>3. /\ got' = [got EXCEPT ![c] = @ \o out]
        /\ unread' = [unread EXCEPT ![c] = @ + Len(out)]
        /\ buffer' = [buffer EXCEPT ![c] = rest]
        /\ child' = [child EXCEPT ![c] = IF n = Len(buffer[c]) THEN "recv" ELSE @]
        /\ UNCHANGED <<conn, sent, taken, shut, err, pc, clientSocket, parentFds,
                       childFds, sigchld, handling>>
    BY <1>2 DEF SendBack, Transfer, Delivers
  <2>4. (n = Len(buffer[c])) => rest = <<>>
    BY <2>2
  <2> HIDE DEF n, out, rest
  <2>5. /\ got[c] \o out \in Seq(Nat)
        /\ Len(got[c] \o out) = Len(got[c]) + n
    <3>1. got[c] \in Seq(Nat)
      OBVIOUS
    <3>2. out \in Seq(Nat) /\ Len(out) = n
      BY <2>2
    <3> QED
      BY <3>1, <3>2, Appended
  <2>6. Typed'
    <3>1. /\ got' \in [Clients -> Seq(Nat)]
          /\ buffer' \in [Clients -> Seq(Nat)]
      BY <2>2, <2>3, <2>5
    <3>2. unread' \in [Clients -> Nat]
      BY <2>1, <2>2, <2>3
    <3>3. child' \in [Clients -> {"none", "zombie", "reaped"} \union Running]
      BY <2>3
    <3> QED
      BY <2>3, <3>1, <3>2, <3>3
  <2>7. Held'
    BY <2>1, <2>3 DEF Held
  <2>8. Whole'
    <3>1. /\ got'[c] = got[c] \o out /\ buffer'[c] = rest
          /\ child'[c] = IF n = Len(buffer[c]) THEN "recv" ELSE "send"
      BY <2>1, <2>3
    <3>2. Accounted(c)'
      <4>1. /\ Len(got[c]) + Len(buffer[c]) = taken[c]
            /\ taken[c] <= sent[c]
        BY <2>1 DEF Whole, Accounted
      <4>2. Len(got'[c]) + Len(buffer'[c]) = taken[c]
        <5>1. Len(got[c]) \in Nat /\ Len(buffer[c]) \in Nat
          OBVIOUS
        <5>2. Len(got'[c]) = Len(got[c]) + n /\ Len(buffer'[c]) = Len(buffer[c]) - n
          BY <2>2, <2>5, <3>1
        <5> QED
          BY <2>1, <4>1, <5>1, <5>2
      <4>3. child'[c] # "send" => buffer'[c] = <<>>
        BY <2>4, <3>1
      <4>4. child'[c] \in {"recv", "send"}
        BY <3>1
      <4> QED
        BY <2>3, <4>1, <4>2, <4>3, <4>4 DEF Accounted
    <3>3. ASSUME NEW d \in Clients, d # c PROVE Accounted(d)'
      BY <2>3, <3>3 DEF Whole, Accounted
    <3> QED
      BY <3>2, <3>3 DEF Whole
  <2> QED
    BY <2>1, <2>3, <2>6, <2>7, <2>8 DEF NoZombieForgotten, Zombies
<1>3. CASE SendBack(c) /\ TransferFails(c)
  <2>1. /\ child[c] = "send" /\ err[c] = "pending"
        /\ UNCHANGED <<conn, sent, taken, shut, got, unread, pc, clientSocket,
                       parentFds, childFds, sigchld, handling>>
        /\ buffer' = [buffer EXCEPT ![c] = <<>>]
        /\ \/ child' = [child EXCEPT ![c] = "recv"] /\ UNCHANGED err
           \/ /\ child' = [child EXCEPT ![c] = "exit"]
              /\ err' = [err EXCEPT ![c] = "seen"]
    BY <1>3 DEF SendBack, TransferFails, SeesError
  <2>2. CASE child' = [child EXCEPT ![c] = "recv"] /\ UNCHANGED err
    <3>1. Typed'
      BY <2>1, <2>2
    <3>2. Held'
      BY <2>1, <2>2 DEF Held
    <3>3. Whole'
      BY <2>1, <2>2 DEF Whole, Accounted
    <3> QED
      BY <2>1, <2>2, <3>1, <3>2, <3>3 DEF NoZombieForgotten, Zombies
  <2>3. CASE /\ child' = [child EXCEPT ![c] = "exit"]
             /\ err' = [err EXCEPT ![c] = "seen"]
    <3>1. Typed'
      BY <2>1, <2>3
    <3>2. Held'
      BY <2>1, <2>3 DEF Held
    <3>3. Whole'
      BY <2>1, <2>3 DEF Whole, Accounted
    <3> QED
      BY <2>1, <2>3, <3>1, <3>2, <3>3 DEF NoZombieForgotten, Zombies
  <2> QED
    BY <2>1, <2>2, <2>3
<1>4. CASE Exit(c)
  <2>1. /\ child[c] = "exit" /\ sigchld' = TRUE
        /\ childFds' = [childFds EXCEPT ![c] = {}]
        /\ child' = [child EXCEPT ![c] = "zombie"]
        /\ UNCHANGED <<parentFds, sent, taken, shut, err, got, unread, pc,
                       clientSocket, buffer, bytesSent, handling>>
    BY <1>4 DEF Exit
  <2> DEFINE K == {d \in Clients : d # c /\ child[d] \in Running}
  <2>2. \A d \in Clients : childFds'[d] = IF d \in K THEN {d} ELSE {}
    BY <2>1 DEF Held
  <2>3. conn' = [d \in Clients |->
                   IF conn[d] = "open" /\ d \notin parentFds' /\ d \notin K
                   THEN "closed" ELSE conn[d]]
    <3> HIDE DEF K
    <3>1. K \in SUBSET Clients
      BY DEF K
    <3> QED
      BY <1>4, <2>2, <3>1, ReleaseFacts DEF Exit
  <2>4. Typed'
    BY <2>1, <2>3
  <2>5. Held'
    <3>1. \A d \in Clients : d \in K <=> child'[d] \in Running
      BY <2>1
    <3>2. \A d \in Clients :
            childFds'[d] = IF child'[d] \in Running THEN {d} ELSE {}
      <4> HIDE DEF K
      <4> QED
        BY <2>2, <3>1
    <3>3. \A d \in Clients :
            conn'[d] = IF conn[d] = "open" /\ d \notin parentFds
                                         /\ child'[d] \notin Running
                       THEN "closed" ELSE conn[d]
      <4> HIDE DEF K
      <4> QED
        BY <2>1, <2>3, <3>1
    <3>4. \A d \in Clients : child'[d] = IF d = c THEN "zombie" ELSE child[d]
      BY <2>1
    <3> HIDE DEF K
    <3>5. \A d \in Clients :
            /\ child'[d] \in Running => conn'[d] = "open"
            /\ conn'[d] = "open" => d \in parentFds \/ child'[d] \in Running
            /\ child'[d] # "none" => conn'[d] \in {"open", "closed"}
      BY <2>1, <3>3, <3>4 DEF Held
    <3>6. /\ pc # "accept" => conn'[clientSocket] = "open"
          /\ pc = "fork" => child'[clientSocket] = "none"
      BY <2>1, <3>3, <3>4 DEF Held
    <3> QED
      BY <2>1, <3>2, <3>5, <3>6 DEF Held
  <2>6. Whole'
    BY <2>1 DEF Whole, Accounted
  <2> QED
    BY <2>1, <2>4, <2>5, <2>6 DEF NoZombieForgotten
<1> QED
  BY <1>1, <1>2, <1>3, <1>4 DEF ChildOf, SendBack

-----------------------------------------------------------------------------
(* The server starts with no client and no child. *)
LEMMA InitHolds ==
  ASSUME Init
  PROVE  IInv
PROOF
  BY DEF Init, NetInit, IInv, Typed, Held, Whole, Accounted, Running,
         NoZombieForgotten, Zombies

(* Every step, of whichever process, keeps the invariant. *)
LEMMA StepKeeps ==
  ASSUME IInv, [Next]_vars
  PROVE  IInv'
PROOF
<1>1. CASE Main
  BY <1>1, MainKeeps
<1>2. ASSUME NEW c \in Clients, ChildOf(c) PROVE IInv'
  BY <1>2, ChildKeeps
<1>3. ASSUME NEW c \in Clients, ClientStep(c), UNCHANGED procs PROVE IInv'
  BY <1>3, ClientStepKeeps
<1>4. CASE UNCHANGED vars
  BY <1>4 DEF vars, net, procs, IInv, Typed, Held, Whole, Accounted, Running,
              NoZombieForgotten, Zombies
<1> QED
  BY <1>1, <1>2, <1>3, <1>4 DEF Next

(* No child that has exited is forgotten, however many exit while one      *)
(* SIGCHLD is pending or being handled.                                    *)
THEOREM ZombiesRemembered == Spec => []NoZombieForgotten
PROOF
<1>1. IInv => NoZombieForgotten
  BY DEF IInv
<1>2. Init => IInv
  BY InitHolds
<1>3. IInv /\ [Next]_vars => IInv'
  BY StepKeeps
<1> QED
  BY <1>1, <1>2, <1>3, PTL DEF Spec

(* Each child holds the socket of its own client and no other, main none   *)
(* between two clients, and the end of a child ends its connection.        *)
THEOREM DescriptorsOwned == Spec => []SocketsOwned
PROOF
<1>1. IInv => SocketsOwned
  BY DEF IInv, Typed, Held, SocketsOwned, Running
<1>2. Init => IInv
  BY InitHolds
<1>3. IInv /\ [Next]_vars => IInv'
  BY StepKeeps
<1> QED
  BY <1>1, <1>2, <1>3, PTL DEF Spec

(* A connection that was not reset is closed only after everything its     *)
(* client sent has come back.                                              *)
THEOREM EchoedToTheEnd == Spec => []EchoedWhole
PROOF
<1>1. IInv => EchoedWhole
  <2> SUFFICES ASSUME IInv, NEW c \in Clients,
                      conn[c] = "closed", err[c] = "no", child[c] # "none"
               PROVE  Len(got[c]) = sent[c]
    BY DEF EchoedWhole
  <2>1. child[c] \in {"zombie", "reaped"}
    BY DEF IInv, Typed, Held, Running
  <2>2. /\ buffer[c] = <<>> /\ taken[c] = sent[c]
        /\ Len(got[c]) + Len(buffer[c]) = taken[c]
    BY <2>1 DEF IInv, Whole, Accounted
  <2>3. Len(got[c]) \in Nat
    BY DEF IInv, Typed
  <2> QED
    BY <2>2, <2>3
<1>2. Init => IInv
  BY InitHolds
<1>3. IInv /\ [Next]_vars => IInv'
  BY StepKeeps
<1> QED
  BY <1>1, <1>2, <1>3, PTL DEF Spec

-----------------------------------------------------------------------------
(* The tracer.                                                             *)

(* The stops that are no exec, so far, are twice the calls that returned,  *)
(* one more inside a call, and the signals.  Odd says whether their number *)
(* is odd, and Turn at which statements of its loop the parent then is.    *)
Odd == (signals + (IF inCall THEN 1 ELSE 0)) % 2 = 1

BeforeLoop == {"waitFirst", "resumeFirst"}
ForEnter == {"waitEnter", "enter", "resumeEnter"}
ForExit == {"waitExit", "exit", "resumeExit"}

Turn ==
  /\ tracerPc \in BeforeLoop => tracee # "running" /\ ~Odd
  /\ tracee = "starting" => ~Odd /\ tracerPc = "waitFirst"
  /\ tracee = "running" =>
       tracerPc \in {"waitEnter", "waitExit", "done"}
  /\ tracee = "running" /\ tracerPc # "done" => (Odd <=> tracerPc \in ForExit)
  /\ tracee = "stopped" /\ tracerPc # "done" => (Odd <=> tracerPc \in ForEnter)

LineInv ==
  /\ signals \in Nat /\ inCall \in BOOLEAN
  /\ tracerPc \in BeforeLoop \union ForEnter \union ForExit \union {"done"}
  /\ Turn
  /\ tracee = "stopped" /\ stop = "entry" => inCall
  /\ tracee = "stopped" /\ stop = "exit" => ~inCall
  /\ LinesMatch

(* One more stop turns the parity round. *)
LEMMA Parity ==
  ASSUME NEW n \in Nat
  PROVE  (n + 1) % 2 = 1 <=> ~(n % 2 = 1)
PROOF
  OBVIOUS

(* Every step of the child and of the parent's loop keeps the turn.        *)
LEMMA TraceStepKeeps ==
  ASSUME LineInv, [Trace!Next]_Trace!vars
  PROVE  LineInv'
PROOF
<1> USE DEF LineInv, Turn, BeforeLoop, ForEnter, ForExit
<1>0. signals % 2 \in {0, 1} /\ (signals + 1) % 2 \in {0, 1}
  OBVIOUS
<1>1. Odd <=> ((signals % 2 = 1) <=> ~inCall)
  BY Parity DEF Odd
<1>2. signals' \in Nat /\ inCall' \in BOOLEAN
        => (Odd' <=> ((signals' % 2 = 1) <=> ~inCall'))
  <2>1. ASSUME NEW n \in Nat, NEW b \in BOOLEAN
        PROVE  (n + (IF b THEN 1 ELSE 0)) % 2 = 1 <=> ((n % 2 = 1) <=> ~b)
    BY Parity
  <2> QED
    BY <2>1 DEF Odd
<1>3. (signals + 1) % 2 = 1 <=> ~(signals % 2 = 1)
  BY Parity
<1>4. CASE Trace!Exec
  BY <1>0, <1>1, <1>2, <1>3, <1>4
  DEF Trace!Exec, Trace!StopFor, Trace!budget, LinesMatch, Trace!LinesMatch
<1>5. CASE Trace!EnterCall
  BY <1>0, <1>1, <1>2, <1>3, <1>5
  DEF Trace!EnterCall, Trace!StopFor, Trace!budget, LinesMatch, Trace!LinesMatch
<1>6. CASE Trace!LeaveCall
  BY <1>0, <1>1, <1>2, <1>3, <1>6
  DEF Trace!LeaveCall, Trace!StopFor, Trace!budget, LinesMatch, Trace!LinesMatch
<1>7. CASE Trace!Signal
  BY <1>0, <1>1, <1>2, <1>3, <1>7
  DEF Trace!Signal, Trace!StopFor, Trace!budget, LinesMatch, Trace!LinesMatch
<1>8. CASE Trace!Kill
  BY <1>0, <1>1, <1>2, <1>3, <1>8
  DEF Trace!Kill, Trace!StopFor, Trace!budget, LinesMatch, Trace!LinesMatch
<1>9. CASE Trace!Wait("waitFirst", "resumeFirst")
  BY <1>0, <1>1, <1>2, <1>9
  DEF Trace!Wait, Trace!budget, LinesMatch, Trace!LinesMatch
<1>10. CASE Trace!Resume("resumeFirst", "waitEnter")
  BY <1>0, <1>1, <1>2, <1>10
  DEF Trace!Resume, Trace!budget, LinesMatch, Trace!LinesMatch
<1>11. CASE Trace!Wait("waitEnter", "enter")
  BY <1>0, <1>1, <1>2, <1>11
  DEF Trace!Wait, Trace!budget, LinesMatch, Trace!LinesMatch
<1>12. CASE Trace!Report("enter", "ENTER", "resumeEnter")
  BY <1>0, <1>1, <1>2, <1>12
  DEF Trace!Report, Trace!budget, LinesMatch, Trace!LinesMatch
<1>13. CASE Trace!Resume("resumeEnter", "waitExit")
  BY <1>0, <1>1, <1>2, <1>13
  DEF Trace!Resume, Trace!budget, LinesMatch, Trace!LinesMatch
<1>14. CASE Trace!Wait("waitExit", "exit")
  BY <1>0, <1>1, <1>2, <1>14
  DEF Trace!Wait, Trace!budget, LinesMatch, Trace!LinesMatch
<1>15. CASE Trace!Report("exit", "EXIT", "resumeExit")
  BY <1>0, <1>1, <1>2, <1>15
  DEF Trace!Report, Trace!budget, LinesMatch, Trace!LinesMatch
<1>16. CASE Trace!Resume("resumeExit", "waitEnter")
  BY <1>0, <1>1, <1>2, <1>16
  DEF Trace!Resume, Trace!budget, LinesMatch, Trace!LinesMatch
<1>17. CASE UNCHANGED Trace!vars
  BY <1>1, <1>2, <1>17 DEF Trace!vars, LinesMatch, Trace!LinesMatch
<1> QED
  BY <1>4, <1>5, <1>6, <1>7, <1>8, <1>9, <1>10, <1>11, <1>12, <1>13, <1>14, <1>15, <1>16, <1>17 DEF Trace!Next, Trace!Child, Trace!Parent

(* The invariant holds in every behaviour of the tracer and its child.     *)
THEOREM TraceInvariant == Trace!Spec => []LineInv
PROOF
<1>1. Trace!Init => LineInv
  <2> SUFFICES ASSUME Trace!Init PROVE LineInv
    OBVIOUS
  <2>1. signals = 0 /\ inCall = FALSE
    BY DEF Trace!Init
  <2>2. ~Odd
    BY <2>1 DEF Odd
  <2> QED
    BY <2>2 DEF Trace!Init, LineInv, Turn, BeforeLoop, ForEnter, ForExit,
                LinesMatch, Trace!LinesMatch
<1> QED
  BY <1>1, TraceStepKeeps, PTL DEF Trace!Spec

(* ENTER lines are entries of calls and EXIT lines their returns exactly   *)
(* while an even number of signals has stopped the child, for any number   *)
(* of calls and signals and wherever the child is killed.                  *)
THEOREM LinesAlternate == Trace!Spec => []LinesMatch
PROOF
<1>1. LineInv => LinesMatch
  BY DEF LineInv
<1> QED
  BY <1>1, TraceInvariant, PTL

-----------------------------------------------------------------------------
(* The echo server with one select loop of thrid_server.c.                 *)

SelTyped ==
  /\ conn \in [Clients -> {"new", "queued", "open", "refused", "closed"}]
  /\ sent \in [Clients -> Nat]
  /\ taken \in [Clients -> Nat]
  /\ err \in [Clients -> {"no", "pending", "seen"}]
  /\ got \in [Clients -> Seq(Nat)]
  /\ unread \in [Clients -> Nat]
  /\ socket \in [1 .. MAX -> Clients \union {None}]
  /\ sendBuffer \in [1 .. MAX -> [1 .. SendSize -> Nat]]
  /\ sendLength \in [1 .. MAX -> Nat]
  /\ sendOffset \in [1 .. MAX -> Nat]
  /\ selectPc \in {"select", "accept", "read", "flush", "killed"}
  /\ i \in Nat

(* Slots and open connections correspond, and the local socket of the loop *)
(* is that of slot i, unless the first half of the round has deleted it.   *)
SelOwned ==
  /\ \A s \in 1 .. MAX : socket[s] # None => conn[socket[s]] = "open"
  /\ \A c \in Clients : conn[c] = "open" => \E s \in 1 .. MAX : socket[s] = c
  /\ \A s, t \in 1 .. MAX : socket[s] # None /\ socket[s] = socket[t] => s = t
  /\ \A s \in 1 .. MAX : socket[s] = None => sendLength[s] = 0 /\ sendOffset[s] = 0
  /\ \A c \in Clients : conn[c] \in {"new", "queued", "refused"} => taken[c] = 0
  /\ selectPc \in {"read", "flush"} => i \in 1 .. MAX
  /\ selectPc = "read" => sock = socket[i]
  /\ selectPc = "flush" => sock = socket[i] \/ socket[i] = None

(* The bytes 1, 2, ... of a client, and the ones that come next. *)
Counts(s) == \A k \in 1 .. Len(s) : s[k] = k
Continues(s, t) == \A k \in 1 .. Len(t) : t[k] = Len(s) + k

(* Where the bytes of c are: back at c, in the buffer of its slot, or      *)
(* unread.  A client that is refused may have got the notice.              *)
Back(c) ==
  /\ taken[c] <= sent[c]
  /\ conn[c] # "refused" => Len(got[c]) <= taken[c] /\ Counts(got[c])

(* What slot s holds for its client.  memcpy appends at sendLength and     *)
(* flushClientBuffer sends from sendOffset on; the two fit together since  *)
(* sendOffset is 0 except while that flush runs.                           *)
Buffered(s) ==
  LET c == socket[s]
  IN  c # None /\ err[c] = "no" =>
        /\ sendOffset[s] + sendLength[s] <= SendSize
        /\ Len(got[c]) + sendLength[s] = taken[c]
        /\ \A k \in 1 .. sendLength[s] :
             sendBuffer[s][sendOffset[s] + k] = Len(got[c]) + k
        /\ sendOffset[s] > 0 => /\ selectPc = "flush" /\ i = s
                                /\ sock \in writeSet /\ sendLength[s] > 0

SelBytes ==
  /\ \A c \in Clients : Back(c)
  /\ \A s \in 1 .. MAX : Buffered(s)

SelectInv == SelTyped /\ SelOwned /\ SelBytes

-----------------------------------------------------------------------------
(* What the clients do disturbs neither the table nor the bytes.           *)
LEMMA SelectClientKeeps ==
  ASSUME SelectInv, NEW c \in Clients, Select!ClientStep(c),
         UNCHANGED <<Select!table, Select!round>>
  PROVE  SelectInv'
PROOF
<1> USE DEF SelectInv, Select!table, Select!round
<1>1. CASE Select!Connect(c)
  <2>1. SelTyped'
    BY <1>1 DEF Select!Connect, SelTyped
  <2>2. SelOwned'
    BY <1>1 DEF Select!Connect, SelTyped, SelOwned
  <2>3. SelBytes'
    BY <1>1 DEF Select!Connect, SelBytes, Back, Buffered
  <2> QED
    BY <2>1, <2>2, <2>3
<1>2. CASE Select!Send(c)
  <2>1. SelTyped'
    BY <1>2 DEF Select!Send, SelTyped
  <2>2. SelOwned'
    BY <1>2 DEF Select!Send, SelTyped, SelOwned
  <2>3. SelBytes'
    BY <1>2 DEF Select!Send, SelTyped, SelBytes, Back, Buffered
  <2> QED
    BY <2>1, <2>2, <2>3
<1>3. CASE Select!Shutdown(c)
  <2>1. SelTyped'
    BY <1>3 DEF Select!Shutdown, SelTyped
  <2>2. SelOwned'
    BY <1>3 DEF Select!Shutdown, SelOwned
  <2>3. SelBytes'
    BY <1>3 DEF Select!Shutdown, SelBytes, Back, Buffered
  <2> QED
    BY <2>1, <2>2, <2>3
<1>4. CASE Select!Reset(c)
  <2>1. SelTyped'
    BY <1>4 DEF Select!Reset, SelTyped
  <2>2. SelOwned'
    BY <1>4 DEF Select!Reset, SelOwned
  <2>3. SelBytes'
    BY <1>4 DEF Select!Reset, SelTyped, SelBytes, Back, Buffered
  <2> QED
    BY <2>1, <2>2, <2>3
<1>5. CASE Select!Drain(c)
  <2>1. SelTyped'
    BY <1>5 DEF Select!Drain, SelTyped
  <2>2. SelOwned'
    BY <1>5 DEF Select!Drain, SelOwned
  <2>3. SelBytes'
    BY <1>5 DEF Select!Drain, SelBytes, Back, Buffered
  <2> QED
    BY <2>1, <2>2, <2>3
<1> QED
  BY <1>1, <1>2, <1>3, <1>4, <1>5 DEF Select!ClientStep

(* The sets of a round say nothing yet. *)
LEMMA SelectKeeps ==
  ASSUME SelectInv, Select!Select
  PROVE  SelectInv'
PROOF
<1>1. /\ selectPc = "select" /\ selectPc' = "accept"
      /\ UNCHANGED <<conn, sent, taken, err, got, unread, socket, sendBuffer,
                     sendLength, sendOffset, i>>
  BY DEF Select!Select, Select!net, Select!table
<1>2. SelTyped'
  BY <1>1 DEF SelectInv, SelTyped
<1>3. SelOwned'
  BY <1>1 DEF SelectInv, SelOwned
<1>4. SelBytes'
  BY <1>1 DEF SelectInv, SelBytes, Back, Buffered
<1> QED
  BY <1>2, <1>3, <1>4 DEF SelectInv

(* Outside a flush every buffer is sent from its start. *)
LEMMA AtStart ==
  ASSUME SelectInv, NEW s \in 1 .. MAX, selectPc # "flush" \/ i # s,
         socket[s] # None, err[socket[s]] = "no"
  PROVE  sendOffset[s] = 0
PROOF
<1>1. sendOffset[s] \in Nat
  BY DEF SelectInv, SelTyped
<1>2. Buffered(s)
  BY DEF SelectInv, SelBytes
<1>3. ~(sendOffset[s] > 0)
  BY <1>2 DEF Buffered
<1> QED
  BY <1>1, <1>3

(* The loop over the slots begins, or goes on, at slot n. *)
LEMMA StartsAt ==
  ASSUME NEW n \in Nat \ {0}, Select!Starts(n)
  PROVE  /\ i' = n
         /\ selectPc' \in {"read", "select"}
         /\ selectPc' = "read" => n \in 1 .. MAX /\ sock' = socket'[n]
PROOF
  BY SelectAssumption DEF Select!Starts

(* A set of numbers has a least. *)
LEMMA Least ==
  ASSUME NEW T, T \subseteq Nat, T # {}
  PROVE  \E m \in T : \A k \in T : m <= k
PROOF
<1>1. \E x \in T : \A y \in T : ~(<<y, x>> \in OpToRel(<, Nat))
  BY NatLessThanWellFounded, WFMin, Zenon
<1>2. PICK x \in T : \A y \in T : ~(<<y, x>> \in OpToRel(<, Nat))
  BY <1>1, Zenon
<1>3. \A y \in T : <<y, x>> \in Nat \X Nat
  OBVIOUS
<1>4. \A y \in T : ~(y < x)
  BY <1>2, <1>3 DEF OpToRel
<1> QED
  BY <1>4

(* Accept takes the first free slot, which keeps nothing of its last       *)
(* client, or refuses.                                                     *)
LEMMA AcceptKeeps ==
  ASSUME SelectInv, Select!Accept
  PROVE  SelectInv'
PROOF
<1>1. /\ selectPc = "accept"
      /\ UNCHANGED <<sent, taken, shut, readSet, writeSet>>
      /\ i' = 1 /\ selectPc' \in {"read", "select"}
      /\ selectPc' = "read" => 1 \in 1 .. MAX /\ sock' = socket'[1]
  BY StartsAt DEF Select!Accept
<1>2. CASE UNCHANGED <<conn, err, got, unread, socket, sendBuffer, sendLength,
                      sendOffset>>
  <2>1. SelTyped'
    BY <1>1, <1>2 DEF SelectInv, SelTyped
  <2>2. SelOwned'
    BY <1>1, <1>2 DEF SelectInv, SelOwned
  <2>3. SelBytes'
    <3>1. \A c \in Clients : Back(c)'
      BY <1>1, <1>2 DEF SelectInv, SelBytes, Back
    <3>2. ASSUME NEW s \in 1 .. MAX PROVE Buffered(s)'
      <4>1. Buffered(s)
        BY DEF SelectInv, SelBytes
      <4> QED
        BY <1>1, <1>2, <4>1 DEF Buffered
    <3> QED
      BY <3>1, <3>2 DEF SelBytes
  <2> QED
    BY <2>1, <2>2, <2>3 DEF SelectInv
<1>3. ASSUME NEW c \in Clients, conn[c] = "queued", Select!Refuse(c)
      PROVE  SelectInv'
  <2>1. /\ conn' = [conn EXCEPT ![c] = "refused"]
        /\ UNCHANGED <<socket, sendBuffer, sendLength, sendOffset>>
        /\ UNCHANGED err \/ err' = [err EXCEPT ![c] = "seen"]
        /\ \/ UNCHANGED <<got, unread>>
           \/ /\ got' = [got EXCEPT ![c] = @ \o Notice]
              /\ unread' = [unread EXCEPT ![c] = @ + Len(Notice)]
    BY <1>3 DEF Select!Refuse, Select!Delivers, Select!SeesError, Select!table,
                Select!Notice, Notice
  <2>2. SelTyped'
    <3>1. conn' \in [Clients -> {"new", "queued", "open", "refused", "closed"}]
      BY <2>1 DEF SelectInv, SelTyped
    <3>2. err' \in [Clients -> {"no", "pending", "seen"}]
      BY <2>1 DEF SelectInv, SelTyped
    <3>3. Notice \in Seq(Nat) /\ Len(Notice) \in Nat
      BY DEF Notice
    <3>4. got' \in [Clients -> Seq(Nat)] /\ unread' \in [Clients -> Nat]
      <4>1. got[c] \o Notice \in Seq(Nat) /\ unread[c] + Len(Notice) \in Nat
        BY <3>3, Appended DEF SelectInv, SelTyped
      <4> QED
        BY <2>1, <4>1 DEF SelectInv, SelTyped
    <3> QED
      BY <1>1, <2>1, <3>1, <3>2, <3>4 DEF SelectInv, SelTyped
  <2>3. \A d \in Clients : /\ conn'[d] = IF d = c THEN "refused" ELSE conn[d]
                           /\ d # c => got'[d] = got[d] /\ err'[d] = err[d]
    BY <2>1 DEF SelectInv, SelTyped
  <2>4. SelOwned'
    BY <1>1, <1>3, <2>1, <2>3 DEF SelectInv, SelTyped, SelOwned
  <2>5. SelBytes'
    <3>1. \A d \in Clients : Back(d)'
      BY <1>1, <2>3 DEF SelectInv, SelBytes, Back
    <3>2. ASSUME NEW s \in 1 .. MAX PROVE Buffered(s)'
      <4>1. Buffered(s)
        BY DEF SelectInv, SelBytes
      <4>2. socket[s] # None => socket[s] \in Clients /\ socket[s] # c
        BY <1>3 DEF SelectInv, SelTyped, SelOwned
      <4> QED
        BY <1>1, <2>1, <2>3, <4>1, <4>2 DEF Buffered
    <3> QED
      BY <3>1, <3>2 DEF SelBytes
  <2> QED
    BY <2>2, <2>4, <2>5 DEF SelectInv
<1>4. ASSUME NEW c \in Clients, conn[c] = "queued",
             NEW s \in 1 .. MAX, socket[s] = None,
             socket' = [socket EXCEPT ![s] = c],
             sendLength' = [sendLength EXCEPT ![s] = 0],
             sendOffset' = [sendOffset EXCEPT ![s] = 0],
             conn' = [conn EXCEPT ![c] = "open"],
             UNCHANGED <<sendBuffer, err, got, unread>>
      PROVE  SelectInv'
  <2>1. c # None /\ taken[c] = 0
    BY <1>4, SelectAssumption DEF SelectInv, SelOwned
  <2>2. SelTyped'
    BY <1>1, <1>4 DEF SelectInv, SelTyped
  <2>3. \A t \in 1 .. MAX : /\ socket[t] # c
                            /\ socket'[t] = IF t = s THEN c ELSE socket[t]
                            /\ sendLength'[t] = IF t = s THEN 0 ELSE sendLength[t]
                            /\ sendOffset'[t] = IF t = s THEN 0 ELSE sendOffset[t]
    BY <1>4, <2>1 DEF SelectInv, SelTyped, SelOwned
  <2>4. \A d \in Clients : conn'[d] = IF d = c THEN "open" ELSE conn[d]
    BY <1>4 DEF SelectInv, SelTyped
  <2>5. SelOwned'
    <3>1. ASSUME NEW t \in 1 .. MAX, socket'[t] # None
          PROVE  conn'[socket'[t]] = "open"
      <4>1. CASE t = s
        BY <2>3, <2>4, <4>1
      <4>2. CASE t # s
        <5>1. socket'[t] = socket[t] /\ socket[t] \in Clients /\ socket[t] # c
          BY <2>3, <3>1, <4>2 DEF SelectInv, SelTyped
        <5>2. conn[socket[t]] = "open"
          BY <3>1, <5>1 DEF SelectInv, SelOwned
        <5> QED
          BY <2>4, <5>1, <5>2
      <4> QED
        BY <4>1, <4>2
    <3>2. ASSUME NEW d \in Clients, conn'[d] = "open"
          PROVE  \E t \in 1 .. MAX : socket'[t] = d
      <4>1. CASE d = c
        BY <2>3, <4>1
      <4>2. CASE d # c
        <5>1. conn[d] = "open"
          BY <2>4, <3>2, <4>2
        <5>2. PICK t \in 1 .. MAX : socket[t] = d
          BY <5>1 DEF SelectInv, SelOwned
        <5>3. t # s
          BY <1>4, <5>2, SelectAssumption
        <5> QED
          BY <2>3, <5>2, <5>3
      <4> QED
        BY <4>1, <4>2
    <3>3. \A t, u \in 1 .. MAX : socket'[t] # None /\ socket'[t] = socket'[u] => t = u
      BY <2>3 DEF SelectInv, SelOwned
    <3>4. \A t \in 1 .. MAX :
            socket'[t] = None => sendLength'[t] = 0 /\ sendOffset'[t] = 0
      BY <2>3 DEF SelectInv, SelOwned
    <3>5. \A d \in Clients : conn'[d] \in {"new", "queued", "refused"} => taken'[d] = 0
      BY <1>1, <2>4 DEF SelectInv, SelOwned
    <3> QED
      BY <1>1, <3>1, <3>2, <3>3, <3>4, <3>5 DEF SelOwned
  <2>6. SelBytes'
    <3>1. \A d \in Clients : Back(d)'
      BY <1>1, <1>4 DEF SelectInv, SelBytes, Back
    <3>2. ASSUME NEW t \in 1 .. MAX PROVE Buffered(t)'
      <4>1. CASE t = s
        <5>1. Len(got[c]) = 0
          <6>1. Len(got[c]) <= 0 /\ got[c] \in Seq(Nat)
            BY <1>4, <2>1 DEF SelectInv, SelTyped, SelBytes, Back
          <6> QED
            BY <6>1
        <5>2. socket'[t] = c /\ sendLength'[t] = 0 /\ sendOffset'[t] = 0
          BY <2>3, <4>1
        <5> QED
          BY <1>1, <1>4, <2>1, <5>1, <5>2, SelectAssumption DEF Buffered
      <4>2. CASE t # s
        <5>1. Buffered(t)
          BY DEF SelectInv, SelBytes
        <5>2. socket'[t] = socket[t] /\ sendLength'[t] = sendLength[t]
              /\ sendOffset'[t] = sendOffset[t]
          BY <2>3, <4>2
        <5> QED
          BY <1>1, <1>4, <5>1, <5>2 DEF Buffered
      <4> QED
        BY <4>1, <4>2
    <3> QED
      BY <3>1, <3>2 DEF SelBytes
  <2> QED
    BY <2>2, <2>5, <2>6 DEF SelectInv
<1>5. ASSUME NEW c \in Select!Queued, Select!AddClient(c)
      PROVE  SelectInv'
  <2>1. c \in Clients /\ conn[c] = "queued"
    BY DEF Select!Queued
  <2>2. CASE Select!FreeSlots = {}
    BY <1>3, <1>5, <2>1, <2>2 DEF Select!AddClient
  <2>3. CASE Select!FreeSlots # {}
    <3> DEFINE First(r) == \A q \in Select!FreeSlots : r <= q
               s == CHOOSE r \in Select!FreeSlots : First(r)
    <3>1. Select!FreeSlots \subseteq Nat
      BY DEF Select!FreeSlots, Select!Slots
    <3>2. \E r \in Select!FreeSlots : First(r)
      BY <2>3, <3>1, Least, Zenon
    <3>3. s \in Select!FreeSlots
      BY <3>2
    <3>4. s \in 1 .. MAX /\ socket[s] = None
      BY <3>3 DEF Select!FreeSlots, Select!Slots
    <3>5. /\ socket' = [socket EXCEPT ![s] = c]
          /\ sendLength' = [sendLength EXCEPT ![s] = 0]
          /\ sendOffset' = [sendOffset EXCEPT ![s] = 0]
          /\ conn' = [conn EXCEPT ![c] = "open"]
          /\ UNCHANGED <<sendBuffer, err, got, unread>>
      BY <1>5, <2>3 DEF Select!AddClient
    <3> HIDE DEF s
    <3> QED
      BY <1>4, <2>1, <3>4, <3>5
  <2> QED
    BY <2>2, <2>3
<1> QED
  BY <1>2, <1>5 DEF Select!Accept, Select!table

(* A client is deleted, after n more of its bytes were read. *)
LEMMA DeleteKeeps ==
  ASSUME SelectInv, selectPc = "read", selectPc' = "flush",
         UNCHANGED <<sent, err, got, unread, i, sock, writeSet>>,
         NEW c \in Clients, socket[i] = c,
         Select!DeleteClient(i),
         NEW n \in Nat, n <= sent[c] - taken[c],
         taken' = [taken EXCEPT ![c] = @ + n]
  PROVE  SelectInv'
PROOF
<1>1. c # None /\ i \in 1 .. MAX
  BY SelectAssumption DEF SelectInv, SelOwned
<1>2. /\ conn' = [conn EXCEPT ![c] = "closed"]
      /\ socket' = [socket EXCEPT ![i] = None]
      /\ sendLength' = [sendLength EXCEPT ![i] = 0]
      /\ sendOffset' = [sendOffset EXCEPT ![i] = 0]
      /\ UNCHANGED sendBuffer
  BY DEF Select!DeleteClient, Select!Closes
<1>3. \A t \in 1 .. MAX : /\ socket'[t] = IF t = i THEN None ELSE socket[t]
                          /\ sendLength'[t] = IF t = i THEN 0 ELSE sendLength[t]
                          /\ sendOffset'[t] = IF t = i THEN 0 ELSE sendOffset[t]
                          /\ socket[t] = c => t = i
  BY <1>1, <1>2 DEF SelectInv, SelTyped, SelOwned
<1>4. \A d \in Clients : /\ conn'[d] = IF d = c THEN "closed" ELSE conn[d]
                         /\ taken'[d] = IF d = c THEN taken[c] + n ELSE taken[d]
  BY <1>2 DEF SelectInv, SelTyped
<1>8. conn[c] = "open"
  BY <1>1 DEF SelectInv, SelOwned
<1>5. SelTyped'
  BY <1>1, <1>2 DEF SelectInv, SelTyped
<1>6. SelOwned'
  <2>1. ASSUME NEW t \in 1 .. MAX, socket'[t] # None
        PROVE  conn'[socket'[t]] = "open"
    <3>1. t # i /\ socket'[t] = socket[t] /\ socket[t] \in Clients /\ socket[t] # c
      <4>1. t # i /\ socket'[t] = socket[t]
        BY <1>3, <2>1
      <4>2. socket[t] # c
        BY <1>3, <4>1
      <4>3. socket[t] \in Clients \union {None}
        BY DEF SelectInv, SelTyped
      <4> QED
        BY <2>1, <4>1, <4>2, <4>3
    <3>2. conn[socket[t]] = "open"
      BY <2>1, <3>1 DEF SelectInv, SelOwned
    <3> QED
      BY <1>4, <3>1, <3>2
  <2>2. ASSUME NEW d \in Clients, conn'[d] = "open"
        PROVE  \E t \in 1 .. MAX : socket'[t] = d
    <3>1. d # c /\ conn[d] = "open"
      BY <1>4, <2>2
    <3>2. PICK t \in 1 .. MAX : socket[t] = d
      BY <3>1 DEF SelectInv, SelOwned
    <3> QED
      BY <1>3, <3>1, <3>2
  <2>3. \A t, u \in 1 .. MAX : socket'[t] # None /\ socket'[t] = socket'[u] => t = u
    BY <1>3 DEF SelectInv, SelOwned
  <2>4. \A t \in 1 .. MAX :
          socket'[t] = None => sendLength'[t] = 0 /\ sendOffset'[t] = 0
    BY <1>3 DEF SelectInv, SelOwned
  <2>5. \A d \in Clients : conn'[d] \in {"new", "queued", "refused"} => taken'[d] = 0
    BY <1>4 DEF SelectInv, SelOwned
  <2>6. socket'[i] = None
    BY <1>1, <1>3
  <2> QED
    BY <1>1, <2>1, <2>2, <2>3, <2>4, <2>5, <2>6 DEF SelOwned
<1>7. SelBytes'
  <2>1. ASSUME NEW d \in Clients PROVE Back(d)'
    <3>1. Back(d)
      BY DEF SelectInv, SelBytes
    <3>2. Len(got[d]) \in Nat /\ taken[d] \in Nat /\ sent[d] \in Nat
      BY DEF SelectInv, SelTyped
    <3> QED
      BY <1>4, <1>8, <3>1, <3>2 DEF Back
  <2>2. ASSUME NEW t \in 1 .. MAX PROVE Buffered(t)'
    <3>1. CASE t = i
      BY <1>3, <3>1 DEF Buffered
    <3>2. CASE t # i
      <4>1. Buffered(t)
        BY DEF SelectInv, SelBytes
      <4>2. socket'[t] = socket[t] /\ socket[t] # c /\ sendLength'[t] = sendLength[t]
            /\ sendOffset'[t] = sendOffset[t] /\ socket[t] \in Clients \union {None}
        BY <1>3, <3>2 DEF SelectInv, SelTyped
      <4> QED
        BY <1>2, <1>4, <4>1, <4>2 DEF Buffered
    <3> QED
      BY <3>1, <3>2
  <2> QED
    BY <2>1, <2>2 DEF SelBytes
<1> QED
  BY <1>5, <1>6, <1>7 DEF SelectInv

(* What was read is stored behind what waits to be sent. *)
LEMMA StoreKeeps ==
  ASSUME SelectInv, selectPc = "read", selectPc' = "flush",
         UNCHANGED <<sent, err, got, unread, i, sock, writeSet>>,
         NEW c \in Clients, socket[i] = c,
         NEW n \in Nat, n <= sent[c] - taken[c],
         sendLength[i] + n <= SendSize,
         Select!Store(i, n),
         taken' = [taken EXCEPT ![c] = @ + n]
  PROVE  SelectInv'
PROOF
<1>1. c # None /\ i \in 1 .. MAX /\ conn[c] = "open" /\ sock = c
  BY SelectAssumption DEF SelectInv, SelOwned
<1> DEFINE buf == [k \in 1 .. SendSize |->
                     IF k \in sendLength[i] + 1 .. sendLength[i] + n
                     THEN taken[c] + k - sendLength[i] ELSE sendBuffer[i][k]]
<1>2. /\ sendBuffer' = [sendBuffer EXCEPT ![i] = buf]
      /\ sendLength' = [sendLength EXCEPT ![i] = @ + n]
      /\ UNCHANGED <<socket, sendOffset, conn>>
  BY <1>1 DEF Select!Store, SelectInv, SelTyped
<1>3. taken[c] \in Nat /\ sendLength[i] \in Nat /\ sendBuffer[i] \in [1 .. SendSize -> Nat]
  BY <1>1 DEF SelectInv, SelTyped
<1>4. buf \in [1 .. SendSize -> Nat]
  <2>1. ASSUME NEW k \in 1 .. SendSize
        PROVE  (IF k \in sendLength[i] + 1 .. sendLength[i] + n
                THEN taken[c] + k - sendLength[i] ELSE sendBuffer[i][k]) \in Nat
    <3>1. CASE k \in sendLength[i] + 1 .. sendLength[i] + n
      <4>1. k \in Nat /\ k > sendLength[i]
        <5>1. k \in Nat /\ sendLength[i] \in Nat
          BY <1>3, SelectAssumption
        <5> QED
          BY <3>1, <5>1
      <4>2. taken[c] + k - sendLength[i] \in Nat
        BY <1>3, <4>1
      <4> QED
        BY <3>1, <4>2
    <3>2. CASE k \notin sendLength[i] + 1 .. sendLength[i] + n
      BY <1>3, <3>2
    <3> QED
      BY <3>1, <3>2
  <2> QED
    BY <2>1
<1>5. ASSUME NEW k \in 1 .. SendSize
      PROVE  buf[k] = IF k > sendLength[i] /\ k <= sendLength[i] + n
                      THEN taken[c] + k - sendLength[i] ELSE sendBuffer[i][k]
  BY <1>3
<1> HIDE DEF buf
<1>6. \A t \in 1 .. MAX : /\ sendLength'[t] = IF t = i THEN sendLength[i] + n ELSE sendLength[t]
                          /\ sendBuffer'[t] = IF t = i THEN buf ELSE sendBuffer[t]
                          /\ socket[t] = c => t = i
  BY <1>1, <1>2 DEF SelectInv, SelTyped, SelOwned
<1>7. \A d \in Clients : taken'[d] = IF d = c THEN taken[c] + n ELSE taken[d]
  BY DEF SelectInv, SelTyped
<1>8. SelTyped'
  <2>1. sendLength' \in [1 .. MAX -> Nat] /\ taken' \in [Clients -> Nat]
    BY <1>1, <1>2, <1>3 DEF SelectInv, SelTyped
  <2>2. sendBuffer' \in [1 .. MAX -> [1 .. SendSize -> Nat]]
    BY <1>1, <1>2, <1>4 DEF SelectInv, SelTyped
  <2> QED
    BY <1>2, <2>1, <2>2 DEF SelectInv, SelTyped
<1>9. SelOwned'
  <2>1. \A d \in Clients : conn'[d] \in {"new", "queued", "refused"} => taken'[d] = 0
    BY <1>1, <1>2, <1>7 DEF SelectInv, SelOwned
  <2>2. \A t \in 1 .. MAX :
          socket'[t] = None => sendLength'[t] = 0 /\ sendOffset'[t] = 0
    BY <1>1, <1>2, <1>6 DEF SelectInv, SelOwned
  <2> QED
    BY <1>1, <1>2, <2>1, <2>2 DEF SelectInv, SelOwned
<1>10. SelBytes'
  <2>1. ASSUME NEW d \in Clients PROVE Back(d)'
    <3>1. Back(d)
      BY DEF SelectInv, SelBytes
    <3>2. Len(got[d]) \in Nat /\ taken[d] \in Nat /\ sent[d] \in Nat
      BY DEF SelectInv, SelTyped
    <3> QED
      BY <1>2, <1>7, <3>1, <3>2 DEF Back
  <2>2. ASSUME NEW t \in 1 .. MAX PROVE Buffered(t)'
    <3>1. CASE t = i /\ err[c] = "no"
      <4>1. sendOffset[i] = 0
        BY <1>1, <3>1, AtStart
      <4>2. Len(got[c]) + sendLength[i] = taken[c]
            /\ \A k \in 1 .. sendLength[i] : sendBuffer[i][k] = Len(got[c]) + k
        <5>1. Buffered(i)
          BY <1>1 DEF SelectInv, SelBytes
        <5> QED
          BY <1>1, <1>3, <3>1, <4>1, <5>1 DEF Buffered
      <4>3. Len(got[c]) \in Nat
        BY DEF SelectInv, SelTyped
      <4>4. ASSUME NEW k \in 1 .. sendLength[i] + n
            PROVE  buf[k] = Len(got[c]) + k
        <5>1. k \in 1 .. SendSize /\ k \in Nat
          BY <1>3, SelectAssumption
        <5>2. CASE k > sendLength[i]
          BY <1>3, <1>5, <4>2, <4>3, <5>1, <5>2
        <5>3. CASE k <= sendLength[i]
          <6>1. buf[k] = sendBuffer[i][k] /\ k \in 1 .. sendLength[i]
            BY <1>3, <1>5, <5>1, <5>3
          <6> QED
            BY <4>2, <6>1
        <5> QED
          BY <1>3, <5>1, <5>2, <5>3
      <4>5. /\ socket'[i] = c /\ sendOffset'[i] = 0 /\ sendBuffer'[i] = buf
            /\ sendLength'[i] = sendLength[i] + n /\ taken'[c] = taken[c] + n
        BY <1>1, <1>2, <1>6, <1>7, <4>1
      <4>6. /\ sendOffset'[i] + sendLength'[i] <= SendSize
            /\ Len(got'[c]) + sendLength'[i] = taken'[c]
        BY <1>3, <4>2, <4>3, <4>5
      <4>7. \A k \in 1 .. sendLength'[i] :
              sendBuffer'[i][sendOffset'[i] + k] = Len(got'[c]) + k
        BY <1>3, <4>4, <4>5
      <4> QED
        BY <3>1, <4>5, <4>6, <4>7 DEF Buffered
    <3>2. CASE t = i /\ err[c] # "no"
      BY <1>2, <3>2 DEF Buffered
    <3>3. CASE t # i
      <4>1. Buffered(t)
        BY DEF SelectInv, SelBytes
      <4>2. socket[t] # c /\ sendLength'[t] = sendLength[t]
            /\ sendBuffer'[t] = sendBuffer[t] /\ socket[t] \in Clients \union {None}
        BY <1>6, <3>3 DEF SelectInv, SelTyped
      <4> QED
        BY <1>2, <1>7, <4>1, <4>2 DEF Buffered
    <3> QED
      BY <3>1, <3>2, <3>3
  <2> QED
    BY <2>1, <2>2 DEF SelBytes
<1> QED
  BY <1>8, <1>9, <1>10 DEF SelectInv

(* The first half of a round of the loop: whatever recv returns. *)
LEMMA ReadKeeps ==
  ASSUME SelectInv, Select!Read
  PROVE  SelectInv'
PROOF
<1>1. /\ selectPc = "read" /\ selectPc' = "flush"
      /\ UNCHANGED <<sent, got, unread, i, sock, writeSet>>
      /\ i \in 1 .. MAX /\ sock = socket[i]
  BY DEF Select!Read, SelectInv, SelOwned
<1>2. CASE UNCHANGED <<conn, socket, sendBuffer, sendLength, sendOffset, taken, err>>
  <2>1. SelTyped' /\ SelOwned'
    BY <1>1, <1>2 DEF SelectInv, SelTyped, SelOwned
  <2>2. ASSUME NEW s \in 1 .. MAX PROVE Buffered(s)'
    <3>1. Buffered(s)
      BY DEF SelectInv, SelBytes
    <3> QED
      BY <1>1, <1>2, <3>1 DEF Buffered
  <2>3. \A c \in Clients : Back(c)'
    BY <1>1, <1>2 DEF SelectInv, SelBytes, Back
  <2> QED
    BY <2>1, <2>2, <2>3 DEF SelectInv, SelBytes
<1>3. CASE sock # None /\ sock \in readSet /\ Select!HandleMessage(i)
  <2> DEFINE c == socket[i]
             n == IF Select!Available(c) < ReadSize THEN Select!Available(c)
                                                    ELSE ReadSize
  <2>1. c \in Clients /\ c # None
    BY <1>1, <1>3 DEF SelectInv, SelTyped
  <2>2. taken[c] <= sent[c] /\ taken[c] \in Nat /\ sent[c] \in Nat
    BY <2>1 DEF SelectInv, SelTyped, SelBytes, Back
  <2>3. n \in Nat /\ n <= sent[c] - taken[c]
    BY <2>2, SelectAssumption DEF Select!Available
  <2>4. \/ /\ Select!SeesError(c)
           /\ UNCHANGED <<conn, Select!table, taken>>
        \/ Select!DeleteClient(i) /\ UNCHANGED <<taken, err>>
        \/ /\ \/ Select!DeleteClient(i)
              \/ sendLength[i] + n <= SendSize /\ Select!Store(i, n)
           /\ taken' = [taken EXCEPT ![c] = @ + n]
           /\ UNCHANGED err
    <3> HIDE DEF n
    <3>1. sendLength[i] + n \in Int
      <4>1. sendLength[i] \in Nat
        BY <1>1 DEF SelectInv, SelTyped
      <4> QED
        BY <2>3, <4>1
    <3>2. SendSize \in Nat
      BY SelectAssumption
    <3>3. (sendLength[i] + n > SendSize) \/ sendLength[i] + n <= SendSize
      BY <3>1, <3>2
    <3> QED
      BY <1>3, <3>3 DEF Select!HandleMessage, n
  <2>5. CASE Select!SeesError(c) /\ UNCHANGED <<conn, Select!table, taken>>
    <3>1. err' = [err EXCEPT ![c] = "seen"]
          /\ UNCHANGED <<conn, taken, socket, sendBuffer, sendLength, sendOffset>>
      BY <2>5 DEF Select!SeesError, Select!table
    <3>2. SelTyped' /\ SelOwned'
      BY <1>1, <2>1, <3>1 DEF SelectInv, SelTyped, SelOwned
    <3>3. ASSUME NEW s \in 1 .. MAX PROVE Buffered(s)'
      <4>1. Buffered(s) /\ socket[s] \in Clients \union {None}
        BY DEF SelectInv, SelBytes, SelTyped
      <4>2. \A d \in Clients : err'[d] = "no" => err[d] = "no"
        BY <2>1, <3>1 DEF SelectInv, SelTyped
      <4> QED
        BY <1>1, <3>1, <4>1, <4>2 DEF Buffered
    <3>4. \A d \in Clients : Back(d)'
      BY <1>1, <3>1 DEF SelectInv, SelBytes, Back
    <3> QED
      BY <3>2, <3>3, <3>4 DEF SelectInv, SelBytes
  <2>6. CASE Select!DeleteClient(i) /\ UNCHANGED <<taken, err>>
    <3>1. taken' = [taken EXCEPT ![c] = @ + 0]
      BY <2>1, <2>2, <2>6 DEF SelectInv, SelTyped
    <3>2. 0 <= sent[c] - taken[c]
      BY <2>2
    <3> QED
      BY <1>1, <2>1, <2>6, <3>1, <3>2, DeleteKeeps
  <2>7. CASE /\ Select!DeleteClient(i) \/ (sendLength[i] + n <= SendSize /\ Select!Store(i, n))
             /\ taken' = [taken EXCEPT ![c] = @ + n]
             /\ UNCHANGED err
    <3> HIDE DEF n
    <3> QED
      BY <1>1, <2>1, <2>3, <2>7, DeleteKeeps, StoreKeeps
  <2> QED
    BY <2>4, <2>5, <2>6, <2>7
<1> QED
  BY <1>2, <1>3 DEF Select!Read, Select!table

(* What has come back after a delivery of the bytes that come next. *)
LEMMA Extends ==
  ASSUME NEW s \in Seq(Nat), Counts(s), NEW t \in Seq(Nat), Continues(s, t)
  PROVE  s \o t \in Seq(Nat) /\ Len(s \o t) = Len(s) + Len(t) /\ Counts(s \o t)
PROOF
<1>1. s \o t \in Seq(Nat) /\ Len(s \o t) = Len(s) + Len(t)
  BY Appended
<1>2. ASSUME NEW k \in 1 .. Len(s) + Len(t) PROVE (s \o t)[k] = k
  <2>1. CASE k <= Len(s)
    <3>1. (s \o t)[k] = s[k] /\ k \in 1 .. Len(s)
      BY <2>1
    <3> QED
      BY <3>1 DEF Counts
  <2>2. CASE k > Len(s)
    <3>1. (s \o t)[k] = t[k - Len(s)] /\ k - Len(s) \in 1 .. Len(t)
      BY <2>2
    <3> QED
      BY <3>1 DEF Continues
  <2> QED
    BY <2>1, <2>2
<1> QED
  BY <1>1, <1>2 DEF Counts

(* Arithmetic that the deliveries need. *)
LEMMA Between ==
  ASSUME NEW a \in Nat, NEW n \in Nat, n > 0, NEW t \in Nat, NEW s \in Nat,
         a + n <= t, t <= s, NEW m, m = a + n
  PROVE  m > a /\ m <= t /\ m <= s
PROOF
  OBVIOUS

(* send takes no more than it is given. *)
LEMMA RoomFits ==
  ASSUME NEW c \in Clients, unread[c] \in Nat, NEW m \in Nat, Room(c, m) > 0
  PROVE  Room(c, m) \in Nat /\ Room(c, m) <= m
PROOF
  BY ForkAssumption DEF Room

(* No client is refused when another state of a connection changes.        *)
LEMMA RefusedStays ==
  ASSUME NEW c \in Clients, conn[c] # "refused", NEW v, v # "refused",
         NEW R, conn \in [Clients -> R], conn' = [conn EXCEPT ![c] = v]
  PROVE  UNCHANGED Refused
PROOF
<1>1. \A d \in Clients : conn'[d] = "refused" <=> conn[d] = "refused"
  OBVIOUS
<1> QED
  BY <1>1 DEF Refused

(* A delivery of bytes that continue what has come back is a step of Echo. *)
LEMMA ReturnStep ==
  ASSUME NEW c \in Clients, c \notin Refused, UNCHANGED Refused, NEW more \in Seq(Nat), Counts(more),
         got[c] \in Seq(Nat), Len(more) > Len(got[c]),
         sent[c] \in Nat, Len(more) <= sent[c],
         got' = [got EXCEPT ![c] = more], UNCHANGED sent
  PROVE  Promise!Return(c)
PROOF
<1>1. more = [k \in 1 .. Len(more) |-> more[k]] /\ Len(more) \in Nat
  OBVIOUS
<1>2. more = [k \in 1 .. Len(more) |-> k]
  BY <1>1 DEF Counts
<1>3. Promise!Bytes(0, Len(more)) = [k \in 1 .. Len(more) |-> k]
  BY <1>1 DEF Promise!Bytes
<1>4. Len(more) \in Len(got[c]) + 1 .. sent[c]
  <2>1. Len(got[c]) \in Nat
    OBVIOUS
  <2> QED
    BY <1>1, <2>1
<1>5. got' = [got EXCEPT ![c] = Promise!Bytes(0, Len(more))]
  BY <1>2, <1>3, Zenon
<1> QED
  BY <1>4, <1>5, Zenon DEF Promise!Return

(* A round of the flush sends the first n bytes of what the slot holds.    *)
LEMMA SendSomeKeeps ==
  ASSUME SelectInv, selectPc = "flush", sock # None, sock \in writeSet,
         sendLength[i] > 0, UNCHANGED <<sent, writeSet>>, Select!SendSome(i)
  PROVE  SelectInv' /\ Promise!Return(socket[i])
PROOF
<1> DEFINE c == socket[i]
           n == Select!Room(c, sendLength[i])
           out == [k \in 1 .. n |-> sendBuffer[i][sendOffset[i] + k]]
           left == sendLength[i] - n
<1>1. /\ err[c] = "no" /\ n > 0
      /\ got' = [got EXCEPT ![c] = @ \o out]
      /\ unread' = [unread EXCEPT ![c] = @ + Len(out)]
      /\ sendLength' = [sendLength EXCEPT ![i] = left]
      /\ sendOffset' = [sendOffset EXCEPT ![i] = IF left = 0 THEN 0 ELSE @ + n]
      /\ UNCHANGED <<conn, taken, err, socket, sendBuffer, selectPc, i, sock>>
  BY DEF Select!SendSome, Select!Delivers
<1>2. i \in 1 .. MAX
  BY DEF SelectInv, SelOwned
<1>3. sendLength[i] \in Nat /\ sendOffset[i] \in Nat
  BY <1>2 DEF SelectInv, SelTyped
<1>4. c # None /\ c \in Clients /\ c = sock
  <2>1. c = None => sendLength[i] = 0
    BY <1>2 DEF SelectInv, SelOwned
  <2>2. c \in Clients \union {None} /\ (sock = c \/ c = None)
    BY <1>2 DEF SelectInv, SelTyped, SelOwned
  <2> QED
    BY <1>3, <2>1, <2>2
<1>5. n \in Nat /\ n <= sendLength[i]
  <2>1. unread[c] \in Nat /\ Window \in Nat
    BY <1>4, ForkAssumption DEF SelectInv, SelTyped
  <2>2. n > 0
    BY <1>1
  <2> QED
    BY <1>3, <2>1, <2>2 DEF Select!Room
<1>6. left \in Nat /\ left = sendLength[i] - n
  BY <1>3, <1>5
<1> HIDE DEF n, left
<1>0. c = socket[i]
  OBVIOUS
<1> HIDE DEF c
<1>7. /\ sendOffset[i] + sendLength[i] <= SendSize
      /\ Len(got[c]) + sendLength[i] = taken[c]
      /\ \A k \in 1 .. sendLength[i] :
           sendBuffer[i][sendOffset[i] + k] = Len(got[c]) + k
  <2>1. Buffered(i)
    BY <1>0, <1>2 DEF SelectInv, SelBytes
  <2> QED
    BY <1>0, <1>1, <1>4, <2>1 DEF Buffered
<1>17. conn[c] = "open"
  BY <1>0, <1>2, <1>4 DEF SelectInv, SelOwned
<1>8. /\ got[c] \in Seq(Nat) /\ Len(got[c]) \in Nat
      /\ Counts(got[c])
      /\ Len(got[c]) <= taken[c] /\ taken[c] <= sent[c]
      /\ taken[c] \in Nat /\ sent[c] \in Nat
  BY <1>0, <1>4, <1>17 DEF SelectInv, SelTyped, SelBytes, Back
<1>9. /\ out \in Seq(Nat) /\ Len(out) = n
      /\ \A k \in 1 .. n : out[k] = Len(got[c]) + k
  <2>1. \A k \in 1 .. n : sendBuffer[i][sendOffset[i] + k] = Len(got[c]) + k
    BY <1>0, <1>3, <1>5, <1>7
  <2>2. \A k \in 1 .. n : out[k] = Len(got[c]) + k /\ out[k] \in Nat
    BY <1>0, <1>5, <1>8, <2>1
  <2>3. out = [k \in 1 .. n |-> out[k]]
    OBVIOUS
  <2> HIDE DEF out
  <2>4. out \in Seq(Nat) /\ Len(out) = n
    BY <1>0, <1>5, <2>2, <2>3
  <2> QED
    BY <2>2, <2>4
<1> HIDE DEF out
<1> DEFINE more == got[c] \o out
<1>10. more \in Seq(Nat) /\ Len(more) = Len(got[c]) + n /\ Counts(more)
  <2>1. Continues(got[c], out)
    BY <1>9 DEF Continues
  <2>2. got[c] \in Seq(Nat) /\ Counts(got[c]) /\ out \in Seq(Nat) /\ Len(out) = n
    BY <1>8, <1>9
  <2> QED
    BY <2>1, <2>2, Extends
<1>15. got' = [got EXCEPT ![c] = more]
  BY <1>1
<1> HIDE DEF more
<1>11. /\ \A d \in Clients : got'[d] = IF d = c THEN more ELSE got[d]
       /\ \A t \in 1 .. MAX : /\ sendLength'[t] = IF t = i THEN left ELSE sendLength[t]
                              /\ sendOffset'[t] = IF t # i THEN sendOffset[t]
                                                ELSE IF left = 0 THEN 0 ELSE sendOffset[i] + n
                              /\ socket[t] = c => t = i
  <2>1. \A d \in Clients : got'[d] = IF d = c THEN more ELSE got[d]
    <3>1. got' = [got EXCEPT ![c] = more] /\ got \in [Clients -> Seq(Nat)]
      BY <1>15 DEF SelectInv, SelTyped
    <3> QED
      BY <3>1, Zenon
  <2>2. \A t \in 1 .. MAX : socket[t] = c => t = i
    BY <1>0, <1>2, <1>4 DEF SelectInv, SelOwned
  <2>3. \A t \in 1 .. MAX : sendLength'[t] = IF t = i THEN left ELSE sendLength[t]
    BY <1>1 DEF SelectInv, SelTyped
  <2>4. \A t \in 1 .. MAX : sendOffset'[t] = IF t # i THEN sendOffset[t]
                                             ELSE IF left = 0 THEN 0 ELSE sendOffset[i] + n
    BY <1>1 DEF SelectInv, SelTyped
  <2> QED
    BY <2>1, <2>2, <2>3, <2>4
<1>12. SelTyped'
  <2>1. got' \in [Clients -> Seq(Nat)]
    BY <1>4, <1>10, <1>15 DEF SelectInv, SelTyped
  <2>3. unread' \in [Clients -> Nat]
    <3>1. unread' = [unread EXCEPT ![c] = @ + n]
      BY <1>1, <1>9
    <3> QED
      BY <1>4, <1>5, <3>1 DEF SelectInv, SelTyped
  <2>2. sendLength' \in [1 .. MAX -> Nat] /\ sendOffset' \in [1 .. MAX -> Nat]
    BY <1>0, <1>1, <1>2, <1>3, <1>5, <1>6 DEF SelectInv, SelTyped
  <2> QED
    BY <1>1, <2>1, <2>2, <2>3 DEF SelectInv, SelTyped
<1>13. SelOwned'
  <2>1. \A t \in 1 .. MAX :
          socket'[t] = None => sendLength'[t] = 0 /\ sendOffset'[t] = 0
    BY <1>0, <1>1, <1>4, <1>11 DEF SelectInv, SelOwned
  <2> QED
    BY <1>0, <1>1, <2>1 DEF SelectInv, SelOwned
<1>14. SelBytes'
  <2>1. ASSUME NEW d \in Clients PROVE Back(d)'
    <3>1. Back(d)
      BY DEF SelectInv, SelBytes
    <3>2. CASE d = c
      <4>1. Len(got[c]) + n <= taken[c]
        BY <1>0, <1>3, <1>5, <1>7, <1>8
      <4>2. got'[d] = more /\ Len(got'[d]) = Len(got[c]) + n
        BY <1>0, <1>10, <1>11, <3>2
      <4> QED
        BY <1>0, <1>1, <1>8, <1>10, <3>2, <4>1, <4>2 DEF Back
    <3>3. CASE d # c
      BY <1>0, <1>1, <1>11, <3>1, <3>3 DEF Back
    <3> QED
      BY <3>2, <3>3
  <2>2. ASSUME NEW t \in 1 .. MAX PROVE Buffered(t)'
    <3>1. CASE t = i
      <4>1. /\ socket'[t] = c /\ got'[c] = more
            /\ Len(got'[c]) = Len(got[c]) + n
            /\ sendLength'[t] = left /\ sendBuffer'[t] = sendBuffer[i]
            /\ sendOffset'[t] = IF left = 0 THEN 0 ELSE sendOffset[i] + n
        BY <1>0, <1>1, <1>4, <1>10, <1>11, <3>1
      <4>2. sendOffset'[t] + sendLength'[t] <= SendSize
        BY <1>0, <1>3, <1>5, <1>6, <1>7, <4>1, SelectAssumption
      <4>3. Len(got'[c]) + sendLength'[t] = taken'[c]
        BY <1>0, <1>1, <1>3, <1>5, <1>6, <1>7, <1>8, <4>1
      <4>4. ASSUME NEW k \in 1 .. left
            PROVE  sendBuffer'[t][sendOffset'[t] + k] = Len(got'[c]) + k
        <5>1. left # 0 /\ n + k \in 1 .. sendLength[i]
          BY <1>0, <1>3, <1>5, <1>6
        <5>2. sendBuffer[i][sendOffset[i] + (n + k)] = Len(got[c]) + (n + k)
          BY <1>0, <1>7, <5>1
        <5>3. sendOffset[i] + (n + k) = sendOffset'[t] + k
          BY <1>0, <1>3, <1>5, <1>6, <4>1, <5>1
        <5>4. Len(got[c]) + (n + k) = Len(got'[c]) + k
          <6>1. Len(got'[c]) = Len(got[c]) + n /\ Len(got[c]) \in Nat /\ n \in Nat /\ k \in Int
            BY <1>5, <1>6, <1>8, <4>1
          <6>2. Len(got[c]) + (n + k) = (Len(got[c]) + n) + k
            <7>1. \A a, b, d \in Int : a + (b + d) = (a + b) + d
              OBVIOUS
            <7>2. Len(got[c]) \in Int /\ n \in Int /\ k \in Int
              BY <6>1
            <7> QED
              BY <7>1, <7>2, Zenon
          <6> QED
            BY <6>1, <6>2, Zenon
        <5> QED
          BY <4>1, <5>2, <5>3, <5>4
      <4>5. sendOffset'[t] > 0 => sendLength'[t] > 0
        BY <1>0, <1>6, <4>1
      <4> QED
        BY <1>0, <1>1, <1>4, <3>1, <4>1, <4>2, <4>3, <4>4, <4>5 DEF Buffered
    <3>2. CASE t # i
      <4>1. Buffered(t)
        BY DEF SelectInv, SelBytes
      <4>2. /\ socket'[t] = socket[t] /\ socket[t] # c
            /\ sendLength'[t] = sendLength[t] /\ sendOffset'[t] = sendOffset[t]
            /\ sendBuffer'[t] = sendBuffer[t] /\ socket[t] \in Clients \union {None}
        BY <1>0, <1>1, <1>11, <3>2 DEF SelectInv, SelTyped
      <4>3. socket[t] # None => got'[socket[t]] = got[socket[t]]
        BY <1>0, <1>11, <4>2
      <4> QED
        BY <1>0, <1>1, <3>2, <4>1, <4>2, <4>3 DEF Buffered
    <3> QED
      BY <3>1, <3>2
  <2> QED
    BY <2>1, <2>2 DEF SelBytes
<1>16. Promise!Return(c)
  <2>1. Len(more) > Len(got[c]) /\ Len(more) <= sent[c]
    <3>1. Len(got[c]) + n <= taken[c]
      BY <1>3, <1>5, <1>7, <1>8
    <3>2. n > 0
      BY <1>1
    <3> QED
      BY <1>5, <1>8, <1>10, <3>1, <3>2, Between
  <2>2. c \notin Refused /\ UNCHANGED Refused
    BY <1>1, <1>17 DEF Refused
  <2> QED
    BY <1>4, <1>8, <1>10, <1>15, <2>1, <2>2, ReturnStep
<1> QED
  BY <1>0, <1>12, <1>13, <1>14, <1>16 DEF SelectInv

(* The second half of a round: nothing to send, some bytes, or an error.   *)
LEMMA FlushKeeps ==
  ASSUME SelectInv, Select!Flush
  PROVE  SelectInv'
PROOF
<1>1. /\ selectPc = "flush" /\ i \in 1 .. MAX
      /\ sock = socket[i] \/ socket[i] = None
      /\ UNCHANGED <<sent, shut, readSet, writeSet>>
  BY DEF Select!Flush, SelectInv, SelOwned
<1>2. CASE /\ sock # None /\ sock \in writeSet /\ sendLength[i] > 0
           /\ Select!SendSome(i)
  BY <1>1, <1>2, SendSomeKeeps
<1>3. CASE /\ ~(sock # None /\ sock \in writeSet /\ sendLength[i] > 0)
           /\ UNCHANGED <<conn, taken, err, got, unread, socket, sendBuffer,
                          sendLength, sendOffset>>
           /\ Select!Starts(i + 1)
  <2>1. /\ i' = i + 1 /\ selectPc' \in {"read", "select"}
        /\ selectPc' = "read" => i + 1 \in 1 .. MAX /\ sock' = socket'[i + 1]
    <3>1. i + 1 \in Nat \ {0}
      BY <1>1
    <3> QED
      BY <1>3, <3>1, StartsAt
  <2>2. SelTyped'
    BY <1>1, <1>3, <2>1 DEF SelectInv, SelTyped
  <2>3. SelOwned'
    BY <1>1, <1>3, <2>1 DEF SelectInv, SelOwned
  <2>4. ASSUME NEW t \in 1 .. MAX PROVE Buffered(t)'
    <3>1. Buffered(t)
      BY DEF SelectInv, SelBytes
    <3>2. socket[t] # None /\ err[socket[t]] = "no" => ~(sendOffset[t] > 0)
      BY <1>1, <1>3, <3>1 DEF Buffered
    <3> QED
      BY <1>1, <1>3, <3>1, <3>2 DEF Buffered
  <2>5. \A c \in Clients : Back(c)'
    BY <1>1, <1>3 DEF SelectInv, SelBytes, Back
  <2> QED
    BY <2>2, <2>3, <2>4, <2>5 DEF SelectInv, SelBytes
<1>4. CASE /\ sock # None /\ sock \in writeSet /\ sendLength[i] > 0
           /\ UNCHANGED <<conn, taken, got, unread, socket, sendBuffer,
                          sendLength, sendOffset>>
           /\ Select!SendFails(i)
  <2> DEFINE c == socket[i]
  <2>1. c \in Clients /\ c # None
    <3>1. c = None => sendLength[i] = 0
      BY <1>1 DEF SelectInv, SelOwned
    <3>2. c \in Clients \union {None}
      BY <1>1 DEF SelectInv, SelTyped
    <3> QED
      BY <1>4, <3>1, <3>2
  <2>2. CASE /\ err[c] = "pending" /\ err' = [err EXCEPT ![c] = "seen"]
             /\ Select!Starts(i + 1)
    <3>1. /\ i' = i + 1 /\ selectPc' \in {"read", "select"}
          /\ selectPc' = "read" => i + 1 \in 1 .. MAX /\ sock' = socket'[i + 1]
      <4>1. i + 1 \in Nat \ {0}
        BY <1>1
      <4> QED
        BY <2>2, <4>1, StartsAt
    <3>2. \A d \in Clients : /\ err'[d] = "no" => err[d] = "no" /\ d # c
      BY <2>1, <2>2 DEF SelectInv, SelTyped
    <3>3. SelTyped'
      BY <1>1, <1>4, <2>1, <2>2, <3>1 DEF SelectInv, SelTyped
    <3>4. SelOwned'
      BY <1>1, <1>4, <3>1 DEF SelectInv, SelOwned
    <3>5. ASSUME NEW t \in 1 .. MAX PROVE Buffered(t)'
      <4>1. Buffered(t) /\ socket[t] \in Clients \union {None}
        BY DEF SelectInv, SelBytes, SelTyped
      <4>2. socket[t] # None /\ err'[socket[t]] = "no"
              => t # i /\ err[socket[t]] = "no" /\ ~(sendOffset[t] > 0)
        BY <1>1, <3>2, <4>1 DEF Buffered
      <4> QED
        BY <1>1, <1>4, <4>1, <4>2 DEF Buffered
    <3>6. \A d \in Clients : Back(d)'
      BY <1>1, <1>4 DEF SelectInv, SelBytes, Back
    <3> QED
      BY <3>3, <3>4, <3>5, <3>6 DEF SelectInv, SelBytes
  <2>3. CASE err[c] = "seen" /\ selectPc' = "killed" /\ UNCHANGED <<err, i, sock>>
    <3>1. SelTyped' /\ SelOwned'
      BY <1>1, <1>4, <2>3 DEF SelectInv, SelTyped, SelOwned
    <3>2. ASSUME NEW t \in 1 .. MAX PROVE Buffered(t)'
      <4>1. Buffered(t) /\ socket[t] \in Clients \union {None}
        BY DEF SelectInv, SelBytes, SelTyped
      <4>2. socket[t] # None /\ err'[socket[t]] = "no" => t # i /\ ~(sendOffset[t] > 0)
        BY <1>1, <2>3, <4>1 DEF Buffered
      <4> QED
        BY <1>1, <1>4, <2>3, <4>1, <4>2 DEF Buffered
    <3>3. \A d \in Clients : Back(d)'
      BY <1>1, <1>4 DEF SelectInv, SelBytes, Back
    <3> QED
      BY <3>1, <3>2, <3>3 DEF SelectInv, SelBytes
  <2> QED
    BY <1>4, <2>2, <2>3 DEF Select!SendFails, Select!SeesError
<1> QED
  BY <1>2, <1>3, <1>4 DEF Select!Flush, Select!table

LEMMA SelectInitHolds == Select!Init => SelectInv
PROOF
  BY SelectAssumption
  DEF Select!Init, Select!NetInit, Select!Slots, SelectInv, SelTyped, SelOwned,
      SelBytes, Back, Buffered, Counts

(* Every step, of the server and of its clients, keeps the invariant.      *)
LEMMA SelectStepKeeps == SelectInv /\ [Select!Next]_Select!vars => SelectInv'
PROOF
<1> SUFFICES ASSUME SelectInv, [Select!Next]_Select!vars PROVE SelectInv'
  OBVIOUS
<1>1. CASE UNCHANGED Select!vars
  <2>1. UNCHANGED <<conn, sent, taken, err, got, unread, socket, sendBuffer,
                    sendLength, sendOffset, selectPc, i, sock, writeSet>>
    BY <1>1 DEF Select!vars, Select!net, Select!table, Select!round
  <2>2. SelTyped' /\ SelOwned'
    BY <2>1 DEF SelectInv, SelTyped, SelOwned
  <2>3. ASSUME NEW t \in 1 .. MAX PROVE Buffered(t)'
    <3>1. Buffered(t)
      BY DEF SelectInv, SelBytes
    <3> QED
      BY <2>1, <3>1 DEF Buffered
  <2>4. \A c \in Clients : Back(c)'
    BY <2>1 DEF SelectInv, SelBytes, Back
  <2> QED
    BY <2>2, <2>3, <2>4 DEF SelectInv, SelBytes
<1> QED
  BY <1>1, SelectKeeps, AcceptKeeps, ReadKeeps, FlushKeeps, SelectClientKeeps
  DEF Select!Next, Select!Server

(* The invariant holds in every behaviour of the server and its clients.   *)
THEOREM SelectInvariant == Select!Spec => []SelectInv
PROOF
  BY SelectInitHolds, SelectStepKeeps, PTL DEF Select!Spec

(* The sets of slots that Cardinality measures. *)
LEMMA SelectOwns == SelectInv => Select!SocketsOwned
PROOF
<1> SUFFICES ASSUME SelectInv PROVE Select!SocketsOwned
  OBVIOUS
<1>1. \A S : Select!Cardinality(S) = Cardinality(S)
  BY Zenon DEF Select!Cardinality, Cardinality
<1>2. ASSUME NEW c \in Clients
      PROVE  conn[c] = "open" <=> Select!Cardinality({s \in Select!Slots : socket[s] = c}) = 1
  <2> DEFINE S == {s \in 1 .. MAX : socket[s] = c}
  <2>1. CASE conn[c] = "open"
    <3>1. PICK s \in 1 .. MAX : socket[s] = c
      BY <2>1 DEF SelectInv, SelOwned
    <3>2. S = {s}
      BY <3>1, SelectAssumption DEF SelectInv, SelOwned
    <3>3. Cardinality(S) = 1
      BY <3>2, FS_Singleton
    <3> QED
      BY <1>1, <2>1, <3>3 DEF Select!Slots
  <2>2. CASE conn[c] # "open"
    <3>1. S = {}
      BY <2>2, SelectAssumption DEF SelectInv, SelOwned
    <3>2. Cardinality(S) = 0
      BY <3>1, FS_EmptySet
    <3> QED
      BY <1>1, <2>2, <3>2 DEF Select!Slots
  <2> QED
    BY <2>1, <2>2
<1>3. \A s \in 1 .. MAX : socket[s] # None => conn[socket[s]] = "open"
  BY DEF SelectInv, SelOwned
<1>4. ASSUME NEW c \in Clients, taken[c] > 0 PROVE conn[c] \in {"open", "closed"}
  <2>1. conn[c] \notin {"new", "queued", "refused"}
    BY <1>4 DEF SelectInv, SelOwned
  <2> QED
    BY <2>1 DEF SelectInv, SelTyped
<1> QED
  BY <1>2, <1>3, <1>4 DEF Select!SocketsOwned, Select!Slots

(* The select server has each open connection in exactly one slot, for any *)
(* number of clients and slots.                                            *)
THEOREM SlotsHoldConnections == Select!Spec => []Select!SocketsOwned
PROOF
  BY SelectInvariant, SelectOwns, PTL

(* A client that is accepted has got nothing yet, so the notice is all     *)
(* that a refused one ever gets.                                           *)
LEMMA AcceptEchoes ==
  ASSUME SelectInv, Select!Accept
  PROVE  [Promise!Next]_<<sent, got, Refused>>
PROOF
<1>1. UNCHANGED sent
  BY DEF Select!Accept
<1>2. CASE UNCHANGED <<conn, got>>
  BY <1>1, <1>2 DEF Refused
<1>3. ASSUME NEW c \in Select!Queued, Select!AddClient(c)
      PROVE  [Promise!Next]_<<sent, got, Refused>>
  <2>1. c \in Clients /\ conn[c] = "queued"
    BY DEF Select!Queued
  <2>2. CASE conn' = [conn EXCEPT ![c] = "open"] /\ UNCHANGED got
    BY <1>1, <2>1, <2>2, RefusedStays DEF SelectInv, SelTyped
  <2>3. CASE Select!Refuse(c)
    <3>1. /\ conn' = [conn EXCEPT ![c] = "refused"]
          /\ UNCHANGED got \/ got' = [got EXCEPT ![c] = @ \o Notice]
      BY <2>3 DEF Select!Refuse, Select!Delivers, Select!Notice, Notice
    <3>2. got[c] = <<>>
      <4>1. got[c] \in Seq(Nat) /\ Len(got[c]) <= 0
        BY <2>1 DEF SelectInv, SelTyped, SelOwned, SelBytes, Back
      <4> QED
        BY <4>1
    <3>3. got[c] \o Notice = Notice
      BY <3>2 DEF Notice
    <3>4. Refused' = Refused \union {c} /\ c \notin Refused
      BY <2>1, <3>1 DEF Refused, SelectInv, SelTyped
    <3>5. Promise!Refuse(c)
      BY <1>1, <3>1, <3>2, <3>3, <3>4 DEF Promise!Refuse
    <3> QED
      BY <2>1, <3>5 DEF Promise!Next
  <2> QED
    BY <1>3, <2>2, <2>3 DEF Select!AddClient
<1> QED
  BY <1>2, <1>3 DEF Select!Accept

(* A client is deleted from its slot, never from the queue. *)
LEMMA ReadEchoes ==
  ASSUME SelectInv, Select!Read
  PROVE  UNCHANGED <<sent, got, Refused>>
PROOF
<1>1. UNCHANGED <<sent, got>> /\ selectPc = "read"
  BY DEF Select!Read
<1>2. UNCHANGED conn \/ (Select!DeleteClient(i) /\ sock # None)
  BY DEF Select!Read, Select!HandleMessage, Select!Store
<1>3. CASE Select!DeleteClient(i) /\ sock # None
  <2>1. i \in 1 .. MAX /\ socket[i] \in Clients /\ conn[socket[i]] = "open"
    BY <1>1, <1>3 DEF SelectInv, SelTyped, SelOwned
  <2>2. conn' = [conn EXCEPT ![socket[i]] = "closed"]
    BY <1>3 DEF Select!DeleteClient, Select!Closes
  <2> QED
    BY <1>1, <2>1, <2>2, RefusedStays DEF SelectInv, SelTyped
<1> QED
  BY <1>1, <1>2, <1>3 DEF Refused

(* What the select server sends is the next part of what it was sent.      *)
LEMMA SelectStepEchoes ==
  ASSUME SelectInv, [Select!Next]_Select!vars
  PROVE  [Promise!Next]_<<sent, got, Refused>>
PROOF
<1>1. CASE UNCHANGED Select!vars
  BY <1>1 DEF Select!vars, Select!net, Refused
<1>2. CASE Select!Select \/ Select!Accept \/ Select!Read
  <2>1. CASE Select!Select
    BY <2>1 DEF Select!Select, Select!net, Refused
  <2> QED
    BY <1>2, <2>1, AcceptEchoes, ReadEchoes
<1>3. CASE Select!Flush
  <2>1. selectPc = "flush" /\ UNCHANGED <<sent, writeSet>>
    BY <1>3 DEF Select!Flush
  <2>2. CASE /\ sock # None /\ sock \in writeSet /\ sendLength[i] > 0
             /\ Select!SendSome(i)
    <3>1. Promise!Return(socket[i])
      BY <2>1, <2>2, SendSomeKeeps
    <3>2. socket[i] \in Clients
      <4>1. i \in 1 .. MAX
        BY <2>1 DEF SelectInv, SelOwned
      <4>2. socket[i] = None => sendLength[i] = 0
        BY <4>1 DEF SelectInv, SelOwned
      <4>3. socket[i] \in Clients \union {None}
        BY <4>1 DEF SelectInv, SelTyped
      <4> QED
        BY <2>2, <4>2, <4>3
    <3> QED
      BY <3>1, <3>2 DEF Promise!Next
  <2>3. CASE UNCHANGED <<conn, got>>
    BY <2>1, <2>3 DEF Refused
  <2> QED
    BY <1>3, <2>2, <2>3 DEF Select!Flush
<1>4. ASSUME NEW c \in Clients, Select!ClientStep(c)
      PROVE  UNCHANGED <<sent, got, Refused>> \/ Promise!Send(c)
  <2>1. CASE Select!Connect(c)
    <3>1. UNCHANGED Refused
      BY <2>1, RefusedStays DEF Select!Connect, SelectInv, SelTyped
    <3> QED
      BY <2>1, <3>1 DEF Select!Connect
  <2>2. CASE Select!Send(c)
    BY <2>2 DEF Select!Send, Promise!Send, Refused
  <2>3. CASE Select!Shutdown(c) \/ Select!Reset(c) \/ Select!Drain(c)
    BY <2>3 DEF Select!Shutdown, Select!Reset, Select!Drain, Refused
  <2> QED
    BY <1>4, <2>1, <2>2, <2>3 DEF Select!ClientStep
<1> QED
  BY <1>1, <1>2, <1>3, <1>4 DEF Select!Next, Select!Server, Promise!Next

(* The select server implements Echo: a client in the table gets back what *)
(* it sent, in order, whatever the sizes of the buffers, although bytes    *)
(* are appended at sendLength and sent from sendOffset on; and one that    *)
(* finds the table full gets nothing but the notice.                       *)
THEOREM SelectEchoes == Select!Spec => ImplementsEcho
PROOF
<1>1. Select!Init => Promise!Init
  BY DEF Select!Init, Select!NetInit, Promise!Init, Refused
<1>2. SelectInv /\ [Select!Next]_Select!vars => [Promise!Next]_<<sent, got, Refused>>
  BY SelectStepEchoes
<1> QED
  BY <1>1, <1>2, SelectInvariant, PTL DEF Select!Spec, ImplementsEcho, Promise!Spec

-----------------------------------------------------------------------------
(* What the children of the fork server send.                              *)

(* The bytes in a child's buffer continue what has come back. *)
Ordered(c) ==
  /\ Counts(got[c]) /\ Len(got[c]) <= taken[c]
  /\ err[c] = "no" => Continues(got[c], buffer[c])

AllOrdered == \A c \in Clients : Ordered(c)

(* A child that sends takes from the front of its buffer. *)
LEMMA TransferOrdered ==
  ASSUME IInv, AllOrdered, NEW c \in Clients, child[c] = "send", Transfer(c),
         UNCHANGED <<sent, taken>>, Refused = {}, UNCHANGED Refused
  PROVE  AllOrdered' /\ Promise!Return(c)
PROOF
<1> DEFINE n == Room(c, Len(buffer[c]))
           out == SubSeq(buffer[c], 1, n)
           rest == SubSeq(buffer[c], n + 1, Len(buffer[c]))
           more == got[c] \o out
<1>1. /\ got[c] \in Seq(Nat) /\ buffer[c] \in Seq(Nat)
      /\ got \in [Clients -> Seq(Nat)] /\ buffer \in [Clients -> Seq(Nat)]
      /\ Len(got[c]) \in Nat /\ Len(buffer[c]) \in Nat
      /\ unread[c] \in Nat /\ taken[c] \in Nat /\ sent[c] \in Nat
  BY DEF IInv, Typed
<1>2. err[c] = "no" /\ n \in Nat /\ n > 0 /\ n <= Len(buffer[c])
  <2>1. err[c] = "no" /\ n > 0
    BY DEF Transfer
  <2> QED
    BY <1>1, <2>1, RoomFits
<1>3. /\ got' = [got EXCEPT ![c] = more]
      /\ buffer' = [buffer EXCEPT ![c] = rest]
      /\ UNCHANGED err
  BY DEF Transfer, Delivers
<1>4. Counts(got[c]) /\ \A k \in 1 .. Len(buffer[c]) : buffer[c][k] = Len(got[c]) + k
  BY <1>2 DEF AllOrdered, Ordered, Continues
<1>5. Len(got[c]) + Len(buffer[c]) = taken[c] /\ taken[c] <= sent[c]
  BY <1>2 DEF IInv, Whole, Accounted
<1> HIDE DEF n
<1>6. /\ out \in Seq(Nat) /\ Len(out) = n
      /\ rest \in Seq(Nat) /\ Len(rest) = Len(buffer[c]) - n
  BY <1>1, <1>2, SplitAt
<1>7. \A k \in 1 .. n : out[k] = buffer[c][k]
  BY <1>1, <1>2
<1>8. \A k \in 1 .. Len(buffer[c]) - n : rest[k] = buffer[c][n + k]
  BY <1>1, <1>2
<1> HIDE DEF out, rest
<1>9. Continues(got[c], out)
  <2> SUFFICES ASSUME NEW k \in 1 .. Len(out) PROVE out[k] = Len(got[c]) + k
    BY DEF Continues
  <2>1. k \in 1 .. n /\ k \in 1 .. Len(buffer[c])
    BY <1>1, <1>2, <1>6
  <2> QED
    BY <1>4, <1>7, <2>1
<1>10. more \in Seq(Nat) /\ Len(more) = Len(got[c]) + n /\ Counts(more)
  BY <1>1, <1>4, <1>6, <1>9, Extends
<1> HIDE DEF more
<1>11. Continues(more, rest)
  <2> SUFFICES ASSUME NEW k \in 1 .. Len(rest) PROVE rest[k] = Len(more) + k
    BY DEF Continues
  <2>1. k \in 1 .. Len(buffer[c]) - n /\ n + k \in 1 .. Len(buffer[c])
    BY <1>1, <1>2, <1>6
  <2>2. rest[k] = Len(got[c]) + (n + k)
    BY <1>4, <1>8, <2>1
  <2>3. \A a, b, d \in Int : a + (b + d) = (a + b) + d
    OBVIOUS
  <2>4. Len(got[c]) \in Int /\ n \in Int /\ k \in Int
    BY <1>1, <1>2
  <2>5. Len(got[c]) + (n + k) = (Len(got[c]) + n) + k
    BY <2>3, <2>4, Zenon
  <2> QED
    BY <1>10, <2>2, <2>5, Zenon
<1>12. Len(more) <= taken[c] /\ Len(more) <= sent[c] /\ Len(more) > Len(got[c])
  <2>1. Len(got[c]) + n <= taken[c]
    BY <1>1, <1>2, <1>5
  <2>2. Len(more) = Len(got[c]) + n
    BY <1>10
  <2> QED
    BY <1>1, <1>2, <1>5, <2>1, <2>2, Between
<1>13. Promise!Return(c)
  BY <1>1, <1>3, <1>10, <1>12, ReturnStep
<1>14. \A d \in Clients : /\ got'[d] = IF d = c THEN more ELSE got[d]
                          /\ buffer'[d] = IF d = c THEN rest ELSE buffer[d]
  BY <1>1, <1>3
<1>15. ASSUME NEW d \in Clients PROVE Ordered(d)'
  <2>1. CASE d = c
    BY <1>10, <1>11, <1>12, <1>14, <2>1 DEF Ordered
  <2>2. CASE d # c
    BY <1>3, <1>14, <2>2 DEF AllOrdered, Ordered
  <2> QED
    BY <2>1, <2>2
<1> QED
  BY <1>13, <1>15 DEF AllOrdered

(* A child that reads leaves what it read where what came back ends. *)
LEMMA RecvOrdered ==
  ASSUME IInv, AllOrdered, NEW c \in Clients, Recv(c)
  PROVE  AllOrdered'
PROOF
<1>1. /\ child[c] = "recv" /\ buffer[c] = <<>> /\ UNCHANGED <<sent, got>>
      /\ err[c] = "no" => Len(got[c]) = taken[c]
  <2>1. child[c] = "recv" /\ UNCHANGED <<sent, got>>
    BY DEF Recv
  <2>2. buffer[c] = <<>> /\ (err[c] = "no" => Len(got[c]) + Len(buffer[c]) = taken[c])
    BY <2>1 DEF IInv, Whole, Accounted
  <2>3. Len(got[c]) \in Nat
    BY DEF IInv, Typed
  <2> QED
    BY <2>1, <2>2, <2>3
<1>2. CASE UNCHANGED <<buffer, taken>> /\ (SeesError(c) \/ UNCHANGED err)
  <2>1. \A d \in Clients : err'[d] = "no" => err[d] = "no"
    BY <1>2 DEF SeesError, IInv, Typed
  <2> QED
    BY <1>1, <1>2, <2>1 DEF AllOrdered, Ordered
<1>3. ASSUME NEW n \in Nat, n > 0,
             buffer' = [buffer EXCEPT ![c] = [k \in 1 .. n |-> taken[c] + k]],
             taken' = [taken EXCEPT ![c] = @ + n], UNCHANGED err
      PROVE  AllOrdered'
  <2> DEFINE b == [k \in 1 .. n |-> taken[c] + k]
  <2>1. Len(b) = n /\ \A k \in 1 .. n : b[k] = taken[c] + k
    OBVIOUS
  <2> HIDE DEF b
  <2>2. \A d \in Clients : /\ buffer'[d] = IF d = c THEN b ELSE buffer[d]
                           /\ taken'[d] = IF d = c THEN taken[c] + n ELSE taken[d]
    BY <1>3 DEF IInv, Typed, b
  <2>3. Len(got[c]) \in Nat /\ taken[c] \in Nat
    BY DEF IInv, Typed
  <2>4. ASSUME NEW d \in Clients PROVE Ordered(d)'
    <3>1. CASE d = c
      <4>1. Counts(got[c]) /\ Len(got[c]) <= taken[c] + n
        BY <1>3, <2>3 DEF AllOrdered, Ordered
      <4>2. err[c] = "no" => Continues(got[c], b)
        BY <1>1, <2>1 DEF Continues
      <4> QED
        BY <1>1, <1>3, <2>2, <3>1, <4>1, <4>2 DEF Ordered
    <3>2. CASE d # c
      BY <1>1, <1>3, <2>2, <3>2 DEF AllOrdered, Ordered
    <3> QED
      BY <3>1, <3>2
  <2> QED
    BY <2>4 DEF AllOrdered
<1> DEFINE m == IF Available(c) < BUFFER_SIZE THEN Available(c) ELSE BUFFER_SIZE
<1>4. m \in Nat
  <2>1. taken[c] <= sent[c] /\ taken[c] \in Nat /\ sent[c] \in Nat
    BY DEF IInv, Typed, Whole, Accounted
  <2> QED
    BY <2>1, ForkAssumption DEF Available
<1>5. \/ /\ m > 0
         /\ buffer' = [buffer EXCEPT ![c] = [k \in 1 .. m |-> taken[c] + k]]
         /\ taken' = [taken EXCEPT ![c] = @ + m]
         /\ UNCHANGED err
      \/ UNCHANGED <<buffer, taken>> /\ (SeesError(c) \/ UNCHANGED err)
  BY DEF Recv
<1> HIDE DEF m
<1> QED
  BY <1>2, <1>3, <1>4, <1>5

(* Every other step leaves what came back and what waits to be sent.       *)
LEMMA ForkStepEchoes ==
  ASSUME IInv, AllOrdered, [Next]_vars
  PROVE  AllOrdered' /\ [Promise!Next]_<<sent, got, Refused>>
PROOF
<1>0. Refused = {} /\ UNCHANGED Refused
  <2>1. IInv => Refused = {}
    BY DEF IInv, Typed, Refused
  <2>2. IInv'
    BY StepKeeps
  <2>3. IInv' => Refused' = {}
    BY DEF IInv, Typed, Refused
  <2> QED
    BY <2>1, <2>2, <2>3
<1>1. ASSUME UNCHANGED <<sent, got>> \/ (\E c \in Clients : Promise!Send(c)),
             UNCHANGED <<got, buffer, taken>>,
             \A c \in Clients : err'[c] = "no" => err[c] = "no"
      PROVE  AllOrdered' /\ [Promise!Next]_<<sent, got, Refused>>
  BY <1>0, <1>1 DEF AllOrdered, Ordered, Promise!Next
<1>2. CASE UNCHANGED vars
  BY <1>1, <1>2 DEF vars, net, procs
<1>3. CASE Main
  BY <1>1, <1>3 DEF Main, Accept, Fork, CloseSocket, Signal, Wait, net
<1>4. ASSUME NEW c \in Clients, Recv(c)
      PROVE  AllOrdered' /\ [Promise!Next]_<<sent, got, Refused>>
  BY <1>0, <1>4, RecvOrdered DEF Recv
<1>5. ASSUME NEW c \in Clients, SendBack(c)
      PROVE  AllOrdered' /\ [Promise!Next]_<<sent, got, Refused>>
  <2>1. child[c] = "send" /\ UNCHANGED <<sent, taken>>
    BY <1>5 DEF SendBack
  <2>2. CASE Transfer(c)
    BY <1>0, <2>1, <2>2, TransferOrdered DEF Promise!Next
  <2>3. CASE TransferFails(c)
    <3>1. /\ buffer' = [buffer EXCEPT ![c] = <<>>] /\ UNCHANGED got
          /\ UNCHANGED err \/ SeesError(c)
      BY <2>3 DEF TransferFails
    <3>2. \A d \in Clients : err'[d] = "no" => err[d] = "no"
      BY <3>1 DEF SeesError, IInv, Typed
    <3>3. \A d \in Clients : buffer'[d] = IF d = c THEN <<>> ELSE buffer[d]
      BY <3>1 DEF IInv, Typed
    <3>4. ASSUME NEW d \in Clients PROVE Ordered(d)'
      <4>1. Continues(got[d], <<>>)
        BY DEF Continues
      <4> QED
        BY <2>1, <3>1, <3>2, <3>3, <4>1 DEF AllOrdered, Ordered
    <3> QED
      BY <1>0, <2>1, <3>1, <3>4 DEF AllOrdered
  <2> QED
    BY <1>5, <2>2, <2>3 DEF SendBack
<1>6. ASSUME NEW c \in Clients, Exit(c)
      PROVE  AllOrdered' /\ [Promise!Next]_<<sent, got, Refused>>
  BY <1>1, <1>6 DEF Exit
<1>7. ASSUME NEW c \in Clients, ClientStep(c), UNCHANGED procs
      PROVE  AllOrdered' /\ [Promise!Next]_<<sent, got, Refused>>
  <2>1. UNCHANGED <<sent, got>> \/ Promise!Send(c)
    BY <1>0, <1>7 DEF ClientStep, Connect, Send, Shutdown, Reset, Drain, Promise!Send
  <2>2. UNCHANGED <<got, buffer, taken>>
    BY <1>7 DEF ClientStep, Connect, Send, Shutdown, Reset, Drain, procs
  <2>3. UNCHANGED err \/ err' = [err EXCEPT ![c] = "pending"]
    BY <1>7 DEF ClientStep, Connect, Send, Shutdown, Reset, Drain
  <2>4. \A d \in Clients : err'[d] = "no" => err[d] = "no"
    BY <2>3 DEF IInv, Typed
  <2> QED
    BY <1>1, <2>1, <2>2, <2>4
<1> QED
  BY <1>2, <1>3, <1>4, <1>5, <1>6, <1>7 DEF Next, ChildOf

LEMMA OrderedAtFirst == Init => AllOrdered /\ Promise!Init
PROOF
  BY DEF Init, NetInit, AllOrdered, Ordered, Counts, Continues, Refused,
      Promise!Init

(* The fork server implements Echo for any buffer size and any window.     *)
THEOREM ForkEchoes == Spec => ImplementsEcho
PROOF
<1>1. Init => IInv /\ AllOrdered /\ Promise!Init
  BY InitHolds, OrderedAtFirst
<1>2. IInv /\ AllOrdered /\ [Next]_vars
        => IInv' /\ AllOrdered' /\ [Promise!Next]_<<sent, got, Refused>>
  BY StepKeeps, ForkStepEchoes
<1> QED
  BY <1>1, <1>2, PTL DEF Spec, ImplementsEcho, Promise!Spec

-----------------------------------------------------------------------------
(* The reverser of reverse.c: it leaves the source tree alone and, if      *)
(* nothing fails, gives every file its mirrored copy.  L stands for the    *)
(* letters of names, B for bytes.                                          *)

Path(L) == Seq(Seq(L))

(* The file system the reverser finds. *)
Fresh(L, B) ==
  /\ root \in dirs /\ Len(root) > 0
  /\ dirs \subseteq Path(L) /\ DOMAIN files \subseteq Path(L)
  /\ files \in [DOMAIN files -> Seq(B)]
  /\ dirs \intersect DOMAIN files = {}
  /\ \A p \in dirs \union DOMAIN files :
       Reverser!Under(root, p) =>
         \A n \in Len(root) .. Len(p) - 1 : SubSeq(p, 1, n) \in dirs
  /\ before = [p \in {q \in DOMAIN files : Reverser!Under(root, q)} |-> files[p]]
  /\ stack = <<>> /\ copy = Reverser!NoCopy /\ reversePc = "start"
  /\ broken = FALSE

FileSystem(L, B) ==
  /\ root \in Path(L) /\ Len(root) > 0
  /\ dirs \subseteq Path(L) /\ DOMAIN files \subseteq Path(L)
  /\ files \in [DOMAIN files -> Seq(B)]
  /\ dirs \intersect DOMAIN files = {}

(* The source tree is what it was. *)
Source0 ==
  /\ \A p \in DOMAIN files : Reverser!Under(root, p) <=> p \in DOMAIN before
  /\ \A p \in DOMAIN before :
       /\ p \in DOMAIN files /\ files[p] = before[p]
       /\ \A n \in Len(root) .. Len(p) - 1 : SubSeq(p, 1, n) \in dirs

InTree(p) == p = root \/ Reverser!Under(root, p)

Activations(L) ==
  [src : {p \in Path(L) : InTree(p)}, dst : Path(L),
   must : SUBSET Seq(L), seen : SUBSET Seq(L)]

Walk(L) ==
  /\ stack \in Seq(Activations(L))
  /\ \A k \in 1 .. Len(stack) : stack[k].dst = Reverser!Mirror(stack[k].src)
  /\ reversePc \in {"start", "scan", "copy", "done", "failed"}
  /\ reversePc \in {"scan", "copy"} => Len(stack) > 0
  /\ reversePc = "done" => Len(stack) = 0

(* What is in the copy of b when so many bytes of it remain. *)
Copied(b, remaining) ==
  IF Len(b) = 2 THEN <<>>
    ELSE Reverser!Reverse(SubSeq(b, remaining + 1, Len(b)))

Copying ==
  reversePc = "copy" =>
    /\ copy.from \in DOMAIN before /\ copy.to = Reverser!Mirror(copy.from)
    /\ copy.to \in DOMAIN files
    /\ copy.remaining \in 0 .. Len(before[copy.from])
    /\ Len(before[copy.from]) = 2 => copy.remaining = 0
    /\ files[copy.to] = Copied(before[copy.from], copy.remaining)
    /\ copy = [from |-> copy.from, to |-> copy.to, remaining |-> copy.remaining]

Waits(p, a) == Reverser!Under(a.src, p) /\ p[Len(a.src) + 1] \in a.must

Mirrored(p) ==
  /\ Reverser!Mirror(p) \in DOMAIN files
  /\ files[Reverser!Mirror(p)] = IF Len(before[p]) = 2 THEN <<>>
       ELSE Reverser!Reverse(before[p])

Todo ==
  ~broken /\ reversePc \in {"scan", "copy", "done"} =>
    \A p \in DOMAIN before :
      \/ Mirrored(p)
      \/ reversePc = "copy" /\ copy.from = p
      \/ \E k \in 1 .. Len(stack) : Waits(p, stack[k])

RInv(L, B) ==
  FileSystem(L, B) /\ Source0 /\ Walk(L) /\ Copying /\ Todo

-----------------------------------------------------------------------------
LEMMA ReverseFacts ==
  ASSUME NEW S, NEW s \in Seq(S)
  PROVE  /\ Reverser!Reverse(s) \in Seq(S) /\ Len(Reverser!Reverse(s)) = Len(s)
         /\ \A k \in 1 .. Len(s) : Reverser!Reverse(s)[k] = s[Len(s) - k + 1]
PROOF
  BY DEF Reverser!Reverse

LEMMA ReverseInjective ==
  ASSUME NEW S, NEW s \in Seq(S), NEW t \in Seq(S),
         Reverser!Reverse(s) = Reverser!Reverse(t)
  PROVE  s = t
PROOF
<1>1. Len(s) = Len(t) /\ Len(s) \in Nat
  BY ReverseFacts
<1>2. ASSUME NEW k \in 1 .. Len(s) PROVE s[k] = t[k]
  <2>1. Len(s) - k + 1 \in 1 .. Len(s) /\ Len(s) - (Len(s) - k + 1) + 1 = k
    BY <1>1
  <2>2. /\ Reverser!Reverse(s)[Len(s) - k + 1] = s[k]
        /\ Reverser!Reverse(t)[Len(s) - k + 1] = t[k]
    BY <1>1, <2>1, ReverseFacts
  <2> QED
    BY <2>2
<1> QED
  BY <1>1, <1>2

(* Sequences are equal if they agree everywhere. *)
LEMMA SameSeq ==
  ASSUME NEW S, NEW s \in Seq(S), NEW t \in Seq(S), Len(s) = Len(t),
         \A k \in 1 .. Len(s) : s[k] = t[k]
  PROVE  s = t
PROOF
  OBVIOUS

LEMMA Joined ==
  ASSUME NEW S, NEW s \in Seq(S), NEW t \in Seq(S)
  PROVE  /\ s \o t \in Seq(S) /\ Len(s \o t) = Len(s) + Len(t)
         /\ \A k \in 1 .. Len(s) + Len(t) :
              (s \o t)[k] = IF k <= Len(s) THEN s[k] ELSE t[k - Len(s)]
PROOF
  OBVIOUS

(* Two pieces, each reversed, the later one first. *)
LEMMA ReverseJoins ==
  ASSUME NEW S, NEW b \in Seq(S), NEW m \in 0 .. Len(b), NEW r \in m .. Len(b)
  PROVE  Reverser!Reverse(SubSeq(b, r + 1, Len(b))) \o Reverser!Reverse(SubSeq(b, m + 1, r))
           = Reverser!Reverse(SubSeq(b, m + 1, Len(b)))
PROOF
<1>1. Len(b) \in Nat /\ m \in Nat /\ r \in Nat /\ m <= r /\ r <= Len(b)
  OBVIOUS
<1>2. ASSUME NEW u \in m .. Len(b), NEW v \in u .. Len(b)
      PROVE  LET z == Reverser!Reverse(SubSeq(b, u + 1, v))
             IN  /\ z \in Seq(S) /\ Len(z) = v - u
                 /\ \A k \in 1 .. v - u : z[k] = b[v - k + 1]
  <2> DEFINE y == SubSeq(b, u + 1, v)
  <2>1. /\ y \in Seq(S) /\ Len(y) = v - u /\ u \in Nat /\ v \in Nat /\ u <= v
        /\ \A k \in 1 .. v - u : y[k] = b[k + u]
    BY <1>1
  <2> HIDE DEF y
  <2>2. /\ Reverser!Reverse(y) \in Seq(S) /\ Len(Reverser!Reverse(y)) = Len(y)
        /\ \A k \in 1 .. Len(y) : Reverser!Reverse(y)[k] = y[Len(y) - k + 1]
    BY <2>1, ReverseFacts, Zenon
  <2>3. ASSUME NEW k \in 1 .. v - u PROVE Reverser!Reverse(y)[k] = b[v - k + 1]
    <3>1. /\ v - u - k + 1 \in 1 .. v - u /\ (v - u - k + 1) + u = v - k + 1
      BY <2>1
    <3>2. Reverser!Reverse(y)[k] = y[v - u - k + 1]
      BY <2>1, <2>2
    <3>3. y[v - u - k + 1] = b[(v - u - k + 1) + u]
      BY <2>1, <3>1
    <3> QED
      BY <3>1, <3>2, <3>3
  <2> QED
    BY <2>1, <2>2, <2>3 DEF y
<1> DEFINE x == Reverser!Reverse(SubSeq(b, r + 1, Len(b)))
           y == Reverser!Reverse(SubSeq(b, m + 1, r))
           z == Reverser!Reverse(SubSeq(b, m + 1, Len(b)))
<1>3. /\ x \in Seq(S) /\ Len(x) = Len(b) - r
      /\ \A k \in 1 .. Len(b) - r : x[k] = b[Len(b) - k + 1]
  <2>1. r \in m .. Len(b) /\ Len(b) \in r .. Len(b)
    BY <1>1
  <2> QED
    BY <2>1, <1>2
<1>4. /\ y \in Seq(S) /\ Len(y) = r - m
      /\ \A k \in 1 .. r - m : y[k] = b[r - k + 1]
  <2>1. m \in m .. Len(b) /\ r \in m .. Len(b)
    BY <1>1
  <2> QED
    BY <2>1, <1>2
<1>5. /\ z \in Seq(S) /\ Len(z) = Len(b) - m
      /\ \A k \in 1 .. Len(b) - m : z[k] = b[Len(b) - k + 1]
  <2>1. m \in m .. Len(b) /\ Len(b) \in m .. Len(b)
    BY <1>1
  <2> QED
    BY <2>1, <1>2
<1> HIDE DEF x, y, z
<1>6. /\ x \o y \in Seq(S) /\ Len(x \o y) = Len(x) + Len(y)
      /\ \A k \in 1 .. Len(x) + Len(y) :
           (x \o y)[k] = IF k <= Len(x) THEN x[k] ELSE y[k - Len(x)]
  BY <1>3, <1>4, Joined, Zenon
<1>7. Len(x) + Len(y) = Len(b) - m
  BY <1>1, <1>3, <1>4
<1>8. ASSUME NEW k \in 1 .. Len(b) - m PROVE (x \o y)[k] = z[k]
  <2>1. CASE k <= Len(b) - r
    BY <1>1, <1>3, <1>5, <1>6, <1>7, <2>1
  <2>2. CASE k > Len(b) - r
    <3>1. /\ k - (Len(b) - r) \in 1 .. r - m /\ ~(k <= Len(b) - r)
          /\ r - (k - (Len(b) - r)) + 1 = Len(b) - k + 1
      BY <1>1, <2>2
    <3>2. (x \o y)[k] = y[k - (Len(b) - r)]
      BY <1>3, <1>6, <1>7, <3>1
    <3>3. y[k - (Len(b) - r)] = b[r - (k - (Len(b) - r)) + 1]
      BY <1>4, <3>1
    <3> QED
      BY <1>5, <3>1, <3>2, <3>3
  <2>3. k <= Len(b) - r \/ k > Len(b) - r
    BY <1>1
  <2> QED
    BY <2>1, <2>2, <2>3, Zenon
<1>9. x \o y = z
  BY <1>5, <1>6, <1>7, <1>8, SameSeq
<1> QED
  BY <1>9 DEF x, y, z

-----------------------------------------------------------------------------
(* One path lies below another if it is longer and agrees with it.         *)
LEMMA UnderFacts ==
  ASSUME NEW S, NEW p \in Seq(S), NEW q \in Seq(S)
  PROVE  Reverser!Under(p, q) <=> /\ Len(q) > Len(p)
                         /\ \A k \in 1 .. Len(p) : q[k] = p[k]
PROOF
<1>1. Len(p) \in Nat /\ Len(q) \in Nat
  OBVIOUS
<1>2. ASSUME Len(q) > Len(p)
      PROVE  /\ SubSeq(q, 1, Len(p)) \in Seq(S)
             /\ Len(SubSeq(q, 1, Len(p))) = Len(p)
             /\ \A k \in 1 .. Len(p) : SubSeq(q, 1, Len(p))[k] = q[k]
  BY <1>1, <1>2
<1>3. ASSUME Len(q) > Len(p), \A k \in 1 .. Len(p) : q[k] = p[k]
      PROVE  SubSeq(q, 1, Len(p)) = p
  BY <1>2, <1>3, SameSeq
<1> QED
  BY <1>2, <1>3 DEF Reverser!Under

LEMMA PrefixFacts ==
  ASSUME NEW S, NEW s \in Seq(S), NEW n \in 0 .. Len(s)
  PROVE  /\ SubSeq(s, 1, n) \in Seq(S) /\ Len(SubSeq(s, 1, n)) = n
         /\ \A k \in 1 .. n : SubSeq(s, 1, n)[k] = s[k]
PROOF
  OBVIOUS

LEMMA MirrorFacts ==
  ASSUME NEW S, root \in Seq(Seq(S)), Len(root) > 0,
         NEW p \in Seq(Seq(S)), Len(p) >= Len(root)
  PROVE  /\ Reverser!Mirror(p) \in Seq(Seq(S))
         /\ Len(Reverser!Mirror(p)) = Len(p)
         /\ \A k \in 1 .. Len(p) :
              Reverser!Mirror(p)[k] = IF k < Len(root) THEN root[k]
                             ELSE IF k = Len(root) THEN Reverser!Reverse(root[k])
                             ELSE Reverser!Reverse(p[k])
PROOF
<1> DEFINE N == Seq(S)
           r == Len(root)
           f == Reverser!Front(root)
           l == <<Reverser!Reverse(Reverser!Last(root))>>
           t == [k \in 1 .. Len(p) - Len(root) |-> Reverser!Reverse(p[Len(root) + k])]
<1>1. r \in Nat /\ r > 0 /\ Len(p) \in Nat /\ Len(p) >= r
  OBVIOUS
<1>2. \A x \in Seq(S) : Reverser!Reverse(x) \in Seq(S)
  BY ReverseFacts, Zenon
<1>3. /\ f \in Seq(N) /\ Len(f) = r - 1
      /\ \A k \in 1 .. r - 1 : f[k] = root[k]
  <2>1. /\ root \in Seq(N) /\ r - 1 \in 0 .. Len(root)
        /\ f = SubSeq(root, 1, r - 1)
    BY <1>1 DEF Reverser!Front
  <2> HIDE DEF f, N, r
  <2> QED
    BY <2>1, PrefixFacts, Zenon
<1>4. root[r] \in N /\ Reverser!Reverse(root[r]) \in N
  BY <1>1, <1>2
<1>5. l \in Seq(N) /\ Len(l) = 1 /\ l[1] = Reverser!Reverse(root[r])
  BY <1>4 DEF Reverser!Last
<1>6. \A k \in 1 .. Len(p) - r : r + k \in 1 .. Len(p)
  BY <1>1
<1>7. \A k \in 1 .. Len(p) - r : Reverser!Reverse(p[r + k]) \in N
  BY <1>2, <1>6
<1>8. /\ t \in Seq(N) /\ Len(t) = Len(p) - r
      /\ \A k \in 1 .. Len(p) - r : t[k] = Reverser!Reverse(p[r + k])
  <2>1. Len(p) - r \in Nat
    BY <1>1
  <2> QED
    BY <1>7, <2>1
<1> HIDE DEF f, l, t, N
<1>9. /\ f \o l \in Seq(N) /\ Len(f \o l) = r
      /\ \A k \in 1 .. r : (f \o l)[k] = IF k < r THEN root[k]
           ELSE Reverser!Reverse(root[r])
  <2>1. /\ f \o l \in Seq(N) /\ Len(f \o l) = Len(f) + Len(l)
        /\ \A k \in 1 .. Len(f) + Len(l) :
             (f \o l)[k] = IF k <= Len(f) THEN f[k] ELSE l[k - Len(f)]
    BY <1>3, <1>5, Joined, Zenon
  <2>2. ASSUME NEW k \in 1 .. r
        PROVE  (f \o l)[k] = IF k < r THEN root[k]
                 ELSE Reverser!Reverse(root[r])
    <3> HIDE DEF r
    <3>0. Len(f) = r - 1 /\ Len(l) = 1
      BY <1>3, <1>5
    <3>1. k \in 1 .. Len(f) + Len(l) /\ (k <= Len(f) <=> k < r)
      BY <1>1, <3>0
    <3>2. k < r => k \in 1 .. r - 1
      BY <1>1
    <3>3. ~(k < r) => k - Len(f) = 1
      BY <1>1, <1>3
    <3> QED
      BY <1>3, <1>5, <2>1, <3>1, <3>2, <3>3
  <2>3. Len(f) + Len(l) = r
    BY <1>1, <1>3, <1>5
  <2> QED
    BY <2>1, <2>2, <2>3
<1>10. /\ (f \o l) \o t \in Seq(N) /\ Len((f \o l) \o t) = Len(p)
       /\ \A k \in 1 .. Len(p) :
            ((f \o l) \o t)[k] = IF k <= r THEN (f \o l)[k] ELSE t[k - r]
  <2>1. /\ (f \o l) \o t \in Seq(N) /\ Len((f \o l) \o t) = Len(f \o l) + Len(t)
        /\ \A k \in 1 .. Len(f \o l) + Len(t) :
             ((f \o l) \o t)[k] =
               IF k <= Len(f \o l) THEN (f \o l)[k] ELSE t[k - Len(f \o l)]
    BY <1>8, <1>9, Joined, Zenon
  <2>2. Len(f \o l) + Len(t) = Len(p)
    BY <1>1, <1>8, <1>9
  <2> QED
    BY <1>9, <2>1, <2>2
<1>11. Reverser!Mirror(p) = (f \o l) \o t
  BY DEF Reverser!Mirror, Reverser!Target, f, l, t
<1>12. ASSUME NEW k \in 1 .. Len(p)
       PROVE  ((f \o l) \o t)[k] = IF k < r THEN root[k]
                                    ELSE IF k = r THEN Reverser!Reverse(root[k])
                                    ELSE Reverser!Reverse(p[k])
  <2> HIDE DEF r
  <2>0. k \in Int /\ 1 <= k /\ k <= Len(p)
    BY <1>1
  <2>1. CASE k <= r
    <3>1. k \in 1 .. r
      BY <1>1, <2>1
    <3>2. ((f \o l) \o t)[k] = IF k < r THEN root[k]
            ELSE Reverser!Reverse(root[r])
      BY <1>9, <1>10, <2>1, <3>1
    <3> QED
      BY <1>1, <2>1, <3>2
  <2>2. CASE k > r
    <3>1. k - r \in 1 .. Len(p) - r /\ r + (k - r) = k /\ ~(k <= r)
      BY <1>1, <2>0, <2>2
    <3>2. ((f \o l) \o t)[k] = Reverser!Reverse(p[r + (k - r)])
      BY <1>8, <1>10, <3>1
    <3>3. ~(k < r) /\ k # r
      BY <1>1, <2>0, <2>2
    <3> QED
      BY <3>1, <3>2, <3>3, Zenon
  <2>3. k <= r \/ k > r
    BY <1>1
  <2> QED
    BY <2>1, <2>2, <2>3, Zenon
<1> QED
  BY <1>10, <1>11, <1>12 DEF N

LEMMA InTreeFacts ==
  ASSUME NEW S, root \in Seq(Seq(S)), NEW p \in Seq(Seq(S)), InTree(p)
  PROVE  /\ Len(root) \in Nat /\ Len(p) \in Nat /\ Len(p) >= Len(root)
         /\ \A k \in 1 .. Len(root) : p[k] = root[k]
PROOF
<1>1. Len(root) \in Nat /\ Len(p) \in Nat
  OBVIOUS
<1>2. Reverser!Under(root, p) =>
        Len(p) > Len(root) /\ \A k \in 1 .. Len(root) : p[k] = root[k]
  BY UnderFacts, Zenon
<1> QED
  BY <1>1, <1>2 DEF InTree

(* Two files of the tree have different copies.                            *)
LEMMA MirrorInjective ==
  ASSUME NEW S, root \in Seq(Seq(S)), Len(root) > 0,
         NEW p \in Seq(Seq(S)), InTree(p), NEW q \in Seq(Seq(S)), InTree(q),
         Reverser!Mirror(p) = Reverser!Mirror(q)
  PROVE  p = q
PROOF
<1> DEFINE r == Len(root)
<1>1. /\ r \in Nat /\ r > 0 /\ Len(p) \in Nat /\ Len(q) \in Nat
      /\ Len(p) >= r /\ Len(q) >= r
      /\ \A k \in 1 .. r : p[k] = root[k] /\ q[k] = root[k]
  BY InTreeFacts
<1>2. /\ Len(Reverser!Mirror(p)) = Len(p)
      /\ \A k \in 1 .. Len(p) : Reverser!Mirror(p)[k] = IF k < r THEN root[k]
                                               ELSE IF k = r THEN Reverser!Reverse(root[k])
                                               ELSE Reverser!Reverse(p[k])
  BY <1>1, MirrorFacts, Zenon
<1>3. /\ Len(Reverser!Mirror(q)) = Len(q)
      /\ \A k \in 1 .. Len(q) : Reverser!Mirror(q)[k] = IF k < r THEN root[k]
                                               ELSE IF k = r THEN Reverser!Reverse(root[k])
                                               ELSE Reverser!Reverse(q[k])
  BY <1>1, MirrorFacts, Zenon
<1>4. Len(p) = Len(q)
  BY <1>2, <1>3
<1> HIDE DEF r
<1>5. ASSUME NEW k \in 1 .. Len(p) PROVE p[k] = q[k]
  <2>1. k <= r \/ k > r
    BY <1>1
  <2>2. CASE k <= r
    <3>1. k \in 1 .. r
      BY <1>1, <2>2
    <3> QED
      BY <1>1, <3>1
  <2>3. CASE k > r
    <3>1. ~(k < r) /\ k # r
      BY <1>1, <2>3
    <3>2. Reverser!Reverse(p[k]) = Reverser!Reverse(q[k])
      BY <1>2, <1>3, <1>4, <3>1
    <3>3. p[k] \in Seq(S) /\ q[k] \in Seq(S)
      BY <1>4
    <3> QED
      BY <3>2, <3>3, ReverseInjective, Zenon
  <2> QED
    BY <2>1, <2>2, <2>3, Zenon
<1> QED
  BY <1>4, <1>5, SameSeq, Zenon

LEMMA TargetIsMirror ==
  ASSUME NEW S, root \in Seq(Seq(S)), Len(root) > 0
  PROVE  /\ Reverser!Mirror(root) = Reverser!Target
         /\ Reverser!Target \in Seq(Seq(S))
PROOF
<1>0. Len(root) \in Nat /\ Len(root) > 0
  OBVIOUS
<1>1. Reverser!Target \in Seq(Seq(S))
  <2>1. Reverser!Reverse(Reverser!Last(root)) \in Seq(S)
    <3>1. Reverser!Last(root) \in Seq(S)
      BY <1>0 DEF Reverser!Last
    <3> QED
      BY <3>1, ReverseFacts, Zenon
  <2>2. Reverser!Front(root) \in Seq(Seq(S))
    <3>1. Len(root) - 1 \in 0 .. Len(root)
      BY <1>0
    <3> QED
      BY <3>1, PrefixFacts, Zenon DEF Reverser!Front
  <2> DEFINE N == Seq(S)
             x == Reverser!Reverse(Reverser!Last(root))
  <2>3. Reverser!Target = Reverser!Front(root) \o <<x>>
    BY DEF Reverser!Target
  <2>4. x \in N /\ Reverser!Front(root) \in Seq(N)
    BY <2>1, <2>2
  <2> HIDE DEF N, x
  <2>5. <<x>> \in Seq(N)
    BY <2>4
  <2>6. Reverser!Target \in Seq(N)
    BY <2>3, <2>4, <2>5, Joined, Zenon
  <2> QED
    BY <2>6 DEF N
<1>2. 1 .. Len(root) - Len(root) = {}
  BY <1>0
<1>3. Reverser!Mirror(root) = Reverser!Target \o <<>>
  BY <1>2 DEF Reverser!Mirror
<1> QED
  BY <1>1, <1>3

(* No copy lands in the source tree.                                       *)
LEMMA MirrorOutside ==
  ASSUME NEW S, root \in Seq(Seq(S)), Len(root) > 0, ~Reverser!Palindrome,
         NEW p \in Seq(Seq(S)), InTree(p)
  PROVE  ~Reverser!Under(root, Reverser!Mirror(p)) /\ Reverser!Mirror(p) # root
PROOF
<1> DEFINE r == Len(root)
<1>1. /\ r \in Nat /\ r > 0 /\ Len(p) \in Nat /\ Len(p) >= r
  BY InTreeFacts
<1>2. /\ Reverser!Mirror(p) \in Seq(Seq(S))
      /\ \A k \in 1 .. Len(p) : Reverser!Mirror(p)[k] = IF k < r THEN root[k]
                                               ELSE IF k = r THEN Reverser!Reverse(root[k])
                                               ELSE Reverser!Reverse(p[k])
  BY <1>1, MirrorFacts, Zenon
<1>3. /\ Reverser!Mirror(root) \in Seq(Seq(S)) /\ Len(Reverser!Mirror(root)) = r
      /\ \A k \in 1 .. r : Reverser!Mirror(root)[k] = IF k < r THEN root[k]
                                             ELSE IF k = r THEN Reverser!Reverse(root[k])
                                             ELSE Reverser!Reverse(root[k])
  <2>1. Len(root) >= Len(root)
    BY <1>1
  <2> QED
    BY <1>1, <2>1, MirrorFacts, Zenon
<1>4. Reverser!Mirror(root) = Reverser!Target
  BY TargetIsMirror, Zenon
<1>5. ASSUME Reverser!Reverse(root[r]) = root[r] PROVE FALSE
  <2>1. \A k \in 1 .. r : Reverser!Mirror(root)[k] = root[k]
    BY <1>1, <1>3, <1>5
  <2>2. Reverser!Mirror(root) = root
    BY <1>3, <2>1, SameSeq
  <2> QED
    BY <1>4, <2>2 DEF Reverser!Palindrome
<1>6. Reverser!Mirror(p)[r] = Reverser!Reverse(root[r])
  <2>1. r \in 1 .. Len(p) /\ ~(r < r)
    BY <1>1
  <2> QED
    BY <1>2, <2>1
<1>7. Reverser!Under(root, Reverser!Mirror(p))
        => Reverser!Mirror(p)[r] = root[r]
  BY <1>1, <1>2, UnderFacts
<1> QED
  BY <1>5, <1>6, <1>7

LEMMA Extended ==
  ASSUME NEW S, NEW s \in Seq(S), NEW x \in S
  PROVE  /\ Append(s, x) \in Seq(S) /\ Len(Append(s, x)) = Len(s) + 1
         /\ \A k \in 1 .. Len(s) : Append(s, x)[k] = s[k]
         /\ Append(s, x)[Len(s) + 1] = x
PROOF
  OBVIOUS

(* The destination of an entry is its mirrored path.                       *)
LEMMA DestFacts ==
  ASSUME NEW S, root \in Seq(Seq(S)), Len(root) > 0,
         NEW src \in Seq(Seq(S)), InTree(src), NEW name \in Seq(S)
  PROVE  /\ Append(src, name) \in Seq(Seq(S))
         /\ InTree(Append(src, name)) /\ Reverser!Under(root, Append(src, name))
         /\ Append(Reverser!Mirror(src), Reverser!Reverse(name))
              = Reverser!Mirror(Append(src, name))
PROOF
<1> DEFINE r == Len(root)
           s == Append(src, name)
           d == Append(Reverser!Mirror(src), Reverser!Reverse(name))
<1>1. /\ r \in Nat /\ r > 0 /\ Len(src) \in Nat /\ Len(src) >= r
      /\ \A k \in 1 .. r : src[k] = root[k]
  BY InTreeFacts
<1>2. /\ s \in Seq(Seq(S)) /\ Len(s) = Len(src) + 1
      /\ \A k \in 1 .. Len(src) : s[k] = src[k]
      /\ s[Len(src) + 1] = name
  BY Extended, Zenon
<1>3. Reverser!Reverse(name) \in Seq(S)
  BY ReverseFacts, Zenon
<1>4. /\ Reverser!Mirror(src) \in Seq(Seq(S))
      /\ Len(Reverser!Mirror(src)) = Len(src)
      /\ \A k \in 1 .. Len(src) :
           Reverser!Mirror(src)[k] = IF k < r THEN root[k]
                                               ELSE IF k = r THEN Reverser!Reverse(root[k])
                                               ELSE Reverser!Reverse(src[k])
  BY <1>1, MirrorFacts, Zenon
<1>5. /\ d \in Seq(Seq(S)) /\ Len(d) = Len(src) + 1
      /\ \A k \in 1 .. Len(src) : d[k] = Reverser!Mirror(src)[k]
      /\ d[Len(src) + 1] = Reverser!Reverse(name)
  <2>1. /\ d \in Seq(Seq(S)) /\ Len(d) = Len(Reverser!Mirror(src)) + 1
        /\ \A k \in 1 .. Len(Reverser!Mirror(src)) :
             d[k] = Reverser!Mirror(src)[k]
        /\ d[Len(Reverser!Mirror(src)) + 1] = Reverser!Reverse(name)
    BY <1>3, <1>4, Extended, Zenon
  <2> QED
    BY <1>4, <2>1, Zenon
<1> HIDE DEF s, d
<1>6. Len(s) >= r
  BY <1>1, <1>2
<1>7. /\ Reverser!Mirror(s) \in Seq(Seq(S)) /\ Len(Reverser!Mirror(s)) = Len(s)
      /\ \A k \in 1 .. Len(s) : Reverser!Mirror(s)[k] = IF k < r THEN root[k]
                                               ELSE IF k = r THEN Reverser!Reverse(root[k])
                                               ELSE Reverser!Reverse(s[k])
  BY <1>1, <1>2, <1>6, MirrorFacts, Zenon
<1> HIDE DEF r
<1>11. r \in Nat /\ r > 0 /\ Len(src) \in Nat /\ Len(src) >= r
  BY <1>1
<1>12. \A k \in 1 .. Len(s) : k = Len(src) + 1 \/ k \in 1 .. Len(src)
  <2> DEFINE n == Len(src)
  <2>1. n \in Nat /\ Len(s) = n + 1
    BY <1>2, <1>11
  <2> HIDE DEF n
  <2>2. \A k \in 1 .. n + 1 : k = n + 1 \/ k \in 1 .. n
    BY <2>1
  <2> QED
    BY <2>1, <2>2, Zenon DEF n
<1>13. ~(Len(src) + 1 < r) /\ Len(src) + 1 # r
  <2> DEFINE n == Len(src)
  <2>1. n \in Nat /\ r \in Nat /\ n >= r
    BY <1>11
  <2> HIDE DEF n
  <2>2. ~(n + 1 < r) /\ n + 1 # r
    BY <2>1
  <2> QED
    BY <2>2, Zenon DEF n
<1>8. ASSUME NEW k \in 1 .. Len(s) PROVE d[k] = Reverser!Mirror(s)[k]
  <2>1. CASE k = Len(src) + 1
    <3>1. ~(k < r) /\ k # r
      BY <1>13, <2>1, Zenon
    <3> QED
      BY <1>2, <1>5, <1>7, <2>1, <3>1
  <2>2. CASE k # Len(src) + 1
    <3>1. k \in 1 .. Len(src)
      BY <1>12, <2>2
    <3> QED
      BY <1>2, <1>4, <1>5, <1>7, <3>1
  <2> QED
    BY <2>1, <2>2
<1>9. d = Reverser!Mirror(s)
  <2>1. /\ Len(d) = Len(Reverser!Mirror(s))
        /\ \A k \in 1 .. Len(d) : d[k] = Reverser!Mirror(s)[k]
    BY <1>2, <1>5, <1>7, <1>8, Zenon
  <2> QED
    BY <1>5, <1>7, <2>1, SameSeq, Zenon
<1>10. Reverser!Under(root, s)
  <2>1. Len(s) > r
    BY <1>1, <1>2
  <2>2. \A k \in 1 .. r : s[k] = root[k]
    BY <1>1, <1>2
  <2> QED
    BY <1>2, <2>1, <2>2, UnderFacts DEF r
<1> QED
  BY <1>2, <1>9, <1>10 DEF InTree, s, d

-----------------------------------------------------------------------------
LEMMA ChildNames ==
  ASSUME NEW L, NEW B, FileSystem(L, B), NEW src \in Seq(Seq(L))
  PROVE  Reverser!Children(src) \subseteq Seq(L)
PROOF
<1> SUFFICES ASSUME NEW q \in dirs \union DOMAIN files, Len(q) = Len(src) + 1
             PROVE  Reverser!Last(q) \in Seq(L)
  BY DEF Reverser!Children
<1>1. q \in Seq(Seq(L))
  BY DEF FileSystem, Path
<1>2. Len(q) \in 1 .. Len(q)
  BY <1>1
<1> QED
  BY <1>1, <1>2 DEF Reverser!Last

(* What readdir must return for a file of the tree: the file, or the       *)
(* directory it lies in.                                                   *)
LEMMA Awaited ==
  ASSUME NEW L, NEW B, FileSystem(L, B), Source0,
         NEW src \in Seq(Seq(L)), InTree(src),
         NEW p \in DOMAIN before, Reverser!Under(src, p)
  PROVE  LET name == p[Len(src) + 1]
         IN  /\ name \in Seq(L) /\ name \in Reverser!Children(src)
             /\ \/ p = Append(src, name)
                \/ Append(src, name) \in dirs /\ Reverser!Under(Append(src, name), p)
PROOF
<1> DEFINE n == Len(src) + 1
           q == SubSeq(p, 1, n)
           a == Append(src, p[n])
<1>0. p \in DOMAIN files
  BY DEF Source0
<1>1. p \in Seq(Seq(L)) /\ root \in Seq(Seq(L))
  BY <1>0 DEF FileSystem, Path
<1>2. Len(p) > Len(src) /\ \A k \in 1 .. Len(src) : p[k] = src[k]
  BY <1>1, UnderFacts
<1>3. /\ Len(root) \in Nat /\ Len(src) \in Nat /\ Len(p) \in Nat
      /\ Len(src) >= Len(root)
  BY <1>1, InTreeFacts
<1>4. n \in 1 .. Len(p) /\ n \in 0 .. Len(p) /\ n > Len(src)
  BY <1>2, <1>3
<1>5. p[n] \in Seq(L)
  BY <1>1, <1>4
<1>6. /\ a \in Seq(Seq(L)) /\ Len(a) = n
      /\ \A k \in 1 .. Len(src) : a[k] = src[k]
      /\ a[n] = p[n]
  BY <1>5, Extended, Zenon
<1>7. q \in Seq(Seq(L)) /\ Len(q) = n /\ \A k \in 1 .. n : q[k] = p[k]
  BY <1>1, <1>4, PrefixFacts, Zenon
<1>8. \A k \in 1 .. n : k = n \/ k \in 1 .. Len(src)
  <2> DEFINE m == Len(src)
  <2>1. m \in Nat
    BY <1>3
  <2> HIDE DEF m
  <2>2. \A k \in 1 .. m + 1 : k = m + 1 \/ k \in 1 .. m
    BY <2>1
  <2> QED
    BY <2>2, Zenon DEF m
<1> HIDE DEF a, q, n
<1>9. \A k \in 1 .. n : a[k] = p[k] /\ a[k] = q[k]
  BY <1>2, <1>6, <1>7, <1>8, Zenon
<1>10. a = q
  BY <1>6, <1>7, <1>9, SameSeq, Zenon
<1>11. Reverser!Under(src, a)
  BY <1>4, <1>6, UnderFacts, Zenon
<1>12. CASE Len(p) = n
  <2>1. p = a
    BY <1>1, <1>6, <1>9, <1>12, SameSeq, Zenon
  <2>2. a \in dirs \union DOMAIN files /\ Reverser!Last(a) = p[n]
    BY <1>0, <1>6, <2>1 DEF Reverser!Last
  <2>3. p[n] \in Reverser!Children(src)
    BY <1>6, <1>11, <2>2 DEF Reverser!Children, n
  <2> QED
    BY <1>5, <2>1, <2>3 DEF a, n
<1>13. CASE Len(p) # n
  <2>1. n \in Len(root) .. Len(p) - 1 /\ Len(p) > n
    BY <1>3, <1>4, <1>13
  <2>2. a \in dirs
    BY <1>10, <2>1 DEF Source0, q
  <2>3. Reverser!Last(a) = p[n]
    BY <1>6 DEF Reverser!Last
  <2>4. p[n] \in Reverser!Children(src)
    BY <1>6, <1>11, <2>2, <2>3 DEF Reverser!Children, n
  <2>5. Reverser!Under(a, p)
    <3>1. \A k \in 1 .. Len(a) : p[k] = a[k]
      BY <1>6, <1>9
    <3>2. Len(p) > Len(a)
      BY <1>6, <2>1
    <3> QED
      BY <1>1, <1>6, <3>1, <3>2, UnderFacts, Zenon
  <2> QED
    BY <1>5, <2>2, <2>4, <2>5 DEF a, n
<1> QED
  BY <1>12, <1>13

LEMMA TopFacts ==
  ASSUME NEW L, Walk(L), Len(stack) > 0
  PROVE  /\ Reverser!Top = stack[1] /\ Reverser!Top \in Activations(L)
         /\ Reverser!Top.src \in Seq(Seq(L)) /\ InTree(Reverser!Top.src)
         /\ Reverser!Top.dst = Reverser!Mirror(Reverser!Top.src)
         /\ Reverser!Top.must \in SUBSET Seq(L)
         /\ Reverser!Top.seen \in SUBSET Seq(L)
         /\ Tail(stack) \in Seq(Activations(L))
         /\ Len(Tail(stack)) = Len(stack) - 1
         /\ \A k \in 1 .. Len(stack) - 1 : Tail(stack)[k] = stack[k + 1]
PROOF
<1> DEFINE A == Activations(L)
<1>1. stack \in Seq(A) /\ Len(stack) \in Nat /\ stack # <<>>
  BY DEF Walk
<1> HIDE DEF A
<1>2. /\ Head(stack) = stack[1] /\ Head(stack) \in A
      /\ Tail(stack) \in Seq(A) /\ Len(Tail(stack)) = Len(stack) - 1
      /\ \A k \in 1 .. Len(stack) - 1 : Tail(stack)[k] = stack[k + 1]
  BY <1>1
<1>3. 1 \in 1 .. Len(stack)
  BY <1>1
<1>4. stack[1].dst = Reverser!Mirror(stack[1].src)
  BY <1>3 DEF Walk
<1> QED
  BY <1>2, <1>4 DEF A, Activations, Path, Reverser!Top

(* The activation on top after an entry, and those below it.               *)
LEMMA ReturnedFacts ==
  ASSUME NEW L, Walk(L), Len(stack) > 0, NEW name \in Seq(L)
  PROVE  LET R == Reverser!Returned(name)
         IN  /\ R \in Seq(Activations(L)) /\ Len(R) = Len(stack)
             /\ \A k \in 1 .. Len(stack) :
                  /\ R[k].src = stack[k].src /\ R[k].dst = stack[k].dst
                  /\ R[k].must = IF k = 1 THEN Reverser!Top.must \ {name}
                       ELSE stack[k].must
PROOF
<1> DEFINE A == Activations(L)
           t == [Reverser!Top EXCEPT !.must = @ \ {name}, !.seen = @ \union {name}]
           R == Reverser!Returned(name)
<1>1. /\ Reverser!Top = stack[1] /\ Reverser!Top \in A
      /\ Tail(stack) \in Seq(A) /\ Len(Tail(stack)) = Len(stack) - 1
      /\ \A k \in 1 .. Len(stack) - 1 : Tail(stack)[k] = stack[k + 1]
  BY TopFacts, Zenon
<1>2. /\ t \in A /\ t.src = Reverser!Top.src /\ t.dst = Reverser!Top.dst
      /\ t.must = Reverser!Top.must \ {name}
  BY <1>1 DEF Activations
<1>3. R = <<t>> \o Tail(stack)
  BY DEF Reverser!Returned
<1>4. Len(stack) \in Nat
  BY DEF Walk
<1> HIDE DEF A, t, R
<1>5. <<t>> \in Seq(A) /\ Len(<<t>>) = 1 /\ <<t>>[1] = t
  BY <1>2
<1>6. /\ R \in Seq(A) /\ Len(R) = 1 + Len(Tail(stack))
      /\ \A k \in 1 .. 1 + Len(Tail(stack)) :
           R[k] = IF k <= 1 THEN <<t>>[k] ELSE Tail(stack)[k - 1]
  <2> DEFINE h == <<t>>
             u == Tail(stack)
  <2>1. h \in Seq(A) /\ u \in Seq(A) /\ Len(h) = 1 /\ R = h \o u
    BY <1>1, <1>3, <1>5
  <2> HIDE DEF h, u
  <2>2. /\ h \o u \in Seq(A) /\ Len(h \o u) = Len(h) + Len(u)
        /\ \A k \in 1 .. Len(h) + Len(u) :
             (h \o u)[k] = IF k <= Len(h) THEN h[k] ELSE u[k - Len(h)]
    BY <2>1, Joined, Zenon
  <2>3. /\ R \in Seq(A) /\ Len(R) = 1 + Len(u)
        /\ \A k \in 1 .. 1 + Len(u) : R[k] = IF k <= 1 THEN h[k] ELSE u[k - 1]
    BY <2>1, <2>2
  <2> QED
    BY <2>3 DEF h, u
<1>7. Len(R) = Len(stack)
  BY <1>1, <1>4, <1>6
<1>8. ASSUME NEW k \in 1 .. Len(stack)
      PROVE  R[k] = IF k = 1 THEN t ELSE stack[k]
  <2>1. k \in 1 .. 1 + Len(Tail(stack))
    BY <1>6, <1>7
  <2>2. CASE k = 1
    BY <1>5, <1>6, <2>1, <2>2
  <2>3. CASE k # 1
    <3>1. ~(k <= 1) /\ k - 1 \in 1 .. Len(stack) - 1 /\ (k - 1) + 1 = k
      BY <1>4, <2>3
    <3> QED
      BY <1>1, <1>6, <2>1, <2>3, <3>1
  <2> QED
    BY <2>2, <2>3
<1> QED
  BY <1>1, <1>2, <1>6, <1>7, <1>8 DEF A, R

LEMMA EntryFacts ==
  ASSUME NEW L, NEW B, FileSystem(L, B), Walk(L), ~Reverser!Palindrome,
         NEW name, Reverser!Entry(name)
  PROVE  /\ name \in Seq(L) /\ Len(stack) > 0
         /\ Reverser!Source(name) \in Seq(Seq(L))
         /\ InTree(Reverser!Source(name))
         /\ Reverser!Under(root, Reverser!Source(name))
         /\ Reverser!Dest(name) = Reverser!Mirror(Reverser!Source(name))
         /\ Reverser!Dest(name) \in Seq(Seq(L))
         /\ ~Reverser!Under(root, Reverser!Dest(name))
PROOF
<1>1. Len(stack) > 0
  BY DEF Reverser!Entry, Walk
<1>2. /\ Reverser!Top.src \in Seq(Seq(L)) /\ InTree(Reverser!Top.src)
      /\ Reverser!Top.dst = Reverser!Mirror(Reverser!Top.src)
      /\ Reverser!Top.must \in SUBSET Seq(L)
  BY <1>1, TopFacts, Zenon
<1>3. name \in Seq(L)
  BY <1>2, ChildNames DEF Reverser!Entry
<1>4. root \in Seq(Seq(L)) /\ Len(root) > 0
  BY DEF FileSystem, Path
<1>5. /\ Reverser!Source(name) \in Seq(Seq(L)) /\ InTree(Reverser!Source(name))
      /\ Reverser!Under(root, Reverser!Source(name))
      /\ Reverser!Dest(name) = Reverser!Mirror(Reverser!Source(name))
  BY <1>2, <1>3, <1>4, DestFacts, Zenon DEF Reverser!Source, Reverser!Dest
<1>6. Len(Reverser!Source(name)) >= Len(root)
  BY <1>4, <1>5, InTreeFacts
<1>7. Reverser!Mirror(Reverser!Source(name)) \in Seq(Seq(L))
  BY <1>4, <1>5, <1>6, MirrorFacts, Zenon
<1>8. ~Reverser!Under(root, Reverser!Mirror(Reverser!Source(name)))
  BY <1>4, <1>5, MirrorOutside, Zenon
<1> QED
  BY <1>1, <1>3, <1>5, <1>7, <1>8

-----------------------------------------------------------------------------
LEMMA RootStays ==
  ASSUME root' = root
  PROVE  /\ \A p : /\ Reverser!Mirror(p)' = Reverser!Mirror(p)
                    /\ InTree(p)' = InTree(p)
         /\ \A L : Activations(L)' = Activations(L)
         /\ Reverser!Palindrome' = Reverser!Palindrome
PROOF
<1>1. Reverser!Target' = Reverser!Target
  BY DEF Reverser!Target
<1>2. \A p : Reverser!Mirror(p)' = Reverser!Mirror(p)
  BY <1>1 DEF Reverser!Mirror
<1>3. \A p : InTree(p)' = InTree(p)
  BY DEF InTree
<1>4. \A L : Activations(L)' = Activations(L)
  BY <1>3 DEF Activations
<1> QED
  BY <1>1, <1>2, <1>3, <1>4 DEF Reverser!Palindrome

(* mkdir touches no file. *)
LEMMA DirsGrow ==
  ASSUME NEW L, NEW B, FileSystem(L, B), Source0,
         NEW d \in Seq(Seq(L)), UNCHANGED <<files, root, before>>,
         UNCHANGED dirs \/ Reverser!CreateReverseDir(d)
  PROVE  FileSystem(L, B)' /\ Source0'
PROOF
<1>1. dirs \subseteq dirs' /\ dirs' \subseteq Seq(Seq(L))
      /\ dirs' \intersect DOMAIN files = {}
  BY DEF Reverser!CreateReverseDir, FileSystem, Path
<1>2. FileSystem(L, B)'
  BY <1>1 DEF FileSystem, Path
<1>3. Source0'
  BY <1>1 DEF Source0
<1> QED
  BY <1>2, <1>3

LEMMA WalkMoves ==
  ASSUME NEW L, root' = root, NEW st \in Seq(Activations(L)), stack' = st,
         \A k \in 1 .. Len(st) : st[k].dst = Reverser!Mirror(st[k].src),
         reversePc' \in {"start", "scan", "copy", "done", "failed"},
         reversePc' \in {"scan", "copy"} => Len(st) > 0,
         reversePc' = "done" => Len(st) = 0
  PROVE  Walk(L)'
PROOF
<1>1. /\ Activations(L)' = Activations(L)
      /\ \A p : Reverser!Mirror(p)' = Reverser!Mirror(p)
  BY RootStays, Zenon
<1>2. \A k \in 1 .. Len(st) : st[k].dst = Reverser!Mirror(st[k].src)'
  BY <1>1
<1> QED
  BY <1>1, <1>2, Zenon DEF Walk

(* An entry that is returned leaves the other entries waiting.             *)
LEMMA StillWaits ==
  ASSUME NEW L, Walk(L), Len(stack) > 0, NEW name \in Seq(L),
         NEW p, NEW k \in 1 .. Len(stack), Waits(p, stack[k])
  PROVE  \/ Waits(p, Reverser!Returned(name)[k])
         \/ Reverser!Under(Reverser!Top.src, p) /\ p[Len(Reverser!Top.src) + 1] = name
PROOF
<1> DEFINE R == Reverser!Returned(name)
<1>1. /\ R[k].src = stack[k].src
      /\ R[k].must = IF k = 1 THEN Reverser!Top.must \ {name} ELSE stack[k].must
  BY ReturnedFacts, Zenon
<1>2. Reverser!Top = stack[1]
  BY TopFacts, Zenon
<1> QED
  BY <1>1, <1>2 DEF Waits

LEMMA ReturnedWalks ==
  ASSUME NEW L, Walk(L), Len(stack) > 0, NEW name \in Seq(L),
         root' = root, stack' = Reverser!Returned(name),
         reversePc' \in {"scan", "copy"}
  PROVE  Walk(L)'
PROOF
<1> DEFINE R == Reverser!Returned(name)
<1>1. /\ R \in Seq(Activations(L)) /\ Len(R) = Len(stack)
      /\ \A k \in 1 .. Len(stack) :
           R[k].src = stack[k].src /\ R[k].dst = stack[k].dst
  BY ReturnedFacts, Zenon
<1>2. \A k \in 1 .. Len(stack) : stack[k].dst = Reverser!Mirror(stack[k].src)
  BY DEF Walk
<1>3. \A k \in 1 .. Len(R) : R[k].dst = Reverser!Mirror(R[k].src)
  BY <1>1, <1>2, Zenon
<1> HIDE DEF R
<1>4. stack' = R
  BY DEF R
<1>5. /\ Len(R) > 0 /\ reversePc' \in {"scan", "copy", "done", "failed"}
      /\ reversePc' # "done"
  BY <1>1
<1> QED
  BY <1>1, <1>3, <1>4, <1>5, WalkMoves, Zenon

LEMMA StartKeeps ==
  ASSUME NEW L, NEW B, RInv(L, B), ~Reverser!Palindrome, Reverser!Start
  PROVE  RInv(L, B)'
PROOF
<1> DEFINE A == Activations(L)
           a == Reverser!Activation(root, Reverser!Target)
<1>1. UNCHANGED <<files, root, copy, before>> /\ reversePc = "start"
  BY DEF Reverser!Start
<1>2. root \in Seq(Seq(L)) /\ Len(root) > 0 /\ Len(root) \in Nat
  BY DEF RInv, FileSystem, Path
<1>3. Reverser!Target \in Seq(Seq(L)) /\ Reverser!Mirror(root) = Reverser!Target
  BY <1>2, TargetIsMirror, Zenon
<1>4. FileSystem(L, B)' /\ Source0'
  <2>1. UNCHANGED dirs \/ Reverser!CreateReverseDir(Reverser!Target)
    BY DEF Reverser!Start
  <2> QED
    BY <1>1, <1>3, <2>1, DirsGrow DEF RInv
<1>5. CASE /\ stack' = <<a>> /\ reversePc' = "scan" /\ UNCHANGED broken
  <2>1. Reverser!Children(root) \in SUBSET Seq(L)
    BY <1>2, ChildNames DEF RInv
  <2>2. /\ a \in A /\ a.src = root /\ a.dst = Reverser!Mirror(root)
        /\ a.must = Reverser!Children(root)
    BY <1>2, <1>3, <2>1 DEF Reverser!Activation, Activations, Path, InTree
  <2> HIDE DEF a, A
  <2>3. <<a>> \in Seq(A) /\ Len(<<a>>) = 1 /\ <<a>>[1] = a
    BY <2>2
  <2>4. \A k \in 1 .. Len(<<a>>) : <<a>>[k].dst = Reverser!Mirror(<<a>>[k].src)
    BY <2>2, <2>3
  <2>5. Walk(L)'
    <3> DEFINE st == <<a>>
    <3>1. st \in Seq(Activations(L)) /\ Len(st) > 0
      BY <2>3 DEF A
    <3>2. /\ reversePc' \in {"scan", "copy", "done", "failed"}
          /\ reversePc' # "done"
          /\ stack' = st /\ root' = root
      BY <1>1, <1>5
    <3>3. \A k \in 1 .. Len(st) : st[k].dst = Reverser!Mirror(st[k].src)
      BY <2>4
    <3> HIDE DEF st
    <3> QED
      BY <3>1, <3>2, <3>3, WalkMoves, Zenon
  <2>6. Todo'
    <3>1. ASSUME NEW p \in DOMAIN before PROVE Waits(p, a)
      <4>1. Reverser!Under(root, p)
        BY DEF RInv, Source0
      <4>2. p[Len(root) + 1] \in Reverser!Children(root)
        <5>1. InTree(root)
          BY DEF InTree
        <5> QED
          BY <1>2, <4>1, <5>1, Awaited DEF RInv
      <4> QED
        BY <2>2, <4>1, <4>2 DEF Waits
    <3>2. 1 \in 1 .. Len(<<a>>)
      BY <2>3
    <3>3. \A p \in DOMAIN before :
            \E k \in 1 .. Len(stack') : Waits(p, stack'[k])
      BY <1>5, <2>3, <3>1, <3>2
    <3> QED
      BY <1>1, <3>3 DEF Todo
  <2> QED
    BY <1>4, <1>5, <2>5, <2>6 DEF RInv, Copying
<1>6. CASE reversePc' = "failed" /\ UNCHANGED stack
  <2>1. Walk(L)'
    <3>1. /\ stack \in Seq(A)
          /\ \A k \in 1 .. Len(stack) :
               stack[k].dst = Reverser!Mirror(stack[k].src)
      BY DEF RInv, Walk
    <3> QED
      BY <1>1, <1>6, <3>1, WalkMoves
  <2> QED
    BY <1>4, <1>6, <2>1 DEF RInv, Copying, Todo
<1> QED
  BY <1>5, <1>6 DEF Reverser!Start

LEMMA SkipKeeps ==
  ASSUME NEW L, NEW B, RInv(L, B), ~Reverser!Palindrome, NEW name,
         Reverser!Skip(name)
  PROVE  RInv(L, B)'
PROOF
<1> DEFINE R == Reverser!Returned(name)
<1>1. /\ UNCHANGED <<files, root, copy, reversePc, before>>
      /\ reversePc = "scan"
      /\ broken' = TRUE /\ stack' = R
  BY DEF Reverser!Skip, Reverser!Fails, Reverser!Entry
<1>2. name \in Seq(L) /\ Len(stack) > 0 /\ Reverser!Dest(name) \in Seq(Seq(L))
  BY EntryFacts DEF Reverser!Skip, RInv
<1>3. FileSystem(L, B)' /\ Source0'
  <2>1. UNCHANGED dirs \/ Reverser!CreateReverseDir(Reverser!Dest(name))
    BY DEF Reverser!Skip
  <2> QED
    BY <1>1, <1>2, <2>1, DirsGrow DEF RInv
<1>4. Walk(L)'
  BY <1>1, <1>2, ReturnedWalks DEF RInv
<1> QED
  BY <1>1, <1>3, <1>4 DEF RInv, Copying, Todo

LEMMA OpenFileKeeps ==
  ASSUME NEW L, NEW B, RInv(L, B), ~Reverser!Palindrome, NEW name,
         Reverser!OpenFile(name)
  PROVE  RInv(L, B)'
PROOF
<1> DEFINE R == Reverser!Returned(name)
           s == Reverser!Source(name)
           d == Reverser!Dest(name)
<1>1. /\ UNCHANGED <<dirs, root, broken, before>> /\ reversePc = "scan"
      /\ reversePc' = "copy"
      /\ stack' = R /\ s \in DOMAIN files /\ d \notin dirs
  BY DEF Reverser!OpenFile, Reverser!Entry
<1>2. /\ name \in Seq(L) /\ Len(stack) > 0 /\ d = Reverser!Mirror(s)
      /\ d \in Seq(Seq(L))
      /\ s \in Seq(Seq(L)) /\ InTree(s) /\ Reverser!Under(root, s)
      /\ ~Reverser!Under(root, d)
  BY EntryFacts DEF Reverser!OpenFile, RInv
<1>3. Walk(L)'
  BY <1>1, <1>2, ReturnedWalks DEF RInv
<1>4. \A p \in DOMAIN before :
        p \in Seq(Seq(L)) /\ InTree(p) /\ Reverser!Under(root, p) /\ p \in DOMAIN files
  BY DEF RInv, Source0, FileSystem, Path, InTree
<1>5. s \in DOMAIN before /\ s # d
  BY <1>1, <1>2 DEF RInv, Source0
<1>6. /\ DOMAIN files' = DOMAIN files \union {d}
      /\ \A p \in DOMAIN files' : files'[p] = IF p = d THEN <<>> ELSE files[p]
      /\ files' = [p \in DOMAIN files' |-> files'[p]]
      /\ copy' = [from |-> s, to |-> d,
                  remaining |-> IF Len(files'[s]) = 2 THEN 0
                    ELSE Len(files'[s])]
  BY DEF Reverser!OpenFile
<1> HIDE DEF R, s, d
<1>7. FileSystem(L, B)'
  <2>1. files \in [DOMAIN files -> Seq(B)] /\ <<>> \in Seq(B)
    BY DEF RInv, FileSystem
  <2>2. \A p \in DOMAIN files' : files'[p] \in Seq(B)
    BY <1>6, <2>1
  <2>3. files' \in [DOMAIN files' -> Seq(B)]
    BY <1>6, <2>2
  <2>4. /\ DOMAIN files' \subseteq Seq(Seq(L))
        /\ dirs' \intersect DOMAIN files' = {}
    BY <1>1, <1>2, <1>6 DEF RInv, FileSystem, Path
  <2> QED
    BY <1>1, <2>3, <2>4 DEF RInv, FileSystem, Path
<1>8. Source0'
  <2>1. \A p \in DOMAIN files' : Reverser!Under(root, p) <=> p \in DOMAIN before
    BY <1>2, <1>4, <1>6 DEF RInv, Source0
  <2>2. \A p \in DOMAIN before : p \in DOMAIN files' /\ files'[p] = before[p]
    BY <1>2, <1>4, <1>6 DEF RInv, Source0
  <2> QED
    BY <1>1, <2>1, <2>2 DEF RInv, Source0
<1>9. \A p : Reverser!Mirror(p)' = Reverser!Mirror(p)
  BY <1>1, RootStays, Zenon
<1>10. Copying'
  <2> DEFINE b == before[s]
  <2>1. files'[s] = b /\ b \in Seq(B)
    BY <1>4, <1>5, <1>6 DEF RInv, Source0, FileSystem
  <2> HIDE DEF b
  <2>2. /\ copy'.from = s /\ copy'.to = d
        /\ copy'.remaining = IF Len(b) = 2 THEN 0 ELSE Len(b)
        /\ copy' = [from |-> copy'.from, to |-> copy'.to, remaining |-> copy'.remaining]
    BY <1>6, <2>1
  <2>3. Len(b) \in Nat
    BY <2>1
  <2>4. copy'.remaining \in 0 .. Len(b) /\ (Len(b) = 2 => copy'.remaining = 0)
    BY <2>2, <2>3
  <2>5. Len(b) # 2 => Copied(b, copy'.remaining) = <<>>
    <3>1. SubSeq(b, Len(b) + 1, Len(b)) = <<>>
      BY <2>1
    <3>2. Reverser!Reverse(<<>>) = <<>>
      BY DEF Reverser!Reverse
    <3> QED
      BY <2>2, <3>1, <3>2 DEF Copied
  <2>6. files'[d] = Copied(b, copy'.remaining) /\ d \in DOMAIN files'
    BY <1>6, <2>5 DEF Copied
  <2>7. (copy.to = Reverser!Mirror(copy.from))'
    <3>1. Reverser!Mirror(copy.from)' = Reverser!Mirror(copy'.from)
      BY <1>1 DEF Reverser!Mirror, Reverser!Target
    <3> QED
      BY <1>2, <2>2, <3>1
  <2> QED
    BY <1>1, <1>5, <2>2, <2>4, <2>6, <2>7 DEF Copying, b
<1>11. Todo'
  <2> SUFFICES ASSUME ~broken, NEW p \in DOMAIN before
               PROVE  \/ Mirrored(p)'
                      \/ copy'.from = p
                      \/ \E k \in 1 .. Len(R) : Waits(p, R[k])
    BY <1>1 DEF Todo
  <2>1. Mirrored(p) \/ \E k \in 1 .. Len(stack) : Waits(p, stack[k])
    BY <1>1 DEF RInv, Todo
  <2>2. copy'.from = s
    BY <1>6
  <2>3. CASE Mirrored(p) /\ p # s
    <3>1. Reverser!Mirror(p) # d
      <4>1. root \in Seq(Seq(L)) /\ Len(root) > 0
        BY DEF RInv, FileSystem, Path
      <4> QED
        BY <1>2, <1>4, <2>3, <4>1, MirrorInjective
    <3>2. /\ Reverser!Mirror(p) \in DOMAIN files'
          /\ files'[Reverser!Mirror(p)] = files[Reverser!Mirror(p)]
      BY <1>6, <2>3, <3>1 DEF Mirrored
    <3> QED
      BY <1>1, <1>9, <2>3, <3>2 DEF Mirrored
  <2>4. ASSUME NEW k \in 1 .. Len(stack), Waits(p, stack[k]), p # s
        PROVE  \E j \in 1 .. Len(R) : Waits(p, R[j])
    <3>1. CASE Waits(p, R[k])
      <4>1. Len(R) = Len(stack)
        BY <1>2, ReturnedFacts DEF R, RInv
      <4> QED
        BY <3>1, <4>1
    <3>2. CASE /\ Reverser!Under(Reverser!Top.src, p)
               /\ p[Len(Reverser!Top.src) + 1] = name
      <4>1. Reverser!Top.src \in Seq(Seq(L)) /\ InTree(Reverser!Top.src)
        BY <1>2, TopFacts DEF RInv
      <4>2. \/ p = Append(Reverser!Top.src, name)
            \/ Append(Reverser!Top.src, name) \in dirs
        BY <3>2, <4>1, Awaited DEF RInv
      <4>3. Append(Reverser!Top.src, name) = s
        BY DEF s, Reverser!Source
      <4>4. s \notin dirs
        BY <1>1 DEF RInv, FileSystem
      <4> QED
        BY <2>4, <4>2, <4>3, <4>4
    <3> QED
      BY <1>2, <2>4, <3>1, <3>2, StillWaits DEF R, RInv
  <2> QED
    BY <2>1, <2>2, <2>3, <2>4
<1> QED
  BY <1>3, <1>7, <1>8, <1>10, <1>11 DEF RInv

LEMMA CopyChunkKeeps ==
  ASSUME NEW L, NEW B, RInv(L, B), ~Reverser!Palindrome, Reverser!CopyChunk
  PROVE  RInv(L, B)'
PROOF
<1> DEFINE s == copy.from
           d == copy.to
           b == before[s]
           rem == copy.remaining
           toRead == IF rem >= BufSize THEN BufSize ELSE rem
           pos == rem - toRead
<1>1. /\ UNCHANGED <<dirs, root, stack, reversePc, broken, before>>
      /\ reversePc = "copy" /\ rem > 0
      /\ files' = [files EXCEPT ![d] =
                     @ \o Reverser!Reverse(SubSeq(files[s], pos + 1, pos + toRead))]
      /\ copy' = [copy EXCEPT !.remaining = pos]
  BY DEF Reverser!CopyChunk
<1>2. /\ s \in DOMAIN before /\ d = Reverser!Mirror(s) /\ d \in DOMAIN files
      /\ rem \in 0 .. Len(b) /\ (Len(b) = 2 => rem = 0)
      /\ files[d] = Copied(b, rem)
      /\ copy = [from |-> s, to |-> d, remaining |-> rem]
  BY <1>1 DEF RInv, Copying
<1>3. /\ root \in Seq(Seq(L)) /\ Len(root) > 0
      /\ \A p \in DOMAIN before :
           /\ p \in Seq(Seq(L)) /\ InTree(p) /\ Reverser!Under(root, p)
                                  /\ p \in DOMAIN files /\ files[p] = before[p]
  BY DEF RInv, Source0, FileSystem, Path, InTree
<1>4. ~Reverser!Under(root, d)
  BY <1>2, <1>3, MirrorOutside
<1>5. b \in Seq(B) /\ files[s] = b
  BY <1>2, <1>3 DEF RInv, FileSystem
<1>6. copy' = [from |-> s, to |-> d, remaining |-> pos]
  BY <1>1, <1>2
<1>7. /\ pos \in 0 .. rem /\ pos + toRead = rem
  <2>1. rem \in Nat /\ rem > 0 /\ BufSize \in Nat /\ BufSize > 0
    BY <1>1, <1>2, <1>5, ReverserAssumption
  <2> HIDE DEF rem
  <2> QED
    BY <2>1
<1> HIDE DEF s, d, b, rem, toRead, pos
<1>8. Len(b) # 2 /\ files[d] = Reverser!Reverse(SubSeq(b, rem + 1, Len(b)))
  BY <1>1, <1>2 DEF Copied
<1>9. files[d] \o Reverser!Reverse(SubSeq(b, pos + 1, rem))
        = Reverser!Reverse(SubSeq(b, pos + 1, Len(b)))
  <2>1. pos \in 0 .. Len(b) /\ rem \in pos .. Len(b)
    BY <1>2, <1>5, <1>7
  <2> QED
    BY <1>5, <1>8, <2>1, ReverseJoins
<1>10. Reverser!Reverse(SubSeq(b, pos + 1, Len(b))) \in Seq(B)
  <2>1. SubSeq(b, pos + 1, Len(b)) \in Seq(B)
    BY <1>2, <1>5, <1>7
  <2> QED
    BY <2>1, ReverseFacts
<1>11. /\ DOMAIN files' = DOMAIN files
       /\ files'[d] = Reverser!Reverse(SubSeq(b, pos + 1, Len(b)))
       /\ \A p \in DOMAIN files : p # d => files'[p] = files[p]
       /\ files' = [p \in DOMAIN files |-> files'[p]]
  BY <1>1, <1>2, <1>5, <1>7, <1>9
<1>12. FileSystem(L, B)'
  <2>1. \A p \in DOMAIN files : files'[p] \in Seq(B)
    BY <1>10, <1>11 DEF RInv, FileSystem
  <2>2. files' \in [DOMAIN files' -> Seq(B)]
    BY <1>11, <2>1
  <2> QED
    BY <1>1, <1>11, <2>2 DEF RInv, FileSystem
<1>13. Source0'
  <2>1. \A p \in DOMAIN before : p \in DOMAIN files' /\ files'[p] = before[p]
    BY <1>3, <1>4, <1>11
  <2> QED
    BY <1>1, <1>11, <2>1 DEF RInv, Source0
<1>14. \A p : Reverser!Mirror(p)' = Reverser!Mirror(p)
  BY <1>1, RootStays, Zenon
<1>15. Walk(L)'
  <2>1. /\ stack \in Seq(Activations(L)) /\ Len(stack) > 0
        /\ \A k \in 1 .. Len(stack) :
             stack[k].dst = Reverser!Mirror(stack[k].src)
    BY <1>1 DEF RInv, Walk
  <2>2. /\ reversePc' \in {"start", "scan", "copy", "done", "failed"}
        /\ reversePc' # "done"
    BY <1>1
  <2> QED
    BY <1>1, <2>1, <2>2, WalkMoves, Zenon
<1>16. Copying'
  <2>1. copy'.from = s /\ copy'.to = d /\ copy'.remaining = pos
        /\ copy' = [from |-> copy'.from, to |-> copy'.to, remaining |-> copy'.remaining]
    BY <1>6
  <2>2. (copy.to = Reverser!Mirror(copy.from))'
    <3>1. Reverser!Mirror(copy.from)' = Reverser!Mirror(copy'.from)
      BY <1>1 DEF Reverser!Mirror, Reverser!Target
    <3> QED
      BY <1>2, <2>1, <3>1
  <2>3. pos \in 0 .. Len(b)
    BY <1>2, <1>5, <1>7
  <2>4. files'[d] = Copied(b, pos)
    BY <1>8, <1>11 DEF Copied
  <2> QED
    BY <1>1, <1>2, <1>8, <1>11, <2>1, <2>2, <2>3, <2>4 DEF Copying, b
<1>17. Todo'
  <2> SUFFICES ASSUME ~broken, NEW p \in DOMAIN before
               PROVE  \/ Mirrored(p)'
                      \/ copy'.from = p
                      \/ \E k \in 1 .. Len(stack) : Waits(p, stack[k])
    BY <1>1 DEF Todo
  <2>1. \/ Mirrored(p) \/ s = p
        \/ \E k \in 1 .. Len(stack) : Waits(p, stack[k])
    BY <1>1 DEF RInv, Todo, s
  <2>2. CASE Mirrored(p) /\ p # s
    <3>1. Reverser!Mirror(p) # d
      BY <1>2, <1>3, <2>2, MirrorInjective
    <3>2. /\ Reverser!Mirror(p) \in DOMAIN files'
          /\ files'[Reverser!Mirror(p)] = files[Reverser!Mirror(p)]
      BY <1>11, <2>2, <3>1 DEF Mirrored
    <3> QED
      BY <1>1, <1>14, <2>2, <3>2 DEF Mirrored
  <2> QED
    BY <1>6, <2>1, <2>2
<1> QED
  BY <1>12, <1>13, <1>15, <1>16, <1>17 DEF RInv

LEMMA CopyEndsKeeps ==
  ASSUME NEW L, NEW B, RInv(L, B), ~Reverser!Palindrome, Reverser!CopyEnds
  PROVE  RInv(L, B)'
PROOF
<1>1. /\ UNCHANGED <<dirs, files, root, stack, before>> /\ reversePc = "copy"
      /\ reversePc' = "scan"
  BY DEF Reverser!CopyEnds
<1>2. FileSystem(L, B)' /\ Source0'
  BY <1>1 DEF RInv, FileSystem, Source0
<1>3. \A p : Reverser!Mirror(p)' = Reverser!Mirror(p)
  BY <1>1, RootStays, Zenon
<1>4. Walk(L)'
  <2>1. /\ stack \in Seq(Activations(L)) /\ Len(stack) > 0
        /\ \A k \in 1 .. Len(stack) :
             stack[k].dst = Reverser!Mirror(stack[k].src)
    BY <1>1 DEF RInv, Walk
  <2>2. /\ reversePc' \in {"start", "scan", "copy", "done", "failed"}
        /\ reversePc' # "done"
    BY <1>1
  <2> QED
    BY <1>1, <2>1, <2>2, WalkMoves, Zenon
<1>5. ASSUME ~broken', NEW p \in DOMAIN before
      PROVE  Mirrored(p)' \/ \E k \in 1 .. Len(stack) : Waits(p, stack[k])
  <2>1. ~broken /\ copy.remaining = 0
    BY <1>5 DEF Reverser!CopyEnds, Reverser!Fails
  <2>2. \/ Mirrored(p) \/ copy.from = p
        \/ \E k \in 1 .. Len(stack) : Waits(p, stack[k])
    BY <1>1, <2>1 DEF RInv, Todo
  <2>3. CASE copy.from = p
    <3> DEFINE b == before[p]
    <3>1. /\ Reverser!Mirror(p) \in DOMAIN files
          /\ files[Reverser!Mirror(p)] = Copied(b, 0)
      BY <1>1, <2>1, <2>3 DEF RInv, Copying
    <3>2. b \in Seq(B)
      BY DEF RInv, Source0, FileSystem
    <3>3. SubSeq(b, 0 + 1, Len(b)) = b
      BY <3>2
    <3>4. Mirrored(p)
      BY <3>1, <3>3 DEF Copied, Mirrored
    <3> QED
      BY <1>1, <1>3, <3>4 DEF Mirrored
  <2>4. Mirrored(p) => Mirrored(p)'
    BY <1>1, <1>3 DEF Mirrored
  <2> QED
    BY <2>2, <2>3, <2>4
<1>6. Todo'
  BY <1>1, <1>5 DEF Todo
<1> QED
  BY <1>1, <1>2, <1>4, <1>6 DEF RInv, Copying

LEMMA EnterDirKeeps ==
  ASSUME NEW L, NEW B, RInv(L, B), ~Reverser!Palindrome, NEW name,
         Reverser!EnterDir(name)
  PROVE  RInv(L, B)'
PROOF
<1> DEFINE A == Activations(L)
           R == Reverser!Returned(name)
           s == Reverser!Source(name)
           d == Reverser!Dest(name)
           a == Reverser!Activation(s, d)
           st == <<a>> \o R
<1>1. /\ UNCHANGED <<files, root, copy, reversePc, broken, before>>
      /\ reversePc = "scan"
      /\ s \in dirs /\ Reverser!CreateReverseDir(d) /\ stack' = st
  BY DEF Reverser!EnterDir, Reverser!Entry
<1>2. /\ name \in Seq(L) /\ Len(stack) > 0 /\ d = Reverser!Mirror(s)
      /\ d \in Seq(Seq(L))
      /\ s \in Seq(Seq(L)) /\ InTree(s)
  BY EntryFacts DEF Reverser!EnterDir, RInv
<1>3. FileSystem(L, B)' /\ Source0'
  BY <1>1, <1>2, DirsGrow DEF RInv
<1>4. /\ R \in Seq(A) /\ Len(R) = Len(stack)
      /\ \A k \in 1 .. Len(stack) :
           R[k].src = stack[k].src /\ R[k].dst = stack[k].dst
  BY <1>2, ReturnedFacts DEF RInv
<1>5. /\ Len(stack) \in Nat
      /\ \A k \in 1 .. Len(stack) : stack[k].dst = Reverser!Mirror(stack[k].src)
  BY DEF RInv, Walk
<1>6. /\ a \in A /\ a.src = s /\ a.dst = Reverser!Mirror(s)
      /\ a.must = Reverser!Children(s)
  <2>1. Reverser!Children(s) \in SUBSET Seq(L)
    BY <1>2, ChildNames DEF RInv
  <2> QED
    BY <1>2, <2>1 DEF Reverser!Activation, Activations, Path
<1> HIDE DEF A, R, s, d, a
<1>7. /\ st \in Seq(A) /\ Len(st) = 1 + Len(stack) /\ st[1] = a
      /\ \A k \in 1 .. Len(stack) : st[k + 1] = R[k]
  <2> DEFINE h == <<a>>
  <2>1. h \in Seq(A) /\ R \in Seq(A) /\ Len(h) = 1 /\ h[1] = a /\ st = h \o R
    BY <1>4, <1>6
  <2> HIDE DEF h, st
  <2>2. /\ h \o R \in Seq(A) /\ Len(h \o R) = Len(h) + Len(R)
        /\ \A k \in 1 .. Len(h) + Len(R) :
             (h \o R)[k] = IF k <= Len(h) THEN h[k] ELSE R[k - Len(h)]
    BY <2>1, Joined, Zenon
  <2>3. \A k \in 1 .. Len(stack) :
          k + 1 \in 1 .. 1 + Len(stack) /\ ~(k + 1 <= 1) /\ (k + 1) - 1 = k
    BY <1>5
  <2>4. 1 \in 1 .. 1 + Len(stack) /\ 1 <= 1
    BY <1>5
  <2> QED
    BY <1>4, <2>1, <2>2, <2>3, <2>4
<1> HIDE DEF st
<1>8. \A k \in 1 .. Len(st) :
        k = 1 \/ (k - 1 \in 1 .. Len(stack) /\ (k - 1) + 1 = k)
  BY <1>5, <1>7
<1>9. Walk(L)'
  <2>1. ASSUME NEW k \in 1 .. Len(st)
        PROVE st[k].dst = Reverser!Mirror(st[k].src)
    <3>1. CASE k = 1
      BY <1>6, <1>7, <3>1
    <3>2. CASE k # 1
      <4> DEFINE j == k - 1
      <4>1. j \in 1 .. Len(stack) /\ j + 1 = k
        BY <1>8, <3>2
      <4> HIDE DEF j
      <4>2. st[k] = R[j]
        BY <1>7, <4>1
      <4> QED
        BY <1>4, <1>5, <4>1, <4>2
    <3> QED
      BY <3>1, <3>2
  <2>2. Len(st) > 0
    BY <1>5, <1>7
  <2> QED
    BY <1>1, <1>7, <2>1, <2>2, WalkMoves DEF A
<1>10. \A p : Reverser!Mirror(p)' = Reverser!Mirror(p)
  BY <1>1, RootStays, Zenon
<1>11. ASSUME ~broken, NEW p \in DOMAIN before
       PROVE  Mirrored(p)' \/ \E k \in 1 .. Len(st) : Waits(p, st[k])
  <2>1. Mirrored(p) \/ \E k \in 1 .. Len(stack) : Waits(p, stack[k])
    BY <1>1, <1>11 DEF RInv, Todo
  <2>2. Mirrored(p) => Mirrored(p)'
    BY <1>1, <1>10 DEF Mirrored
  <2>3. ASSUME NEW k \in 1 .. Len(stack), Waits(p, stack[k])
        PROVE  \E j \in 1 .. Len(st) : Waits(p, st[j])
    <3>1. CASE Waits(p, R[k])
      <4>1. k + 1 \in 1 .. Len(st) /\ st[k + 1] = R[k]
        BY <1>5, <1>7
      <4> QED
        BY <3>1, <4>1
    <3>2. CASE /\ Reverser!Under(Reverser!Top.src, p)
               /\ p[Len(Reverser!Top.src) + 1] = name
      <4>1. Reverser!Top.src \in Seq(Seq(L)) /\ InTree(Reverser!Top.src)
        BY <1>2, TopFacts DEF RInv
      <4>2. p = s \/ Reverser!Under(s, p)
        BY <3>2, <4>1, Awaited DEF RInv, s, Reverser!Source
      <4>3. p \in DOMAIN files /\ p # s
        BY <1>1 DEF RInv, Source0, FileSystem
      <4>4. Reverser!Under(s, p)
        BY <4>2, <4>3
      <4>5. p[Len(s) + 1] \in Reverser!Children(s)
        BY <1>2, <4>4, Awaited DEF RInv
      <4>6. Waits(p, a)
        BY <1>6, <4>4, <4>5 DEF Waits
      <4>7. 1 \in 1 .. Len(st)
        BY <1>5, <1>7
      <4> QED
        BY <1>7, <4>6, <4>7
    <3> QED
      BY <1>2, <2>3, <3>1, <3>2, StillWaits DEF R, RInv
  <2> QED
    BY <2>1, <2>2, <2>3
<1>12. Todo'
  BY <1>1, <1>11 DEF Todo
<1> QED
  BY <1>1, <1>3, <1>9, <1>12 DEF RInv, Copying

LEMMA LeaveDirKeeps ==
  ASSUME NEW L, NEW B, RInv(L, B), ~Reverser!Palindrome, Reverser!LeaveDir
  PROVE  RInv(L, B)'
PROOF
<1> DEFINE A == Activations(L)
           st == Tail(stack)
<1>1. /\ UNCHANGED <<dirs, files, root, copy, before>>
      /\ reversePc = "scan" /\ stack' = st
      /\ broken' = TRUE \/ (Reverser!Top.must = {} /\ UNCHANGED broken)
      /\ reversePc' = IF stack' = <<>> THEN "done" ELSE "scan"
  BY DEF Reverser!LeaveDir, Reverser!Fails
<1>2. Len(stack) > 0 /\ Len(stack) \in Nat
      /\ \A k \in 1 .. Len(stack) : stack[k].dst = Reverser!Mirror(stack[k].src)
  BY <1>1 DEF RInv, Walk
<1>3. /\ Reverser!Top = stack[1]
      /\ st \in Seq(A) /\ Len(st) = Len(stack) - 1
      /\ \A k \in 1 .. Len(stack) - 1 : st[k] = stack[k + 1]
  BY <1>2, TopFacts DEF RInv
<1>4. FileSystem(L, B)' /\ Source0'
  BY <1>1 DEF RInv, FileSystem, Source0
<1> HIDE DEF A, st
<1>5. \A k \in 1 .. Len(stack) - 1 : k + 1 \in 1 .. Len(stack)
  BY <1>2
<1>6. Walk(L)'
  <2>1. \A k \in 1 .. Len(st) : st[k].dst = Reverser!Mirror(st[k].src)
    BY <1>2, <1>3, <1>5
  <2>2. (stack' = <<>> <=> Len(st) = 0) /\ (stack' # <<>> => Len(st) > 0)
    BY <1>1, <1>2, <1>3
  <2>3. reversePc' \in {"scan", "done"} /\ (reversePc' = "done" <=> Len(st) = 0)
    BY <1>1, <2>2
  <2> QED
    BY <1>1, <1>3, <2>1, <2>2, <2>3, WalkMoves DEF A
<1>7. \A p : Reverser!Mirror(p)' = Reverser!Mirror(p)
  BY <1>1, RootStays, Zenon
<1>8. ASSUME ~broken, Reverser!Top.must = {}, NEW p \in DOMAIN before
      PROVE  Mirrored(p)' \/ \E k \in 1 .. Len(st) : Waits(p, st[k])
  <2>1. Mirrored(p) \/ \E k \in 1 .. Len(stack) : Waits(p, stack[k])
    BY <1>1, <1>8 DEF RInv, Todo
  <2>2. Mirrored(p) => Mirrored(p)'
    BY <1>1, <1>7 DEF Mirrored
  <2>3. ASSUME NEW k \in 1 .. Len(stack), Waits(p, stack[k])
        PROVE  \E j \in 1 .. Len(st) : Waits(p, st[j])
    <3>1. k # 1
      BY <1>3, <1>8, <2>3 DEF Waits
    <3>2. k - 1 \in 1 .. Len(stack) - 1 /\ (k - 1) + 1 = k
      BY <1>2, <3>1
    <3>3. st[k - 1] = stack[k]
      BY <1>3, <3>2
    <3> QED
      BY <1>3, <2>3, <3>2, <3>3
  <2> QED
    BY <2>1, <2>2, <2>3
<1>9. ~broken' => ~broken /\ Reverser!Top.must = {}
  BY <1>1
<1>10. Todo'
  BY <1>1, <1>8, <1>9 DEF Todo
<1> QED
  BY <1>1, <1>4, <1>6, <1>10 DEF RInv, Copying

LEMMA MirrorStepKeeps ==
  ASSUME NEW L, NEW B, Reverser!Palindrome \/ RInv(L, B),
         [Reverser!Next]_Reverser!vars
  PROVE  (Reverser!Palindrome \/ RInv(L, B))'
PROOF
<1>1. root' = root
  BY DEF Reverser!Next, Reverser!vars, Reverser!Start, Reverser!Skip,
     Reverser!OpenFile, Reverser!EnterDir, Reverser!CopyChunk, Reverser!CopyEnds,
     Reverser!LeaveDir
<1>2. Reverser!Palindrome' = Reverser!Palindrome
  BY <1>1, RootStays, Zenon
<1>3. CASE ~Reverser!Palindrome /\ UNCHANGED Reverser!vars
  <2>1. \A p : Reverser!Mirror(p)' = Reverser!Mirror(p)
    BY <1>1, RootStays, Zenon
  <2>3. FileSystem(L, B)' /\ Source0'
    BY <1>3 DEF RInv, FileSystem, Source0, Reverser!vars
  <2>4. Walk(L)'
    <3>1. /\ stack \in Seq(Activations(L)) /\ stack' = stack
          /\ reversePc' = reversePc
          /\ \A k \in 1 .. Len(stack) :
               stack[k].dst = Reverser!Mirror(stack[k].src)
          /\ reversePc \in {"start", "scan", "copy", "done", "failed"}
          /\ (reversePc \in {"scan", "copy"} => Len(stack) > 0)
          /\ (reversePc = "done" => Len(stack) = 0)
      BY <1>3 DEF RInv, Walk, Reverser!vars
    <3>2. /\ reversePc' \in {"start", "scan", "copy", "done", "failed"}
          /\ (reversePc' \in {"scan", "copy"} => Len(stack) > 0)
          /\ (reversePc' = "done" => Len(stack) = 0)
      BY <3>1
    <3> QED
      BY <1>1, <3>1, <3>2, WalkMoves, Zenon
  <2>5. Copying' /\ Todo'
    <3>1. \A p : Mirrored(p)' = Mirrored(p)
      BY <1>3, <2>1 DEF Mirrored, Reverser!vars
    <3>2. Reverser!Mirror(copy.from)' = Reverser!Mirror(copy.from)
      BY <1>3 DEF Reverser!Mirror, Reverser!Target, Reverser!vars
    <3> QED
      BY <1>3, <3>1, <3>2 DEF RInv, Copying, Todo, Reverser!vars
  <2> QED
    BY <2>3, <2>4, <2>5 DEF RInv
<1>4. CASE ~Reverser!Palindrome /\ Reverser!Next
  BY <1>4, StartKeeps, SkipKeeps, OpenFileKeeps, EnterDirKeeps, CopyChunkKeeps,
     CopyEndsKeeps, LeaveDirKeeps DEF Reverser!Next
<1> QED
  BY <1>2, <1>3, <1>4

LEMMA MirrorAtFirst ==
  ASSUME NEW L, NEW B, Fresh(L, B)
  PROVE  RInv(L, B)
PROOF
<1>1. FileSystem(L, B) /\ Source0
  BY DEF Fresh, FileSystem, Source0, Path
<1>2. Walk(L)
  <2>1. <<>> \in Seq(Activations(L)) /\ Len(<<>>) = 0
    OBVIOUS
  <2> QED
    BY <2>1 DEF Fresh, Walk
<1> QED
  BY <1>1, <1>2 DEF RInv, Copying, Todo, Fresh

LEMMA MirrorHolds ==
  ASSUME NEW L, NEW B, Reverser!Palindrome \/ RInv(L, B)
  PROVE  Reverser!CopyIsMirror
PROOF
<1>1. CASE Reverser!Palindrome
  BY <1>1 DEF Reverser!CopyIsMirror
<1>2. CASE RInv(L, B)
  <2>1. \A p \in DOMAIN before : p \in DOMAIN files /\ files[p] = before[p]
    BY <1>2 DEF RInv, Source0
  <2>2. ASSUME reversePc = "done", ~broken,
               NEW p \in DOMAIN before PROVE Mirrored(p)
    <3>1. 1 .. Len(stack) = {}
      BY <1>2, <2>2 DEF RInv, Walk
    <3> QED
      BY <1>2, <2>2, <3>1 DEF RInv, Todo
  <2> QED
    BY <2>1, <2>2 DEF Reverser!CopyIsMirror, Mirrored
<1> QED
  BY <1>1, <1>2

(* For all file systems with such names and contents.                      *)
THEOREM Mirrors ==
  ASSUME NEW L, NEW B
  PROVE  Fresh(L, B) /\ [][Reverser!Next]_Reverser!vars
           => []Reverser!CopyIsMirror
PROOF
<1> DEFINE J == Reverser!Palindrome \/ RInv(L, B)
<1>1. Fresh(L, B) => J
  BY MirrorAtFirst
<1>2. J /\ [Reverser!Next]_Reverser!vars => J'
  BY MirrorStepKeeps
<1>3. J => Reverser!CopyIsMirror
  BY MirrorHolds
<1> HIDE DEF J
<1> QED
  BY <1>1, <1>2, <1>3, PTL

Letters == {"a", "b"}

LEMMA SmallNumbers == 2 # 1 /\ 3 # 1 /\ 2 # 3 /\ ~(1 > 1)
PROOF
  OBVIOUS

LEMMA ShortSequences ==
  ASSUME NEW S, NEW x \in S, NEW y \in S, NEW z \in S
  PROVE  /\ <<x>> \in Seq(S) /\ Len(<<x>>) = 1 /\ <<x>>[1] = x
         /\ <<x, y>> \in Seq(S) /\ Len(<<x, y>>) = 2
         /\ <<x, y>>[1] = x /\ <<x, y>>[2] = y
         /\ <<x, y, z>> \in Seq(S) /\ Len(<<x, y, z>>) = 3
         /\ <<x, y, z>>[1] = x /\ <<x, y, z>>[2] = y /\ <<x, y, z>>[3] = z
PROOF
  OBVIOUS

(* The trees of the run are such file systems.                             *)
LEMMA TreeIsFresh ==
  ASSUME NEW name \in Seq(Letters),
         NEW others \in SUBSET {<<x>> : x \in Seq(Letters)},
         root = <<name>>, dirs = Tree(name, others).dirs,
         files = Tree(name, others).files,
         before = [p \in {q \in DOMAIN files : Reverser!Under(root, q)} |-> files[p]],
         stack = <<>>, copy = Reverser!NoCopy, reversePc = "start",
         broken = FALSE
  PROVE  Fresh(Letters, Int)
PROOF
<1> DEFINE N == Seq(Letters)
           a == <<"a">>
           ab == <<"a", "b">>
           bb == <<"b", "b">>
           ba == <<"b", "a">>
           top == <<name>>
           sub == <<name, a>>
           F == {<<name, ab>>, <<name, bb>>, <<name, a, ba>>}
<1>1. /\ a \in N /\ ab \in N /\ bb \in N /\ ba \in N /\ a # ab /\ a # bb
      /\ name \in N
  <2>1. "a" \in Letters /\ "b" \in Letters
    BY DEF Letters
  <2>2. /\ a \in N /\ ab \in N /\ bb \in N /\ ba \in N
        /\ Len(a) = 1 /\ Len(ab) = 2 /\ Len(bb) = 2
    BY <2>1, ShortSequences, Zenon
  <2> QED
    BY <2>2
<1>2. /\ dirs = {top, sub} \union others
      /\ files = [p \in F |-> CASE Len(p) = 3 -> <<1, 2, 3>>
                                [] p[2] = bb -> <<1, 2>>
                                [] OTHER -> <<1, 2, 3, 4, 5>>]
  BY DEF Tree
<1> HIDE DEF N, a, ab, bb, ba
<1>3. files \in [F -> Seq(Int)]
  <2>1. <<1, 2, 3>> \in Seq(Int) /\ <<1, 2>> \in Seq(Int)
        /\ <<1, 2, 3, 4, 5>> \in Seq(Int)
    OBVIOUS
  <2> HIDE DEF F
  <2> QED
    BY <1>2, <2>1
<1> DEFINE p1 == <<name, ab>>
           p2 == <<name, bb>>
           p3 == <<name, a, ba>>
<1>14. /\ top \in Seq(N) /\ Len(top) = 1 /\ top[1] = name
       /\ sub \in Seq(N) /\ Len(sub) = 2 /\ sub[1] = name /\ sub[2] = a
       /\ p1 \in Seq(N) /\ Len(p1) = 2 /\ p1[1] = name /\ p1[2] = ab
       /\ p2 \in Seq(N) /\ Len(p2) = 2 /\ p2[1] = name /\ p2[2] = bb
       /\ p3 \in Seq(N) /\ Len(p3) = 3 /\ p3[1] = name /\ p3[2] = a
  BY <1>1, ShortSequences, Zenon
<1>15. root = top /\ F = {p1, p2, p3}
  OBVIOUS
<1> HIDE DEF F, top, sub, p1, p2, p3
<1>4. top \in Seq(N) /\ sub \in Seq(N) /\ F \subseteq Seq(N)
  BY <1>14, <1>15
<1>5. others \subseteq Seq(N) /\ \A p \in others : Len(p) = 1
  <2>1. \A x \in N : <<x>> \in Seq(N) /\ Len(<<x>>) = 1
    BY ShortSequences, Zenon
  <2> QED
    BY <2>1 DEF N
<1>6. \A p \in F : p \notin dirs
  <2>1. ASSUME NEW p \in F PROVE Len(p) # 1 /\ p # sub
    <3>1. p = p1 \/ p = p2 \/ p = p3
      BY <1>15
    <3>2. Len(p) = 2 \/ Len(p) = 3
      BY <1>14, <3>1
    <3>3. p = sub => Len(p) = 2 /\ p[2] = a
      BY <1>14
    <3>4. p = p3 \/ p[2] # a
      BY <1>1, <1>14, <3>1
    <3>5. p = p3 => Len(p) = 3
      BY <1>14
    <3>6. Len(p) # 1
      BY <3>2, SmallNumbers, Zenon
    <3>7. p # p3 \/ p # sub
      BY <3>3, <3>5, SmallNumbers, Zenon
    <3> QED
      BY <3>3, <3>4, <3>6, <3>7, Zenon
  <2>2. \A p \in F : p # top
    BY <1>14, <2>1
  <2> QED
    BY <1>2, <1>5, <2>1, <2>2
<1>7. ASSUME NEW p \in dirs \union F, Reverser!Under(root, p),
             NEW n \in Len(root) .. Len(p) - 1
      PROVE  SubSeq(p, 1, n) \in dirs
  <2>1. p \notin others /\ p # top
    <3>1. Len(p) > Len(root) /\ Len(root) = 1
      BY <1>7, <1>14, <1>15 DEF Reverser!Under
    <3>3. Len(p) # 1
      BY <3>1, SmallNumbers, Zenon
    <3> QED
      BY <1>5, <1>14, <3>3
  <2>2. p = sub \/ p \in F
    BY <1>2, <2>1
  <2>3. ASSUME NEW q \in Seq(N), NEW m \in 1 .. Len(q), NEW z \in Seq(N),
               Len(z) = m, \A k \in 1 .. m : z[k] = q[k]
        PROVE  SubSeq(q, 1, m) = z
    <3>1. /\ SubSeq(q, 1, m) \in Seq(N) /\ Len(SubSeq(q, 1, m)) = m
          /\ \A k \in 1 .. m : SubSeq(q, 1, m)[k] = q[k]
      <4>1. m \in 0 .. Len(q)
        OBVIOUS
      <4> QED
        BY <4>1, PrefixFacts, Zenon
    <3> QED
      BY <2>3, <3>1, SameSeq, Zenon
  <2>4. CASE p # <<name, a, ba>>
    <3>1. Len(p) = 2 /\ p \in Seq(N) /\ p[1] = name
      <4>1. p = sub \/ p = p1 \/ p = p2
        BY <1>15, <2>2, <2>4 DEF p3
      <4> QED
        BY <1>14, <4>1
    <3>2. n = 1
      BY <1>14, <1>15, <3>1
    <3>3. SubSeq(p, 1, 1) = top
      <4>1. Len(top) = 1 /\ \A k \in 1 .. 1 : top[k] = p[k]
        BY <1>14, <3>1
      <4>2. 1 \in 1 .. Len(p)
        BY <3>1
      <4> QED
        BY <1>14, <2>3, <3>1, <4>1, <4>2, Zenon
    <3> QED
      BY <1>2, <3>2, <3>3
  <2>5. CASE p = <<name, a, ba>>
    <3>1. Len(p) = 3 /\ p \in Seq(N) /\ p[1] = name /\ p[2] = a
      BY <1>14, <2>5 DEF p3
    <3>2. n = 1 \/ n = 2
      BY <1>14, <1>15, <3>1
    <3>3. SubSeq(p, 1, 1) = top
      <4>1. Len(top) = 1 /\ \A k \in 1 .. 1 : top[k] = p[k]
        BY <1>14, <3>1
      <4>2. 1 \in 1 .. Len(p)
        BY <3>1
      <4> QED
        BY <1>14, <2>3, <3>1, <4>1, <4>2, Zenon
    <3>4. SubSeq(p, 1, 2) = sub
      <4>1. Len(sub) = 2 /\ \A k \in 1 .. 2 : sub[k] = p[k]
        BY <1>14, <3>1
      <4>2. 2 \in 1 .. Len(p)
        BY <3>1
      <4>3. sub \in Seq(N) /\ p \in Seq(N)
        BY <1>4, <3>1
      <4> QED
        BY <2>3, <4>1, <4>2, <4>3, Zenon
    <3> QED
      BY <1>2, <3>2, <3>3, <3>4
  <2> QED
    BY <2>4, <2>5
<1>8. DOMAIN files = F
  BY <1>2
<1>9. root \in dirs /\ Len(root) > 0
  BY <1>2, <1>14, <1>15
<1>10. dirs \subseteq Seq(N)
  BY <1>2, <1>4, <1>5
<1>11. dirs \intersect DOMAIN files = {}
  BY <1>6, <1>8
<1>12. /\ dirs \subseteq Path(Letters) /\ DOMAIN files \subseteq Path(Letters)
       /\ files \in [DOMAIN files -> Seq(Int)]
  BY <1>3, <1>4, <1>8, <1>10 DEF Path, N
<1>13. \A p \in dirs \union DOMAIN files : Reverser!Under(root, p) =>
         \A n \in Len(root) .. Len(p) - 1 : SubSeq(p, 1, n) \in dirs
  BY <1>7, <1>8
<1> QED
  BY <1>9, <1>11, <1>12, <1>13 DEF Fresh

LEMMA TreesAreFresh == Reverser!Init => Fresh(Letters, Int)
PROOF
<1> SUFFICES ASSUME Reverser!Init PROVE Fresh(Letters, Int)
  OBVIOUS
<1> PICK t \in Trees :
      /\ dirs = t.dirs /\ files = t.files /\ root = t.root
      /\ stack = <<>> /\ copy = Reverser!NoCopy /\ reversePc = "start"
      /\ broken = FALSE
      /\ before = [p \in {q \in DOMAIN t.files : Reverser!Under(t.root, q)} |-> t.files[p]]
  BY DEF Reverser!Init
<1> DEFINE ab == <<"a", "b">>
           aa == <<"a", "a">>
           ba == <<"b", "a">>
<1>1. ab \in Seq(Letters) /\ aa \in Seq(Letters) /\ ba \in Seq(Letters)
  <2>1. "a" \in Letters /\ "b" \in Letters
    BY DEF Letters
  <2> QED
    BY <2>1, ShortSequences, Zenon
<1>2. t = Tree(ab, {}) \/ t = Tree(ab, {<<ba>>}) \/ t = Tree(aa, {})
  BY DEF Trees, FreshTree
<1> HIDE DEF ab, aa, ba
<1>3. \E name \in Seq(Letters), others \in SUBSET {<<x>> : x \in Seq(Letters)} :
        t = Tree(name, others)
  BY <1>1, <1>2
<1> PICK name \in Seq(Letters), others \in SUBSET {<<x>> : x \in Seq(Letters)} :
      t = Tree(name, others)
  BY <1>3
<1>4. root = <<name>>
  BY DEF Tree
<1> QED
  BY <1>4, TreeIsFresh

(* On the trees of the run the reverser makes mirrored copies.             *)
THEOREM ReverserMirrors == Reverser!Spec => []CopyIsMirror
PROOF
<1>1. Fresh(Letters, Int) /\ [][Reverser!Next]_Reverser!vars
        => []Reverser!CopyIsMirror
  BY Mirrors
<1> QED
  BY <1>1, TreesAreFresh, PTL DEF Reverser!Spec, CopyIsMirror

-----------------------------------------------------------------------------
(* MCSem1 runs each program as its own module specifies it.  The servers   *)
(* share their clients, so what is proved of them is put together for the  *)
(* one that runs.                                                          *)
MCInv ==
  /\ program = "fork" => IInv /\ AllOrdered
  /\ program # "fork" => \A c \in Clients : child[c] = "none"
  /\ program = "select" => SelectInv

LEMMA MCStepKeeps ==
  ASSUME MCInv, [MCNext]_allVars
  PROVE  MCInv' /\ [Promise!Next]_<<sent, got, Refused>>
PROOF
<1>1. ASSUME UNCHANGED <<program, net, procs, selectVars>>
      PROVE  MCInv' /\ [Promise!Next]_<<sent, got, Refused>>
  <2>1. program = "fork" => IInv' /\ AllOrdered'
    <3>1. UNCHANGED vars
      BY <1>1 DEF vars
    <3> QED
      BY <3>1, StepKeeps, ForkStepEchoes DEF MCInv
  <2>2. program = "select" => SelectInv'
    <3>1. UNCHANGED Select!vars
      BY <1>1 DEF Select!vars, Select!net, Select!table, Select!round, net, selectVars
    <3> QED
      BY <3>1, SelectStepKeeps DEF MCInv
  <2> QED
    BY <1>1, <2>1, <2>2 DEF MCInv, net, procs, Refused
<1>2. CASE SelectStep(Select!Next)
  <2>1. program = "select" /\ program' = program /\ UNCHANGED child
    BY <1>2 DEF SelectStep, procs
  <2>2. SelectInv /\ Select!Next
    BY <1>2, <2>1 DEF SelectStep, MCInv
  <2>3. SelectInv' /\ [Promise!Next]_<<sent, got, Refused>>
    BY <2>2, SelectStepKeeps, SelectStepEchoes
  <2> QED
    BY <2>1, <2>3 DEF MCInv
<1>3. CASE ForkStep(Next)
  <2>1. program = "fork" /\ program' = program
    BY <1>3 DEF ForkStep
  <2>2. IInv /\ AllOrdered /\ Next
    BY <1>3, <2>1 DEF ForkStep, MCInv
  <2>3. IInv' /\ AllOrdered' /\ [Promise!Next]_<<sent, got, Refused>>
    BY <2>2, StepKeeps, ForkStepEchoes
  <2> QED
    BY <2>1, <2>3 DEF MCInv
<1> QED
  BY <1>1, <1>2, <1>3 DEF MCNext, HeapStep, ReverseStep, TraceStep, allVars

LEMMA MCInitHolds == MCInit => MCInv /\ Promise!Init
PROOF
<1>1. MCInit => Init /\ Select!Init
  BY DEF MCInit
<1>2. Init => \A c \in Clients : child[c] = "none"
  BY DEF Init
<1> QED
  BY <1>1, <1>2, InitHolds, OrderedAtFirst, SelectInitHolds DEF MCInv

(* No server leaks a connection: the select server has each open one in    *)
(* exactly one slot, and of the fork server only the child of a client     *)
(* holds its socket.                                                       *)
THEOREM NothingLeaks == FairSpec => []DescriptorsKept
PROOF
<1>1. MCInv => DescriptorsKept
  <2>1. IInv => SocketsOwned
    BY DEF IInv, Typed, Held, SocketsOwned, Running
  <2> QED
    BY <2>1, SelectOwns DEF MCInv, DescriptorsKept
<1>2. MCInit => MCInv
  BY MCInitHolds
<1>3. MCInv /\ [MCNext]_allVars => MCInv'
  BY MCStepKeeps
<1> QED
  BY <1>1, <1>2, <1>3, PTL DEF FairSpec

(* Whichever server runs implements Echo: a client that is served gets     *)
(* back what it sent, and one that finds the table of the select server    *)
(* full gets the notice, or nothing if it has reset, and no more.          *)
THEOREM ServersEcho == FairSpec => ImplementsEcho
PROOF
<1>1. MCInit => MCInv /\ Promise!Init
  BY MCInitHolds
<1>2. MCInv /\ [MCNext]_allVars => MCInv' /\ [Promise!Next]_<<sent, got, Refused>>
  BY MCStepKeeps
<1> QED
  BY <1>1, <1>2, PTL DEF FairSpec, ImplementsEcho, Promise!Spec

(* The heap, the reverser and the tracer run as specified, so their        *)
(* theorems hold of the specification that TLC checks.                     *)
THEOREM ThreePrograms == FairSpec => Heap!Spec /\ Reverser!Spec /\ Trace!Spec
PROOF
<1>1. MCInit => Heap!Init /\ Reverser!Init /\ Trace!Init
  BY DEF MCInit
<1>2. [MCNext]_allVars => /\ [Heap!Next]_Heap!vars
                          /\ [Reverser!Next]_Reverser!vars
                          /\ [Trace!Next]_Trace!vars
  <2>1. UNCHANGED heapVars => UNCHANGED Heap!vars
    BY DEF heapVars, Heap!vars, fields, Heap!fields
  <2>2. UNCHANGED reverseVars => UNCHANGED Reverser!vars
    BY DEF reverseVars, Reverser!vars
  <2>3. UNCHANGED tracerVars => UNCHANGED Trace!vars
    BY DEF tracerVars, Trace!vars
  <2> QED
    BY <2>1, <2>2, <2>3
    DEF MCNext, HeapStep, ReverseStep, TraceStep, SelectStep, ForkStep, allVars
<1> QED
  BY <1>1, <1>2, PTL DEF FairSpec, Heap!Spec, Reverser!Spec, Trace!Spec

(* So it does in the run, whichever program the run chose.                 *)
THEOREM MirroredCopies == FairSpec => []CopyIsMirror
PROOF
  BY ThreePrograms, ReverserMirrors, PTL
=============================================================================
