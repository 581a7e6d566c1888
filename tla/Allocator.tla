------------------------------- MODULE Allocator -------------------------------
(***************************************************************************)
(* What malloc and free promise: the ranges handed out lie in the heap and *)
(* do not overlap, each behind a header of its own, and a request is       *)
(* refused only if no gap can hold it and its header.                      *)
(***************************************************************************)
EXTENDS Integers

CONSTANTS HeapSize, Header, Sizes

VARIABLES
  taken,   \* a function from the pointers in use to the sizes granted
  reply    \* what the last call returned: the size asked for and the pointer

NoPointer == -1

(* a header and n bytes from p on lie in the heap and touch nothing taken  *)
Room(p, n) ==
  /\ p - Header >= 0 /\ p + n <= HeapSize
  /\ \A q \in DOMAIN taken :
       p + n <= q - Header \/ q + taken[q] <= p - Header

Init ==
  /\ taken = [p \in {} |-> 0]
  /\ reply = <<0, NoPointer>>

Malloc(n) ==
  \E p \in 0 .. HeapSize :
    /\ reply' = <<n, p>>
    /\ \E s \in n .. HeapSize :
         /\ Room(p, s)
         /\ taken' = [q \in DOMAIN taken \union {p} |-> IF q = p THEN s ELSE taken[q]]

Refuse(n) ==
  /\ reply' = <<n, NoPointer>>
  /\ \A p \in 0 .. HeapSize : ~Room(p, n)
  /\ UNCHANGED taken

Free(p) ==
  /\ p \in DOMAIN taken
  /\ taken' = [q \in DOMAIN taken \ {p} |-> taken[q]]
  /\ UNCHANGED reply

Next ==
  \/ \E n \in Sizes : Malloc(n) \/ Refuse(n)
  \/ \E p \in DOMAIN taken : Free(p)

Spec == Init /\ [][Next]_<<taken, reply>>
=============================================================================
