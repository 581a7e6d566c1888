----------------------------- MODULE AbstractLock -----------------------------
(***************************************************************************)
(* What a (possibly recursive) lock promises its clients, and all that the *)
(* programs of src/sem2/lab2 rely on: depth[t] counts the acquisitions of  *)
(* thread t that it has not released yet, and only one thread has any.     *)
(***************************************************************************)
EXTENDS Naturals

CONSTANT Threads

VARIABLE depth

Free == \A t \in Threads : depth[t] = 0

Init == depth = [t \in Threads |-> 0]

Acquire(t) ==
  /\ \A u \in Threads \ {t} : depth[u] = 0
  /\ depth' = [depth EXCEPT ![t] = @ + 1]

Release(t) ==
  /\ depth[t] > 0
  /\ depth' = [depth EXCEPT ![t] = @ - 1]

Next == \E t \in Threads : Acquire(t) \/ Release(t)

Spec == Init /\ [][Next]_depth
=============================================================================
