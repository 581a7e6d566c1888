-------------------------------- MODULE MyHeap --------------------------------
(***************************************************************************)
(* The heap of src/sem1/lab4/task4_3 (my_heap.c) over the list of blocks   *)
(* in address order that BlockList describes.  The program has one thread; *)
(* each round of the two loops is a step.  Callers free only what they     *)
(* were given, once.                                                       *)
(***************************************************************************)
EXTENDS BlockList

VARIABLES
  pc,                \* "idle", or the loop of "malloc" or "merge"
  current,           \* the cursor of that loop
  want               \* the argument of myMalloc

vars == <<fields, pc, current, want, reply>>

(* initialize *)
Init ==
  /\ blocks = {0}
  /\ size = [a \in Addresses |-> IF a = 0 THEN HeapSize - Header ELSE 0]
  /\ next = [a \in Addresses |-> NULL]
  /\ free = [a \in Addresses |-> a = 0]
  /\ pc = "idle"
  /\ current = NULL
  /\ want = 0
  /\ reply = <<0, NULL>>

CallMalloc(n) ==
  /\ pc = "idle"
  /\ pc' = "malloc"
  /\ current' = 0
  /\ want' = n
  /\ UNCHANGED <<fields, reply>>

Return(p) ==
  /\ pc' = "idle"
  /\ current' = NULL
  /\ want' = 0
  /\ reply' = <<want, p>>

Fits == free[current] /\ size[current] >= want

(* Mutant: the header of the remainder is not taken out of its size. *)
SplitForgetsHeader ==
  /\ pc = "malloc" /\ current # NULL /\ Fits
  /\ size[current] > want + Header
  /\ LET new == current + Header + want
     IN  /\ blocks' = blocks \union {new}
         /\ size' = [size EXCEPT ![new] = size[current] - want, ![current] = want]
         /\ next' = [next EXCEPT ![new] = next[current], ![current] = new]
         /\ free' = [free EXCEPT ![new] = TRUE, ![current] = FALSE]
  /\ Return(current + Header)

(* the block is larger than needed by more than a header *)
Split ==
  /\ pc = "malloc" /\ current # NULL /\ Fits
  /\ size[current] > want + Header
  /\ LET new == current + Header + want
     IN  /\ blocks' = blocks \union {new}
         /\ size' = [size EXCEPT ![new] = size[current] - want - Header,
                                 ![current] = want]
         /\ next' = [next EXCEPT ![new] = next[current], ![current] = new]
         /\ free' = [free EXCEPT ![new] = TRUE, ![current] = FALSE]
  /\ Return(current + Header)

TakeWhole ==
  /\ pc = "malloc" /\ current # NULL /\ Fits
  /\ size[current] <= want + Header
  /\ free' = [free EXCEPT ![current] = FALSE]
  /\ Return(current + Header)
  /\ UNCHANGED <<blocks, size, next>>

TryNextBlock ==
  /\ pc = "malloc" /\ current # NULL /\ ~Fits
  /\ current' = next[current]
  /\ UNCHANGED <<fields, pc, want, reply>>

OutOfMemory ==
  /\ pc = "malloc" /\ current = NULL
  /\ Return(NULL)
  /\ UNCHANGED fields

(* myFree of a pointer in use; myFree(NULL) does nothing *)
CallFree(p) ==
  /\ pc = "idle"
  /\ free' = [free EXCEPT ![p - Header] = TRUE]
  /\ pc' = "merge"
  /\ current' = 0
  /\ UNCHANGED <<blocks, size, next, want, reply>>

(* Mutant: the cursor moves on after a merge. *)
MergeOnce ==
  /\ pc = "merge" /\ current # NULL
  /\ next[current] # NULL
  /\ free[current] /\ free[next[current]]
  /\ LET n == next[current]
     IN  /\ blocks' = blocks \ {n}
         /\ size' = [size EXCEPT ![current] = @ + size[n] + Header, ![n] = 0]
         /\ next' = [next EXCEPT ![current] = next[n], ![n] = NULL]
         /\ free' = [free EXCEPT ![n] = FALSE]
         /\ current' = next[n]
  /\ UNCHANGED <<pc, want, reply>>

(* mergeBlocks: two free neighbours become one, and the cursor stays *)
Merge ==
  /\ pc = "merge" /\ current # NULL
  /\ next[current] # NULL
  /\ free[current] /\ free[next[current]]
  /\ LET n == next[current]
     IN  /\ blocks' = blocks \ {n}
         /\ size' = [size EXCEPT ![current] = @ + size[n] + Header, ![n] = 0]
         /\ next' = [next EXCEPT ![current] = next[n], ![n] = NULL]
         /\ free' = [free EXCEPT ![n] = FALSE]
  /\ UNCHANGED <<pc, current, want, reply>>

MergeMovesOn ==
  /\ pc = "merge" /\ current # NULL
  /\ next[current] # NULL
  /\ ~(free[current] /\ free[next[current]])
  /\ current' = next[current]
  /\ UNCHANGED <<fields, pc, want, reply>>

MergeEnds ==
  /\ pc = "merge"
  /\ current # NULL => next[current] = NULL
  /\ pc' = "idle"
  /\ current' = NULL
  /\ UNCHANGED <<fields, want, reply>>

Next ==
  \/ \E n \in Sizes : CallMalloc(n)
  \/ Split \/ TakeWhole \/ TryNextBlock \/ OutOfMemory
  \/ \E p \in InUse : CallFree(p)
  \/ Merge \/ MergeMovesOn \/ MergeEnds

Spec == Init /\ [][Next]_vars
=============================================================================
