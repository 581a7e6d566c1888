------------------------------- MODULE BlockList -------------------------------
(***************************************************************************)
(* The blocks of the heap of src/sem1/lab4/task4_3 (my_heap.c): struct     *)
(* block, at addresses that are offsets from heapPtr, and what keeps the   *)
(* list of them whole.  MyHeap has the operations.  The fields of an       *)
(* address where no block starts any more are cleared, since nothing reads *)
(* them.  To its callers the list is an allocator.                         *)
(***************************************************************************)
EXTENDS Integers

CONSTANTS
  HeapSize,   \* HEAP, at least a header
  Header,     \* sizeof(block)
  Sizes       \* the sizes callers ask for

ASSUME HeapAssumption ==
  /\ Header \in Nat \ {0}
  /\ HeapSize \in Nat /\ HeapSize >= Header
  /\ Sizes \subseteq Nat

NULL == -1
Addresses == 0 .. HeapSize

VARIABLES
  blocks,            \* the addresses where a block starts
  size, next, free,  \* its fields
  reply              \* history: what the last myMalloc was asked and returned

fields == <<blocks, size, next, free>>

BlockEnd(a) == a + Header + size[a]

(* The blocks tile the mapping: each ends where the next one on the list   *)
(* starts, the last one at the end of the mapping, and no block starts     *)
(* inside another.                                                         *)
Tiles ==
  /\ 0 \in blocks
  /\ \A a \in blocks :
       /\ BlockEnd(a) <= HeapSize
       /\ next[a] = IF BlockEnd(a) = HeapSize THEN NULL ELSE BlockEnd(a)
       /\ next[a] # NULL => next[a] \in blocks
       /\ \A b \in blocks : a < b => BlockEnd(a) <= b

(* the pointers that callers hold *)
InUse == {a + Header : a \in {b \in blocks : ~free[b]}}

Granted == INSTANCE Allocator WITH
  taken <- [p \in InUse |-> size[p - Header]]

(* The heap is an allocator: no two ranges handed out overlap, and NULL    *)
(* comes back only if no gap could hold the request and a header.          *)
ImplementsAllocator == Granted!Spec
=============================================================================
