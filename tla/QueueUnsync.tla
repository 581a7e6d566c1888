----------------------------- MODULE QueueUnsync -----------------------------
(***************************************************************************)
(* task2_1 (queue.c, queue-threads.c): one reader and one writer on the    *)
(* queue with no synchronisation.  task2_2/d has the same queue_add and    *)
(* queue_get; its writer sleeps between calls, which the interleaving of   *)
(* the model already allows.                                               *)
(***************************************************************************)
EXTENDS Queue

vars == queueVars

PCs == {"assertAdd", "testFull", "alloc", "testFirst", "setFirst", "linkNext",
        "moveLast", "loadInc", "storeInc", "countAdd", "added",
        "stop",
        "assertGet", "testEmpty", "readFirst", "readVal", "loadNext",
        "storeFirst", "freeTmp", "loadDec", "storeDec", "countGet",
        "taken"}

Init ==
  /\ QueueInit
  /\ pc = [t \in Callers |-> IF t \in Writers THEN "assertAdd"
                                              ELSE "assertGet"]

(* queue_add: the node is allocated after the test for room *)
Add(w) ==
  \/ AssertNotOver(w, "testFull")
  \/ TestFull(w, "assertAdd", "alloc")
  \/ AllocNew(w, "testFirst")
  \/ LinkNew(w)
  \/ CountAdd(w, "added")

(* queue_get: the node is freed before count is decremented *)
Get(r) ==
  \/ AssertNotUnder(r, "testEmpty")
  \/ TestEmpty(r, "assertGet", "readFirst")
  \/ TakeFirst(r)
  \/ StoreFirst(r, "freeTmp")
  \/ FreeTmp(r, "loadDec")
  \/ CountGet(r, "taken")

Writer(w) == Add(w) \/ AddReturned(w, "assertAdd")
Reader(r) == Get(r) \/ GetReturned(r, "assertGet")

(* abort(), SIGSEGV or an allocator abort has ended the process *)
Dead == fault # "none" /\ UNCHANGED vars

Next ==
  \/ \E w \in Writers : Writer(w)
  \/ \E r \in Readers : Reader(r)
  \/ Dead

Spec == Init /\ [][Next]_vars

TypeOK == QueueTypeOK /\ pc \in [Callers -> PCs]
=============================================================================
