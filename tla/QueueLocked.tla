----------------------------- MODULE QueueLocked -----------------------------
(***************************************************************************)
(* The queue programs that guard queue_add and queue_get with one lock:    *)
(*   mutex, spin, sem        task2_2/{mutex,spinloc,semafors}: the lock is *)
(*                           taken inside queue_add and queue_get;         *)
(*   my_mutex, my_spinlock   task2_4: reader() and writer() take the lock  *)
(*                           around the calls of task2_1/queue.c.          *)
(* The lock is AbstractLock: MyMutex and MySpinlock implement it, the      *)
(* pthread primitives and the semaphore (initially 1) are external.        *)
(***************************************************************************)
EXTENDS Queue

CONSTANTS
  Programs,   \* the programs under consideration
  Monitor     \* the qmonitor thread

AllPrograms == {"mutex", "spin", "sem", "my_mutex", "my_spinlock"}

ASSUME LockedAssumption ==
  /\ Programs \subseteq AllPrograms
  /\ Monitor \notin Callers

Threads == Callers \union {Monitor}

VARIABLES
  program,    \* which program is running
  depth       \* the lock

Lock == INSTANCE AbstractLock

vars == <<queueVars, program, depth>>

AllocFirst == program \in {"mutex", "spin", "sem"}

(* the first statement of queue_add and queue_get *)
AddStart == IF AllocFirst THEN "alloc" ELSE "lockAdd"
GetStart == "lockGet"

Init ==
  /\ QueueInit
  /\ Lock!Init
  /\ program \in Programs
  /\ pc = [t \in Threads |-> IF t \in Writers THEN AddStart
                             ELSE IF t \in Readers THEN GetStart
                             ELSE "monitor"]

(* Mutant: the lock does not wait for its holder. *)
AcquireAnyway(t, at, to) ==
  /\ At(t, at)
  /\ depth' = [depth EXCEPT ![t] = 1]
  /\ Goto(t, to)
  /\ UNCHANGED <<shared, heap, locals, client, fault, history, program>>

-----------------------------------------------------------------------------
Acquire(t, at, to) ==
  /\ At(t, at)
  /\ depth[t] = 0
  /\ Lock!Acquire(t)
  /\ Goto(t, to)
  /\ UNCHANGED <<shared, heap, locals, client, fault, history, program>>

Release(t, at, to) ==
  /\ At(t, at)
  /\ Lock!Release(t)
  /\ Goto(t, to)
  /\ UNCHANGED <<shared, heap, locals, client, fault, history, program>>

(* a step of Queue, which leaves the lock alone *)
Unlocked(step) == step /\ UNCHANGED <<program, depth>>

(* Mutant: spin forgets new as the others do. *)
FreeNewForgotten(w) ==
  /\ At(w, "freeNew")
  /\ Goto(w, "alloc")
  /\ UNCHANGED <<shared, heap, locals, client, fault, history, program,
                 depth>>

(* free(new), after a failed attempt *)
FreeNew(w) ==
  /\ At(w, "freeNew")
  /\ live' = live \ {new[w]}
  /\ Goto(w, "alloc")
  /\ UNCHANGED <<shared, val, next, locals, client, fault, history, program,
                 depth>>

(* queue_add with its own lock: the node is allocated first; a full queue  *)
(* is left through the statement at afterFull                              *)
LockedAdd(w, afterFull) ==
  \/ Unlocked(AllocNew(w, "lockAdd"))
  \/ Acquire(w, "lockAdd", "assertAdd")
  \/ Unlocked(AssertNotOver(w, "testFull"))
  \/ Unlocked(TestFull(w, "unlockFull", "testFirst"))
  \/ Release(w, "unlockFull", afterFull)
  \/ Unlocked(LinkNew(w))
  \/ Unlocked(CountAdd(w, "unlockAdd"))
  \/ Release(w, "unlockAdd", "added")

(* queue_get with its own lock: the node is freed after the unlock *)
LockedGet(r) ==
  \/ Acquire(r, "lockGet", "assertGet")
  \/ Unlocked(AssertNotUnder(r, "testEmpty"))
  \/ Unlocked(TestEmpty(r, "unlockEmpty", "readFirst"))
  \/ Release(r, "unlockEmpty", "lockGet")
  \/ Unlocked(TakeFirst(r))
  \/ Unlocked(StoreFirst(r, "loadDec"))
  \/ Unlocked(CountGet(r, "unlockGet"))
  \/ Release(r, "unlockGet", "freeTmp")
  \/ Unlocked(FreeTmp(r, "taken"))

(* mutex and sem forget new when the queue is full; spin frees it *)
MutexAdd(w) == program = "mutex" /\ LockedAdd(w, "alloc")
MutexGet(r) == program = "mutex" /\ LockedGet(r)

SemAdd(w) == program = "sem" /\ LockedAdd(w, "alloc")
SemGet(r) == program = "sem" /\ LockedGet(r)

SpinAdd(w) ==
  /\ program = "spin"
  /\ LockedAdd(w, "freeNew") \/ FreeNew(w)
SpinGet(r) == program = "spin" /\ LockedGet(r)

-----------------------------------------------------------------------------
(* task2_4: the caller's lock around the unsynchronised queue_add/queue_get *)
GuardedAdd(w) ==
  \/ Acquire(w, "lockAdd", "assertAdd")
  \/ Unlocked(AssertNotOver(w, "testFull"))
  \/ Unlocked(TestFull(w, "unlockFull", "alloc"))
  \/ Unlocked(AllocNew(w, "testFirst"))
  \/ Unlocked(LinkNew(w))
  \/ Unlocked(CountAdd(w, "unlockAdd"))
  \/ Release(w, "unlockFull", "lockAdd")
  \/ Release(w, "unlockAdd", "added")

GuardedGet(r) ==
  \/ Acquire(r, "lockGet", "assertGet")
  \/ Unlocked(AssertNotUnder(r, "testEmpty"))
  \/ Unlocked(TestEmpty(r, "unlockEmpty", "readFirst"))
  \/ Unlocked(TakeFirst(r))
  \/ Unlocked(StoreFirst(r, "freeTmp"))
  \/ Unlocked(FreeTmp(r, "loadDec"))
  \/ Unlocked(CountGet(r, "unlockGet"))
  \/ Release(r, "unlockEmpty", "lockGet")
  \/ Release(r, "unlockGet", "taken")

MyMutexWriter(w) == program = "my_mutex" /\ GuardedAdd(w)
MyMutexReader(r) == program = "my_mutex" /\ GuardedGet(r)
MySpinlockWriter(w) == program = "my_spinlock" /\ GuardedAdd(w)
MySpinlockReader(r) == program = "my_spinlock" /\ GuardedGet(r)

-----------------------------------------------------------------------------
(* queue_print_stats of semafors/queue.c: the only monitor that takes the  *)
(* lock before it reads the fields                                         *)
PrintStats ==
  /\ program = "sem"
  /\ \/ Acquire(Monitor, "monitor", "printing")
     \/ Release(Monitor, "printing", "monitor")

Writer(w) ==
  \/ MutexAdd(w) \/ SemAdd(w) \/ SpinAdd(w)
  \/ MyMutexWriter(w) \/ MySpinlockWriter(w)
  \/ Unlocked(AddReturned(w, AddStart))

Reader(r) ==
  \/ MutexGet(r) \/ SemGet(r) \/ SpinGet(r)
  \/ MyMutexReader(r) \/ MySpinlockReader(r)
  \/ Unlocked(GetReturned(r, GetStart))

Dead == fault # "none" /\ UNCHANGED vars

Next ==
  \/ \E w \in Writers : Writer(w)
  \/ \E r \in Readers : Reader(r)
  \/ PrintStats
  \/ Dead

Spec == Init /\ [][Next]_vars

-----------------------------------------------------------------------------
TypeOK ==
  /\ QueueTypeOK
  /\ program \in Programs
  /\ depth \in [Threads -> 0 .. 1]

(* The list as a program can walk it: the n-th cell from first, or NULL. *)
NthCell ==
  LET nth[n \in 0 .. Cardinality(Cells)] ==
        IF n = 0 THEN first
        ELSE IF nth[n - 1] = NULL THEN NULL ELSE next[nth[n - 1]]
  IN  nth

Chain == {NthCell[n] : n \in DOMAIN NthCell} \ {NULL}

(* Whenever the lock is free the list is exactly what was added and not    *)
(* yet taken: the walk from first meets those values in order and ends in  *)
(* NULL, every cell on it is allocated, last is its end, and count and the *)
(* statistics agree with it; so what queue_print_stats prints under the    *)
(* semaphore is the state of one moment.                                   *)
ListIsContents ==
  (Lock!Free \/ \E t \in Threads : pc[t] = "printing") /\ fault = "none" =>
    LET n == Len(sent) - Len(delivered)
    IN  /\ count = n
        /\ add_count - get_count = n
        /\ \A k \in 0 .. n - 1 :
             /\ NthCell[k] \in live
             /\ val[NthCell[k]] = sent[Len(delivered) + k + 1]
        /\ NthCell[n] = NULL
        /\ n > 0 => last = NthCell[n - 1]

(* Each program implements the bounded FIFO, values entering when they are *)
(* linked in and leaving when they are read out.                           *)
Fifo == INSTANCE BoundedFifo WITH Values <- 0 .. MaxVal

ImplementsFifo == Fifo!Spec

(* Every allocated node is on the list, or still in the hands of the call  *)
(* that allocated it or is about to free it.                               *)
NoLeak ==
  \A c \in live :
    \/ c \in Chain
    \/ \E w \in Writers : new[w] = c /\ pc[w] \notin {"alloc", "added", "stop"}
    \/ \E r \in Readers : tmp[r] = c /\ pc[r] # "lockGet"

(* The programs that free the node of a failed queue_add, or allocate it   *)
(* only after the test, lose none.                                         *)
NoLeakElsewhere ==
  program \in {"spin", "my_mutex", "my_spinlock"} => NoLeak
=============================================================================
