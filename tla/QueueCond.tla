------------------------------ MODULE QueueCond ------------------------------
(***************************************************************************)
(* task2_2/conditionalVarible: queue_add waits on not_full and queue_get   *)
(* on not_empty, both with q->lock, and each broadcasts the other's        *)
(* condition before it unlocks.  The pthread mutex and condition variables *)
(* are external: pthread_cond_wait releases and sleeps in one step, may    *)
(* return spuriously, and reacquires the mutex before it returns.          *)
(***************************************************************************)
EXTENDS Queue

CONSTANT MaxSpurious  \* bound: so many spurious wake-ups in a behaviour

ASSUME CondAssumption == MaxSpurious \in Nat

VARIABLES
  depth,               \* q->lock
  not_full, not_empty, \* the threads asleep on each condition variable
  spurious             \* spurious wake-ups so far

Threads == Callers

Lock == INSTANCE AbstractLock

sync == <<depth, not_full, not_empty, spurious>>
vars == <<queueVars, sync>>

Init ==
  /\ QueueInit
  /\ Lock!Init
  /\ not_full = {} /\ not_empty = {}
  /\ spurious = 0
  /\ pc = [t \in Callers |-> IF t \in Writers THEN "alloc" ELSE "lockGet"]

-----------------------------------------------------------------------------
others == <<shared, heap, locals, client, fault, history>>

Acquire(t, at, to) ==
  /\ At(t, at)
  /\ depth[t] = 0
  /\ Lock!Acquire(t)
  /\ Goto(t, to)
  /\ UNCHANGED <<others, not_full, not_empty, spurious>>

Release(t, at, to) ==
  /\ At(t, at)
  /\ Lock!Release(t)
  /\ Goto(t, to)
  /\ UNCHANGED <<others, not_full, not_empty, spurious>>

(* a step of Queue, which leaves lock and condition variables alone *)
Unlocked(step) == step /\ UNCHANGED sync

(* pthread_cond_wait(&q->not_full, &q->lock) until it sleeps *)
WaitNotFull(w) ==
  /\ At(w, "waitFull")
  /\ Lock!Release(w)
  /\ not_full' = not_full \union {w}
  /\ Goto(w, "asleep")
  /\ UNCHANGED <<others, not_empty, spurious>>

WaitNotEmpty(r) ==
  /\ At(r, "waitEmpty")
  /\ Lock!Release(r)
  /\ not_empty' = not_empty \union {r}
  /\ Goto(r, "asleep")
  /\ UNCHANGED <<others, not_full, spurious>>

(* every sleeper goes on to reacquire the mutex *)
WakeAll(t, sleepers, to, relock) ==
  pc' = [u \in Callers |-> IF u = t THEN to
                           ELSE IF u \in sleepers THEN relock ELSE pc[u]]

(* Mutant: queue_add signals nobody. *)
BroadcastNotEmptyForgotten(w) ==
  /\ At(w, "broadcastNotEmpty")
  /\ Goto(w, "unlockAdd")
  /\ UNCHANGED <<others, sync>>

(* pthread_cond_broadcast(&q->not_empty) *)
BroadcastNotEmpty(w) ==
  /\ At(w, "broadcastNotEmpty")
  /\ WakeAll(w, not_empty, "unlockAdd", "relockGet")
  /\ not_empty' = {}
  /\ UNCHANGED <<others, depth, not_full, spurious>>

(* pthread_cond_broadcast(&q->not_full) *)
BroadcastNotFull(r) ==
  /\ At(r, "broadcastNotFull")
  /\ WakeAll(r, not_full, "unlockGet", "relockAdd")
  /\ not_full' = {}
  /\ UNCHANGED <<others, depth, not_empty, spurious>>

SpuriousWakeup(t) ==
  /\ At(t, "asleep")
  /\ spurious < MaxSpurious
  /\ spurious' = spurious + 1
  /\ not_full' = not_full \ {t}
  /\ not_empty' = not_empty \ {t}
  /\ Goto(t, IF t \in Writers THEN "relockAdd" ELSE "relockGet")
  /\ UNCHANGED <<others, depth>>

-----------------------------------------------------------------------------
(* queue_get: while (q->count == 0) wait *)
Get(r) ==
  \/ Acquire(r, "lockGet", "assertGet")
  \/ Unlocked(AssertNotUnder(r, "testEmpty"))
  \/ Unlocked(TestEmpty(r, "waitEmpty", "readFirst"))
  \/ WaitNotEmpty(r)
  \/ Acquire(r, "relockGet", "testEmpty")
  \/ Unlocked(TakeFirst(r))
  \/ Unlocked(StoreFirst(r, "loadDec"))
  \/ Unlocked(CountGet(r, "broadcastNotFull"))
  \/ BroadcastNotFull(r)
  \/ Release(r, "unlockGet", "freeTmp")
  \/ Unlocked(FreeTmp(r, "taken"))

(* Mutant: if instead of while around pthread_cond_wait. *)
AddWithIf(w) ==
  \/ Unlocked(AllocNew(w, "lockAdd"))
  \/ Acquire(w, "lockAdd", "assertAdd")
  \/ Unlocked(AssertNotOver(w, "testFull"))
  \/ Unlocked(TestFull(w, "waitFull", "testFirst"))
  \/ WaitNotFull(w)
  \/ Acquire(w, "relockAdd", "testFirst")
  \/ Unlocked(LinkNew(w))
  \/ Unlocked(CountAdd(w, "broadcastNotEmpty"))
  \/ BroadcastNotEmpty(w)
  \/ Release(w, "unlockAdd", "added")

(* queue_add: while (q->count == q->max_count) wait *)
Add(w) ==
  \/ Unlocked(AllocNew(w, "lockAdd"))
  \/ Acquire(w, "lockAdd", "assertAdd")
  \/ Unlocked(AssertNotOver(w, "testFull"))
  \/ Unlocked(TestFull(w, "waitFull", "testFirst"))
  \/ WaitNotFull(w)
  \/ Acquire(w, "relockAdd", "testFull")
  \/ Unlocked(LinkNew(w))
  \/ Unlocked(CountAdd(w, "broadcastNotEmpty"))
  \/ BroadcastNotEmpty(w)
  \/ Release(w, "unlockAdd", "added")

Writer(w) == Add(w) \/ Unlocked(AddReturned(w, "alloc"))
Reader(r) == Get(r) \/ Unlocked(GetReturned(r, "lockGet"))

Dead == fault # "none" /\ UNCHANGED vars

(* a reader of an empty queue may wait for a writer that has stopped *)
Idle ==
  /\ \A w \in Writers : pc[w] = "stop"
  /\ \A r \in Readers : pc[r] = "asleep"
  /\ UNCHANGED vars

Next ==
  \/ \E w \in Writers : Writer(w)
  \/ \E r \in Readers : Reader(r)
  \/ \E t \in Callers : SpuriousWakeup(t)
  \/ Dead
  \/ Idle

Spec == Init /\ [][Next]_vars

(* A thread that can run does; which thread gets the mutex is left open.   *)
FairSpec ==
  /\ Spec
  /\ \A w \in Writers : WF_vars(Writer(w))
  /\ \A r \in Readers : WF_vars(Reader(r))

-----------------------------------------------------------------------------
TypeOK ==
  /\ QueueTypeOK
  /\ depth \in [Threads -> 0 .. 1]
  /\ not_full \in SUBSET Writers
  /\ not_empty \in SUBSET Readers
  /\ spurious \in 0 .. MaxSpurious

(* Nobody sleeps on a condition that holds: with the mutex free, a reader  *)
(* waits only on an empty queue and a writer only on a full one.           *)
NoMissedSignal ==
  Lock!Free =>
    /\ not_empty # {} => count = 0
    /\ not_full # {} => count = MaxCount

(* the blocking queue implements the bounded FIFO *)
Fifo == INSTANCE BoundedFifo WITH Values <- 0 .. MaxVal

ImplementsFifo == Fifo!Spec

(* Every value the writers add reaches a reader, however often the queue   *)
(* is full or empty on the way and whoever wins the mutex, provided the    *)
(* spurious wake-ups do not go on forever and no allocation fails, which   *)
(* ends the process.                                                       *)
AllDelivered ==
  <>(Len(delivered) = Cardinality(Writers) * MaxVal \/ fault = "oom")
=============================================================================
