------------------------------- MODULE MyMutex -------------------------------
(***************************************************************************)
(* The futex mutex of src/sem2/lab2/task2_4/my_mutex (my_mutex.c/.h).      *)
(*                                                                         *)
(* Any thread may call my_mutex_lock or my_mutex_unlock at any time: the   *)
(* client is the most general one.  pc[t] names the statement thread t     *)
(* executes next, "out" when it is in neither call.  Every atomic access,  *)
(* plain access of a shared field and system call is a step of its own.    *)
(*                                                                         *)
(* m->owner and m->recursion are plain fields that race formally.  A       *)
(* thread only asks whether owner is itself, and only it ever stores its   *)
(* own tid there, so by coherence every build reads what a sequentially    *)
(* consistent one reads; recursion is touched by the owner only.           *)
(***************************************************************************)
EXTENDS Naturals, FiniteSets

CONSTANTS
  Threads,      \* the threads (their tids)
  NoOwner,      \* m->owner = 0, the tid of no thread
  MaxDepth      \* bound: a client nests at most this many locks

Types == {"NORMAL", "RECURSIVE", "ERRORCHECK"}

ASSUME MutexAssumption ==
  /\ NoOwner \notin Threads
  /\ MaxDepth \in Nat \ {0}

VARIABLES
  lock,       \* 1 = unlocked, 0 = locked
  owner,
  recursion,
  type,       \* chosen by my_mutex_init, never changed
  futexQ,     \* threads asleep in FUTEX_WAIT on &m->lock
  pc,
  aborted,    \* "no", or which abort() ended the process
  depth       \* history: acquisitions of t minus its releases

vars == <<lock, owner, recursion, type, futexQ, pc, aborted, depth>>

PCs == {"out",
        "testLock", "testOwner", "relock", "cas", "setOwner", "setRecursion",
        "futexWait", "asleep",
        "checkOwner", "notOwner", "decRecursion", "clearOwner",
        "clearRecursion", "storeLock", "futexWake"}

(* my_mutex_init *)
Init ==
  /\ lock = 1
  /\ owner = NoOwner
  /\ recursion = 0
  /\ type \in Types
  /\ futexQ = {}
  /\ pc = [t \in Threads |-> "out"]
  /\ aborted = "no"
  /\ depth = [t \in Threads |-> 0]

Goto(t, label) == pc' = [pc EXCEPT ![t] = label]

-----------------------------------------------------------------------------
(* my_mutex_lock *)

CallLock(t) ==
  /\ pc[t] = "out"
  /\ depth[t] < MaxDepth
  /\ Goto(t, "testLock")
  /\ UNCHANGED <<type, lock, owner, recursion, futexQ, aborted, depth>>

TestLock(t) ==
  /\ pc[t] = "testLock"
  /\ Goto(t, IF lock = 0 THEN "testOwner" ELSE "cas")
  /\ UNCHANGED <<type, lock, owner, recursion, futexQ, aborted, depth>>

(* Mutant: any holder counts as the caller. *)
TestOwnerSkipped(t) ==
  /\ pc[t] = "testOwner"
  /\ Goto(t, "relock")
  /\ UNCHANGED <<type, lock, owner, recursion, futexQ, aborted, depth>>

TestOwner(t) ==
  /\ pc[t] = "testOwner"
  /\ Goto(t, IF owner = t THEN "relock" ELSE "cas")
  /\ UNCHANGED <<type, lock, owner, recursion, futexQ, aborted, depth>>

(* the switch on m->type: count, refuse (errno = EDEADLK), or abort *)
Relock(t) ==
  /\ pc[t] = "relock"
  /\ \/ /\ type = "RECURSIVE"
        /\ recursion' = recursion + 1
        /\ depth' = [depth EXCEPT ![t] = @ + 1]
        /\ Goto(t, "out")
        /\ UNCHANGED aborted
     \/ /\ type = "ERRORCHECK"
        /\ Goto(t, "out")
        /\ UNCHANGED <<recursion, depth, aborted>>
     \/ /\ type = "NORMAL"
        /\ aborted' = "deadlockDetected"
        /\ UNCHANGED <<recursion, depth, pc>>
  /\ UNCHANGED <<type, lock, owner, futexQ>>

(* Mutant: a store instead of the compare-and-exchange. *)
CasBlind(t) ==
  /\ pc[t] = "cas"
  /\ lock' = 0
  /\ depth' = [depth EXCEPT ![t] = 1]
  /\ Goto(t, "setOwner")
  /\ UNCHANGED <<type, owner, recursion, futexQ, aborted>>

Cas(t) ==
  /\ pc[t] = "cas"
  /\ IF lock = 1
     THEN /\ lock' = 0
          /\ depth' = [depth EXCEPT ![t] = 1]
          /\ Goto(t, "setOwner")
     ELSE /\ Goto(t, "futexWait")
          /\ UNCHANGED <<lock, depth>>
  /\ UNCHANGED <<type, owner, recursion, futexQ, aborted>>

SetOwner(t) ==
  /\ pc[t] = "setOwner"
  /\ owner' = t
  /\ Goto(t, "setRecursion")
  /\ UNCHANGED <<type, lock, recursion, futexQ, aborted, depth>>

(* Mutant: the acquisition does not set recursion. *)
SetRecursionForgotten(t) ==
  /\ pc[t] = "setRecursion"
  /\ Goto(t, "out")
  /\ UNCHANGED <<type, lock, owner, recursion, futexQ, aborted, depth>>

SetRecursion(t) ==
  /\ pc[t] = "setRecursion"
  /\ recursion' = 1
  /\ Goto(t, "out")
  /\ UNCHANGED <<type, lock, owner, futexQ, aborted, depth>>

(* Mutant: sleeping without comparing m->lock with 0 again. *)
FutexWaitNoCompare(t) ==
  /\ pc[t] = "futexWait"
  /\ futexQ' = futexQ \union {t}
  /\ Goto(t, "asleep")
  /\ UNCHANGED <<type, lock, owner, recursion, aborted, depth>>

(* FUTEX_WAIT compares and enqueues atomically; EAGAIN retries the loop *)
FutexWait(t) ==
  /\ pc[t] = "futexWait"
  /\ IF lock = 0
     THEN /\ futexQ' = futexQ \union {t}
          /\ Goto(t, "asleep")
     ELSE /\ Goto(t, "cas")
          /\ UNCHANGED futexQ
  /\ UNCHANGED <<type, lock, owner, recursion, aborted, depth>>

(* futex(2) allows FUTEX_WAIT to return 0 without a wake-up *)
SpuriousWakeup(t) ==
  /\ pc[t] = "asleep"
  /\ futexQ' = futexQ \ {t}
  /\ Goto(t, "cas")
  /\ UNCHANGED <<type, lock, owner, recursion, aborted, depth>>

(* any error of FUTEX_WAIT other than EAGAIN aborts the process *)
FutexWaitFails(t) ==
  /\ pc[t] \in {"futexWait", "asleep"}
  /\ aborted' = "futexWait"
  /\ UNCHANGED <<type, lock, owner, recursion, futexQ, pc, depth>>

-----------------------------------------------------------------------------
(* my_mutex_unlock *)

CallUnlock(t) ==
  /\ pc[t] = "out"
  /\ Goto(t, "checkOwner")
  /\ UNCHANGED <<type, lock, owner, recursion, futexQ, aborted, depth>>

(* Mutant: unlock does not ask who the owner is. *)
CheckOwnerSkipped(t) ==
  /\ pc[t] = "checkOwner"
  /\ Goto(t, IF type = "RECURSIVE" THEN "decRecursion" ELSE "clearOwner")
  /\ UNCHANGED <<type, lock, owner, recursion, futexQ, aborted, depth>>

CheckOwner(t) ==
  /\ pc[t] = "checkOwner"
  /\ Goto(t, IF owner # t THEN "notOwner"
             ELSE IF type = "RECURSIVE" THEN "decRecursion"
             ELSE "clearOwner")
  /\ UNCHANGED <<type, lock, owner, recursion, futexQ, aborted, depth>>

NotOwner(t) ==
  /\ pc[t] = "notOwner"
  /\ IF type = "ERRORCHECK"
     THEN aborted' = "notOwner" /\ UNCHANGED pc
     ELSE Goto(t, "out") /\ UNCHANGED aborted
  /\ UNCHANGED <<type, lock, owner, recursion, futexQ, depth>>

DecRecursion(t) ==
  /\ pc[t] = "decRecursion"
  /\ recursion' = recursion - 1
  /\ IF recursion' > 0
     THEN /\ depth' = [depth EXCEPT ![t] = @ - 1]
          /\ Goto(t, "out")
     ELSE /\ Goto(t, "clearOwner")
          /\ UNCHANGED depth
  /\ UNCHANGED <<type, lock, owner, futexQ, aborted>>

ClearOwner(t) ==
  /\ pc[t] = "clearOwner"
  /\ owner' = NoOwner
  /\ Goto(t, "clearRecursion")
  /\ UNCHANGED <<type, lock, recursion, futexQ, aborted, depth>>

ClearRecursion(t) ==
  /\ pc[t] = "clearRecursion"
  /\ recursion' = 0
  /\ Goto(t, "storeLock")
  /\ UNCHANGED <<type, lock, owner, futexQ, aborted, depth>>

StoreLock(t) ==
  /\ pc[t] = "storeLock"
  /\ lock' = 1
  /\ depth' = [depth EXCEPT ![t] = 0]
  /\ Goto(t, "futexWake")
  /\ UNCHANGED <<type, owner, recursion, futexQ, aborted>>

(* Mutant: the release wakes nobody. *)
FutexWakeForgotten(t) ==
  /\ pc[t] = "futexWake"
  /\ Goto(t, "out")
  /\ UNCHANGED <<type, lock, owner, recursion, futexQ, aborted, depth>>

(* FUTEX_WAKE 1 moves one sleeper, if there is one, back into the loop *)
FutexWake(t) ==
  /\ pc[t] = "futexWake"
  /\ \/ /\ futexQ = {}
        /\ Goto(t, "out")
        /\ UNCHANGED futexQ
     \/ \E w \in futexQ :
          /\ futexQ' = futexQ \ {w}
          /\ pc' = [pc EXCEPT ![t] = "out", ![w] = "cas"]
  /\ UNCHANGED <<type, lock, owner, recursion, aborted, depth>>

FutexWakeFails(t) ==
  /\ pc[t] = "futexWake"
  /\ aborted' = "futexWake"
  /\ UNCHANGED <<type, lock, owner, recursion, futexQ, pc, depth>>

-----------------------------------------------------------------------------
(* the steps of a call: what the scheduler lets a runnable thread do *)
LockStep(t) ==
  \/ TestLock(t) \/ TestOwner(t) \/ Relock(t) \/ Cas(t)
  \/ SetOwner(t) \/ SetRecursion(t) \/ FutexWait(t)

UnlockStep(t) ==
  \/ CheckOwner(t) \/ NotOwner(t) \/ DecRecursion(t) \/ ClearOwner(t)
  \/ ClearRecursion(t) \/ StoreLock(t) \/ FutexWake(t)

Running == aborted = "no"

Step(t) == Running /\ (LockStep(t) \/ UnlockStep(t))

Environment(t) ==
  /\ Running
  /\ \/ CallLock(t) \/ CallUnlock(t) \/ SpuriousWakeup(t)
     \/ FutexWaitFails(t) \/ FutexWakeFails(t)

(* the process is gone after abort() *)
Terminated == ~Running /\ UNCHANGED vars

Next == (\E t \in Threads : Step(t) \/ Environment(t)) \/ Terminated

Spec == Init /\ [][Next]_vars

(* every runnable thread keeps being scheduled *)
FairSpec == Spec /\ \A t \in Threads : WF_vars(Step(t))

-----------------------------------------------------------------------------
TypeOK ==
  /\ lock \in {0, 1}
  /\ owner \in Threads \union {NoOwner}
  /\ recursion \in Nat
  /\ type \in Types
  /\ futexQ \in SUBSET Threads
  /\ pc \in [Threads -> PCs]
  /\ aborted \in {"no", "deadlockDetected", "notOwner",
                  "futexWait", "futexWake"}
  /\ depth \in [Threads -> Nat]

Holds(t) == depth[t] > 0

(* Mutual exclusion, for arbitrary clients: two threads never hold the     *)
(* mutex together, whatever unlocks a non-owner attempts.                  *)
MutualExclusion == \A t, u \in Threads : Holds(t) /\ Holds(u) => t = u

(* While a client is in its critical section the fields agree with what it *)
(* has acquired: locked, owned by it, and recursion is exactly the number  *)
(* of unlock calls that will free the mutex, whatever other threads are in *)
(* the middle of.                                                          *)
OwnerRecordsHolder ==
  \A t \in Threads : Holds(t) /\ pc[t] = "out" =>
    /\ lock = 0
    /\ owner = t
    /\ recursion = depth[t]

(* The test at the top of my_mutex_lock (two separate reads, lock and then *)
(* owner) is exact: "deadlockDetected" accuses only a caller that holds   *)
(* the mutex, and a caller that holds it never goes on to sleep on itself. *)
SelfDeadlockDetected ==
  \A t \in Threads :
    /\ pc[t] = "relock" => Holds(t)
    /\ pc[t] \in {"cas", "futexWait", "asleep"} => ~Holds(t)

(* No lost wake-up: if the mutex is free while threads sleep on the futex, *)
(* some thread is about to wake one or is about to try the lock itself.    *)
NoLostWakeup ==
  lock = 1 /\ futexQ # {} =>
    \E t \in Threads : pc[t] \in {"futexWake", "cas"}

(* The mutex implements the abstract lock: every step acquires, releases   *)
(* or leaves alone one thread's hold, and acquires only a lock that no     *)
(* other thread holds.                                                     *)
Abstract == INSTANCE AbstractLock

ImplementsLock == Abstract!Spec

(* A free mutex with sleepers is taken: under fair scheduling the sleepers *)
(* are not forgotten (FUTEX_WAKE follows every release), unless abort()    *)
(* ends the process first.                                                 *)
HandOff == (lock = 1 /\ futexQ # {}) ~> (lock = 0 \/ ~Running)
=============================================================================
