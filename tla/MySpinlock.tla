------------------------------ MODULE MySpinlock ------------------------------
(***************************************************************************)
(* The spinlock of src/sem2/lab2/task2_4/my_spinlock (my_spinlock.c).      *)
(* It records no owner: my_spinlock_unlock frees the lock for whoever      *)
(* calls it.  The clients are those of main.c, whose threads unlock only   *)
(* what they have locked.                                                  *)
(***************************************************************************)
EXTENDS Naturals

CONSTANT Threads

VARIABLES
  lock,   \* 1 = unlocked, 0 = locked
  pc,
  depth   \* history: what each thread holds

vars == <<lock, pc, depth>>

PCs == {"out", "spin", "held", "unlock", "constWritten"}

(* my_spinlock_init *)
Init ==
  /\ lock = 1
  /\ pc = [t \in Threads |-> "out"]
  /\ depth = [t \in Threads |-> 0]

Goto(t, label) == pc' = [pc EXCEPT ![t] = label]

CallLock(t) ==
  /\ pc[t] = "out"
  /\ Goto(t, "spin")
  /\ UNCHANGED <<lock, depth>>

(* Mutant: an atomic decrement instead of the compare-and-exchange. *)
SpinDecrement(t) ==
  /\ pc[t] = "spin"
  /\ lock' = lock - 1
  /\ depth' = [depth EXCEPT ![t] = 1]
  /\ Goto(t, "held")

(* atomic_compare_exchange_weak(lock, &expected, 0): succeeds only on 1,   *)
(* and may fail spuriously                                                 *)
Spin(t) ==
  /\ pc[t] = "spin"
  /\ \/ /\ lock = 1
        /\ lock' = 0
        /\ depth' = [depth EXCEPT ![t] = 1]
        /\ Goto(t, "held")
     \/ UNCHANGED vars

CallUnlock(t) ==
  /\ pc[t] = "held"
  /\ Goto(t, "unlock")
  /\ UNCHANGED <<lock, depth>>

(* atomic_compare_exchange_strong(lock, &expected, 1); a failure would     *)
(* store into expected, which is declared const                            *)
Unlock(t) ==
  /\ pc[t] = "unlock"
  /\ IF lock = 0
     THEN /\ lock' = 1
          /\ depth' = [depth EXCEPT ![t] = 0]
          /\ Goto(t, "out")
     ELSE /\ Goto(t, "constWritten")
          /\ UNCHANGED <<lock, depth>>

Next ==
  \E t \in Threads : CallLock(t) \/ Spin(t) \/ CallUnlock(t) \/ Unlock(t)

Spec == Init /\ [][Next]_vars

-----------------------------------------------------------------------------
TypeOK ==
  /\ lock \in {0, 1}
  /\ pc \in [Threads -> PCs]
  /\ depth \in [Threads -> {0, 1}]

(* The compare-and-exchange in my_spinlock_unlock never fails, so the      *)
(* const object expected is never written: nobody else frees the lock      *)
(* while it is held.                                                       *)
ConstNeverWritten == \A t \in Threads : pc[t] # "constWritten"

(* At most one thread is between my_spinlock_lock and the end of           *)
(* my_spinlock_unlock.                                                     *)
MutualExclusion ==
  \A t, u \in Threads :
    pc[t] \in {"held", "unlock"} /\ pc[u] \in {"held", "unlock"} => t = u

(* The spinlock implements the abstract lock for these clients. *)
Abstract == INSTANCE AbstractLock

ImplementsLock == Abstract!Spec
=============================================================================
