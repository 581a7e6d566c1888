--------------------------- MODULE MyMutex_proofs ---------------------------
(***************************************************************************)
(* Proofs about MyMutex for any set of threads and any nesting depth: type *)
(* correctness, mutual exclusion, the exactness of the self-deadlock test, *)
(* the absence of lost wake-ups, and the refinement of AbstractLock.       *)
(***************************************************************************)
EXTENDS MyMutex, TLAPS

(* The statements of lock/unlock that only the holder executes, and those  *)
(* that only a thread without the mutex executes.                          *)
HolderPCs == {"setOwner", "setRecursion", "relock", "decRecursion",
              "clearOwner", "clearRecursion", "storeLock"}
NonHolderPCs == {"cas", "futexWait", "asleep", "notOwner", "futexWake"}

(* The statements at which the holder's tid is not in m->owner, and those  *)
(* at which the holder has acquired exactly once.                          *)
UnrecordedPCs == {"setOwner", "clearRecursion", "storeLock"}
SinglePCs == UnrecordedPCs \union {"setRecursion", "clearOwner"}

ThreadInv(t) ==
  /\ depth[t] > 0 => lock = 0
  /\ pc[t] \in HolderPCs => depth[t] > 0
  /\ pc[t] \in NonHolderPCs => depth[t] = 0
  /\ owner = t <=> depth[t] > 0 /\ pc[t] \notin UnrecordedPCs
  /\ pc[t] \in SinglePCs => depth[t] = 1
  /\ depth[t] > 0 /\ pc[t] \notin SinglePCs => recursion = depth[t]
  /\ pc[t] = "decRecursion" => type = "RECURSIVE"
  /\ type # "RECURSIVE" => depth[t] <= 1
  /\ t \in futexQ <=> pc[t] = "asleep"

IInv ==
  /\ TypeOK
  /\ MutualExclusion
  /\ \A t \in Threads : ThreadInv(t)
  /\ NoLostWakeup

-----------------------------------------------------------------------------
(* Type correctness: no call by any client, error paths included, takes a  *)
(* field of my_mutex_t out of its range.  m->recursion in particular never *)
(* becomes negative, because only the recorded owner decrements it.        *)
LEMMA TypeStep == IInv /\ [Next]_vars => TypeOK'
PROOF
<1> SUFFICES ASSUME IInv, [Next]_vars PROVE TypeOK'
  OBVIOUS
<1> USE MutexAssumption DEF IInv, TypeOK, PCs, Types, Goto
<1>0. CASE UNCHANGED vars
  BY <1>0 DEF vars
<1>1. CASE Terminated
  BY <1>1 DEF Terminated, vars
<1>2. ASSUME NEW t \in Threads, Step(t) \/ Environment(t)
      PROVE  TypeOK'
  <2>1. CASE CallLock(t)
    BY <2>1 DEF CallLock
  <2>2. CASE TestLock(t)
    BY <2>2 DEF TestLock
  <2>3. CASE TestOwner(t)
    BY <2>3 DEF TestOwner
  <2>4. CASE Relock(t)
    BY <2>4 DEF Relock
  <2>5. CASE Cas(t)
    BY <2>5 DEF Cas
  <2>6. CASE SetOwner(t)
    BY <2>6 DEF SetOwner
  <2>7. CASE SetRecursion(t)
    BY <2>7 DEF SetRecursion
  <2>8. CASE FutexWait(t)
    BY <2>8 DEF FutexWait
  <2>9. CASE SpuriousWakeup(t)
    BY <2>9 DEF SpuriousWakeup
  <2>10. CASE FutexWaitFails(t)
    BY <2>10 DEF FutexWaitFails
  <2>11. CASE CallUnlock(t)
    BY <2>11 DEF CallUnlock
  <2>12. CASE CheckOwner(t)
    BY <2>12 DEF CheckOwner
  <2>13. CASE NotOwner(t)
    BY <2>13 DEF NotOwner
  <2>14. CASE DecRecursion(t)
    BY <2>14 DEF DecRecursion, ThreadInv, HolderPCs, SinglePCs, UnrecordedPCs
  <2>15. CASE ClearOwner(t)
    BY <2>15 DEF ClearOwner
  <2>16. CASE ClearRecursion(t)
    BY <2>16 DEF ClearRecursion
  <2>17. CASE StoreLock(t)
    BY <2>17 DEF StoreLock
  <2>18. CASE FutexWake(t)
    BY <2>18 DEF FutexWake
  <2>19. CASE FutexWakeFails(t)
    BY <2>19 DEF FutexWakeFails
  <2> QED
    BY <1>2, <2>1, <2>2, <2>3, <2>4, <2>5, <2>6, <2>7, <2>8, <2>9, <2>10, <2>11, <2>12, <2>13, <2>14, <2>15, <2>16, <2>17, <2>18, <2>19
       DEF Step, Environment, LockStep, UnlockStep
<1> QED
  BY <1>0, <1>1, <1>2 DEF Next

(* Every step of every client preserves the inductive invariant. *)
LEMMA InvStep == IInv /\ [Next]_vars => IInv'
PROOF
<1> SUFFICES ASSUME IInv, [Next]_vars
             PROVE  /\ MutualExclusion'
                    /\ \A u \in Threads : ThreadInv(u)'
                    /\ NoLostWakeup'
  BY TypeStep DEF IInv
<1> USE MutexAssumption
    DEF IInv, TypeOK, PCs, Types, Goto, MutualExclusion, Holds, ThreadInv,
        HolderPCs, NonHolderPCs, UnrecordedPCs, SinglePCs, NoLostWakeup
<1>0. CASE UNCHANGED vars
  BY <1>0 DEF vars
<1>1. CASE Terminated
  BY <1>1 DEF Terminated, vars
<1>2. ASSUME NEW t \in Threads, Step(t) \/ Environment(t)
      PROVE  /\ MutualExclusion'
             /\ \A u \in Threads : ThreadInv(u)'
             /\ NoLostWakeup'
  <2>1. CASE CallLock(t)
    BY <2>1 DEF CallLock
  <2>2. CASE TestLock(t)
    BY <2>2 DEF TestLock
  <2>3. CASE TestOwner(t)
    BY <2>3 DEF TestOwner
  <2>4. CASE Relock(t)
    BY <2>4 DEF Relock
  <2>5. CASE Cas(t)
    BY <2>5 DEF Cas
  <2>6. CASE SetOwner(t)
    BY <2>6 DEF SetOwner
  <2>7. CASE SetRecursion(t)
    BY <2>7 DEF SetRecursion
  <2>8. CASE FutexWait(t)
    BY <2>8 DEF FutexWait
  <2>9. CASE SpuriousWakeup(t)
    BY <2>9 DEF SpuriousWakeup
  <2>10. CASE FutexWaitFails(t)
    BY <2>10 DEF FutexWaitFails
  <2>11. CASE CallUnlock(t)
    BY <2>11 DEF CallUnlock
  <2>12. CASE CheckOwner(t)
    BY <2>12 DEF CheckOwner
  <2>13. CASE NotOwner(t)
    BY <2>13 DEF NotOwner
  <2>14. CASE DecRecursion(t)
    BY <2>14 DEF DecRecursion
  <2>15. CASE ClearOwner(t)
    BY <2>15 DEF ClearOwner
  <2>16. CASE ClearRecursion(t)
    BY <2>16 DEF ClearRecursion
  <2>17. CASE StoreLock(t)
    BY <2>17 DEF StoreLock
  <2>18. CASE FutexWake(t)
    BY <2>18 DEF FutexWake
  <2>19. CASE FutexWakeFails(t)
    BY <2>19 DEF FutexWakeFails
  <2> QED
    BY <1>2, <2>1, <2>2, <2>3, <2>4, <2>5, <2>6, <2>7, <2>8, <2>9, <2>10, <2>11, <2>12, <2>13, <2>14, <2>15, <2>16, <2>17, <2>18, <2>19
       DEF Step, Environment, LockStep, UnlockStep
<1> QED
  BY <1>0, <1>1, <1>2 DEF Next

(* The inductive invariant holds in every behaviour. *)
THEOREM Invariant == Spec => []IInv
PROOF
<1>1. Init => IInv
  BY MutexAssumption
     DEF Init, IInv, TypeOK, PCs, MutualExclusion, Holds, ThreadInv,
         HolderPCs, NonHolderPCs, UnrecordedPCs, SinglePCs, NoLostWakeup
<1> QED
  BY <1>1, InvStep, PTL DEF Spec

-----------------------------------------------------------------------------
(* Type correctness of my_mutex_t under arbitrary clients. *)
THEOREM TypeCorrect == Spec => []TypeOK
PROOF
<1>1. IInv => TypeOK
  BY DEF IInv
<1> QED
  BY <1>1, Invariant, PTL

(* Mutual exclusion, for any number of threads calling lock and unlock in  *)
(* any order, unlocks by non-owners included.                              *)
THEOREM Exclusive == Spec => []MutualExclusion
PROOF
<1>1. IInv => MutualExclusion
  BY DEF IInv
<1> QED
  BY <1>1, Invariant, PTL

(* Outside its calls a holder finds its tid in owner and its acquisitions  *)
(* counted by recursion.                                                   *)
THEOREM OwnerIsHolder == Spec => []OwnerRecordsHolder
PROOF
<1>1. IInv => OwnerRecordsHolder
  BY DEF IInv, OwnerRecordsHolder, Holds, ThreadInv, UnrecordedPCs, SinglePCs
<1> QED
  BY <1>1, Invariant, PTL

(* "deadlock detected" is reported exactly for a caller that would wait    *)
(* for itself.                                                             *)
THEOREM SelfDeadlockExact == Spec => []SelfDeadlockDetected
PROOF
<1>1. IInv => SelfDeadlockDetected
  BY DEF IInv, TypeOK, SelfDeadlockDetected, Holds, ThreadInv,
         HolderPCs, NonHolderPCs
<1> QED
  BY <1>1, Invariant, PTL

(* A sleeper on a free mutex is never forgotten: the futex protocol loses  *)
(* no wake-up, spurious returns of FUTEX_WAIT included.                    *)
THEOREM WakeupsKept == Spec => []NoLostWakeup
PROOF
<1>1. IInv => NoLostWakeup
  BY DEF IInv
<1> QED
  BY <1>1, Invariant, PTL

-----------------------------------------------------------------------------
(* A step of the mutex is a step of the abstract lock or leaves it alone.  *)
LEMMA RefinementStep ==
  IInv /\ [Next]_vars => [Abstract!Next]_depth
PROOF
<1> SUFFICES ASSUME IInv, [Next]_vars
             PROVE  [Abstract!Next]_depth
  OBVIOUS
<1> USE DEF IInv, TypeOK
<1>0. CASE UNCHANGED vars
  BY <1>0 DEF vars
<1>1. CASE Terminated
  BY <1>1 DEF Terminated, vars
<1>2. ASSUME NEW t \in Threads, Step(t) \/ Environment(t)
      PROVE  [Abstract!Next]_depth
  <2> USE DEF ThreadInv, HolderPCs, NonHolderPCs, SinglePCs, UnrecordedPCs,
              MutualExclusion, Holds
  <2>1. CASE Relock(t)
    <3>1. CASE type = "RECURSIVE"
      <4>1. Abstract!Acquire(t)
        BY <2>1, <3>1 DEF Relock, Abstract!Acquire
      <4> QED
        BY <4>1 DEF Abstract!Next
    <3>2. CASE type # "RECURSIVE"
      BY <2>1, <3>2 DEF Relock
    <3> QED
      BY <3>1, <3>2
  <2>2. CASE Cas(t)
    <3>1. CASE lock = 1
      <4>1. Abstract!Acquire(t)
        BY <2>2, <3>1 DEF Cas, Abstract!Acquire
      <4> QED
        BY <4>1 DEF Abstract!Next
    <3>2. CASE lock # 1
      BY <2>2, <3>2 DEF Cas
    <3> QED
      BY <3>1, <3>2
  <2>3. CASE DecRecursion(t)
    <3>1. CASE recursion' > 0
      <4>1. Abstract!Release(t)
        BY <2>3, <3>1 DEF DecRecursion, Abstract!Release
      <4> QED
        BY <4>1 DEF Abstract!Next
    <3>2. CASE ~(recursion' > 0)
      BY <2>3, <3>2 DEF DecRecursion
    <3> QED
      BY <3>1, <3>2
  <2>4. CASE StoreLock(t)
    <3>1. depth[t] > 0 /\ depth[t] - 1 = 0
      BY <2>4 DEF StoreLock
    <3>2. depth' = [depth EXCEPT ![t] = 0]
      BY <2>4 DEF StoreLock
    <3>3. Abstract!Release(t)
      BY <3>1, <3>2 DEF Abstract!Release
    <3> QED
      BY <3>3 DEF Abstract!Next
  <2>5. CASE UNCHANGED depth
    BY <2>5
  <2> QED
    BY <1>2, <2>1, <2>2, <2>3, <2>4, <2>5
       DEF Step, Environment, LockStep, UnlockStep, CallLock, TestLock,
           TestOwner, SetOwner, SetRecursion, FutexWait, SpuriousWakeup,
           FutexWaitFails, CallUnlock, CheckOwner, NotOwner, ClearOwner,
           ClearRecursion, FutexWake, FutexWakeFails
<1> QED
  BY <1>0, <1>1, <1>2 DEF Next

(* The futex mutex implements the abstract lock for every set of threads:  *)
(* what the queue programs assume of a lock, my_mutex.c provides.          *)
THEOREM Refinement == Spec => ImplementsLock
PROOF
<1>1. Init => Abstract!Init
  BY DEF Init, Abstract!Init
<1> QED
  BY <1>1, RefinementStep, Invariant, PTL DEF Spec, ImplementsLock, Abstract!Spec
=============================================================================
