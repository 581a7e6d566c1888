---------------------------- MODULE MCSem2_proofs ----------------------------
(***************************************************************************)
(* Proofs about the four programs that MCSem2 brings together, each for    *)
(* the specification of its own module and for every value of the          *)
(* constants: the spinlock, the queue without synchronisation, the clone   *)
(* threads and the user-level threads.                                     *)
(***************************************************************************)
EXTENDS MCSem2, FiniteSetTheorems, TLAPS

-----------------------------------------------------------------------------
(* The spinlock of task2_4.                                                *)

(* Who holds the lock is visible from both its history and its label, and  *)
(* the lock word is 0 exactly while somebody does.                         *)
SpinInv ==
  /\ Spinlock!TypeOK
  /\ Spinlock!MutualExclusion
  /\ Spinlock!ConstNeverWritten
  /\ \A t \in SpinThreads : depth[t] = 1 <=> spinPc[t] \in {"held", "unlock"}
  /\ \A t \in SpinThreads : depth[t] = 1 => lock = 0

(* Every step of the clients of main.c preserves the invariant. *)
LEMMA SpinStepKeeps == SpinInv /\ [Spinlock!Next]_Spinlock!vars => SpinInv'
PROOF
<1> SUFFICES ASSUME SpinInv, [Spinlock!Next]_Spinlock!vars PROVE SpinInv'
  OBVIOUS
<1> USE DEF SpinInv, Spinlock!TypeOK, Spinlock!PCs, Spinlock!Goto,
            Spinlock!MutualExclusion, Spinlock!ConstNeverWritten
<1>0. CASE UNCHANGED Spinlock!vars
  BY <1>0 DEF Spinlock!vars
<1>1. ASSUME NEW t \in SpinThreads, Spinlock!CallLock(t) PROVE SpinInv'
  BY <1>1 DEF Spinlock!CallLock
<1>2. ASSUME NEW t \in SpinThreads, Spinlock!Spin(t) PROVE SpinInv'
  BY <1>2 DEF Spinlock!Spin, Spinlock!vars
<1>3. ASSUME NEW t \in SpinThreads, Spinlock!CallUnlock(t) PROVE SpinInv'
  BY <1>3 DEF Spinlock!CallUnlock
<1>4. ASSUME NEW t \in SpinThreads, Spinlock!Unlock(t) PROVE SpinInv'
  BY <1>4 DEF Spinlock!Unlock
<1> QED
  BY <1>0, <1>1, <1>2, <1>3, <1>4 DEF Spinlock!Next

(* The invariant holds in every behaviour. *)
THEOREM SpinInvariant == Spinlock!Spec => []SpinInv
PROOF
<1>1. Spinlock!Init => SpinInv
  BY DEF Spinlock!Init, SpinInv, Spinlock!TypeOK, Spinlock!PCs,
     Spinlock!MutualExclusion, Spinlock!ConstNeverWritten
<1> QED
  BY <1>1, SpinStepKeeps, PTL DEF Spinlock!Spec

(* Mutual exclusion of my_spinlock.c for any number of threads that unlock *)
(* only what they locked.                                                  *)
THEOREM SpinExclusive == Spinlock!Spec => []Spinlock!MutualExclusion
PROOF
<1>1. SpinInv => Spinlock!MutualExclusion
  BY DEF SpinInv
<1> QED
  BY <1>1, SpinInvariant, PTL

(* my_spinlock_unlock never writes its const object. *)
THEOREM ConstIsConst == Spinlock!Spec => []Spinlock!ConstNeverWritten
PROOF
<1>1. SpinInv => Spinlock!ConstNeverWritten
  BY DEF SpinInv
<1> QED
  BY <1>1, SpinInvariant, PTL

(* The spinlock implements the abstract lock that the queue programs use.  *)
THEOREM SpinRefinement == Spinlock!Spec => ImplementsLock
PROOF
<1>1. Spinlock!Init => Spinlock!Abstract!Init
  BY DEF Spinlock!Init, Spinlock!Abstract!Init
<1>2. ASSUME SpinInv, [Spinlock!Next]_Spinlock!vars PROVE [Spinlock!Abstract!Next]_depth
  <2> USE <1>2 DEF SpinInv, Spinlock!TypeOK, Spinlock!MutualExclusion
  <2>0. CASE UNCHANGED Spinlock!vars
    BY <2>0 DEF Spinlock!vars
  <2>1. ASSUME NEW t \in SpinThreads, Spinlock!CallLock(t) PROVE UNCHANGED depth
    BY <2>1 DEF Spinlock!CallLock
  <2>2. ASSUME NEW t \in SpinThreads, Spinlock!Spin(t)
        PROVE  Spinlock!Abstract!Acquire(t) \/ UNCHANGED depth
    <3>1. CASE UNCHANGED Spinlock!vars
      BY <3>1 DEF Spinlock!vars
    <3>2. CASE lock = 1 /\ depth' = [depth EXCEPT ![t] = 1]
      <4>1. \A u \in SpinThreads : depth[u] = 0
        BY <3>2
      <4>2. depth[t] + 1 = 1
        BY <4>1
      <4>3. depth' = [depth EXCEPT ![t] = depth[t] + 1]
        BY <3>2, <4>2
      <4> QED
        BY <4>1, <4>3 DEF Spinlock!Abstract!Acquire
    <3> QED
      BY <2>2, <3>1, <3>2 DEF Spinlock!Spin
  <2>3. ASSUME NEW t \in SpinThreads, Spinlock!CallUnlock(t) PROVE UNCHANGED depth
    BY <2>3 DEF Spinlock!CallUnlock
  <2>4. ASSUME NEW t \in SpinThreads, Spinlock!Unlock(t)
        PROVE  Spinlock!Abstract!Release(t) \/ UNCHANGED depth
    <3>1. CASE lock = 0
      <4>1. depth[t] > 0 /\ depth[t] - 1 = 0
        BY <2>4, <3>1 DEF Spinlock!Unlock
      <4>2. depth' = [depth EXCEPT ![t] = 0]
        BY <2>4, <3>1 DEF Spinlock!Unlock
      <4> QED
        BY <4>1, <4>2 DEF Spinlock!Abstract!Release
    <3>2. CASE lock # 0
      BY <2>4, <3>2 DEF Spinlock!Unlock
    <3> QED
      BY <3>1, <3>2
  <2> QED
    BY <2>0, <2>1, <2>2, <2>3, <2>4 DEF Spinlock!Next, Spinlock!Abstract!Next
<1> QED
  BY <1>1, <1>2, SpinInvariant, PTL DEF Spinlock!Spec, ImplementsLock,
     Spinlock!ImplementsLock, Spinlock!Abstract!Spec

-----------------------------------------------------------------------------
(* The queue without synchronisation of task2_1.                           *)

(* queue-threads.c creates one thread of each kind. *)
OneEach ==
  /\ \A r1, r2 \in Readers : r1 = r2
  /\ \A w1, w2 \in Writers : w1 = w2

(* Where a writer is past the test for room and has not stored count yet,  *)
(* and where a reader is past the test for a value and has not.            *)
Adding == {"alloc", "testFirst", "setFirst", "linkNext", "moveLast", "loadInc"}
Getting == {"readFirst", "readVal", "loadNext", "storeFirst", "freeTmp",
            "loadDec"}

(* The argument in one sentence: a writer past its test leaves room for    *)
(* its increment because the reader only ever stores values below          *)
(* max_count, and a reader past its test leaves a value for its decrement  *)
(* because the writer only ever stores values above 0.                     *)
CountInv ==
  /\ fault # "assert"
  /\ count \in 0 .. MaxCount
  /\ pc \in [Unsync!Callers -> Unsync!PCs]
  /\ reg \in [Unsync!Callers -> Int]
  /\ \A w \in Writers :
       /\ pc[w] \in Adding => count < MaxCount
       /\ pc[w] = "storeInc" => reg[w] \in 0 .. MaxCount - 1
  /\ \A r \in Readers :
       /\ pc[r] \in Getting => count > 0
       /\ pc[r] = "storeDec" => reg[r] \in 1 .. MaxCount

(* Every load and store of either thread preserves the invariant. *)
LEMMA CountStep ==
  ASSUME OneEach, CountInv, [Unsync!Next]_Unsync!vars
  PROVE  CountInv'
PROOF
<1> USE QueueAssumption
    DEF CountInv, OneEach, Adding, Getting, Unsync!PCs, Unsync!Callers, Unsync!At,
        Unsync!Goto, Unsync!shared
<1>0. CASE UNCHANGED Unsync!vars
  BY <1>0 DEF Unsync!vars, Unsync!queueVars, Unsync!locals
<1>1. CASE Unsync!Dead
  BY <1>1 DEF Unsync!Dead, Unsync!vars, Unsync!queueVars, Unsync!locals
<1>2. ASSUME NEW w \in Writers, Unsync!Writer(w) PROVE CountInv'
  <2> USE DEF Unsync!locals
  <2>1. CASE Unsync!AssertNotOver(w, "testFull")
    BY <2>1 DEF Unsync!AssertNotOver
  <2>2. CASE Unsync!TestFull(w, "assertAdd", "alloc")
    BY <2>2 DEF Unsync!TestFull
  <2>3. CASE Unsync!AllocNew(w, "testFirst")
    BY <2>3 DEF Unsync!AllocNew
  <2>4. CASE Unsync!TestFirst(w)
    BY <2>4 DEF Unsync!TestFirst
  <2>5. CASE Unsync!SetFirst(w)
    BY <2>5 DEF Unsync!SetFirst
  <2>6. CASE Unsync!LinkNext(w)
    BY <2>6 DEF Unsync!LinkNext, Unsync!Deref
  <2>7. CASE Unsync!MoveLast(w)
    BY <2>7 DEF Unsync!MoveLast, Unsync!Deref
  <2>8. CASE Unsync!LoadInc(w)
    BY <2>8 DEF Unsync!LoadInc
  <2>9. CASE Unsync!StoreInc(w)
    BY <2>9 DEF Unsync!StoreInc
  <2>10. CASE Unsync!CountAdd(w, "added")
    BY <2>10 DEF Unsync!CountAdd
  <2>11. CASE Unsync!AddReturned(w, "assertAdd")
    BY <2>11 DEF Unsync!AddReturned
  <2> QED
    BY <1>2, <2>1, <2>2, <2>3, <2>4, <2>5, <2>6, <2>7, <2>8, <2>9, <2>10, <2>11
    DEF Unsync!Writer, Unsync!Add, Unsync!LinkNew
<1>3. ASSUME NEW r \in Readers, Unsync!Reader(r) PROVE CountInv'
  <2> USE DEF Unsync!locals
  <2>1. CASE Unsync!AssertNotUnder(r, "testEmpty")
    BY <2>1 DEF Unsync!AssertNotUnder
  <2>2. CASE Unsync!TestEmpty(r, "assertGet", "readFirst")
    BY <2>2 DEF Unsync!TestEmpty
  <2>3. CASE Unsync!ReadFirst(r)
    BY <2>3 DEF Unsync!ReadFirst
  <2>4. CASE Unsync!ReadVal(r)
    BY <2>4 DEF Unsync!ReadVal, Unsync!Deref
  <2>5. CASE Unsync!LoadNext(r)
    BY <2>5 DEF Unsync!LoadNext, Unsync!Deref
  <2>6. CASE Unsync!StoreFirst(r, "freeTmp")
    BY <2>6 DEF Unsync!StoreFirst
  <2>7. CASE Unsync!FreeTmp(r, "loadDec")
    BY <2>7 DEF Unsync!FreeTmp, Unsync!Deref
  <2>8. CASE Unsync!LoadDec(r)
    BY <2>8 DEF Unsync!LoadDec
  <2>9. CASE Unsync!StoreDec(r)
    BY <2>9 DEF Unsync!StoreDec
  <2>10. CASE Unsync!CountGet(r, "taken")
    BY <2>10 DEF Unsync!CountGet
  <2>11. CASE Unsync!GetReturned(r, "assertGet")
    BY <2>11 DEF Unsync!GetReturned
  <2> QED
    BY <1>3, <2>1, <2>2, <2>3, <2>4, <2>5, <2>6, <2>7, <2>8, <2>9, <2>10, <2>11
    DEF Unsync!Reader, Unsync!Get, Unsync!TakeFirst
<1> QED
  BY <1>0, <1>1, <1>2, <1>3 DEF Unsync!Next

(* The asserts of queue_add and queue_get never fire in the unsynchronised *)
(* program, whatever max_count is and however the two threads interleave.  *)
THEOREM AssertsNeverFire ==
  ASSUME OneEach
  PROVE  Unsync!Spec => []AssertsHold
PROOF
<1>1. Unsync!Init => CountInv
  BY QueueAssumption DEF Unsync!Init, Unsync!QueueInit, CountInv, Adding, Getting,
     Unsync!PCs, Unsync!Callers
<1>2. CountInv /\ [Unsync!Next]_Unsync!vars => CountInv'
  BY OneEach, CountStep
<1>3. CountInv => AssertsHold
  BY DEF CountInv, AssertsHold
<1> QED
  BY <1>1, <1>2, <1>3, PTL DEF Unsync!Spec

-----------------------------------------------------------------------------
(* The clone threads of task1_6.                                           *)

Calls == {"create", "made", "join", "unmap", "exchange", "push", "signal", "over"}

(* A thread that has been detached stays detached, and its owner never     *)
(* joins it: what the list of the cleaner holds is of this kind.           *)
Detached ==
  {t \in CloneThreads :
     joinable[t] = 0 /\ call[t] \in {"made", "exchange", "push", "signal"}}

(* What an owner, the thread and the cleaner know of one descriptor.       *)
DescriptorInv(t) ==
  /\ call[t] = "create" => clonePc[t] = "none" /\ ~cloneMapped[t]
  /\ clonePc[t] = "none" => call[t] \in {"create", "over"}
  /\ is_finished[t] = 1 => clonePc[t] \in {"tail", "gone"}
  /\ clonePc[t] \in {"finish", "tail", "gone"} => retval[t]
  /\ clonePc[t] \in {"routine", "finish"} => cloneMapped[t] /\ is_finished[t] = 0
  /\ call[t] = "made" /\ joinable[t] = 1 => cloneMapped[t]
  /\ call[t] \in {"join", "unmap"} => joinable[t] = 1 /\ cloneMapped[t]
  /\ call[t] = "unmap" => is_finished[t] = 1
  /\ call[t] \in {"exchange", "push", "signal"} => joinable[t] = 0
  /\ joined[t] # "junk"

CloneInv ==
  /\ call \in [CloneThreads -> Calls]
  /\ clonePc \in [CloneThreads -> {"none", "routine", "finish", "tail", "gone"}]
  /\ cleanup_list \in Seq(Detached)
  /\ cleaner \in {"none", "lock", "asleep", "poll", "unmap"}
  /\ cleaner \in {"poll", "unmap"} => node \in Detached
  /\ cleaner = "unmap" => is_finished[node] = 1
  /\ cloneMapped \in [CloneThreads -> BOOLEAN]
  /\ joinable \in [CloneThreads -> {0, 1}]
  /\ is_finished \in [CloneThreads -> {0, 1}]
  /\ retval \in [CloneThreads -> BOOLEAN]
  /\ DOMAIN joined = CloneThreads
  /\ \A t \in CloneThreads : DescriptorInv(t)
  /\ cloneFault \in {"no", "tail", "handle"}
  /\ cloneFault = "handle" =>
       \E t \in CloneThreads : joinable[t] = 0 /\ ~cloneMapped[t]


(* Every statement of an owner, of a thread and of the cleaner preserves   *)
(* the invariant.                                                          *)
LEMMA CloneStepKeeps ==
  ASSUME CloneInv, [Clone!Next]_Clone!vars
  PROVE  CloneInv'
PROOF
<1> USE DEF CloneInv, DescriptorInv, Calls, Clone!Calls, Clone!Runs, Clone!Touch,
            Clone!desc, Clone!owner, Clone!reaper
<1>1. /\ Detached \subseteq Detached' => cleanup_list \in Seq(Detached')
      /\ \A s : s \in Seq(Detached) /\ Detached \subseteq Detached' => s \in Seq(Detached')
  OBVIOUS
<1>2. CASE UNCHANGED Clone!vars
  BY <1>2 DEF Clone!vars, Detached
<1>3. ASSUME NEW t \in CloneThreads, Clone!Create(t), cloneFault = "no" PROVE CloneInv'
  <2>1. Detached \subseteq Detached'
    BY <1>3 DEF Clone!Create, Detached
  <2> QED
    BY <2>1, <1>1, <1>3 DEF Clone!Create, Detached
<1>4. ASSUME NEW t \in CloneThreads, Clone!CreateFails(t), cloneFault = "no" PROVE CloneInv'
  <2>1. Detached \subseteq Detached'
    BY <1>4 DEF Clone!CreateFails, Detached
  <2> QED
    BY <2>1, <1>1, <1>4 DEF Clone!CreateFails, Detached
<1>5. ASSUME NEW t \in CloneThreads, Clone!ThreadFunc(t), cloneFault = "no" PROVE CloneInv'
  <2>1. Detached' = Detached
    BY <1>5 DEF Clone!ThreadFunc, Detached
  <2>2. cleanup_list' \in Seq(Detached')
    BY <2>1, <1>1, <1>5 DEF Clone!ThreadFunc
  <2>3. CASE clonePc[t] = "routine"
    <3>1. /\ retval' = [retval EXCEPT ![t] = TRUE]
          /\ clonePc' = [clonePc EXCEPT ![t] = "finish"]
          /\ UNCHANGED <<call, joined, cleaner, node, cloneMapped, joinable, is_finished,
                         cloneFault>>
      BY <2>3, <1>5 DEF Clone!ThreadFunc
    <3>2. \A u \in CloneThreads : DescriptorInv(u)'
      BY <2>3, <3>1
    <3> QED
      BY <2>1, <2>2, <3>1, <3>2
  <2>4. CASE clonePc[t] = "finish"
    <3>1. /\ is_finished' = [is_finished EXCEPT ![t] = 1]
          /\ clonePc' = [clonePc EXCEPT ![t] = "tail"]
          /\ UNCHANGED <<call, joined, cleaner, node, cloneMapped, joinable, retval,
                         cloneFault>>
      BY <2>4, <1>5 DEF Clone!ThreadFunc
    <3>2. \A u \in CloneThreads : DescriptorInv(u)'
      BY <2>4, <3>1
    <3> QED
      BY <2>1, <2>2, <3>1, <3>2
  <2>5. CASE clonePc[t] = "tail"
    BY <2>1, <2>2, <2>5, <1>5 DEF Clone!ThreadFunc
  <2> QED
    BY <2>3, <2>4, <2>5, <1>5 DEF Clone!ThreadFunc
<1>6. ASSUME NEW t \in CloneThreads, Clone!CallJoin(t), cloneFault = "no" PROVE CloneInv'
  <2>1. Detached \subseteq Detached'
    BY <1>6 DEF Clone!CallJoin, Detached
  <2> QED
    BY <2>1, <1>1, <1>6 DEF Clone!CallJoin
<1>7. ASSUME NEW t \in CloneThreads, Clone!CallDetach(t), cloneFault = "no" PROVE CloneInv'
  <2>1. Detached \subseteq Detached'
    BY <1>7 DEF Clone!CallDetach, Detached
  <2> QED
    BY <2>1, <1>1, <1>7 DEF Clone!CallDetach
<1>8. ASSUME NEW t \in CloneThreads, Clone!Join(t), cloneFault = "no" PROVE CloneInv'
  <2>1. Detached \subseteq Detached'
    BY <1>8 DEF Clone!Join, Detached
  <2>2. cleanup_list' \in Seq(Detached')
    BY <2>1, <1>1, <1>8 DEF Clone!Join
  <2>3. CASE call[t] = "join"
    BY <2>1, <2>2, <2>3, <1>8 DEF Clone!Join
  <2>4. CASE call[t] = "unmap"
    <3>1. /\ cloneMapped' = [cloneMapped EXCEPT ![t] = FALSE]
          /\ call' = [call EXCEPT ![t] = "over"]
          /\ UNCHANGED <<clonePc, joined, cleaner, node, joinable, is_finished, retval,
                         cloneFault>>
      BY <2>4, <1>8 DEF Clone!Join
    <3>2. \A u \in CloneThreads : DescriptorInv(u)'
      BY <2>4, <3>1
    <3> QED
      BY <2>1, <2>2, <3>1, <3>2, <1>8
  <2> QED
    BY <2>3, <2>4, <1>8 DEF Clone!Join
<1>9. ASSUME NEW t \in CloneThreads, Clone!StartCleaner(t), cloneFault = "no" PROVE CloneInv'
  <2>1. Detached \subseteq Detached'
    BY <1>9 DEF Clone!StartCleaner, Detached
  <2> QED
    BY <2>1, <1>1, <1>9 DEF Clone!StartCleaner
<1>10. ASSUME NEW t \in CloneThreads, Clone!Push(t), cloneFault = "no" PROVE CloneInv'
  <2>1. Detached \subseteq Detached'
    BY <1>10 DEF Clone!Push, Detached
  <2>2. cleanup_list' \in Seq(Detached')
    <3>1. CASE call[t] = "push"
      <4>1. t \in Detached
        BY <3>1 DEF Detached
      <4>2. <<t>> \in Seq(Detached)
        BY <4>1
      <4>3. <<t>> \o cleanup_list \in Seq(Detached)
        BY <4>2
      <4>4. cleanup_list' = <<t>> \o cleanup_list
        BY <3>1, <1>10 DEF Clone!Push
      <4> QED
        BY <4>3, <4>4, <2>1, <1>1
    <3>2. CASE call[t] # "push"
      BY <3>2, <2>1, <1>1, <1>10 DEF Clone!Push
    <3> QED
      BY <3>1, <3>2
  <2> QED
    BY <2>1, <2>2, <1>10 DEF Clone!Push
<1>11. ASSUME Clone!Cleanup, cloneFault = "no" PROVE CloneInv'
  <2>1. Detached' = Detached
    BY <1>11 DEF Clone!Cleanup, Detached
  <2>2. CASE cleaner = "lock"
    <3>1. cleanup_list # <<>> =>
            /\ Head(cleanup_list) \in Detached
            /\ Tail(cleanup_list) \in Seq(Detached)
      OBVIOUS
    <3>2. /\ cleanup_list' \in Seq(Detached) /\ cleaner' \in {"asleep", "poll"}
          /\ cleaner' = "poll" => node' \in Detached
      BY <2>2, <3>1, <1>11 DEF Clone!Cleanup
    <3>3. UNCHANGED <<call, clonePc, joined, cloneMapped, joinable, is_finished, retval,
                      cloneFault>>
      BY <2>2, <1>11 DEF Clone!Cleanup
    <3> QED
      BY <2>1, <3>2, <3>3
  <2>3. CASE cleaner = "poll"
    BY <2>1, <2>3, <1>11 DEF Clone!Cleanup
  <2>4. CASE cleaner = "unmap"
    <3>1. /\ node \in Detached /\ is_finished[node] = 1 /\ cleaner' = "lock"
          /\ cloneMapped' = [cloneMapped EXCEPT ![node] = FALSE]
          /\ UNCHANGED <<call, clonePc, joined, cleanup_list, joinable, is_finished, retval,
                         cloneFault>>
      BY <2>4, <1>11 DEF Clone!Cleanup
    <3>2. \A t \in CloneThreads : DescriptorInv(t)'
      BY <3>1 DEF Detached
    <3> QED
      BY <2>1, <3>1, <3>2, <1>11
  <2> QED
    BY <2>2, <2>3, <2>4, <1>11 DEF Clone!Cleanup
<1>12. ASSUME Clone!SpuriousWakeup PROVE CloneInv'
  BY <1>12 DEF Clone!SpuriousWakeup, Detached
<1> QED
  BY <1>2, <1>3, <1>4, <1>5, <1>6, <1>7, <1>8, <1>9, <1>10, <1>11, <1>12
  DEF Clone!Next, Clone!Alive, Clone!Owner

(* The invariant holds in every behaviour, for any number of threads and   *)
(* any owners.                                                             *)
THEOREM CloneInvariant == Clone!Spec => []CloneInv
PROOF
<1>1. Clone!Init => CloneInv
  BY DEF Clone!Init, CloneInv, DescriptorInv, Calls, Detached
<1> QED
  BY <1>1, CloneStepKeeps, PTL DEF Clone!Spec

(* No stack is unmapped under a running routine, the join loop never loses *)
(* the descriptor it polls, and a handle is lost only by detaching.        *)
THEOREM StacksOutlive == Clone!Spec => []StackOutlivesRoutine
PROOF
<1>1. CloneInv => StackOutlivesRoutine
  BY DEF CloneInv, DescriptorInv, StackOutlivesRoutine, Clone!StackOutlivesRoutine
<1> QED
  BY <1>1, CloneInvariant, PTL

(* my_thread_join never gives its caller anything but the routine's value, *)
(* although it only polls a flag.                                          *)
THEOREM JoinIsExact == Clone!Spec => []JoinReturnsResult
PROOF
<1>1. CloneInv => JoinReturnsResult
  BY DEF CloneInv, DescriptorInv, JoinReturnsResult, Clone!JoinReturnsResult
<1> QED
  BY <1>1, CloneInvariant, PTL

-----------------------------------------------------------------------------
(* The user-level threads of task1_7.                                      *)

UserNodes == UserThreads \union {Main}

(* The pointers are a ring, and only one: a set of nodes that next does    *)
(* not leave contains the main thread.                                     *)
Pointers ==
  /\ \A n \in linked :
       /\ ringNext[n] \in linked /\ prev[n] \in linked
       /\ prev[ringNext[n]] = n /\ ringNext[prev[n]] = n
  /\ Main \in linked

OneRing ==
  \A S \in SUBSET linked :
    S # {} /\ (\A n \in S : ringNext[n] \in S) => Main \in S

(* Until the scheduler unlinks a node its walk has passed, one after the   *)
(* other, nodes that it did not take; the main thread is always taken.     *)
Walked(V) ==
  /\ V \subseteq linked /\ cur \in V /\ scan \in V
  /\ Main \in V => cur = Main
  /\ \A n \in V : n # scan => ringNext[n] \in V

UserInv ==
  /\ ringNext \in [UserNodes -> UserNodes] /\ prev \in [UserNodes -> UserNodes]
  /\ linked \subseteq UserNodes /\ IsFiniteSet(linked)
  /\ ringCount = Cardinality(linked)
  /\ cur \in UserNodes /\ scan \in UserNodes /\ run \in linked
  /\ ctx \in [UserNodes -> UserNodes]
  /\ asleep \in [UserNodes -> BOOLEAN]
  /\ finished \in [UserNodes -> BOOLEAN]
  /\ userMapped \in [UserNodes -> BOOLEAN]
  /\ at \in {"create", "user", "loop", "switch", "over"}
  /\ head = Main
  /\ Pointers /\ OneRing
  /\ at = "create" => run = Main /\ cur = Main /\ \A n \in UserNodes : ctx[n] = n
  /\ at # "create" => \A t \in UserThreads : finished[t] \/ t \in linked
  /\ at \in {"create", "user", "over"} => cur \in linked
  /\ at \in {"loop", "switch"} => scan \in linked
  /\ \A n \in linked : userMapped[n]
  /\ \A n \in linked : ~finished[n] => ctx[n] = n
  /\ ~finished[Main] /\ ~asleep[Main]
  /\ run = cur \/ (run = Main /\ finished[cur])
  /\ ~finished[run]
  /\ at = "switch" => scan = cur \/ ~finished[scan]
  /\ at \in {"loop", "switch"} =>
       /\ Main \in due /\ due \subseteq UserNodes
       /\ \A n \in due : ~asleep[n]
       /\ ~deleted => cur \in linked
  /\ at = "loop" /\ ~deleted => \E V \in SUBSET linked : Walked(V)
  /\ at = "switch" /\ ~deleted => scan \in due


(* u_thread_create puts a node behind mgr->cur: still one ring. *)
LEMMA RingGrows ==
  ASSUME UserInv, NEW t \in UserThreads, User!Create(t)
  PROVE  Pointers' /\ OneRing'
PROOF
<1>1. PICK after : after = ringNext[cur]
  OBVIOUS
<1>2. /\ after \in linked /\ prev[after] = cur /\ cur \in linked
      /\ t \notin linked /\ t \in UserNodes /\ linked \subseteq UserNodes
  BY <1>1 DEF UserInv, Pointers, User!Create, UserNodes
<1>3. /\ linked' = linked \union {t}
      /\ \A n \in UserNodes :
           /\ ringNext'[n] = IF n = cur THEN t ELSE IF n = t THEN after ELSE ringNext[n]
           /\ prev'[n] = IF n = after THEN t ELSE IF n = t THEN cur ELSE prev[n]
  BY <1>1, <1>2 DEF User!Create, UserInv
<1>4. Pointers'
  BY <1>1, <1>2, <1>3 DEF Pointers, UserInv
<1>5. ASSUME NEW S \in SUBSET linked', S # {}, \A n \in S : ringNext'[n] \in S
      PROVE  Main \in S
  <2>1. PICK R : R = S \ {t}
    OBVIOUS
  <2>2. R \in SUBSET linked
    BY <2>1, <1>3
  <2>3. \A n \in R : ringNext[n] \in R
    <3>1. ASSUME NEW n \in R PROVE ringNext[n] \in R
      <4>1. n \in linked /\ n # t /\ n \in S /\ ringNext[n] # t
        BY <2>1, <2>2, <1>2 DEF UserInv, Pointers
      <4>2. CASE n = cur
        <5>1. t \in S
          BY <4>1, <4>2, <1>2, <1>3, <1>5
        <5>2. after \in S
          BY <5>1, <1>2, <1>3, <1>5
        <5> QED
          BY <5>2, <4>1, <4>2, <1>1, <2>1
      <4>3. CASE n # cur
        BY <4>1, <4>3, <1>2, <1>3, <1>5, <2>1
      <4> QED
        BY <4>2, <4>3
    <3> QED
      BY <3>1
  <2>4. R # {}
    <3>1. CASE S = {t}
      BY <3>1, <1>2, <1>3, <1>5
    <3> QED
      BY <3>1, <1>5, <2>1
  <2> QED
    BY <2>1, <2>2, <2>3, <2>4 DEF UserInv, OneRing
<1> QED
  BY <1>4, <1>5 DEF OneRing

(* The scheduler never finds itself at a finished node that is its own     *)
(* successor, so it walks on to a node that is still linked.               *)
LEMMA NotAlone ==
  ASSUME UserInv, NEW n \in linked, ringNext[n] = n
  PROVE  n = Main
PROOF
<1>1. {n} \in SUBSET linked /\ {n} # {} /\ \A m \in {n} : ringNext[m] \in {n}
  OBVIOUS
<1>2. Main \in {n}
  BY <1>1 DEF UserInv, OneRing
<1> QED
  BY <1>2

(* Unlinking a finished node: still one ring. *)
LEMMA RingShrinks ==
  ASSUME UserInv, User!DeleteFinished, NEW n, n = ringNext[scan]
  PROVE  /\ Pointers' /\ OneRing' /\ linked' = linked \ {n}
         /\ n \in linked /\ n # Main /\ finished[n]
         /\ scan' = ringNext[n] /\ scan' \in linked'
PROOF
<1>1. /\ n \in linked /\ n # Main /\ finished[n]
      /\ linked' = linked \ {n} /\ scan' = ringNext[n] /\ linked \subseteq UserNodes
  BY DEF UserInv, Pointers, User!DeleteFinished, User!Unlink
<1>2. PICK p, s : p = prev[n] /\ s = ringNext[n]
  OBVIOUS
<1>3. /\ p \in linked' /\ s \in linked' /\ ringNext[p] = n /\ prev[s] = n
  <2>1. p \in linked /\ s \in linked /\ ringNext[p] = n /\ prev[s] = n
    BY <1>1, <1>2 DEF UserInv, Pointers
  <2>2. p # n /\ s # n
    BY <2>1, <1>1, <1>2, NotAlone
  <2> QED
    BY <2>1, <2>2, <1>1
<1>4. \A m \in linked' :
        /\ ringNext'[m] = IF m = p THEN s ELSE ringNext[m]
        /\ prev'[m] = IF m = s THEN p ELSE prev[m]
  BY <1>1, <1>2, <1>3 DEF UserInv, User!DeleteFinished, User!Unlink
<1>5. \A m \in linked' : /\ m # p => ringNext[m] \in linked'
                         /\ m # s => prev[m] \in linked'
  BY <1>1, <1>2, <1>3 DEF UserInv, Pointers
<1>6. Pointers'
  BY <1>1, <1>2, <1>3, <1>4, <1>5 DEF UserInv, Pointers
<1>7. ASSUME NEW S \in SUBSET linked', S # {}, \A m \in S : ringNext'[m] \in S
      PROVE  Main \in S
  <2>1. PICK R : R = IF p \in S THEN S \union {n} ELSE S
    OBVIOUS
  <2>2. R \in SUBSET linked /\ R # {}
    BY <2>1, <1>1, <1>7
  <2>3. \A m \in R : ringNext[m] \in R
    <3>1. ASSUME NEW m \in S, m # p PROVE ringNext[m] \in R
      BY <3>1, <2>1, <1>4, <1>7
    <3>2. ASSUME p \in S PROVE ringNext[p] \in R /\ ringNext[n] \in R
      <4>1. s \in S
        BY <3>2, <1>3, <1>4, <1>7
      <4> QED
        BY <4>1, <3>2, <2>1, <1>2, <1>3
    <3> QED
      BY <3>1, <3>2, <2>1
  <2>4. Main \in R
    BY <2>2, <2>3 DEF UserInv, OneRing
  <2> QED
    BY <2>4, <2>1, <1>1
<1> QED
  BY <1>1, <1>2, <1>3, <1>6, <1>7 DEF OneRing

(* u_thread_create. *)
LEMMA CreateKeeps ==
  ASSUME Main \notin UserThreads, UserInv, NEW t \in UserThreads, User!Create(t)
  PROVE  UserInv'
PROOF
<1>1. Pointers' /\ OneRing'
  BY RingGrows
<1>2. /\ IsFiniteSet(linked') /\ ringCount' = Cardinality(linked')
      /\ linked' = linked \union {t} /\ t \notin linked
  BY FS_AddElement DEF UserInv, User!Create
<1>3. /\ ringNext' \in [UserNodes -> UserNodes] /\ prev' \in [UserNodes -> UserNodes]
      /\ linked' \subseteq UserNodes /\ userMapped' \in [UserNodes -> BOOLEAN]
  BY <1>2 DEF UserInv, User!Create, UserNodes, Pointers
<1>4. \A n \in linked' : userMapped'[n] /\ (~finished[n] => ctx[n] = n)
  BY <1>2 DEF UserInv, User!Create, UserNodes
<1>5. /\ UNCHANGED <<head, cur, run, ctx, asleep, finished, scan, due, deleted>>
      /\ at = "create" /\ at' \in {"create", "user"}
      /\ at' = "user" => UserThreads \subseteq linked'
  BY DEF User!Create, User!progress
<1> QED
  BY <1>1, <1>2, <1>3, <1>4, <1>5 DEF UserInv

(* The calls of the scheduler, from main() and from u_thread_usleep, and   *)
(* the end of a thread function.                                           *)
LEMMA CallsKeep ==
  ASSUME Main \notin UserThreads, UserInv,
         User!MainLoop \/ \E t \in UserThreads : User!Usleep(t) \/ User!Startup(t)
  PROVE  UserInv'
PROOF
<1>1. ASSUME NEW sleeping, sleeping \in [UserNodes -> BOOLEAN], ~sleeping[Main],
             asleep' = sleeping, User!EnterScheduler(sleeping), at = "user",
             UNCHANGED <<ringNext, prev, linked, ringCount, cur, head, run, ctx, finished,
                         userMapped>>
      PROVE  UserInv'
  <2>1. /\ at' = "loop" /\ scan' = cur /\ due' = {n \in UserNodes : ~sleeping[n]}
        /\ deleted' = FALSE /\ Main \in UserNodes
    BY <1>1 DEF User!EnterScheduler, UserNodes, User!Nodes
  <2>2. Walked({cur})'
    BY <1>1, <2>1 DEF Walked, UserInv
  <2>3. {cur'} \in SUBSET linked'
    BY <1>1 DEF UserInv
  <2>4. \E V \in SUBSET linked' : Walked(V)'
    BY <1>1, <2>2, <2>3
  <2>5. Pointers' /\ OneRing'
    BY <1>1 DEF UserInv, Pointers, OneRing
  <2> QED
    BY <1>1, <2>1, <2>4, <2>5 DEF UserInv
<1>2. CASE User!MainLoop
  <2>1. CASE \A t \in UserThreads : finished[t]
    BY <1>2, <2>1 DEF User!MainLoop, User!ring, User!stacks, User!progress, UserInv,
       Pointers, OneRing
  <2>2. CASE ~ \A t \in UserThreads : finished[t]
    BY <1>1, <1>2, <2>2 DEF User!MainLoop, User!ring, User!stacks, User!progress, UserInv
  <2> QED
    BY <2>1, <2>2
<1>3. ASSUME NEW t \in UserThreads, User!Usleep(t) PROVE UserInv'
  <2>1. t # Main /\ cur = t
    BY <1>3 DEF User!Usleep, UserInv
  <2>2. asleep' = [asleep EXCEPT ![cur] = TRUE]
    BY <1>3, <2>1 DEF User!Usleep
  <2>3. asleep' \in [UserNodes -> BOOLEAN] /\ ~asleep'[Main]
    BY <2>1, <2>2 DEF UserInv
  <2> QED
    BY <1>1, <1>3, <2>3 DEF User!Usleep, User!ring, User!stacks
<1>4. ASSUME NEW t \in UserThreads, User!Startup(t) PROVE UserInv'
  <2>1. t # Main /\ cur = t /\ run = t /\ Main \in linked /\ ctx[head] = Main
    BY <1>4 DEF User!Startup, UserInv, Pointers
  <2>2. /\ finished' = [finished EXCEPT ![t] = TRUE] /\ run' = Main /\ at = "user"
        /\ UNCHANGED <<ringNext, prev, linked, ringCount, cur, head, ctx, userMapped, asleep,
                       at, scan, due, deleted>>
    BY <1>4, <2>1 DEF User!Startup, User!ring
  <2>3. finished' \in [UserNodes -> BOOLEAN] /\ finished'[t] /\ ~finished'[Main]
        /\ \A n \in UserNodes : finished[n] => finished'[n]
    BY <2>1, <2>2 DEF UserInv, UserNodes
  <2>4. Pointers' /\ OneRing'
    BY <2>2 DEF UserInv, Pointers, OneRing
  <2> QED
    BY <2>1, <2>2, <2>3, <2>4 DEF UserInv, UserNodes
<1> QED
  BY <1>2, <1>3, <1>4

(* The rounds of the loop of u_thread_scheduler. *)
LEMMA LoopKeeps ==
  ASSUME Main \notin UserThreads, UserInv, User!DeleteFinished \/ User!TryNext
  PROVE  UserInv'
PROOF
<1>1. PICK n : n = ringNext[scan]
  OBVIOUS
<1>2. at = "loop" /\ n \in linked /\ n \in UserNodes /\ Main \in linked
  BY <1>1 DEF UserInv, Pointers, User!DeleteFinished, User!TryNext
<1>3. CASE User!DeleteFinished
  <2>1. /\ Pointers' /\ OneRing' /\ linked' = linked \ {n}
        /\ n # Main /\ finished[n] /\ scan' \in linked'
    BY <1>1, <1>3, RingShrinks
  <2>2. IsFiniteSet(linked') /\ ringCount' = Cardinality(linked')
    BY <1>2, <1>3, <2>1, FS_RemoveElement, FS_CardinalityType
    DEF UserInv, User!DeleteFinished, User!Unlink
  <2>3. /\ ringNext' \in [UserNodes -> UserNodes] /\ prev' \in [UserNodes -> UserNodes]
        /\ userMapped' \in [UserNodes -> BOOLEAN]
    BY <1>2, <1>3 DEF UserInv, User!DeleteFinished, User!Unlink
  <2>4. \A m \in linked' : userMapped'[m]
    BY <1>1, <1>3, <2>1 DEF UserInv, User!DeleteFinished
  <2>5. /\ UNCHANGED <<head, cur, run, ctx, asleep, finished, due>> /\ deleted' = TRUE
        /\ at' = IF scan' # cur THEN "loop" ELSE "switch"
    BY <1>3 DEF User!DeleteFinished, User!progress
  <2>6. run' \in linked'
    BY <2>1, <2>5 DEF UserInv
  <2> QED
    BY <1>2, <2>1, <2>2, <2>3, <2>4, <2>5, <2>6 DEF UserInv, UserNodes
<1>4. CASE User!TryNext
  <2>1. /\ UNCHANGED <<ringNext, prev, linked, ringCount, head, cur, run, ctx, userMapped,
                       asleep, finished, due, deleted>>
        /\ scan' = n
        /\ at' = IF (~finished[n] /\ n \in due) \/ n = cur THEN "switch" ELSE "loop"
    BY <1>1, <1>4 DEF User!TryNext, User!ring, User!stacks, User!progress
  <2>2. Pointers' /\ OneRing'
    BY <2>1 DEF UserInv, Pointers, OneRing
  <2>3. ASSUME ~deleted
        PROVE  /\ at' = "loop" => \E V \in SUBSET linked' : Walked(V)'
               /\ at' = "switch" => scan' \in due'
    <3>1. PICK V \in SUBSET linked : Walked(V)
      BY <1>2, <2>3 DEF UserInv
    <3>2. Main \in due /\ ~finished[Main]
      BY <1>2 DEF UserInv
    <3>3. CASE at' = "loop"
      <4>1. n # cur /\ n # Main
        BY <2>1, <3>2, <3>3
      <4>2. Walked(V \union {n})'
        BY <1>1, <1>2, <2>1, <3>1, <4>1 DEF Walked
      <4> QED
        BY <4>2, <1>2, <2>1, <3>1, <3>3
    <3>4. CASE at' = "switch" /\ n = cur
      <4>1. V # {} /\ \A m \in V : ringNext[m] \in V
        BY <1>1, <3>1, <3>4 DEF Walked
      <4>2. Main \in V
        BY <4>1, <3>1 DEF UserInv, OneRing
      <4>3. cur = Main
        BY <4>2, <3>1 DEF Walked
      <4> QED
        BY <4>3, <2>1, <3>2, <3>4
    <3> QED
      BY <2>1, <3>3, <3>4
  <2> QED
    BY <1>2, <2>1, <2>2, <2>3 DEF UserInv
<1> QED
  BY <1>3, <1>4

(* The switch, and the clock. *)
LEMMA SwitchKeeps ==
  ASSUME Main \notin UserThreads, UserInv,
         User!Switch \/ \E t \in UserThreads : User!Elapse(t)
  PROVE  UserInv'
PROOF
<1>1. CASE User!Switch
  <2>1. /\ UNCHANGED <<ringNext, prev, linked, ringCount, head, userMapped, asleep, finished,
                       scan, due, deleted>>
        /\ at = "switch" /\ at' = "user"
        /\ \/ scan = cur /\ UNCHANGED <<cur, ctx, run>>
           \/ /\ scan # cur /\ cur' = scan /\ run' = ctx[scan]
              /\ ctx' = [ctx EXCEPT ![cur] = run]
    BY <1>1 DEF User!Switch, User!ring, User!progress
  <2>2. Pointers' /\ OneRing'
    BY <2>1 DEF UserInv, Pointers, OneRing
  <2>3. CASE scan = cur /\ UNCHANGED <<cur, ctx, run>>
    BY <2>1, <2>2, <2>3 DEF UserInv
  <2>4. CASE scan # cur /\ cur' = scan /\ run' = ctx[scan] /\ ctx' = [ctx EXCEPT ![cur] = run]
    <3>1. scan \in linked /\ ~finished[scan] /\ ctx[scan] = scan /\ run \in UserNodes
      BY <2>1, <2>4 DEF UserInv
    <3>2. ctx' \in [UserNodes -> UserNodes]
      BY <2>4, <3>1 DEF UserInv
    <3>3. \A n \in linked : ~finished[n] => ctx'[n] = n
      BY <2>4, <3>1 DEF UserInv
    <3> QED
      BY <2>1, <2>2, <2>4, <3>1, <3>2, <3>3 DEF UserInv
  <2> QED
    BY <2>1, <2>3, <2>4
<1>2. ASSUME NEW t \in UserThreads, User!Elapse(t) PROVE UserInv'
  <2>1. /\ UNCHANGED <<ringNext, prev, linked, ringCount, head, cur, run, ctx, userMapped,
                       finished, at, scan, due, deleted>>
        /\ asleep' \in [UserNodes -> BOOLEAN]
        /\ \A n \in UserNodes : ~asleep[n] => ~asleep'[n]
    BY <1>2 DEF User!Elapse, User!ring, User!stacks, UserInv, UserNodes
  <2>2. Pointers' /\ OneRing'
    BY <2>1 DEF UserInv, Pointers, OneRing
  <2> QED
    BY <2>1, <2>2 DEF UserInv, Walked, UserNodes
<1> QED
  BY <1>1, <1>2

LEMMA UserStepKeeps ==
  ASSUME Main \notin UserThreads, UserInv, [User!Next]_User!vars
  PROVE  UserInv'
PROOF
<1>1. CASE UNCHANGED User!vars
  BY <1>1 DEF User!vars, User!ring, User!stacks, User!progress, UserInv, Pointers, OneRing,
     Walked
<1> QED
  BY <1>1, CreateKeeps, CallsKeep, LoopKeeps, SwitchKeeps DEF User!Next, User!Run

(* The invariant holds in every behaviour, for any number of threads.      *)
THEOREM UserInvariant ==
  ASSUME Main \notin UserThreads
  PROVE  User!Spec => []UserInv
PROOF
<1>1. User!Init => UserInv
  <2> SUFFICES ASSUME User!Init PROVE UserInv
    OBVIOUS
  <2>1. IsFiniteSet({Main}) /\ Cardinality({Main}) = 1
    BY FS_Singleton
  <2> QED
    BY <2>1 DEF User!Init, User!Nodes, UserInv, UserNodes, Pointers, OneRing
<1>2. UserInv /\ [User!Next]_User!vars => UserInv'
  BY UserStepKeeps
<1> QED
  BY <1>1, <1>2, PTL DEF User!Spec

(* However creations, sleeps and ends of threads interleave, the ring      *)
(* stays a ring over the threads that are left, count is its length, every *)
(* unfinished thread is on it, and control only ever continues on a mapped *)
(* stack, in the execution that the node stands for.                       *)
THEOREM RingAndStacks ==
  ASSUME Main \notin UserThreads
  PROVE  User!Spec => []ThreadsIntact
PROOF
<1>1. UserInv => ThreadsIntact
  <2> SUFFICES ASSUME UserInv PROVE User!RingIntact /\ User!RunsOnOwnStack
    BY DEF ThreadsIntact, User!ThreadsIntact
  <2>1. User!RingIntact
    <3>1. User!Cardinality(linked) = Cardinality(linked)
      BY Zenon DEF User!Cardinality, Cardinality
    <3> QED
      BY <3>1 DEF UserInv, Pointers, User!RingIntact
  <2>2. User!RunsOnOwnStack
    BY DEF UserInv, User!RunsOnOwnStack
  <2> QED
    BY <2>1, <2>2
<1> QED
  BY <1>1, UserInvariant, PTL

(* u_thread_usleep does not return early unless this very call of the      *)
(* scheduler has unlinked a finished thread.                               *)
THEOREM SleepsToTheEnd ==
  ASSUME Main \notin UserThreads
  PROVE  User!Spec => SleepsWhole
PROOF
<1>1. UserInv => (at = "switch" /\ run' = scan /\ asleep[scan] => deleted)
  BY DEF UserInv
<1> QED
  BY <1>1, UserInvariant, PTL DEF User!Spec, SleepsWhole, User!SleepsWhole

-----------------------------------------------------------------------------
(* MCSem2 runs each of the four programs as its own module specifies it:   *)
(* what is proved above holds of the specification that TLC checks.        *)
THEOREM FourPrograms ==
  FairSpec => Clone!Spec /\ User!Spec /\ Spinlock!Spec /\ Unsync!Spec
PROOF
<1>1. Init => Clone!Init /\ User!Init /\ Spinlock!Init /\ Unsync!Init
  BY DEF Init
<1>2. [Next]_vars => /\ [Clone!Next]_Clone!vars /\ [User!Next]_User!vars
                     /\ [Spinlock!Next]_Spinlock!vars /\ [Unsync!Next]_Unsync!vars
  <2>1. UNCHANGED cloneVars => UNCHANGED Clone!vars
    BY DEF cloneVars, Clone!vars, Clone!owner, Clone!reaper, Clone!desc
  <2>2. UNCHANGED userVars => UNCHANGED User!vars
    BY DEF userVars, User!vars, User!ring, User!stacks, User!progress
  <2>3. UNCHANGED spinVars => UNCHANGED Spinlock!vars
    BY DEF spinVars, Spinlock!vars
  <2>4. UNCHANGED queueVars => UNCHANGED Unsync!vars
    BY DEF queueVars, shared, heap, locals, client, history, Unsync!vars, Unsync!queueVars,
       Unsync!shared, Unsync!heap, Unsync!locals, Unsync!client, Unsync!history
  <2> QED
    BY <2>1, <2>2, <2>3, <2>4 DEF Next, CloneStep, UserStep, SpinStep, QueueStep, vars
<1> QED
  BY <1>1, <1>2, PTL DEF FairSpec, Clone!Spec, User!Spec, Spinlock!Spec, Unsync!Spec
=============================================================================
