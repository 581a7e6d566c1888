-------------------------------- MODULE MCSem2 --------------------------------
(***************************************************************************)
(* The thread programs of src/sem2 that are small enough for one run: the  *)
(* clone threads, the user-level threads, the spinlock and the queue       *)
(* without synchronisation.  They share nothing: program says which one    *)
(* runs, and the others stay in their initial states.  The names of the    *)
(* queue are its own, AssertsHold among them; the others are instances.    *)
(***************************************************************************)
EXTENDS Queue

CONSTANTS
  CloneThreads, NoThread,
  UserThreads, Main, Naps,
  SpinThreads

VARIABLES
  program,
  call, clonePc, cleaner, node, cleanup_list, cleanup_thread_started,
  cloneMapped, joinable, is_finished, retval, joined, cloneFault,
  ringNext, prev, linked, ringCount, cur, head, run, ctx, asleep, finished,
  userMapped, left, at, scan, due, deleted,
  lock, spinPc, depth

cloneVars == <<call, clonePc, cleaner, node, cleanup_list,
               cleanup_thread_started, cloneMapped, joinable, is_finished,
               retval, joined, cloneFault>>
userVars == <<ringNext, prev, linked, ringCount, cur, head, run, ctx, asleep,
              finished, userMapped, left, at, scan, due, deleted>>
spinVars == <<lock, spinPc, depth>>
vars == <<program, cloneVars, userVars, spinVars, queueVars>>

Clone == INSTANCE MyThread WITH
  Threads <- CloneThreads, CloneMayFail <- TRUE,
  pc <- clonePc, mapped <- cloneMapped, got <- joined, fault <- cloneFault

User == INSTANCE UThread WITH
  Threads <- UserThreads, mapped <- userMapped,
  next <- ringNext, count <- ringCount

Spinlock == INSTANCE MySpinlock WITH
  Threads <- SpinThreads, pc <- spinPc

Unsync == INSTANCE QueueUnsync

Init ==
  /\ program \in {"clone", "user", "spinlock", "queue"}
  /\ Clone!Init
  /\ User!Init
  /\ Spinlock!Init
  /\ Unsync!Init

CloneStep(step) ==
  /\ program = "clone"
  /\ step
  /\ UNCHANGED <<program, userVars, spinVars, queueVars>>

UserStep(step) ==
  /\ program = "user"
  /\ step
  /\ UNCHANGED <<program, cloneVars, spinVars, queueVars>>

SpinStep(step) ==
  /\ program = "spinlock"
  /\ step
  /\ UNCHANGED <<program, cloneVars, userVars, queueVars>>

QueueStep(step) ==
  /\ program = "queue"
  /\ step
  /\ UNCHANGED <<program, cloneVars, userVars, spinVars>>

Next ==
  \/ CloneStep(Clone!Next)
  \/ UserStep(User!Next)
  \/ SpinStep(Spinlock!Next)
  \/ QueueStep(Unsync!Next)

(* Clone threads are scheduled by the kernel, and their routines return;   *)
(* the one kernel thread of the user-level threads runs, and time passes.  *)
FairSpec ==
  /\ Init /\ [][Next]_vars
  /\ \A t \in CloneThreads :
       /\ WF_vars(CloneStep(Clone!Alive /\ Clone!Owner(t)))
       /\ WF_vars(CloneStep(Clone!Alive /\ Clone!ThreadFunc(t)))
  /\ WF_vars(CloneStep(Clone!Alive /\ Clone!Cleanup))
  /\ WF_vars(UserStep(User!Run))
  /\ \A t \in UserThreads : WF_vars(UserStep(User!Elapse(t)))

-----------------------------------------------------------------------------
(* See MyThread. *)
StackOutlivesRoutine == Clone!StackOutlivesRoutine
JoinReturnsResult == Clone!JoinReturnsResult
Reclaimed == Clone!Reclaimed

(* See UThread. *)
ThreadsIntact == User!ThreadsIntact
SleepsWhole == User!SleepsWhole
AllFinish == program = "user" ~> at = "over"

(* See MySpinlock. *)
ImplementsLock == Spinlock!ImplementsLock
=============================================================================
