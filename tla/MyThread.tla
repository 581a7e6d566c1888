------------------------------- MODULE MyThread -------------------------------
(***************************************************************************)
(* The clone threads of src/sem2/lab1/task1_6 (my_thread.c).               *)
(*                                                                         *)
(* Each thread t has an owner: the code that calls my_thread_create and    *)
(* then my_thread_join or my_thread_detach on it; owners run concurrently, *)
(* as the atomic cleanup_thread_started and the cleanup mutex provide for. *)
(* The descriptor of a thread lies on its own stack, so every access of    *)
(* is_finished, joinable or retval needs the stack to be mapped.  is_      *)
(* finished and joinable are _Atomic; a section under cleanup_mutex is one *)
(* step.  id and tid, which nothing reads, are left out.                   *)
(***************************************************************************)
EXTENDS Naturals, Sequences

CONSTANTS
  Threads,
  NoThread,
  CloneMayFail   \* whether mmap or clone may fail

VARIABLES
  call,          \* call[t]: the statement its owner executes next
  pc,            \* pc[t]: the statement the thread itself executes next
  cleaner,       \* the statement cleanup_thread_func executes next
  node,          \* the thread of the node the cleaner has taken
  cleanup_list,
  cleanup_thread_started,
  mapped,        \* mapped[t]: its stack, with the descriptor, is mapped
  joinable,
  is_finished,
  retval,        \* retval[t]: what the routine returned is stored
  got,           \* history: what my_thread_join gave its caller
  fault          \* "no", or what touched an unmapped stack

desc == <<mapped, joinable, is_finished, retval>>
owner == <<call, got>>
reaper == <<cleaner, node, cleanup_list, cleanup_thread_started>>
vars == <<owner, pc, reaper, desc, fault>>

Init ==
  /\ call = [t \in Threads |-> "create"]
  /\ pc = [t \in Threads |-> "none"]
  /\ cleaner = "none"
  /\ node = NoThread
  /\ cleanup_list = <<>>
  /\ cleanup_thread_started = 0
  /\ mapped = [t \in Threads |-> FALSE]
  /\ joinable = [t \in Threads |-> 0]
  /\ is_finished = [t \in Threads |-> 0]
  /\ retval = [t \in Threads |-> FALSE]
  /\ got = [t \in Threads |-> "nothing"]
  /\ fault = "no"

Calls(t, label) == call' = [call EXCEPT ![t] = label]
Runs(t, label) == pc' = [pc EXCEPT ![t] = label]

(* An access of the descriptor of t, or a statement of t on its own stack. *)
Touch(t, who, step) ==
  IF mapped[t] THEN step /\ UNCHANGED fault
  ELSE fault' = who /\ UNCHANGED <<owner, pc, reaper, desc>>

-----------------------------------------------------------------------------
(* my_thread_create: nobody sees the region before clone succeeds *)
Create(t) ==
  /\ call[t] = "create"
  /\ Calls(t, "made")
  /\ Runs(t, "routine")
  /\ mapped' = [mapped EXCEPT ![t] = TRUE]
  /\ joinable' = [joinable EXCEPT ![t] = 1]
  /\ is_finished' = [is_finished EXCEPT ![t] = 0]
  /\ retval' = [retval EXCEPT ![t] = FALSE]
  /\ UNCHANGED <<got, reaper, fault>>

CreateFails(t) ==
  /\ CloneMayFail
  /\ call[t] = "create"
  /\ Calls(t, "over")
  /\ UNCHANGED <<got, pc, reaper, desc, fault>>

(* Mutant: the thread is reported finished before its result is stored. *)
ThreadFuncFinishesFirst(t) ==
  \/ /\ pc[t] = "routine"
     /\ Touch(t, "routine",
              /\ is_finished' = [is_finished EXCEPT ![t] = 1]
              /\ Runs(t, "finish")
              /\ UNCHANGED <<owner, reaper, mapped, joinable, retval>>)
  \/ /\ pc[t] = "finish"
     /\ Touch(t, "routine",
              /\ retval' = [retval EXCEPT ![t] = TRUE]
              /\ Runs(t, "tail")
              /\ UNCHANGED <<owner, reaper, mapped, joinable, is_finished>>)

(* thread_func: the routine and the store of its result, is_finished = 1,  *)
(* then FUTEX_WAKE and SYS_exit, which still run on the stack              *)
ThreadFunc(t) ==
  \/ /\ pc[t] = "routine"
     /\ Touch(t, "routine",
              /\ retval' = [retval EXCEPT ![t] = TRUE]
              /\ Runs(t, "finish")
              /\ UNCHANGED <<owner, reaper, mapped, joinable, is_finished>>)
  \/ /\ pc[t] = "finish"
     /\ Touch(t, "routine",
              /\ is_finished' = [is_finished EXCEPT ![t] = 1]
              /\ Runs(t, "tail")
              /\ UNCHANGED <<owner, reaper, mapped, joinable, retval>>)
  \/ /\ pc[t] = "tail"
     /\ Touch(t, "tail", Runs(t, "gone") /\ UNCHANGED <<owner, reaper, desc>>)

-----------------------------------------------------------------------------
(* my_thread_join.  futex is always 0 and FUTEX_WAIT expects 1, so the     *)
(* call returns at once with EAGAIN: the loop polls is_finished.           *)
CallJoin(t) ==
  /\ call[t] = "made"
  /\ Touch(t, "handle",
           /\ Calls(t, IF joinable[t] = 1 THEN "join" ELSE "made")
           /\ UNCHANGED <<got, pc, reaper, desc>>)

Join(t) ==
  \/ /\ call[t] = "join"
     /\ Touch(t, "join",
              /\ is_finished[t] = 1
              /\ got' = [got EXCEPT ![t] = IF retval[t] THEN "result" ELSE "junk"]
              /\ Calls(t, "unmap")
              /\ UNCHANGED <<pc, reaper, desc>>)
  \/ /\ call[t] = "unmap"
     /\ mapped' = [mapped EXCEPT ![t] = FALSE]
     /\ Calls(t, "over")
     /\ UNCHANGED <<got, pc, reaper, joinable, is_finished, retval, fault>>

-----------------------------------------------------------------------------
(* my_thread_detach.  The handle stays in its owner's hands, who may ask   *)
(* to join or detach again and is answered with an error.                  *)
CallDetach(t) ==
  /\ call[t] = "made"
  /\ Touch(t, "handle",
           /\ IF joinable[t] = 1
              THEN joinable' = [joinable EXCEPT ![t] = 0] /\ Calls(t, "exchange")
              ELSE UNCHANGED <<joinable, call>>
           /\ UNCHANGED <<got, pc, reaper, mapped, is_finished, retval>>)

(* the first detach starts the cleaner; if that fails it returns -1 *)
StartCleaner(t) ==
  /\ call[t] = "exchange"
  /\ cleanup_thread_started' = 1
  /\ IF cleanup_thread_started = 1
     THEN Calls(t, "push") /\ UNCHANGED cleaner
     ELSE \/ Calls(t, "push") /\ cleaner' = "lock"
          \/ CloneMayFail /\ Calls(t, "made") /\ UNCHANGED cleaner
  /\ UNCHANGED <<got, pc, node, cleanup_list, desc, fault>>

(* Mutant: the cleaner is not told. *)
PushSilently(t) ==
  /\ call[t] = "push"
  /\ cleanup_list' = <<t>> \o cleanup_list
  /\ Calls(t, "made")
  /\ UNCHANGED <<got, pc, cleaner, node, cleanup_thread_started, desc, fault>>

Push(t) ==
  /\ \/ /\ call[t] = "push"
        /\ cleanup_list' = <<t>> \o cleanup_list
        /\ Calls(t, "signal")
        /\ UNCHANGED cleaner
     \/ /\ call[t] = "signal"
        /\ cleaner' = IF cleaner = "asleep" THEN "lock" ELSE cleaner
        /\ Calls(t, "made")
        /\ UNCHANGED cleanup_list
  /\ UNCHANGED <<got, pc, node, cleanup_thread_started, desc, fault>>

-----------------------------------------------------------------------------
(* Mutant: the cleaner does not wait for the thread. *)
CleanupImpatient ==
  /\ \/ /\ cleaner = "lock"
        /\ IF cleanup_list = <<>>
           THEN cleaner' = "asleep" /\ UNCHANGED <<node, cleanup_list>>
           ELSE /\ node' = Head(cleanup_list)
                /\ cleanup_list' = Tail(cleanup_list)
                /\ cleaner' = "unmap"
        /\ UNCHANGED mapped
     \/ /\ cleaner = "unmap"
        /\ mapped' = [mapped EXCEPT ![node] = FALSE]
        /\ node' = NoThread
        /\ cleaner' = "lock"
        /\ UNCHANGED cleanup_list
  /\ UNCHANGED <<owner, pc, cleanup_thread_started, joinable, is_finished,
                 retval, fault>>

(* cleanup_thread_func *)
Cleanup ==
  /\ \/ /\ cleaner = "lock"
        /\ IF cleanup_list = <<>>
           THEN cleaner' = "asleep" /\ UNCHANGED <<node, cleanup_list>>
           ELSE /\ node' = Head(cleanup_list)
                /\ cleanup_list' = Tail(cleanup_list)
                /\ cleaner' = "poll"
        /\ UNCHANGED mapped
     \/ /\ cleaner = "poll"
        /\ is_finished[node] = 1
        /\ cleaner' = "unmap"
        /\ UNCHANGED <<node, cleanup_list, mapped>>
     \/ /\ cleaner = "unmap"
        /\ mapped' = [mapped EXCEPT ![node] = FALSE]
        /\ node' = NoThread
        /\ cleaner' = "lock"
        /\ UNCHANGED cleanup_list
  /\ UNCHANGED <<owner, pc, cleanup_thread_started, joinable, is_finished,
                 retval, fault>>

SpuriousWakeup ==
  /\ cleaner = "asleep"
  /\ cleaner' = "lock"
  /\ UNCHANGED <<owner, pc, node, cleanup_list, cleanup_thread_started, desc,
                 fault>>

-----------------------------------------------------------------------------
Alive == fault = "no"

(* what goes on once the owner has decided to call *)
Owner(t) == Join(t) \/ StartCleaner(t) \/ Push(t)

Next ==
  /\ Alive
  /\ \/ \E t \in Threads :
          \/ Create(t) \/ CreateFails(t) \/ ThreadFunc(t)
          \/ CallJoin(t) \/ CallDetach(t) \/ Owner(t)
     \/ Cleanup
     \/ SpuriousWakeup

Spec == Init /\ [][Next]_vars

-----------------------------------------------------------------------------
(* No stack is unmapped before the routine that runs on it has returned    *)
(* and is_finished says so, and the join loop never loses the descriptor   *)
(* it polls.  After that the thread still needs its stack for two system   *)
(* calls, which neither my_thread_join nor the cleaner waits for, and the  *)
(* owner of a detached thread still has the handle: those two faults,      *)
(* "tail" and "handle", do happen.                                         *)
StackOutlivesRoutine ==
  /\ fault \notin {"routine", "join"}
  /\ \A t \in Threads : pc[t] \in {"routine", "finish"} => mapped[t]
  /\ fault = "handle" => \E t \in Threads : joinable[t] = 0 /\ ~mapped[t]

(* my_thread_join returns only with what the routine returned. *)
JoinReturnsResult == \A t \in Threads : got[t] # "junk"

(* A detached thread that reached the list is reclaimed, provided the      *)
(* cleaner could be started: no signal to it is lost, whatever the number  *)
(* of detaches.  The exception is real: cleanup_thread_started stays 1     *)
(* after a failed start and no later detach tries again.                   *)
Listed(t) == \E i \in DOMAIN cleanup_list : cleanup_list[i] = t

Reclaimed ==
  \A t \in Threads :
    (Listed(t) /\ cleaner # "none") ~> (~mapped[t] \/ ~Alive)
=============================================================================
