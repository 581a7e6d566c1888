-------------------------------- MODULE UThread --------------------------------
(***************************************************************************)
(* The user-level threads of src/sem2/lab1/task1_7 (u_thread.c, main.c).   *)
(*                                                                         *)
(* One kernel thread: a step is what runs between two switches, except     *)
(* that each round of the loop of u_thread_scheduler is a step, since that *)
(* loop unlinks nodes while it walks them.  Time is reduced to whether the *)
(* sleep of a thread is over; now_us() is read once, on entry.  The        *)
(* sleep_until_us of the main thread is never set; its memory is fresh     *)
(* from malloc, so it is 0 and main is always due.                         *)
(***************************************************************************)
EXTENDS Naturals, FiniteSets

CONSTANTS
  Threads,    \* u_threads that main creates
  Main,
  Naps        \* bound: a thread function sleeps this often (5 in main.c)

Nodes == Threads \union {Main}

VARIABLES
  next, prev,   \* the ring
  linked,       \* the nodes created and not unlinked yet
  count,        \* mgr->count
  cur,          \* mgr->cur
  head,         \* mgr->head
  run,          \* whose code is executing
  ctx,          \* ctx[n]: whose execution n->u_ctx resumes
  asleep,       \* asleep[n]: sleep_until_us lies in the future
  finished,
  mapped,       \* mapped[n]: its stack is mapped
  left,         \* left[t]: naps left
  at,           \* "create", "user" code, the scheduler's "loop", its "switch", "over"
  scan, due,    \* locals of u_thread_scheduler: cur, and who is due at time t
  deleted       \* history: this call of the scheduler has unlinked a node

ring == <<next, prev, linked, count, head>>
stacks == <<run, ctx, mapped>>
progress == <<asleep, finished, left>>
vars == <<ring, cur, stacks, progress, at, scan, due, deleted>>

(* init_thread: the main thread alone *)
Init ==
  /\ next = [n \in Nodes |-> Main]
  /\ prev = [n \in Nodes |-> Main]
  /\ linked = {Main}
  /\ count = 1
  /\ cur = Main
  /\ head = Main
  /\ run = Main
  /\ ctx = [n \in Nodes |-> n]
  /\ asleep = [n \in Nodes |-> FALSE]
  /\ finished = [n \in Nodes |-> FALSE]
  /\ mapped = [n \in Nodes |-> n = Main]
  /\ left = [t \in Threads |-> Naps]
  /\ at = "create"
  /\ scan = Main
  /\ due = {}
  /\ deleted = FALSE

(* u_thread_create, called by main: behind mgr->cur *)
Create(t) ==
  /\ at = "create"
  /\ t \in Threads \ linked
  /\ LET after == next[cur]
     IN  /\ next' = [next EXCEPT ![t] = after, ![cur] = t]
         /\ prev' = [prev EXCEPT ![t] = cur, ![after] = t]
  /\ linked' = linked \union {t}
  /\ count' = count + 1
  /\ mapped' = [mapped EXCEPT ![t] = TRUE]
  /\ at' = IF Threads \subseteq linked' THEN "user" ELSE "create"
  /\ UNCHANGED <<head, cur, run, ctx, progress, scan, due, deleted>>

(* entry of u_thread_scheduler *)
EnterScheduler(sleeping) ==
  /\ at' = "loop"
  /\ scan' = cur
  /\ due' = {n \in Nodes : ~sleeping[n]}
  /\ deleted' = FALSE

(* the loop of main(): schedule until all have finished *)
MainLoop ==
  /\ at = "user"
  /\ run = Main
  /\ IF \A t \in Threads : finished[t]
     THEN at' = "over" /\ UNCHANGED <<scan, due, deleted>>
     ELSE EnterScheduler(asleep)
  /\ UNCHANGED <<ring, cur, stacks, progress>>

(* u_thread_usleep, from a thread function; it puts mgr->cur to sleep *)
Usleep(t) ==
  /\ at = "user"
  /\ run = t
  /\ left[t] > 0
  /\ left' = [left EXCEPT ![t] = @ - 1]
  /\ asleep' = IF cur = Main THEN asleep ELSE [asleep EXCEPT ![cur] = TRUE]
  /\ EnterScheduler(asleep')
  /\ UNCHANGED <<ring, cur, stacks, finished>>

(* Mutant: the thread forgets to say that it has finished. *)
StartupSilent(t) ==
  /\ at = "user"
  /\ run = t
  /\ left[t] = 0
  /\ run' = ctx[head]
  /\ UNCHANGED <<ring, cur, ctx, mapped, progress, at, scan, due, deleted>>

(* the end of u_thread_startup: uc_link resumes the main context, and      *)
(* mgr->cur still points to the finished thread                            *)
Startup(t) ==
  /\ at = "user"
  /\ run = t
  /\ left[t] = 0
  /\ finished' = [finished EXCEPT ![t] = TRUE]
  /\ run' = ctx[head]
  /\ UNCHANGED <<ring, cur, ctx, mapped, asleep, left, at, scan, due, deleted>>

-----------------------------------------------------------------------------
Unlink(n) ==
  LET p == prev[n]  s == next[n]
      next1 == [next EXCEPT ![p] = s]
  IN  /\ next' = next1
      /\ prev' = [prev EXCEPT ![next1[n]] = p]
      /\ linked' = linked \ {n}
      /\ count' = count - 1

(* Mutant: only the forward pointer is mended. *)
DeleteFinishedOneWay ==
  LET n == next[scan]
  IN  /\ at = "loop"
      /\ finished[n] /\ n # head
      /\ scan' = next[n]
      /\ next' = [next EXCEPT ![prev[n]] = next[n]]
      /\ linked' = linked \ {n}
      /\ count' = count - 1
      /\ mapped' = [mapped EXCEPT ![n] = FALSE]
      /\ at' = IF scan' # cur THEN "loop" ELSE "switch"
      /\ deleted' = TRUE
      /\ UNCHANGED <<prev, head, cur, run, ctx, progress, due>>

(* A finished node is unlinked and its stack unmapped; continue then goes  *)
(* to the loop condition, so the node behind it is not looked at.          *)
DeleteFinished ==
  LET n == next[scan]
  IN  /\ at = "loop"
      /\ finished[n] /\ n # head
      /\ scan' = next[n]
      /\ Unlink(n)
      /\ mapped' = [mapped EXCEPT ![n] = FALSE]
      /\ at' = IF scan' # cur THEN "loop" ELSE "switch"
      /\ deleted' = TRUE
      /\ UNCHANGED <<head, cur, run, ctx, progress, due>>

(* Mutant: the clock is not consulted. *)
TryNextAwake ==
  LET n == next[scan]
  IN  /\ at = "loop"
      /\ ~(finished[n] /\ n # head)
      /\ scan' = n
      /\ at' = IF ~finished[n] \/ n = cur THEN "switch" ELSE "loop"
      /\ UNCHANGED <<ring, cur, stacks, progress, due, deleted>>

(* the next node is taken if it is unfinished and due; a round without     *)
(* success ends where it began, without a switch                           *)
TryNext ==
  LET n == next[scan]
  IN  /\ at = "loop"
      /\ ~(finished[n] /\ n # head)
      /\ scan' = n
      /\ at' = IF (~finished[n] /\ n \in due) \/ n = cur THEN "switch"
                                                        ELSE "loop"
      /\ UNCHANGED <<ring, cur, stacks, progress, due, deleted>>

(* swapcontext saves into the node mgr->cur pointed to, whoever is running *)
Switch ==
  /\ at = "switch"
  /\ at' = "user"
  /\ IF scan = cur
     THEN UNCHANGED <<cur, ctx, run>>
     ELSE /\ cur' = scan
          /\ ctx' = [ctx EXCEPT ![cur] = run]
          /\ run' = ctx[scan]
  /\ UNCHANGED <<ring, mapped, progress, scan, due, deleted>>

(* the clock passes sleep_until_us *)
Elapse(t) ==
  /\ asleep[t]
  /\ asleep' = [asleep EXCEPT ![t] = FALSE]
  /\ UNCHANGED <<ring, cur, stacks, finished, left, at, scan, due, deleted>>

Run ==
  \/ \E t \in Threads : Create(t) \/ Usleep(t) \/ Startup(t)
  \/ MainLoop
  \/ DeleteFinished \/ TryNext \/ Switch

Next == Run \/ \E t \in Threads : Elapse(t)

Spec == Init /\ [][Next]_vars

-----------------------------------------------------------------------------
(* At every step the ring is a ring over the linked nodes, as many as      *)
(* mgr->count says, so the exit(1) for a count of 0 is never taken; every  *)
(* unfinished thread stays on it, and so does the head.                    *)
RingIntact ==
  /\ \A n \in linked :
       /\ next[n] \in linked /\ prev[n] \in linked
       /\ prev[next[n]] = n /\ next[prev[n]] = n
  /\ at # "create" => \A t \in Threads : finished[t] \/ t \in linked
  /\ count = Cardinality(linked)
  /\ head = Main /\ Main \in linked

(* Control never continues on an unmapped stack or in a finished thread,   *)
(* only main runs while mgr->cur is another node, and every unfinished     *)
(* node resumes its own execution, although swapcontext also stores that   *)
(* of main into finished nodes.                                            *)
RunsOnOwnStack ==
  /\ mapped[run] /\ ~finished[run]
  /\ at = "user" => run = cur \/ run = Main
  /\ \A n \in linked : ~finished[n] => ctx[n] = n

(* Both: what u_thread_create and the scheduler do to the ring and to the  *)
(* contexts leaves every unfinished thread reachable, with its own stack   *)
(* and its own execution, however creations, sleeps and ends interleave.   *)
ThreadsIntact == RingIntact /\ RunsOnOwnStack

(* u_thread_usleep does not return before its time, except from a call of  *)
(* the scheduler that has unlinked a node.  The exception is real: the     *)
(* node behind the unlinked one is not looked at, and if that is the main  *)
(* thread and all others sleep, the walk ends where it began.              *)
SleepsWhole ==
  [][at = "switch" /\ run' = scan /\ asleep[scan] => deleted]_vars

(* All threads finish and main leaves its loop, if every sleep ends: no    *)
(* unfinished thread is skipped for ever.                                  *)
AllFinish == <>(at = "over")
=============================================================================
