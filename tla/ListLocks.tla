------------------------------ MODULE ListLocks ------------------------------
(***************************************************************************)
(* The list of task2_3 with one lock per node (mutex, rwlock and spinloc): *)
(* counting threads walk it hand over hand, swapping threads exchange      *)
(* neighbours, and main stops them all and frees the list.                 *)
(*                                                                         *)
(* The three counting threads differ in the comparison they count only.    *)
(* The strings, the counts and the iteration counters that the monitor     *)
(* prints are left out.  A step that only reads fields guarded by locks    *)
(* the thread holds is merged with the lock operation before it.           *)
(***************************************************************************)
EXTENDS Naturals, FiniteSets

CONSTANTS
  Counters,    \* increasing_thread, decreasing_thread, equal_thread
  Swappers,    \* the swap_threads
  Lengths,     \* the lengths list_init is called with
  NULL,
  Programs     \* which of the three programs

ASSUME ListAssumption ==
  /\ Counters \cap Swappers = {}
  /\ IsFiniteSet(Lengths) /\ Lengths \subseteq Nat
  /\ NULL \notin Nat
  /\ Programs \subseteq {"mutex", "rwlock", "spin"}

Threads == Counters \union Swappers
Start == 0

VARIABLES
  program,
  length,
  next,              \* the next fields of l->start and of the nodes 1 .. length
  held,              \* the nodes whose lock each thread holds
  pc,
  prev, current, nxt, \* the locals of each thread
  next_next,          \* ... and of a swap
  stop_flag,
  destroyed,
  seen               \* history: the nodes of a counting thread's pass

vars == <<program, length, next, held, pc, prev, current, nxt, next_next,
          stop_flag, destroyed, seen>>

config == <<program, length, stop_flag, destroyed>>

PCs == {"top", "lockStart", "lockFirst", "test", "lockNext", "passed",
        "inner", "lockPrev", "lockCurrent", "lockThird", "recheck",
        "setPrev", "setCurrent", "setNext", "unlockAll", "advance", "done"}

Nodes == 1 .. length

(* list_init *)
Init ==
  /\ program \in Programs
  /\ length \in Lengths
  /\ next = [n \in 0 .. length |-> IF n < length THEN n + 1 ELSE NULL]
  /\ held = [t \in Threads |-> {}]
  /\ pc = [t \in Threads |-> "top"]
  /\ prev = [t \in Threads |-> Start]
  /\ current = [t \in Threads |-> NULL]
  /\ nxt = [t \in Threads |-> NULL]
  /\ next_next = [s \in Swappers |-> NULL]
  /\ stop_flag = FALSE
  /\ destroyed = FALSE
  /\ seen = [c \in Counters |-> {}]

Goto(t, label) == pc' = [pc EXCEPT ![t] = label]

(* the end of the block that declares current and next *)
EndOfBlock(t) ==
  /\ current' = [current EXCEPT ![t] = NULL]
  /\ nxt' = [nxt EXCEPT ![t] = NULL]

(* pthread_rwlock_rdlock: only counting threads share, only with each other *)
Shares(t) == program = "rwlock" /\ t \in Counters

Free(t, n) ==
  \A u \in Threads \ {t} : n \in held[u] => Shares(t) /\ Shares(u)

Acquire(t, n) ==
  /\ Free(t, n)
  /\ held' = [held EXCEPT ![t] = @ \union {n}]

Release(t, S) == held' = [held EXCEPT ![t] = @ \ S]

-----------------------------------------------------------------------------
(* increasing_thread, decreasing_thread, equal_thread *)

BeginPass(c) ==
  /\ pc[c] = "top"
  /\ Goto(c, IF stop_flag THEN "done" ELSE "lockStart")
  /\ prev' = [prev EXCEPT ![c] = Start]
  /\ UNCHANGED <<config, next, held, current, nxt, next_next, seen>>

(* lock l->start and read the first node *)
LockStart(c) ==
  /\ pc[c] = "lockStart"
  /\ Acquire(c, prev[c])
  /\ current' = [current EXCEPT ![c] = next[prev[c]]]
  /\ Goto(c, IF next[prev[c]] = NULL THEN "passed" ELSE "lockFirst")
  /\ UNCHANGED <<config, next, prev, nxt, next_next, seen>>

LockFirst(c) ==
  /\ pc[c] = "lockFirst"
  /\ Acquire(c, current[c])
  /\ seen' = [seen EXCEPT ![c] = {current[c]}]
  /\ Goto(c, "test")
  /\ UNCHANGED <<config, next, prev, current, nxt, next_next>>

(* Mutant: current is unlocked together with prev. *)
StepUnlocksBoth(c) ==
  /\ pc[c] = "test"
  /\ next[current[c]] # NULL
  /\ Release(c, {prev[c], current[c]})
  /\ nxt' = [nxt EXCEPT ![c] = next[current[c]]]
  /\ Goto(c, "lockNext")
  /\ UNCHANGED <<config, next, prev, current, next_next, seen>>

(* while (current->next): unlock prev *)
Step(c) ==
  /\ pc[c] = "test"
  /\ next[current[c]] # NULL
  /\ Release(c, {prev[c]})
  /\ nxt' = [nxt EXCEPT ![c] = next[current[c]]]
  /\ Goto(c, "lockNext")
  /\ UNCHANGED <<config, next, prev, current, next_next, seen>>

(* lock next, compare, prev = current, current = current->next *)
LockNext(c) ==
  /\ pc[c] = "lockNext"
  /\ Acquire(c, nxt[c])
  /\ prev' = [prev EXCEPT ![c] = current[c]]
  /\ current' = [current EXCEPT ![c] = next[current[c]]]
  /\ seen' = [seen EXCEPT ![c] = @ \union {nxt[c]}]
  /\ Goto(c, "test")
  /\ UNCHANGED <<config, next, nxt, next_next>>

LastReached(c) ==
  /\ pc[c] = "test"
  /\ next[current[c]] = NULL
  /\ Goto(c, "passed")
  /\ UNCHANGED <<config, next, held, prev, current, nxt, next_next, seen>>

(* unlock, and count the iteration *)
EndPass(c) ==
  /\ pc[c] = "passed"
  /\ Release(c, {current[c], prev[c]})
  /\ Goto(c, "top")
  /\ EndOfBlock(c)
  /\ prev' = [prev EXCEPT ![c] = Start]
  /\ seen' = [seen EXCEPT ![c] = {}]
  /\ UNCHANGED <<config, next, next_next>>

-----------------------------------------------------------------------------
(* swap_thread *)

BeginSweep(s) ==
  /\ pc[s] = "top"
  /\ Goto(s, IF stop_flag THEN "done" ELSE "inner")
  /\ prev' = [prev EXCEPT ![s] = Start]
  /\ UNCHANGED <<config, next, held, current, nxt, next_next, seen>>

(* Mutant: the inner loop does not look at stop_flag. *)
InnerForever(s) ==
  /\ pc[s] = "inner"
  /\ Goto(s, "lockPrev")
  /\ UNCHANGED <<config, next, held, prev, current, nxt, next_next, seen>>

Inner(s) ==
  /\ pc[s] = "inner"
  /\ Goto(s, IF stop_flag THEN "top" ELSE "lockPrev")
  /\ UNCHANGED <<config, next, held, prev, current, nxt, next_next, seen>>

(* lock prev and read current; unlock and break at the end *)
LockPrev(s) ==
  /\ pc[s] = "lockPrev"
  /\ IF next[prev[s]] = NULL
     THEN /\ Free(s, prev[s])
          /\ Goto(s, "top")
          /\ UNCHANGED held
     ELSE /\ Acquire(s, prev[s])
          /\ Goto(s, "lockCurrent")
  /\ current' = [current EXCEPT ![s] = next[prev[s]]]
  /\ UNCHANGED <<config, next, prev, nxt, next_next, seen>>

(* Mutant: current is read but not locked. *)
LockCurrentForgotten(s) ==
  /\ pc[s] = "lockCurrent"
  /\ \/ /\ next[current[s]] = NULL
        /\ Release(s, {prev[s]})
        /\ Goto(s, "top")
        /\ EndOfBlock(s)
     \/ /\ next[current[s]] # NULL
        /\ Goto(s, "lockThird")
        /\ nxt' = [nxt EXCEPT ![s] = next[current[s]]]
        /\ UNCHANGED current
        /\ UNCHANGED held
     \/ /\ next[current[s]] # NULL
        /\ Release(s, {prev[s]})
        /\ Goto(s, "advance")
        /\ EndOfBlock(s)
  /\ UNCHANGED <<config, next, prev, next_next, seen>>

(* lock current and read next; at the end unlock and break, one time in 25 *)
(* go on to swap, else unlock and advance                                  *)
LockCurrent(s) ==
  /\ pc[s] = "lockCurrent"
  /\ Free(s, current[s])
  /\ \/ /\ next[current[s]] = NULL
        /\ Release(s, {prev[s]})
        /\ Goto(s, "top")
        /\ EndOfBlock(s)
     \/ /\ next[current[s]] # NULL
        /\ Acquire(s, current[s])
        /\ Goto(s, "lockThird")
        /\ nxt' = [nxt EXCEPT ![s] = next[current[s]]]
        /\ UNCHANGED current
     \/ /\ next[current[s]] # NULL
        /\ Release(s, {prev[s]})
        /\ Goto(s, "advance")
        /\ EndOfBlock(s)
  /\ UNCHANGED <<config, next, prev, next_next, seen>>

LockThird(s) ==
  /\ pc[s] = "lockThird"
  /\ Acquire(s, nxt[s])
  /\ Goto(s, "recheck")
  /\ UNCHANGED <<config, next, prev, current, nxt, next_next, seen>>

(* if (prev->next == current && current->next == next) *)
Recheck(s) ==
  /\ pc[s] = "recheck"
  /\ Goto(s, IF next[prev[s]] = current[s] /\ next[current[s]] = nxt[s]
             THEN "setPrev" ELSE "unlockAll")
  /\ next_next' = [next_next EXCEPT ![s] = next[nxt[s]]]
  /\ UNCHANGED <<config, next, held, prev, current, nxt, seen>>

(* the three stores of a swap *)
Relink(s, at, node, target, to) ==
  /\ pc[s] = at
  /\ next' = [next EXCEPT ![node] = target]
  /\ Goto(s, to)
  /\ UNCHANGED <<config, held, prev, current, nxt, next_next, seen>>

(* Mutant: current keeps pointing at next. *)
SetCurrentForgotten(s) ==
  Relink(s, "setCurrent", current[s], nxt[s], "setNext")

SetPrev(s) == Relink(s, "setPrev", prev[s], nxt[s], "setCurrent")
SetCurrent(s) == Relink(s, "setCurrent", current[s], next_next[s], "setNext")
SetNext(s) == Relink(s, "setNext", nxt[s], current[s], "unlockAll")

UnlockAll(s) ==
  /\ pc[s] = "unlockAll"
  /\ Release(s, {nxt[s], current[s], prev[s]})
  /\ Goto(s, "inner")
  /\ EndOfBlock(s)
  /\ next_next' = [next_next EXCEPT ![s] = NULL]
  /\ UNCHANGED <<config, next, prev, seen>>

(* prev = prev->next, without a lock; break at the end of the list *)
Advance(s) ==
  /\ pc[s] = "advance"
  /\ IF next[prev[s]] = NULL
     THEN /\ prev' = [prev EXCEPT ![s] = Start]
          /\ Goto(s, "top")
     ELSE /\ prev' = [prev EXCEPT ![s] = next[prev[s]]]
          /\ Goto(s, "inner")
  /\ UNCHANGED <<config, next, held, current, nxt, next_next, seen>>

-----------------------------------------------------------------------------
(* main: after sleep(15), stop_flag = 1 *)
Stop ==
  /\ ~stop_flag
  /\ stop_flag' = TRUE
  /\ UNCHANGED <<program, length, next, held, pc, prev, current, nxt,
                 next_next, destroyed, seen>>

(* the joins, and list_destroy *)
Destroy ==
  /\ stop_flag /\ ~destroyed
  /\ \A t \in Threads : pc[t] = "done"
  /\ destroyed' = TRUE
  /\ UNCHANGED <<program, length, next, held, pc, prev, current, nxt,
                 next_next, stop_flag, seen>>

Counter(c) ==
  \/ BeginPass(c) \/ LockStart(c) \/ LockFirst(c) \/ Step(c) \/ LockNext(c)
  \/ LastReached(c) \/ EndPass(c)

Swapper(s) ==
  \/ BeginSweep(s) \/ Inner(s) \/ LockPrev(s) \/ LockCurrent(s)
  \/ LockThird(s) \/ Recheck(s) \/ SetPrev(s) \/ SetCurrent(s) \/ SetNext(s)
  \/ UnlockAll(s) \/ Advance(s)

(* the three programs *)
MutexCounter(c) == program = "mutex" /\ Counter(c)
MutexSwapper(s) == program = "mutex" /\ Swapper(s)
RwlockCounter(c) == program = "rwlock" /\ Counter(c)
RwlockSwapper(s) == program = "rwlock" /\ Swapper(s)
SpinCounter(c) == program = "spin" /\ Counter(c)
SpinSwapper(s) == program = "spin" /\ Swapper(s)

Finished == destroyed /\ UNCHANGED vars

Next ==
  \/ \E c \in Counters : MutexCounter(c) \/ RwlockCounter(c) \/ SpinCounter(c)
  \/ \E s \in Swappers : MutexSwapper(s) \/ RwlockSwapper(s) \/ SpinSwapper(s)
  \/ Stop \/ Destroy
  \/ Finished

Spec == Init /\ [][Next]_vars

(* main wakes up, and a thread that can run does *)
FairSpec ==
  /\ Spec
  /\ WF_vars(Stop) /\ WF_vars(Destroy)
  /\ \A c \in Counters : WF_vars(Counter(c))
  /\ \A s \in Swappers : WF_vars(Swapper(s))

-----------------------------------------------------------------------------
Pointers == 0 .. length \union {NULL}

TypeOK ==
  /\ program \in Programs
  /\ length \in Lengths
  /\ next \in [0 .. length -> Nodes \union {NULL}]
  /\ held \in [Threads -> SUBSET (0 .. length)]
  /\ pc \in [Threads -> PCs]
  /\ prev \in [Threads -> 0 .. length]
  /\ current \in [Threads -> Pointers]
  /\ nxt \in [Threads -> Pointers]
  /\ next_next \in [Swappers -> Pointers]
  /\ stop_flag \in BOOLEAN
  /\ destroyed \in BOOLEAN
  /\ seen \in [Counters -> SUBSET Nodes]

(* the k-th node of the list, counted from l->start *)
Nth ==
  LET nth[k \in 0 .. length + 1] ==
        IF k = 0 THEN Start
        ELSE IF nth[k - 1] = NULL THEN NULL ELSE next[nth[k - 1]]
  IN  nth

(* Whenever no swap is half done the list is a permutation of its nodes:   *)
(* a walk from l->start meets every node once and ends in NULL.            *)
ListIntact ==
  (\A s \in Swappers : pc[s] \notin {"setCurrent", "setNext"}) =>
    /\ {Nth[k] : k \in Nodes} = Nodes
    /\ Nth[length + 1] = NULL

(* The second look at prev->next and current->next under three locks never *)
(* fails: what was read under the first two cannot change.                 *)
RecheckHolds ==
  \A s \in Swappers : pc[s] = "recheck" =>
    next[prev[s]] = current[s] /\ next[current[s]] = nxt[s]

(* A pass of a counting thread compares each node of the list exactly      *)
(* once, however the swappers reorder it before and behind the thread.     *)
EachNodeOnce ==
  \A c \in Counters :
    /\ pc[c] = "lockNext" => nxt[c] \notin seen[c]
    /\ pc[c] = "passed" => seen[c] = Nodes

(* main gets to list_destroy: every thread sees stop_flag, finishes what   *)
(* it is in the middle of, and returns.                                    *)
Terminates == <>destroyed
=============================================================================
