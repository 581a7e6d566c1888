---------------------------- MODULE ListLocks_proofs ----------------------------
(***************************************************************************)
(* Three things about the list of task2_3, for any number of swapping and  *)
(* counting threads and any length.  The second look of a swapping thread  *)
(* never fails: only swapping threads write next fields, each only in      *)
(* nodes it has locked, and none of them releases a node in the middle of  *)
(* its swap.  Between swaps the list is a permutation of its nodes.  And a *)
(* pass of a counting thread meets every node once.                        *)
(***************************************************************************)
EXTENDS ListLocks, WellFoundedInduction, TLAPS

Links == Nodes \union {NULL}

OnThreads(f) == f = [t \in Threads |-> f[t]]

Typed ==
  /\ length \in Nat
  /\ next \in [0 .. length -> Links]
  /\ OnThreads(held) /\ OnThreads(pc) /\ OnThreads(prev)
  /\ OnThreads(current) /\ OnThreads(nxt)
  /\ next_next \in [Swappers -> Links]
  /\ \A s \in Swappers :
       /\ held[s] \subseteq 0 .. length
       /\ prev[s] \in 0 .. length
       /\ current[s] \in Links /\ nxt[s] \in Links

(* Two swapping threads never hold the same lock, in any of the programs. *)
Apart == \A s, u \in Swappers : s # u => held[s] \cap held[u] = {}

(* What a swapping thread has locked and what it has read under the locks. *)
Storing == {"setPrev", "setCurrent", "setNext"}
HasPrev == {"lockCurrent", "lockThird", "recheck"} \union Storing
HasCurrent == {"lockThird", "recheck"} \union Storing
HasThird == {"recheck"} \union Storing

Way(s) ==
  /\ pc[s] \in HasPrev => prev[s] \in held[s] /\ current[s] # NULL
  /\ pc[s] \in HasPrev \ {"setCurrent", "setNext"} => next[prev[s]] = current[s]
  /\ pc[s] \in HasCurrent => current[s] \in held[s] /\ nxt[s] # NULL
  /\ pc[s] \in HasCurrent \ {"setCurrent", "setNext"} => next[current[s]] = nxt[s]
  /\ pc[s] \in HasThird => nxt[s] \in held[s]

Stable == \A s \in Swappers : Way(s)

IInv == Typed /\ Apart /\ Stable

-----------------------------------------------------------------------------
LEMMA InitHolds == Init => IInv
PROOF
<1> SUFFICES ASSUME Init PROVE IInv
  OBVIOUS
<1>1. Typed
  BY ListAssumption DEF Init, Typed, Links, Nodes, OnThreads, Threads, Start
<1>2. Apart
  BY DEF Init, Apart, Threads
<1>3. Stable
  BY DEF Init, Stable, Way, Threads, Storing, HasPrev, HasCurrent, HasThird
<1> QED
  BY <1>1, <1>2, <1>3 DEF IInv

(* A step that leaves all swapping threads but those of S, and all next    *)
(* fields, as they are.                                                    *)
Spares(S) ==
  /\ UNCHANGED <<length, next>>
  /\ OnThreads(held') /\ OnThreads(pc') /\ OnThreads(prev')
  /\ OnThreads(current') /\ OnThreads(nxt')
  /\ \A u \in Swappers \ S :
       /\ held'[u] = held[u] /\ pc'[u] = pc[u] /\ prev'[u] = prev[u]
       /\ current'[u] = current[u] /\ nxt'[u] = nxt[u]

(* A counting thread changes its own locals and locks and nothing else. *)
LEMMA CounterFrame ==
  ASSUME IInv, NEW c \in Counters, Counter(c)
  PROVE  Spares({}) /\ UNCHANGED next_next
PROOF
<1> USE ListAssumption
    DEF IInv, Typed, OnThreads, Threads, Goto, config, Acquire, Release, EndOfBlock,
        Spares
<1>1. CASE BeginPass(c)
  BY <1>1 DEF BeginPass
<1>2. CASE LockStart(c)
  BY <1>2 DEF LockStart
<1>3. CASE LockFirst(c)
  BY <1>3 DEF LockFirst
<1>4. CASE Step(c)
  BY <1>4 DEF Step
<1>5. CASE LockNext(c)
  BY <1>5 DEF LockNext
<1>6. CASE LastReached(c)
  BY <1>6 DEF LastReached
<1>7. CASE EndPass(c)
  BY <1>7 DEF EndPass
<1> QED
  BY <1>1, <1>2, <1>3, <1>4, <1>5, <1>6, <1>7 DEF Counter

LEMMA CounterKeeps ==
  ASSUME IInv, NEW c \in Counters, Counter(c)
  PROVE  IInv'
PROOF
<1>1. Typed'
  BY CounterFrame DEF Spares, IInv, Typed, OnThreads, Links, Nodes
<1>2. Apart'
  BY CounterFrame DEF Spares, IInv, Apart
<1>3. Stable'
  BY CounterFrame DEF Spares, IInv, Stable, Way
<1> QED
  BY <1>1, <1>2, <1>3 DEF IInv

-----------------------------------------------------------------------------
(* A step of one swapping thread that writes no next field only has to     *)
(* keep what is said of that thread.                                       *)
LEMMA OwnStep ==
  ASSUME IInv, NEW s \in Swappers, Spares({s}),
         next_next' \in [Swappers -> Links],
         held'[s] \subseteq 0 .. length, prev'[s] \in 0 .. length,
         current'[s] \in Links, nxt'[s] \in Links,
         \A u \in Swappers \ {s} : held'[s] \cap held[u] = {},
         Way(s)'
  PROVE  IInv'
PROOF
<1>1. Typed'
  BY DEF Spares, IInv, Typed, OnThreads, Links, Nodes
<1>2. Apart'
  BY DEF Spares, IInv, Apart
<1>3. Stable'
  <2>1. ASSUME NEW u \in Swappers \ {s} PROVE Way(u)'
    BY <2>1 DEF Spares, IInv, Stable, Way
  <2> QED
    BY <2>1 DEF Stable
<1> QED
  BY <1>1, <1>2, <1>3 DEF IInv

(* The statements of swap_thread that only lock, read and unlock. *)
LEMMA ReadingKeeps ==
  ASSUME IInv, NEW s \in Swappers,
         \/ BeginSweep(s) \/ Inner(s) \/ LockPrev(s) \/ LockCurrent(s)
         \/ LockThird(s) \/ Recheck(s) \/ UnlockAll(s) \/ Advance(s)
  PROVE  IInv'
PROOF
<1> USE ListAssumption
    DEF Goto, config, Acquire, Release, EndOfBlock
<1>1. 0 \in 0 .. length /\ NULL \notin Nodes /\ NULL \in Links /\ s \in Threads
  BY DEF IInv, Typed, Links, Nodes, Threads
<1>2. \A n \in 0 .. length : next[n] \in Links
  BY DEF IInv, Typed
<1>3. /\ held[s] \subseteq 0 .. length /\ prev[s] \in 0 .. length
      /\ current[s] \in Links /\ nxt[s] \in Links
      /\ next_next \in [Swappers -> Links]
  BY DEF IInv, Typed
<1>4. \A n \in Links : n # NULL => n \in 0 .. length
  BY DEF IInv, Typed, Links, Nodes
<1>5. \A n : Free(s, n) => \A u \in Swappers \ {s} : n \notin held[u]
  BY DEF Free, Shares, Threads
<1>6. \A u \in Swappers \ {s} : held[s] \cap held[u] = {}
  BY DEF IInv, Apart
<1>7. Way(s)
  BY DEF IInv, Stable
<1>8. CASE BeginSweep(s)
  <2>1. Spares({s})
    BY <1>8 DEF BeginSweep, Spares, IInv, Typed, OnThreads, Threads
  <2>2. /\ held'[s] \subseteq 0 .. length /\ prev'[s] \in 0 .. length
        /\ current'[s] \in Links /\ nxt'[s] \in Links
        /\ next_next' \in [Swappers -> Links]
    BY <1>8, <1>1, <1>2, <1>3, <1>4, <1>7 DEF BeginSweep, Way, HasPrev, HasCurrent, HasThird, Storing, Start, IInv, Typed, OnThreads
  <2>3. \A u \in Swappers \ {s} : held'[s] \cap held[u] = {}
    BY <1>8, <1>1, <1>5, <1>6 DEF BeginSweep, IInv, Typed, OnThreads
  <2>4. Way(s)'
    BY <1>8, <1>1, <1>7 DEF BeginSweep, Way, HasPrev, HasCurrent, HasThird, Storing, IInv, Typed, OnThreads
  <2> QED
    BY <2>1, <2>2, <2>3, <2>4, OwnStep
<1>9. CASE Inner(s)
  <2>1. Spares({s})
    BY <1>9 DEF Inner, Spares, IInv, Typed, OnThreads, Threads
  <2>2. /\ held'[s] \subseteq 0 .. length /\ prev'[s] \in 0 .. length
        /\ current'[s] \in Links /\ nxt'[s] \in Links
        /\ next_next' \in [Swappers -> Links]
    BY <1>9, <1>1, <1>2, <1>3, <1>4, <1>7 DEF Inner, Way, HasPrev, HasCurrent, HasThird, Storing, Start, IInv, Typed, OnThreads
  <2>3. \A u \in Swappers \ {s} : held'[s] \cap held[u] = {}
    BY <1>9, <1>1, <1>5, <1>6 DEF Inner, IInv, Typed, OnThreads
  <2>4. Way(s)'
    BY <1>9, <1>1, <1>7 DEF Inner, Way, HasPrev, HasCurrent, HasThird, Storing, IInv, Typed, OnThreads
  <2> QED
    BY <2>1, <2>2, <2>3, <2>4, OwnStep
<1>10. CASE LockPrev(s)
  <2>1. Spares({s})
    BY <1>10 DEF LockPrev, Spares, IInv, Typed, OnThreads, Threads
  <2>2. /\ held'[s] \subseteq 0 .. length /\ prev'[s] \in 0 .. length
        /\ current'[s] \in Links /\ nxt'[s] \in Links
        /\ next_next' \in [Swappers -> Links]
    BY <1>10, <1>1, <1>2, <1>3, <1>4, <1>7 DEF LockPrev, Way, HasPrev, HasCurrent, HasThird, Storing, Start, IInv, Typed, OnThreads
  <2>3. \A u \in Swappers \ {s} : held'[s] \cap held[u] = {}
    <3>1. \/ held'[s] = held[s]
          \/ Free(s, prev[s]) /\ held'[s] = held[s] \union {prev[s]}
      BY <1>10, <1>1 DEF LockPrev, IInv, Typed, OnThreads
    <3> QED
      BY <3>1, <1>5, <1>6
  <2>4. Way(s)'
    BY <1>10, <1>1, <1>7 DEF LockPrev, Way, HasPrev, HasCurrent, HasThird, Storing, IInv, Typed, OnThreads
  <2> QED
    BY <2>1, <2>2, <2>3, <2>4, OwnStep
<1>11. CASE LockCurrent(s)
  <2>1. Spares({s})
    BY <1>11 DEF LockCurrent, Spares, IInv, Typed, OnThreads, Threads
  <2>2. /\ held'[s] \subseteq 0 .. length /\ prev'[s] \in 0 .. length
        /\ current'[s] \in Links /\ nxt'[s] \in Links
        /\ next_next' \in [Swappers -> Links]
    BY <1>11, <1>1, <1>2, <1>3, <1>4, <1>7 DEF LockCurrent, Way, HasPrev, HasCurrent, HasThird, Storing, Start, IInv, Typed, OnThreads
  <2>3. \A u \in Swappers \ {s} : held'[s] \cap held[u] = {}
    <3>1. \/ held'[s] \subseteq held[s]
          \/ Free(s, current[s]) /\ held'[s] = held[s] \union {current[s]}
      BY <1>11, <1>1 DEF LockCurrent, IInv, Typed, OnThreads
    <3> QED
      BY <3>1, <1>5, <1>6
  <2>4. Way(s)'
    BY <1>11, <1>1, <1>7 DEF LockCurrent, Way, HasPrev, HasCurrent, HasThird, Storing, IInv, Typed, OnThreads
  <2> QED
    BY <2>1, <2>2, <2>3, <2>4, OwnStep
<1>12. CASE LockThird(s)
  <2>1. Spares({s})
    BY <1>12 DEF LockThird, Spares, IInv, Typed, OnThreads, Threads
  <2>2. /\ held'[s] \subseteq 0 .. length /\ prev'[s] \in 0 .. length
        /\ current'[s] \in Links /\ nxt'[s] \in Links
        /\ next_next' \in [Swappers -> Links]
    BY <1>12, <1>1, <1>2, <1>3, <1>4, <1>7 DEF LockThird, Way, HasPrev, HasCurrent, HasThird, Storing, Start, IInv, Typed, OnThreads
  <2>3. \A u \in Swappers \ {s} : held'[s] \cap held[u] = {}
    BY <1>12, <1>1, <1>5, <1>6 DEF LockThird, IInv, Typed, OnThreads
  <2>4. Way(s)'
    BY <1>12, <1>1, <1>7 DEF LockThird, Way, HasPrev, HasCurrent, HasThird, Storing, IInv, Typed, OnThreads
  <2> QED
    BY <2>1, <2>2, <2>3, <2>4, OwnStep
<1>13. CASE Recheck(s)
  <2>1. Spares({s})
    BY <1>13 DEF Recheck, Spares, IInv, Typed, OnThreads, Threads
  <2>2. /\ held'[s] \subseteq 0 .. length /\ prev'[s] \in 0 .. length
        /\ current'[s] \in Links /\ nxt'[s] \in Links
        /\ next_next' \in [Swappers -> Links]
    BY <1>13, <1>1, <1>2, <1>3, <1>4, <1>7 DEF Recheck, Way, HasPrev, HasCurrent, HasThird, Storing, Start, IInv, Typed, OnThreads
  <2>3. \A u \in Swappers \ {s} : held'[s] \cap held[u] = {}
    BY <1>13, <1>1, <1>5, <1>6 DEF Recheck, IInv, Typed, OnThreads
  <2>4. Way(s)'
    BY <1>13, <1>1, <1>7 DEF Recheck, Way, HasPrev, HasCurrent, HasThird, Storing, IInv, Typed, OnThreads
  <2> QED
    BY <2>1, <2>2, <2>3, <2>4, OwnStep
<1>14. CASE UnlockAll(s)
  <2>1. Spares({s})
    BY <1>14 DEF UnlockAll, Spares, IInv, Typed, OnThreads, Threads
  <2>2. /\ held'[s] \subseteq 0 .. length /\ prev'[s] \in 0 .. length
        /\ current'[s] \in Links /\ nxt'[s] \in Links
        /\ next_next' \in [Swappers -> Links]
    BY <1>14, <1>1, <1>2, <1>3, <1>4, <1>7 DEF UnlockAll, Way, HasPrev, HasCurrent, HasThird, Storing, Start, IInv, Typed, OnThreads
  <2>3. \A u \in Swappers \ {s} : held'[s] \cap held[u] = {}
    BY <1>14, <1>1, <1>5, <1>6 DEF UnlockAll, IInv, Typed, OnThreads
  <2>4. Way(s)'
    BY <1>14, <1>1, <1>7 DEF UnlockAll, Way, HasPrev, HasCurrent, HasThird, Storing, IInv, Typed, OnThreads
  <2> QED
    BY <2>1, <2>2, <2>3, <2>4, OwnStep
<1>15. CASE Advance(s)
  <2>1. Spares({s})
    BY <1>15 DEF Advance, Spares, IInv, Typed, OnThreads, Threads
  <2>2. /\ held'[s] \subseteq 0 .. length /\ prev'[s] \in 0 .. length
        /\ current'[s] \in Links /\ nxt'[s] \in Links
        /\ next_next' \in [Swappers -> Links]
    BY <1>15, <1>1, <1>2, <1>3, <1>4, <1>7 DEF Advance, Way, HasPrev, HasCurrent, HasThird, Storing, Start, IInv, Typed, OnThreads
  <2>3. \A u \in Swappers \ {s} : held'[s] \cap held[u] = {}
    BY <1>15, <1>1, <1>5, <1>6 DEF Advance, IInv, Typed, OnThreads
  <2>4. Way(s)'
    BY <1>15, <1>1, <1>7 DEF Advance, Way, HasPrev, HasCurrent, HasThird, Storing, IInv, Typed, OnThreads
  <2> QED
    BY <2>1, <2>2, <2>3, <2>4, OwnStep
<1> QED
  BY <1>8, <1>9, <1>10, <1>11, <1>12, <1>13, <1>14, <1>15

(* The three stores go to nodes that no other swapping thread has locked. *)
LEMMA StoresKeep ==
  ASSUME IInv, NEW s \in Swappers, SetPrev(s) \/ SetCurrent(s) \/ SetNext(s)
  PROVE  IInv'
PROOF
<1> USE ListAssumption
    DEF IInv, Typed, Apart, Stable, Way, Links, Nodes, OnThreads, Threads, Storing,
        HasPrev, HasCurrent, HasThird, Goto, config
<1>1. CASE SetPrev(s)
  <2>1. Typed'
    BY <1>1 DEF SetPrev, Relink
  <2>2. Apart'
    BY <1>1 DEF SetPrev, Relink
  <2>3. Stable'
    BY <1>1 DEF SetPrev, Relink
  <2> QED
    BY <2>1, <2>2, <2>3
<1>2. CASE SetCurrent(s)
  <2>1. Typed'
    BY <1>2 DEF SetCurrent, Relink
  <2>2. Apart'
    BY <1>2 DEF SetCurrent, Relink
  <2>3. Stable'
    BY <1>2 DEF SetCurrent, Relink
  <2> QED
    BY <2>1, <2>2, <2>3
<1>3. CASE SetNext(s)
  <2>1. Typed'
    BY <1>3 DEF SetNext, Relink
  <2>2. Apart'
    BY <1>3 DEF SetNext, Relink
  <2>3. Stable'
    BY <1>3 DEF SetNext, Relink
  <2> QED
    BY <2>1, <2>2, <2>3
<1> QED
  BY <1>1, <1>2, <1>3

-----------------------------------------------------------------------------
LEMMA StepKeeps == IInv /\ [Next]_vars => IInv'
PROOF
<1> SUFFICES ASSUME IInv, [Next]_vars PROVE IInv'
  OBVIOUS
<1>1. CASE \E c \in Counters : MutexCounter(c) \/ RwlockCounter(c) \/ SpinCounter(c)
  BY <1>1, CounterKeeps DEF MutexCounter, RwlockCounter, SpinCounter
<1>2. CASE \E s \in Swappers : MutexSwapper(s) \/ RwlockSwapper(s) \/ SpinSwapper(s)
  <2>1. PICK s \in Swappers : Swapper(s)
    BY <1>2 DEF MutexSwapper, RwlockSwapper, SpinSwapper
  <2> QED
    BY <2>1, ReadingKeeps, StoresKeep DEF Swapper
<1>3. CASE Stop \/ Destroy \/ Finished \/ UNCHANGED vars
  <2>1. UNCHANGED <<length, next, held, pc, prev, current, nxt, next_next>>
    BY <1>3 DEF Stop, Destroy, Finished, vars
  <2> QED
    BY <2>1 DEF IInv, Typed, Apart, Stable, Way, OnThreads, Links, Nodes
<1> QED
  BY <1>1, <1>2, <1>3 DEF Next

(* What a swapping thread has read from the nodes it has locked stays true *)
(* until it writes to them itself (swap_thread of the three list.c).       *)
THEOREM Invariant == Spec => []IInv
PROOF
<1> QED
  BY InitHolds, StepKeeps, PTL DEF Spec

(* if (prev->next == current && current->next == next), the second look of *)
(* swap_thread under its three locks, is always true: the other branch, in *)
(* which the swap is given up, is dead code.                               *)
THEOREM RecheckNeverFails == Spec => []RecheckHolds
PROOF
<1>1. IInv => RecheckHolds
  BY DEF IInv, Stable, Way, RecheckHolds, HasPrev, HasCurrent, HasThird, Storing
<1> QED
  BY <1>1, Invariant, PTL
-----------------------------------------------------------------------------
(* The second half of the argument: the order of the list.  A swap changes *)
(* it at its first store, and the nodes whose next fields are then still   *)
(* to be written stay locked until they have been.                         *)

(* No counting thread holds what a swapping thread holds. *)
CountersApart ==
  \A s \in Swappers, c \in Counters : held[s] \cap held[c] = {}

(* at[k] is the k-th node of the list as it is once the swaps that have    *)
(* begun are through, and pos[n] the place of node n; l->start is first.   *)
Ordered(pos, at) ==
  /\ pos \in [0 .. length -> 0 .. length]
  /\ at \in [0 .. length -> 0 .. length]
  /\ \A n \in 0 .. length : at[pos[n]] = n /\ pos[at[n]] = n
  /\ pos[Start] = Start

Follows(pos, n, m) ==
  IF m = NULL THEN pos[n] = length ELSE pos[m] = pos[n] + 1

(* A node whose next field still has its value from before the swap. *)
HalfDone(n) ==
  \E s \in Swappers :
    \/ pc[s] = "setCurrent" /\ n = current[s]
    \/ pc[s] \in {"setCurrent", "setNext"} /\ n = nxt[s]

Linked(pos) ==
  \A n \in 0 .. length : ~HalfDone(n) => Follows(pos, n, next[n])

(* The place in the order of the nodes that s is about to link. *)
Swapping(pos, s) ==
  /\ pc[s] = "setPrev" => next_next[s] = next[nxt[s]]
  /\ pc[s] \in {"setCurrent", "setNext"} =>
       /\ pos[nxt[s]] = pos[prev[s]] + 1
       /\ pos[current[s]] = pos[prev[s]] + 2
       /\ Follows(pos, current[s], next_next[s])

(* A counting thread has seen the nodes up to the one it has locked, and   *)
(* knows which one comes next.                                             *)
Passing(pos, c) ==
  /\ pc[c] \in {"lockStart", "lockFirst"} => prev[c] = Start
  /\ pc[c] \in {"top", "lockStart"} => seen[c] = {}
  /\ pc[c] = "lockFirst" =>
       Start \in held[c] /\ current[c] = next[Start] /\ current[c] # NULL
  /\ pc[c] \in {"test", "lockNext"} =>
       /\ current[c] \in held[c] /\ current[c] # NULL
       /\ seen[c] = {n \in Nodes : pos[n] <= pos[current[c]]}
  /\ pc[c] = "test" => prev[c] # current[c]
  /\ pc[c] = "lockNext" => nxt[c] = next[current[c]] /\ nxt[c] # NULL
  /\ pc[c] = "passed" => seen[c] = Nodes

InOrder(pos, at) ==
  /\ Ordered(pos, at)
  /\ Linked(pos)
  /\ \A s \in Swappers : Swapping(pos, s)
  /\ \A c \in Counters : Passing(pos, c)

CountersTyped ==
  /\ seen = [c \in Counters |-> seen[c]]
  /\ \A c \in Counters :
       /\ prev[c] \in 0 .. length
       /\ current[c] \in Links /\ nxt[c] \in Links

OrderInv ==
  /\ CountersTyped
  /\ CountersApart
  /\ \E pos, at : InOrder(pos, at)

(* A node whose next field is still to be written is locked by the swap.   *)
LEMMA HalfDoneHeld ==
  ASSUME IInv, NEW n, HalfDone(n)
  PROVE  \E s \in Swappers : n \in held[s]
PROOF
  BY DEF IInv, Stable, Way, HalfDone, HasPrev, HasCurrent, HasThird, Storing

LEMMA OrderInit == Init => OrderInv
PROOF
<1> SUFFICES ASSUME Init PROVE OrderInv
  OBVIOUS
<1> DEFINE id == [n \in 0 .. length |-> n]
<1>1. length \in Nat /\ NULL \notin 0 .. length
  BY ListAssumption DEF Init
<1>2. CountersTyped /\ CountersApart
  BY <1>1 DEF Init, CountersTyped, CountersApart, Threads, Links, Start
<1>3. Ordered(id, id)
  BY <1>1 DEF Ordered, Start
<1>4. Linked(id)
  BY <1>1 DEF Init, Linked, Follows
<1>5. (\A s \in Swappers : Swapping(id, s)) /\ (\A c \in Counters : Passing(id, c))
  BY DEF Init, Swapping, Passing, Threads
<1> QED
  BY <1>2, <1>3, <1>4, <1>5 DEF OrderInv, InOrder

-----------------------------------------------------------------------------
(* A step of t that leaves the other threads as they are. *)
OthersStand(t) ==
  /\ seen' = [c \in Counters |-> seen'[c]]
  /\ \A u \in Threads \ {t} :
       /\ held'[u] = held[u] /\ pc'[u] = pc[u] /\ prev'[u] = prev[u]
       /\ current'[u] = current[u] /\ nxt'[u] = nxt[u]
  /\ \A c \in Counters \ {t} : seen'[c] = seen[c]

(* The order a counting thread sees is the same before and after a step of *)
(* its own.                                                                *)
LEMMA CounterOrder ==
  ASSUME IInv, CountersTyped, CountersApart, NEW pos, NEW at, InOrder(pos, at),
         NEW c \in Counters, Counter(c)
  PROVE  CountersTyped' /\ CountersApart' /\ InOrder(pos, at)'
PROOF
<1>1. Spares({}) /\ UNCHANGED next_next
  BY CounterFrame
<1>2. \A n : HalfDone(n)' <=> HalfDone(n)
  BY <1>1 DEF Spares, HalfDone
<1>3. Ordered(pos, at)' /\ Linked(pos)' /\ \A s \in Swappers : Swapping(pos, s)'
  BY <1>1, <1>2 DEF Spares, InOrder, Ordered, Linked, Follows, Swapping
<1>4. /\ length \in Nat /\ NULL \notin 0 .. length /\ c \in Threads
      /\ \A n \in 0 .. length : next[n] \in Links
      /\ \A n \in Links : n # NULL => n \in Nodes /\ n \in 0 .. length
  BY ListAssumption DEF IInv, Typed, Links, Nodes, Threads
<1>5. \A n : Free(c, n) => \A s \in Swappers : n \notin held[s]
  BY ListAssumption DEF Free, Shares, Threads
<1>6. \A n \in 0 .. length : (\A s \in Swappers : n \notin held[s]) =>
        Follows(pos, n, next[n])
  BY HalfDoneHeld DEF InOrder, Linked
<1>7. \A n \in held[c] : \A s \in Swappers : n \notin held[s]
  BY DEF CountersApart
<1>8. /\ prev[c] \in 0 .. length /\ current[c] \in Links /\ nxt[c] \in Links
      /\ Passing(pos, c)
  BY DEF CountersTyped, InOrder
<1>9. /\ \A n \in 0 .. length : pos[n] \in 0 .. length
      /\ \A n, m \in 0 .. length : pos[n] = pos[m] => n = m
      /\ pos[Start] = 0 /\ Start = 0
  BY DEF InOrder, Ordered, Start
<1> USE DEF Goto, config, Acquire, Release, EndOfBlock
<1>10. ASSUME OthersStand(c), UNCHANGED <<next, length>>,
              Passing(pos, c)',
              prev'[c] \in 0 .. length, current'[c] \in Links, nxt'[c] \in Links,
              \A s \in Swappers : held[s] \cap held'[c] = {}
       PROVE  CountersTyped' /\ CountersApart' /\ InOrder(pos, at)'
  <2>1. CountersTyped'
    BY <1>10 DEF OthersStand, CountersTyped, Links, Nodes, Threads
  <2>2. CountersApart'
    BY <1>10, ListAssumption DEF OthersStand, CountersApart, Threads
  <2>3. ASSUME NEW d \in Counters \ {c} PROVE Passing(pos, d)'
    BY <1>10, <2>3 DEF OthersStand, InOrder, Passing, Nodes, Threads
  <2> QED
    BY <1>3, <1>10, <2>1, <2>2, <2>3 DEF InOrder
<1>11. CASE BeginPass(c)
  <2>1. OthersStand(c) /\ UNCHANGED <<next, length>>
    BY <1>11, <1>4 DEF BeginPass, OthersStand, IInv, Typed, OnThreads, CountersTyped
  <2>2. /\ pc'[c] \in {"done", "lockStart"} /\ prev'[c] = Start
        /\ current'[c] = current[c] /\ nxt'[c] = nxt[c]
        /\ held'[c] = held[c] /\ seen'[c] = {}
    BY <1>11, <1>4, <1>8 DEF BeginPass, IInv, Typed, OnThreads, CountersTyped, Passing
  <2>3. prev'[c] \in 0 .. length /\ current'[c] \in Links /\ nxt'[c] \in Links
    BY <2>2, <1>4, <1>8, <1>9 DEF Passing, Links
  <2>4. \A s \in Swappers : held[s] \cap held'[c] = {}
    BY <2>2, <1>5, <1>7
  <2>5. Passing(pos, c)'
    BY <2>1, <2>2, <1>4, <1>5, <1>6, <1>7, <1>8, <1>9 DEF Passing, Follows, Nodes
  <2> QED
    BY <2>1, <2>3, <2>4, <2>5, <1>10
<1>12. CASE LockStart(c)
  <2>1. OthersStand(c) /\ UNCHANGED <<next, length>>
    BY <1>12, <1>4 DEF LockStart, OthersStand, IInv, Typed, OnThreads, CountersTyped
  <2>2. /\ prev'[c] = Start /\ Free(c, Start) /\ seen[c] = {}
        /\ held'[c] = held[c] \union {Start} /\ seen'[c] = seen[c]
        /\ current'[c] = next[Start] /\ nxt'[c] = nxt[c]
        /\ pc'[c] = IF next[Start] = NULL THEN "passed" ELSE "lockFirst"
    BY <1>12, <1>4, <1>8 DEF LockStart, IInv, Typed, OnThreads, CountersTyped, Passing
  <2>3. prev'[c] \in 0 .. length /\ current'[c] \in Links /\ nxt'[c] \in Links
    BY <2>2, <1>4, <1>8, <1>9 DEF Passing, Links
  <2>4. \A s \in Swappers : held[s] \cap held'[c] = {}
    BY <2>2, <1>5, <1>7
  <2>5. Passing(pos, c)'
    BY <2>1, <2>2, <1>4, <1>5, <1>6, <1>7, <1>8, <1>9 DEF Passing, Follows, Nodes
  <2> QED
    BY <2>1, <2>3, <2>4, <2>5, <1>10
<1>13. CASE LockFirst(c)
  <2>1. OthersStand(c) /\ UNCHANGED <<next, length>>
    BY <1>13, <1>4 DEF LockFirst, OthersStand, IInv, Typed, OnThreads, CountersTyped
  <2>2. /\ pc[c] = "lockFirst" /\ Free(c, current[c]) /\ pc'[c] = "test"
        /\ held'[c] = held[c] \union {current[c]} /\ seen'[c] = {current[c]}
        /\ prev'[c] = prev[c] /\ current'[c] = current[c] /\ nxt'[c] = nxt[c]
    BY <1>13, <1>4, <1>8 DEF LockFirst, IInv, Typed, OnThreads, CountersTyped, Passing
  <2>3. prev'[c] \in 0 .. length /\ current'[c] \in Links /\ nxt'[c] \in Links
    BY <2>2, <1>4, <1>8, <1>9 DEF Passing, Links
  <2>4. \A s \in Swappers : held[s] \cap held'[c] = {}
    BY <2>2, <1>5, <1>7
  <2>5. Passing(pos, c)'
    <3>1. current[c] \in Nodes /\ pos[current[c]] = 1
      BY <2>2, <1>4, <1>6, <1>7, <1>8, <1>9 DEF Passing, Follows
    <3>2. \A n \in Nodes : pos[n] <= 1 <=> n = current[c]
      BY <3>1, <1>4, <1>9 DEF Nodes
    <3>3. seen'[c] = {n \in Nodes : pos[n] <= pos[current[c]]}
      BY <3>1, <3>2, <2>2
    <3> QED
      BY <2>1, <2>2, <3>1, <3>3, <1>8, <1>9 DEF Passing, Nodes
  <2> QED
    BY <2>1, <2>3, <2>4, <2>5, <1>10
<1>14. CASE Step(c)
  <2>1. OthersStand(c) /\ UNCHANGED <<next, length>>
    BY <1>14, <1>4 DEF Step, OthersStand, IInv, Typed, OnThreads, CountersTyped
  <2>2. /\ pc[c] = "test" /\ next[current[c]] # NULL /\ pc'[c] = "lockNext"
        /\ held'[c] = held[c] \ {prev[c]} /\ seen'[c] = seen[c]
        /\ prev'[c] = prev[c] /\ current'[c] = current[c]
        /\ nxt'[c] = next[current[c]]
    BY <1>14, <1>4, <1>8 DEF Step, IInv, Typed, OnThreads, CountersTyped, Passing
  <2>3. prev'[c] \in 0 .. length /\ current'[c] \in Links /\ nxt'[c] \in Links
    BY <2>2, <1>4, <1>8, <1>9 DEF Passing, Links
  <2>4. \A s \in Swappers : held[s] \cap held'[c] = {}
    BY <2>2, <1>5, <1>7
  <2>5. Passing(pos, c)'
    BY <2>1, <2>2, <1>4, <1>5, <1>6, <1>7, <1>8, <1>9 DEF Passing, Follows, Nodes
  <2> QED
    BY <2>1, <2>3, <2>4, <2>5, <1>10
<1>15. CASE LockNext(c)
  <2>1. OthersStand(c) /\ UNCHANGED <<next, length>>
    BY <1>15, <1>4 DEF LockNext, OthersStand, IInv, Typed, OnThreads, CountersTyped
  <2>2. /\ pc[c] = "lockNext" /\ Free(c, nxt[c]) /\ pc'[c] = "test"
        /\ held'[c] = held[c] \union {nxt[c]} /\ seen'[c] = seen[c] \union {nxt[c]}
        /\ prev'[c] = current[c] /\ current'[c] = next[current[c]] /\ nxt'[c] = nxt[c]
    BY <1>15, <1>4, <1>8 DEF LockNext, IInv, Typed, OnThreads, CountersTyped, Passing
  <2>3. prev'[c] \in 0 .. length /\ current'[c] \in Links /\ nxt'[c] \in Links
    BY <2>2, <1>4, <1>8, <1>9 DEF Passing, Links
  <2>4. \A s \in Swappers : held[s] \cap held'[c] = {}
    BY <2>2, <1>5, <1>7
  <2>5. Passing(pos, c)'
    <3>1. /\ current[c] \in 0 .. length /\ nxt[c] \in Nodes
          /\ nxt[c] = next[current[c]] /\ pos[nxt[c]] = pos[current[c]] + 1
          /\ seen[c] = {n \in Nodes : pos[n] <= pos[current[c]]}
      BY <2>2, <1>4, <1>6, <1>7, <1>8 DEF Passing, Follows
    <3>2. \A n \in Nodes : pos[n] <= pos[nxt[c]] <=> pos[n] <= pos[current[c]] \/ n = nxt[c]
      BY <3>1, <1>4, <1>9 DEF Nodes
    <3>3. seen'[c] = {n \in Nodes : pos[n] <= pos[nxt[c]]}
      BY <3>1, <3>2, <2>2
    <3> QED
      BY <2>1, <2>2, <3>1, <3>3, <1>4, <1>9 DEF Passing, Nodes
  <2> QED
    BY <2>1, <2>3, <2>4, <2>5, <1>10
<1>16. CASE LastReached(c)
  <2>1. OthersStand(c) /\ UNCHANGED <<next, length>>
    BY <1>16, <1>4 DEF LastReached, OthersStand, IInv, Typed, OnThreads, CountersTyped
  <2>2. /\ pc[c] = "test" /\ next[current[c]] = NULL /\ pc'[c] = "passed"
        /\ held'[c] = held[c] /\ seen'[c] = seen[c]
        /\ prev'[c] = prev[c] /\ current'[c] = current[c] /\ nxt'[c] = nxt[c]
    BY <1>16, <1>4, <1>8 DEF LastReached, IInv, Typed, OnThreads, CountersTyped, Passing
  <2>3. prev'[c] \in 0 .. length /\ current'[c] \in Links /\ nxt'[c] \in Links
    BY <2>2, <1>4, <1>8, <1>9 DEF Passing, Links
  <2>4. \A s \in Swappers : held[s] \cap held'[c] = {}
    BY <2>2, <1>5, <1>7
  <2>5. Passing(pos, c)'
    <3>1. pos[current[c]] = length /\ seen[c] = {n \in Nodes : pos[n] <= pos[current[c]]}
      BY <2>2, <1>4, <1>6, <1>7, <1>8 DEF Passing, Follows
    <3>2. \A n \in Nodes : pos[n] <= length
      BY <1>4, <1>9 DEF Nodes
    <3>3. seen[c] = Nodes
      BY <3>1, <3>2
    <3> QED
      BY <2>1, <2>2, <3>3 DEF Passing, Nodes
  <2> QED
    BY <2>1, <2>3, <2>4, <2>5, <1>10
<1>17. CASE EndPass(c)
  <2>1. OthersStand(c) /\ UNCHANGED <<next, length>>
    BY <1>17, <1>4 DEF EndPass, OthersStand, IInv, Typed, OnThreads, CountersTyped
  <2>2. /\ pc'[c] = "top" /\ seen'[c] = {} /\ held'[c] \subseteq held[c]
        /\ prev'[c] = Start /\ current'[c] = NULL /\ nxt'[c] = NULL
    BY <1>17, <1>4, <1>8 DEF EndPass, IInv, Typed, OnThreads, CountersTyped, Passing
  <2>3. prev'[c] \in 0 .. length /\ current'[c] \in Links /\ nxt'[c] \in Links
    BY <2>2, <1>4, <1>8, <1>9 DEF Passing, Links
  <2>4. \A s \in Swappers : held[s] \cap held'[c] = {}
    BY <2>2, <1>5, <1>7
  <2>5. Passing(pos, c)'
    BY <2>1, <2>2, <1>4, <1>5, <1>6, <1>7, <1>8, <1>9 DEF Passing, Follows, Nodes
  <2> QED
    BY <2>1, <2>3, <2>4, <2>5, <1>10
<1> QED
  BY <1>11, <1>12, <1>13, <1>14, <1>15, <1>16, <1>17 DEF Counter

(* The statements of swap_thread that only lock, read and unlock. *)
LEMMA ReadingOrder ==
  ASSUME IInv, CountersTyped, CountersApart, NEW pos, NEW at, InOrder(pos, at),
         NEW s \in Swappers,
         \/ BeginSweep(s) \/ Inner(s) \/ LockPrev(s) \/ LockCurrent(s)
         \/ LockThird(s) \/ Recheck(s) \/ UnlockAll(s) \/ Advance(s)
  PROVE  CountersTyped' /\ CountersApart' /\ InOrder(pos, at)'
PROOF
<1>1. s \in Threads /\ s \notin Counters
  BY ListAssumption DEF Threads
<1>2. \A n : Free(s, n) => \A c \in Counters : n \notin held[c]
  BY <1>1 DEF Free, Shares, Threads
<1>3. \A c \in Counters : held[s] \cap held[c] = {}
  BY DEF CountersApart
<1>4. ASSUME OthersStand(s), UNCHANGED <<next, length>>,
             \A u \in Swappers \ {s} : next_next'[u] = next_next[u],
             {pc[s], pc'[s]} \cap {"setCurrent", "setNext"} = {},
             pc'[s] = "setPrev" =>
               nxt'[s] = nxt[s] /\ next_next'[s] = next[nxt[s]],
             \A c \in Counters : held'[s] \cap held[c] = {}
      PROVE  CountersTyped' /\ CountersApart' /\ InOrder(pos, at)'
  <2>1. CountersTyped'
    BY <1>1, <1>4 DEF OthersStand, CountersTyped, Links, Nodes, Threads
  <2>2. CountersApart'
    BY <1>1, <1>4 DEF OthersStand, CountersApart, Threads
  <2>3. \A n : HalfDone(n)' <=> HalfDone(n)
    BY <1>4 DEF OthersStand, HalfDone, Threads
  <2>4. Ordered(pos, at)' /\ Linked(pos)'
    BY <1>4, <2>3 DEF InOrder, Ordered, Linked, Follows
  <2>5. \A u \in Swappers : Swapping(pos, u)'
    <3>1. ASSUME NEW u \in Swappers \ {s} PROVE Swapping(pos, u)'
      <4>1. /\ pc'[u] = pc[u] /\ prev'[u] = prev[u] /\ current'[u] = current[u]
            /\ nxt'[u] = nxt[u] /\ next_next'[u] = next_next[u]
            /\ next' = next /\ length' = length
        BY <1>4, <3>1 DEF OthersStand, Threads
      <4>2. Swapping(pos, u)
        BY DEF InOrder
      <4> QED
        BY <4>1, <4>2 DEF Swapping, Follows
    <3>2. Swapping(pos, s)'
      BY <1>4 DEF Swapping
    <3> QED
      BY <3>1, <3>2
  <2>6. \A c \in Counters : Passing(pos, c)'
    BY <1>1, <1>4 DEF OthersStand, InOrder, Passing, Nodes, Threads
  <2> QED
    BY <2>1, <2>2, <2>4, <2>5, <2>6 DEF InOrder
<1> USE DEF Goto, config, Acquire, Release, EndOfBlock
<1>5. CASE BeginSweep(s)
  <2>1. OthersStand(s) /\ UNCHANGED <<next, length>>
    BY <1>5, <1>1 DEF BeginSweep, OthersStand, IInv, Typed, OnThreads, CountersTyped
  <2>2. /\ \A u \in Swappers \ {s} : next_next'[u] = next_next[u]
        /\ {pc[s], pc'[s]} \cap {"setCurrent", "setNext"} = {}
        /\ pc'[s] = "setPrev" =>
             nxt'[s] = nxt[s] /\ next_next'[s] = next[nxt[s]]
    BY <1>5, <1>1 DEF BeginSweep, IInv, Typed, OnThreads
  <2>3. held'[s] \subseteq held[s]
    BY <1>5, <1>1 DEF BeginSweep, IInv, Typed, OnThreads
  <2> QED
    BY <2>1, <2>2, <2>3, <1>2, <1>3, <1>4
<1>6. CASE Inner(s)
  <2>1. OthersStand(s) /\ UNCHANGED <<next, length>>
    BY <1>6, <1>1 DEF Inner, OthersStand, IInv, Typed, OnThreads, CountersTyped
  <2>2. /\ \A u \in Swappers \ {s} : next_next'[u] = next_next[u]
        /\ {pc[s], pc'[s]} \cap {"setCurrent", "setNext"} = {}
        /\ pc'[s] = "setPrev" =>
             nxt'[s] = nxt[s] /\ next_next'[s] = next[nxt[s]]
    BY <1>6, <1>1 DEF Inner, IInv, Typed, OnThreads
  <2>3. held'[s] \subseteq held[s]
    BY <1>6, <1>1 DEF Inner, IInv, Typed, OnThreads
  <2> QED
    BY <2>1, <2>2, <2>3, <1>2, <1>3, <1>4
<1>7. CASE LockPrev(s)
  <2>1. OthersStand(s) /\ UNCHANGED <<next, length>>
    BY <1>7, <1>1 DEF LockPrev, OthersStand, IInv, Typed, OnThreads, CountersTyped
  <2>2. /\ \A u \in Swappers \ {s} : next_next'[u] = next_next[u]
        /\ {pc[s], pc'[s]} \cap {"setCurrent", "setNext"} = {}
        /\ pc'[s] = "setPrev" =>
             nxt'[s] = nxt[s] /\ next_next'[s] = next[nxt[s]]
    BY <1>7, <1>1 DEF LockPrev, IInv, Typed, OnThreads
  <2>3. \/ held'[s] \subseteq held[s]
        \/ Free(s, prev[s]) /\ held'[s] = held[s] \union {prev[s]}
    BY <1>7, <1>1 DEF LockPrev, IInv, Typed, OnThreads
  <2> QED
    BY <2>1, <2>2, <2>3, <1>2, <1>3, <1>4
<1>8. CASE LockCurrent(s)
  <2>1. OthersStand(s) /\ UNCHANGED <<next, length>>
    BY <1>8, <1>1 DEF LockCurrent, OthersStand, IInv, Typed, OnThreads, CountersTyped
  <2>2. /\ \A u \in Swappers \ {s} : next_next'[u] = next_next[u]
        /\ {pc[s], pc'[s]} \cap {"setCurrent", "setNext"} = {}
        /\ pc'[s] = "setPrev" =>
             nxt'[s] = nxt[s] /\ next_next'[s] = next[nxt[s]]
    BY <1>8, <1>1 DEF LockCurrent, IInv, Typed, OnThreads
  <2>3. \/ held'[s] \subseteq held[s]
        \/ Free(s, current[s]) /\ held'[s] = held[s] \union {current[s]}
    BY <1>8, <1>1 DEF LockCurrent, IInv, Typed, OnThreads
  <2> QED
    BY <2>1, <2>2, <2>3, <1>2, <1>3, <1>4
<1>9. CASE LockThird(s)
  <2>1. OthersStand(s) /\ UNCHANGED <<next, length>>
    BY <1>9, <1>1 DEF LockThird, OthersStand, IInv, Typed, OnThreads, CountersTyped
  <2>2. /\ \A u \in Swappers \ {s} : next_next'[u] = next_next[u]
        /\ {pc[s], pc'[s]} \cap {"setCurrent", "setNext"} = {}
        /\ pc'[s] = "setPrev" =>
             nxt'[s] = nxt[s] /\ next_next'[s] = next[nxt[s]]
    BY <1>9, <1>1 DEF LockThird, IInv, Typed, OnThreads
  <2>3. \/ held'[s] \subseteq held[s]
        \/ Free(s, nxt[s]) /\ held'[s] = held[s] \union {nxt[s]}
    BY <1>9, <1>1 DEF LockThird, IInv, Typed, OnThreads
  <2> QED
    BY <2>1, <2>2, <2>3, <1>2, <1>3, <1>4
<1>10. CASE Recheck(s)
  <2>1. OthersStand(s) /\ UNCHANGED <<next, length>>
    BY <1>10, <1>1 DEF Recheck, OthersStand, IInv, Typed, OnThreads, CountersTyped
  <2>2. /\ \A u \in Swappers \ {s} : next_next'[u] = next_next[u]
        /\ {pc[s], pc'[s]} \cap {"setCurrent", "setNext"} = {}
        /\ pc'[s] = "setPrev" =>
             nxt'[s] = nxt[s] /\ next_next'[s] = next[nxt[s]]
    BY <1>10, <1>1 DEF Recheck, IInv, Typed, OnThreads
  <2>3. held'[s] \subseteq held[s]
    BY <1>10, <1>1 DEF Recheck, IInv, Typed, OnThreads
  <2> QED
    BY <2>1, <2>2, <2>3, <1>2, <1>3, <1>4
<1>11. CASE UnlockAll(s)
  <2>1. OthersStand(s) /\ UNCHANGED <<next, length>>
    BY <1>11, <1>1 DEF UnlockAll, OthersStand, IInv, Typed, OnThreads, CountersTyped
  <2>2. /\ \A u \in Swappers \ {s} : next_next'[u] = next_next[u]
        /\ {pc[s], pc'[s]} \cap {"setCurrent", "setNext"} = {}
        /\ pc'[s] = "setPrev" =>
             nxt'[s] = nxt[s] /\ next_next'[s] = next[nxt[s]]
    BY <1>11, <1>1 DEF UnlockAll, IInv, Typed, OnThreads
  <2>3. held'[s] \subseteq held[s]
    BY <1>11, <1>1 DEF UnlockAll, IInv, Typed, OnThreads
  <2> QED
    BY <2>1, <2>2, <2>3, <1>2, <1>3, <1>4
<1>12. CASE Advance(s)
  <2>1. OthersStand(s) /\ UNCHANGED <<next, length>>
    BY <1>12, <1>1 DEF Advance, OthersStand, IInv, Typed, OnThreads, CountersTyped
  <2>2. /\ \A u \in Swappers \ {s} : next_next'[u] = next_next[u]
        /\ {pc[s], pc'[s]} \cap {"setCurrent", "setNext"} = {}
        /\ pc'[s] = "setPrev" =>
             nxt'[s] = nxt[s] /\ next_next'[s] = next[nxt[s]]
    BY <1>12, <1>1 DEF Advance, IInv, Typed, OnThreads
  <2>3. held'[s] \subseteq held[s]
    BY <1>12, <1>1 DEF Advance, IInv, Typed, OnThreads
  <2> QED
    BY <2>1, <2>2, <2>3, <1>2, <1>3, <1>4
<1> QED
  BY <1>5, <1>6, <1>7, <1>8, <1>9, <1>10, <1>11, <1>12

-----------------------------------------------------------------------------
(* The first store of a swap moves current behind next. *)
LEMMA SetPrevOrder ==
  ASSUME IInv, CountersTyped, CountersApart, NEW pos, NEW at, InOrder(pos, at),
         NEW s \in Swappers, SetPrev(s)
  PROVE  OrderInv'
PROOF
<1>0. PICK p, q, r, last :
          p = prev[s] /\ q = current[s] /\ r = nxt[s] /\ last = length
  OBVIOUS
<1> DEFINE Pos == [n \in 0 .. last |-> IF n = q THEN pos[r]
                                       ELSE IF n = r THEN pos[q] ELSE pos[n]]
           At == [k \in 0 .. last |-> IF k = pos[q] THEN r
                                      ELSE IF k = pos[r] THEN q ELSE at[k]]
<1>1. s \in Threads /\ s \notin Counters
  BY ListAssumption DEF Threads
<1>2. /\ pc[s] = "setPrev" /\ next' = [next EXCEPT ![p] = r]
      /\ pc' = [pc EXCEPT ![s] = "setCurrent"]
      /\ UNCHANGED <<config, held, prev, current, nxt, next_next, seen>>
  BY <1>0 DEF SetPrev, Relink, Goto
<1>3. /\ length \in Nat /\ NULL \notin 0 .. length
      /\ next \in [0 .. length -> Links]
      /\ \A n \in Links : n # NULL => n \in Nodes /\ n \in 0 .. length
  BY ListAssumption DEF IInv, Typed, Links, Nodes
<1>4. /\ p \in held[s] /\ q \in held[s] /\ r \in held[s]
      /\ next[p] = q /\ next[q] = r
      /\ p \in 0 .. length /\ q \in Nodes /\ r \in Nodes
      /\ next_next[s] = next[r]
  BY <1>0, <1>2, <1>3 DEF IInv, Typed, Stable, Way, HasPrev, HasCurrent, HasThird,
     Storing, InOrder, Swapping
<1>5. \A n \in held[s] : Follows(pos, n, next[n])
  <2>1. ASSUME NEW n \in held[s] PROVE ~HalfDone(n)
    <3> SUFFICES ASSUME HalfDone(n) PROVE FALSE
      OBVIOUS
    <3>1. PICK u \in Swappers : /\ pc[u] \in {"setCurrent", "setNext"}
                                /\ n \in {current[u], nxt[u]}
      BY DEF HalfDone
    <3>2. n \in held[u]
      BY <3>1 DEF IInv, Stable, Way, HasPrev, HasCurrent, HasThird, Storing
    <3> QED
      BY <1>2, <2>1, <3>1, <3>2 DEF IInv, Apart
  <2>2. held[s] \subseteq 0 .. length
    BY DEF IInv, Typed
  <2> QED
    BY <2>1, <2>2 DEF InOrder, Linked
<1>6. /\ \A n \in 0 .. length : pos[n] \in 0 .. length
      /\ \A n, m \in 0 .. length : pos[n] = pos[m] => n = m
      /\ \A n \in 0 .. length : at[n] \in 0 .. length /\ at[pos[n]] = n /\ pos[at[n]] = n
      /\ pos[Start] = 0 /\ Start = 0
  BY DEF InOrder, Ordered, Start
<1>7. /\ p \in 0 .. length /\ q \in 0 .. length /\ r \in 0 .. length
      /\ pos[q] = pos[p] + 1 /\ pos[r] = pos[p] + 2
      /\ q # Start /\ r # Start /\ p # q /\ p # r /\ q # r
  <2>1. pos[q] = pos[p] + 1 /\ pos[r] = pos[q] + 1
    BY <1>3, <1>4, <1>5 DEF Follows, Nodes
  <2>2. /\ p \in 0 .. length /\ q \in 0 .. length /\ r \in 0 .. length
        /\ q # 0 /\ r # 0
    BY <1>3, <1>4 DEF Nodes
  <2>3. pos[p] \in Nat /\ pos[q] \in Nat
    BY <1>6, <2>2
  <2> QED
    BY <2>1, <2>2, <2>3, <1>6
<1>8. Ordered(Pos, At)'
  <2>1. length' = last /\ length = last
    BY <1>0, <1>2 DEF config
  <2>2. Pos \in [0 .. last -> 0 .. last] /\ At \in [0 .. last -> 0 .. last]
    BY <1>6, <1>7, <2>1
  <2>3. \A n \in 0 .. last : At[Pos[n]] = n /\ Pos[At[n]] = n
    BY <1>6, <1>7, <2>1, <2>2
  <2>4. Pos[Start] = Start
    BY <1>3, <1>6, <1>7, <2>1
  <2> HIDE DEF Pos, At
  <2> QED
    BY <2>1, <2>2, <2>3, <2>4 DEF Ordered
<1>9. /\ length' = length /\ last = length
      /\ Pos[p] = pos[p] /\ Pos[r] = pos[p] + 1 /\ Pos[q] = pos[p] + 2
      /\ \A n \in 0 .. length : n \notin {q, r} => Pos[n] = pos[n]
  BY <1>0, <1>2, <1>7 DEF config
<1> HIDE DEF Pos, At
<1>10. ASSUME NEW n \in 0 .. length, n \notin {p, q, r}, NEW m \in Links,
              Follows(pos, n, m)
       PROVE  Follows(Pos, n, m)
  <2>1. CASE m = NULL
    BY <1>9, <1>10, <2>1 DEF Follows
  <2>2. CASE m # NULL
    <3>1. m \in 0 .. length /\ pos[m] = pos[n] + 1
      BY <1>3, <1>10, <2>2 DEF Follows
    <3>2. m \notin {q, r}
      BY <1>6, <1>7, <1>10, <3>1
    <3> QED
      BY <1>9, <1>10, <2>2, <3>1, <3>2 DEF Follows
  <2> QED
    BY <2>1, <2>2
<1>11. \A n \in 0 .. length : ~HalfDone(n)' => Follows(Pos, n, next'[n])
  <2> SUFFICES ASSUME NEW n \in 0 .. length, ~HalfDone(n)'
               PROVE  Follows(Pos, n, next'[n])
    OBVIOUS
  <2>1. n \notin {q, r}
    BY <1>0, <1>1, <1>2 DEF HalfDone, IInv, Typed, OnThreads
  <2>2. CASE n = p
    <3>1. next'[n] = r /\ r # NULL
      BY <2>2, <1>2, <1>3, <1>7
    <3> QED
      BY <3>1, <2>2, <1>9 DEF Follows
  <2>3. CASE n # p
    <3>1. next'[n] = next[n] /\ next[n] \in Links
      BY <2>3, <1>2, <1>3
    <3>2. ~HalfDone(n)
      BY <1>2, <2>1 DEF HalfDone, IInv, Typed, OnThreads, Threads
    <3>3. Follows(pos, n, next[n])
      BY <3>2 DEF InOrder, Linked
    <3> QED
      BY <3>1, <3>3, <2>1, <2>3, <1>10
  <2> QED
    BY <2>2, <2>3
<1>12. Linked(Pos)'
  BY <1>9, <1>11 DEF Linked, Follows
<1>13. \A u \in Swappers : Swapping(Pos, u)'
  <2>1. ASSUME NEW u \in Swappers \ {s} PROVE Swapping(Pos, u)'
    <3>1. /\ pc'[u] = pc[u] /\ prev'[u] = prev[u] /\ current'[u] = current[u]
          /\ nxt'[u] = nxt[u] /\ next_next'[u] = next_next[u]
          /\ length' = length
      BY <1>2, <2>1 DEF config, IInv, Typed, OnThreads, Threads
    <3>2. Swapping(pos, u) /\ Way(u) /\ next_next[u] \in Links
      BY DEF InOrder, IInv, Stable, Typed
    <3>3. held[u] \subseteq 0 .. length /\ \A n \in held[u] : n \notin {p, q, r}
      BY <1>4, <2>1 DEF IInv, Typed, Apart
    <3>4. pc[u] = "setPrev" => next_next[u] = next'[nxt[u]]
      BY <3>2, <3>3, <1>2, <1>3 DEF Swapping, Way, HasThird, Storing
    <3>5. ASSUME pc[u] \in {"setCurrent", "setNext"}
          PROVE  /\ Pos[nxt[u]] = Pos[prev[u]] + 1
                 /\ Pos[current[u]] = Pos[prev[u]] + 2
                 /\ Follows(Pos, current[u], next_next[u])
      <4>1. prev[u] \in held[u] /\ current[u] \in held[u] /\ nxt[u] \in held[u]
        BY <3>2, <3>5 DEF Way, HasPrev, HasCurrent, HasThird, Storing
      <4>2. /\ pos[nxt[u]] = pos[prev[u]] + 1 /\ pos[current[u]] = pos[prev[u]] + 2
            /\ Follows(pos, current[u], next_next[u])
        BY <3>2, <3>5 DEF Swapping
      <4>3. Follows(Pos, current[u], next_next[u])
        BY <4>1, <4>2, <3>2, <3>3, <1>10
      <4> QED
        BY <4>1, <4>2, <4>3, <3>3, <1>9
    <3> QED
      BY <3>1, <3>4, <3>5 DEF Swapping, Follows
  <2>2. Swapping(Pos, s)'
    <3>1. /\ pc'[s] = "setCurrent" /\ prev'[s] = p /\ current'[s] = q /\ nxt'[s] = r
          /\ next_next'[s] = next[r] /\ length' = length
      BY <1>0, <1>1, <1>2, <1>4 DEF config, IInv, Typed, OnThreads
    <3>2. Follows(pos, r, next[r]) /\ next[r] \in Links
      BY <1>3, <1>4, <1>5, <1>7
    <3>3. Follows(Pos, q, next[r])
      <4>1. CASE next[r] = NULL
        BY <4>1, <3>2, <1>7, <1>9 DEF Follows
      <4>2. CASE next[r] # NULL
        <5>1. next[r] \in 0 .. length /\ pos[next[r]] = pos[p] + 3
          BY <4>2, <3>2, <1>3, <1>6, <1>7 DEF Follows
        <5>2. next[r] \notin {q, r}
          BY <5>1, <1>6, <1>7
        <5> QED
          BY <4>2, <5>1, <5>2, <1>6, <1>7, <1>9 DEF Follows
      <4> QED
        BY <4>1, <4>2
    <3> QED
      BY <3>1, <3>3, <1>9 DEF Swapping, Follows
  <2> QED
    BY <2>1, <2>2
<1>14. \A c \in Counters : Passing(Pos, c)'
  <2> SUFFICES ASSUME NEW c \in Counters PROVE Passing(Pos, c)'
    OBVIOUS
  <2>1. /\ pc'[c] = pc[c] /\ prev'[c] = prev[c] /\ current'[c] = current[c]
        /\ nxt'[c] = nxt[c] /\ held'[c] = held[c] /\ seen'[c] = seen[c]
        /\ Nodes' = Nodes
    BY <1>1, <1>2 DEF config, IInv, Typed, OnThreads, Threads, Nodes
  <2>2. Passing(pos, c) /\ current[c] \in Links
    BY DEF InOrder, CountersTyped
  <2>3. \A n \in held[c] : n \notin {p, q, r}
    BY <1>4 DEF CountersApart
  <2>4. Start \in held[c] => next'[Start] = next[Start]
    BY <2>3, <1>2, <1>3
  <2>5. ASSUME pc[c] \in {"test", "lockNext"}
        PROVE  /\ next'[current[c]] = next[current[c]]
               /\ seen[c] = {n \in Nodes : Pos[n] <= Pos[current[c]]}
    <3>1. /\ current[c] \in 0 .. length /\ current[c] \notin {p, q, r}
          /\ seen[c] = {n \in Nodes : pos[n] <= pos[current[c]]}
      BY <2>2, <2>3, <2>5, <1>3 DEF Passing
    <3>2. /\ Pos[current[c]] = pos[current[c]]
          /\ pos[current[c]] \notin {pos[p], pos[p] + 1, pos[p] + 2}
          /\ pos[current[c]] \in 0 .. length /\ pos[p] \in 0 .. length
      BY <3>1, <1>6, <1>7, <1>9
    <3>3. \A n \in Nodes : Pos[n] <= Pos[current[c]] <=> pos[n] <= pos[current[c]]
      <4> SUFFICES ASSUME NEW n \in Nodes
                   PROVE  Pos[n] <= Pos[current[c]] <=> pos[n] <= pos[current[c]]
        OBVIOUS
      <4>1. n \in 0 .. length
        BY <1>3 DEF Nodes
      <4>2. CASE n \notin {q, r}
        BY <4>1, <4>2, <3>2, <1>9
      <4>3. CASE n \in {q, r}
        BY <4>3, <3>2, <1>3, <1>7, <1>9
      <4> QED
        BY <4>2, <4>3
    <3>4. next'[current[c]] = next[current[c]]
      BY <3>1, <1>2, <1>3
    <3> QED
      BY <3>1, <3>3, <3>4
  <2> QED
    BY <2>1, <2>2, <2>4, <2>5 DEF Passing
<1>15. CountersTyped' /\ CountersApart'
  BY <1>2 DEF CountersTyped, CountersApart, config, Links, Nodes
<1> QED
  BY <1>8, <1>12, <1>13, <1>14, <1>15 DEF OrderInv, InOrder

(* The other two stores give a node that is half done its place. *)
LEMMA LaterStoreOrder ==
  ASSUME IInv, CountersTyped, CountersApart, NEW pos, NEW at, InOrder(pos, at),
         NEW s \in Swappers, SetCurrent(s) \/ SetNext(s)
  PROVE  CountersTyped' /\ CountersApart' /\ InOrder(pos, at)'
PROOF
<1>1. s \in Threads /\ s \notin Counters
  BY ListAssumption DEF Threads
<1>2. /\ length \in Nat /\ NULL \notin 0 .. length
      /\ next \in [0 .. length -> Links]
      /\ \A n \in Links : n # NULL => n \in Nodes /\ n \in 0 .. length
  BY ListAssumption DEF IInv, Typed, Links, Nodes
<1>3. PICK x, m :
        \/ pc[s] = "setCurrent" /\ pc'[s] = "setNext"
           /\ x = current[s] /\ m = next_next[s]
        \/ pc[s] = "setNext" /\ pc'[s] = "unlockAll" /\ x = nxt[s] /\ m = current[s]
  <2>1. \/ pc[s] = "setCurrent" /\ pc'[s] = "setNext"
        \/ pc[s] = "setNext" /\ pc'[s] = "unlockAll"
    BY <1>1 DEF SetCurrent, SetNext, Relink, Goto, IInv, Typed, OnThreads
  <2>2. CASE pc[s] = "setCurrent" /\ pc'[s] = "setNext"
    <3> WITNESS current[s], next_next[s]
    <3> QED
      BY <2>2
  <2>3. CASE pc[s] = "setNext" /\ pc'[s] = "unlockAll"
    <3> WITNESS nxt[s], current[s]
    <3> QED
      BY <2>3
  <2> QED
    BY <2>1, <2>2, <2>3
<1>4. /\ next' = [next EXCEPT ![x] = m]
      /\ pc' = [pc EXCEPT ![s] = pc'[s]]
      /\ UNCHANGED <<config, held, prev, current, nxt, next_next, seen>>
  BY <1>1, <1>3 DEF SetCurrent, SetNext, Relink, Goto, IInv, Typed, OnThreads
<1>5. /\ prev[s] \in held[s] /\ current[s] \in held[s] /\ nxt[s] \in held[s]
      /\ held[s] \subseteq 0 .. length /\ current[s] \in Nodes
      /\ next_next[s] \in Links
  BY <1>2, <1>3 DEF IInv, Typed, Stable, Way, HasPrev, HasCurrent, HasThird, Storing
<1>6. /\ \A n \in 0 .. length : pos[n] \in 0 .. length
      /\ \A n, k \in 0 .. length : pos[n] = pos[k] => n = k
  BY DEF InOrder, Ordered
<1>7. /\ pos[nxt[s]] = pos[prev[s]] + 1 /\ pos[current[s]] = pos[prev[s]] + 2
      /\ Follows(pos, current[s], next_next[s])
  BY <1>3 DEF InOrder, Swapping
<1>8. x \in held[s] /\ m \in Links /\ Follows(pos, x, m)
  <2>1. CASE pc[s] = "setCurrent"
    BY <2>1, <1>3, <1>5, <1>7
  <2>2. CASE pc[s] = "setNext"
    <3>1. x = nxt[s] /\ m = current[s] /\ m # NULL /\ m \in Links
      BY <2>2, <1>2, <1>3, <1>5 DEF Links, Nodes
    <3>2. pos[prev[s]] \in Nat
      BY <1>5, <1>6
    <3>3. pos[m] = pos[x] + 1
      BY <3>1, <3>2, <1>7
    <3> QED
      BY <3>1, <3>3, <1>5 DEF Follows
  <2> QED
    BY <2>1, <2>2, <1>3
<1>9. \A n : n # x /\ HalfDone(n) => HalfDone(n)'
  <2> SUFFICES ASSUME NEW n, n # x, HalfDone(n) PROVE HalfDone(n)'
    OBVIOUS
  <2>1. PICK u \in Swappers :
          \/ pc[u] = "setCurrent" /\ n = current[u]
          \/ pc[u] \in {"setCurrent", "setNext"} /\ n = nxt[u]
    BY DEF HalfDone
  <2>2. CASE u = s
    BY <2>1, <2>2, <1>3, <1>4 DEF HalfDone
  <2>3. CASE u # s
    BY <2>1, <2>3, <1>4 DEF HalfDone, IInv, Typed, OnThreads, Threads
  <2> QED
    BY <2>2, <2>3
<1>10. Linked(pos)'
  <2>1. ASSUME NEW n \in 0 .. length, ~HalfDone(n)'
        PROVE  Follows(pos, n, next'[n])
    <3>1. CASE n = x
      BY <3>1, <1>2, <1>4, <1>8
    <3>2. CASE n # x
      BY <2>1, <3>2, <1>4, <1>9 DEF InOrder, Linked
    <3> QED
      BY <3>1, <3>2
  <2>2. length' = length
    BY <1>4 DEF config
  <2> QED
    BY <2>1, <2>2 DEF Linked, Follows
<1>11. \A u \in Swappers : Swapping(pos, u)'
  <2>1. ASSUME NEW u \in Swappers \ {s} PROVE Swapping(pos, u)'
    <3>1. /\ pc'[u] = pc[u] /\ prev'[u] = prev[u] /\ current'[u] = current[u]
          /\ nxt'[u] = nxt[u] /\ next_next'[u] = next_next[u] /\ length' = length
      BY <1>4, <2>1 DEF config, IInv, Typed, OnThreads, Threads
    <3>2. Swapping(pos, u) /\ Way(u) /\ x \notin held[u]
      BY <1>8, <2>1 DEF InOrder, IInv, Stable, Apart
    <3>3. pc[u] = "setPrev" => next'[nxt[u]] = next[nxt[u]]
      BY <3>2, <1>4, <1>2 DEF Way, HasThird, Storing
    <3> QED
      BY <3>1, <3>2, <3>3 DEF Swapping, Follows
  <2>2. Swapping(pos, s)'
    <3>1. /\ pc'[s] # "setPrev" /\ length' = length
          /\ prev'[s] = prev[s] /\ current'[s] = current[s] /\ nxt'[s] = nxt[s]
          /\ next_next'[s] = next_next[s]
      BY <1>3, <1>4 DEF config
    <3> QED
      BY <3>1, <1>7 DEF Swapping, Follows
  <2> QED
    BY <2>1, <2>2
<1>12. \A c \in Counters : Passing(pos, c)'
  <2> SUFFICES ASSUME NEW c \in Counters PROVE Passing(pos, c)'
    OBVIOUS
  <2>1. /\ pc'[c] = pc[c] /\ prev'[c] = prev[c] /\ current'[c] = current[c]
        /\ nxt'[c] = nxt[c] /\ held'[c] = held[c] /\ seen'[c] = seen[c]
        /\ Nodes' = Nodes
    BY <1>1, <1>4 DEF config, IInv, Typed, OnThreads, Threads, Nodes
  <2>2. Passing(pos, c) /\ \A n \in held[c] : n # x
    BY <1>8 DEF InOrder, CountersApart
  <2>3. \A n \in held[c] : next'[n] = next[n]
    BY <2>2, <1>2, <1>4
  <2> QED
    BY <2>1, <2>2, <2>3 DEF Passing
<1>13. CountersTyped' /\ CountersApart' /\ Ordered(pos, at)'
  BY <1>4 DEF CountersTyped, CountersApart, config, Links, Nodes, InOrder, Ordered
<1> QED
  BY <1>10, <1>11, <1>12, <1>13 DEF InOrder

-----------------------------------------------------------------------------
LEMMA OrderStep == IInv /\ OrderInv /\ [Next]_vars => OrderInv'
PROOF
<1> SUFFICES ASSUME IInv, OrderInv, [Next]_vars PROVE OrderInv'
  OBVIOUS
<1>1. PICK pos, at : InOrder(pos, at)
  BY DEF OrderInv
<1>2. CountersTyped /\ CountersApart
  BY DEF OrderInv
<1>3. CASE \E c \in Counters : MutexCounter(c) \/ RwlockCounter(c) \/ SpinCounter(c)
  <2>1. PICK c \in Counters : Counter(c)
    BY <1>3 DEF MutexCounter, RwlockCounter, SpinCounter
  <2> QED
    BY <2>1, <1>1, <1>2, CounterOrder DEF OrderInv
<1>4. CASE \E s \in Swappers : MutexSwapper(s) \/ RwlockSwapper(s) \/ SpinSwapper(s)
  <2>1. PICK s \in Swappers : Swapper(s)
    BY <1>4 DEF MutexSwapper, RwlockSwapper, SpinSwapper
  <2>2. CASE SetPrev(s)
    BY <2>2, <1>1, <1>2, SetPrevOrder
  <2>3. CASE SetCurrent(s) \/ SetNext(s)
    BY <2>3, <1>1, <1>2, LaterStoreOrder DEF OrderInv
  <2>4. CASE ~(SetPrev(s) \/ SetCurrent(s) \/ SetNext(s))
    <3>1. \/ BeginSweep(s) \/ Inner(s) \/ LockPrev(s) \/ LockCurrent(s)
          \/ LockThird(s) \/ Recheck(s) \/ UnlockAll(s) \/ Advance(s)
      BY <2>1, <2>4 DEF Swapper
    <3>2. CountersTyped' /\ CountersApart' /\ InOrder(pos, at)'
      BY <3>1, <1>1, <1>2, ReadingOrder
    <3> QED
      BY <3>2 DEF OrderInv
  <2> QED
    BY <2>2, <2>3, <2>4
<1>5. CASE Stop \/ Destroy \/ Finished \/ UNCHANGED vars
  <2>1. UNCHANGED <<length, next, held, pc, prev, current, nxt, next_next, seen>>
    BY <1>5 DEF Stop, Destroy, Finished, vars
  <2>2. CountersTyped' /\ CountersApart'
    BY <2>1, <1>2 DEF CountersTyped, CountersApart, Links, Nodes
  <2>3. InOrder(pos, at)'
    BY <2>1, <1>1 DEF InOrder, Ordered, Linked, HalfDone, Swapping, Passing, Follows,
       Nodes
  <2> QED
    BY <2>2, <2>3 DEF OrderInv
<1> QED
  BY <1>3, <1>4, <1>5 DEF Next

(* There is always an order of the nodes that the next fields spell out,   *)
(* but for those a swap has still to write, and each counting thread has   *)
(* seen the nodes up to the one it has locked (list.c, increasing_thread,  *)
(* decreasing_thread, equal_thread and swap_thread).                       *)
THEOREM OrderInvariant == Spec => [](IInv /\ OrderInv)
PROOF
<1>1. Init => IInv /\ OrderInv
  BY InitHolds, OrderInit
<1>2. IInv /\ OrderInv /\ [Next]_vars => (IInv /\ OrderInv)'
  BY StepKeeps, OrderStep
<1> QED
  BY <1>1, <1>2, PTL DEF Spec

(* A pass of increasing_thread, decreasing_thread or equal_thread compares *)
(* each node once, for any number of threads and any length of the list.   *)
THEOREM EachOnce == Spec => []EachNodeOnce
PROOF
<1>1. IInv /\ OrderInv => EachNodeOnce
  <2> SUFFICES ASSUME IInv, OrderInv, NEW c \in Counters
               PROVE  /\ pc[c] = "lockNext" => nxt[c] \notin seen[c]
                      /\ pc[c] = "passed" => seen[c] = Nodes
    BY DEF EachNodeOnce
  <2>1. PICK pos, at : InOrder(pos, at)
    BY DEF OrderInv
  <2>2. Passing(pos, c)
    BY <2>1 DEF InOrder
  <2>3. ASSUME pc[c] = "lockNext" PROVE nxt[c] \notin seen[c]
    <3>1. /\ current[c] \in held[c] /\ current[c] \in Nodes
          /\ nxt[c] = next[current[c]] /\ nxt[c] # NULL
          /\ seen[c] = {n \in Nodes : pos[n] <= pos[current[c]]}
      BY <2>2, <2>3 DEF Passing, OrderInv, CountersTyped, Links
    <3>2. current[c] \in 0 .. length /\ ~HalfDone(current[c])
      <4>1. \A s \in Swappers : current[c] \notin held[s]
        BY <3>1 DEF OrderInv, CountersApart
      <4> QED
        BY <3>1, <4>1, HalfDoneHeld DEF Nodes, IInv, Typed
    <3>3. pos[nxt[c]] = pos[current[c]] + 1 /\ pos[current[c]] \in Nat
      BY <2>1, <3>1, <3>2 DEF InOrder, Linked, Follows, Ordered
    <3> QED
      BY <3>1, <3>3
  <2> QED
    BY <2>2, <2>3 DEF Passing
<1> QED
  BY <1>1, OrderInvariant, PTL
-----------------------------------------------------------------------------
(* Induction over the numbers, from the least element a set of them has. *)
LEMMA Least ==
  ASSUME NEW T, T \subseteq Nat, T # {}
  PROVE  \E m \in T : \A k \in T : m <= k
PROOF
<1>1. \E x \in T : \A y \in T : ~(<<y, x>> \in OpToRel(<, Nat))
  BY NatLessThanWellFounded, WFMin, Zenon
<1>2. PICK x \in T : \A y \in T : ~(<<y, x>> \in OpToRel(<, Nat))
  BY <1>1, Zenon
<1>3. \A y \in T : <<y, x>> \in Nat \X Nat
  OBVIOUS
<1>4. \A y \in T : ~(y < x)
  BY <1>2, <1>3 DEF OpToRel
<1> QED
  BY <1>4

LEMMA Induct ==
  ASSUME NEW T, 0 \in T, \A n \in Nat : n \in T => n + 1 \in T
  PROVE  Nat \subseteq T
PROOF
<1> SUFFICES ASSUME Nat \ T # {} PROVE FALSE
  OBVIOUS
<1>1. PICK m \in Nat \ T : \A k \in Nat \ T : m <= k
  BY Least, Zenon
<1>2. m # 0 /\ m - 1 \in Nat /\ m - 1 \in T
  BY <1>1
<1> QED
  BY <1>1, <1>2

(* The walk from l->start is the order that the next fields spell out. *)
LEMMA WalkInOrder ==
  ASSUME IInv, NEW pos, NEW at, Ordered(pos, at),
         \A n \in 0 .. length : Follows(pos, n, next[n])
  PROVE  (\A k \in 0 .. length : Nth[k] = at[k]) /\ Nth[length + 1] = NULL
PROOF
<1> DEFINE walk == [k \in 0 .. length + 1 |-> IF k <= length THEN at[k] ELSE NULL]
           reached == {k \in Nat : k <= length + 1 => Nth[k] = walk[k]}
<1>1. /\ length \in Nat /\ NULL \notin 0 .. length
      /\ \A n \in 0 .. length : next[n] \in 0 .. length \union {NULL}
  BY ListAssumption DEF IInv, Typed, Links, Nodes
<1>2. /\ \A n \in 0 .. length :
           pos[n] \in 0 .. length /\ at[n] \in 0 .. length
           /\ at[pos[n]] = n /\ pos[at[n]] = n
      /\ at[0] = Start
  BY <1>1 DEF Ordered, Start
<1>3. \A k \in 0 .. length : next[at[k]] = walk[k + 1]
  <2> SUFFICES ASSUME NEW k \in 0 .. length PROVE next[at[k]] = walk[k + 1]
    OBVIOUS
  <2>1. Follows(pos, at[k], next[at[k]]) /\ pos[at[k]] = k
    BY <1>2
  <2>2. CASE next[at[k]] = NULL
    <3>1. k = length
      BY <2>1, <2>2 DEF Follows
    <3> QED
      BY <3>1, <2>2, <1>1
  <2>3. CASE next[at[k]] # NULL
    <3>1. next[at[k]] \in 0 .. length
      BY <2>3, <1>1, <1>2
    <3>2. pos[next[at[k]]] = k + 1
      BY <2>1, <2>3 DEF Follows
    <3>3. k + 1 \in 0 .. length /\ next[at[k]] = at[k + 1]
      BY <3>1, <3>2, <1>2
    <3> QED
      BY <3>3, <1>1
  <2> QED
    BY <2>2, <2>3
<1>4. \A k \in 0 .. length + 1 : walk[k] =
        IF k = 0 THEN Start
        ELSE IF walk[k - 1] = NULL THEN NULL ELSE next[walk[k - 1]]
  <2>1. walk[0] = Start
    BY <1>1, <1>2
  <2>2. ASSUME NEW k \in 0 .. length + 1, k # 0
        PROVE  walk[k - 1] # NULL /\ walk[k] = next[walk[k - 1]]
    <3>1. k - 1 \in 0 .. length /\ walk[k - 1] = at[k - 1] /\ (k - 1) + 1 = k
      BY <1>1, <2>2
    <3> QED
      BY <3>1, <1>1, <1>2, <1>3
  <2> HIDE DEF walk
  <2> QED
    BY <2>1, <2>2
<1>5. walk = [k \in 0 .. length + 1 |->
               IF k = 0 THEN Start
               ELSE IF walk[k - 1] = NULL THEN NULL ELSE next[walk[k - 1]]]
  BY <1>4
<1> HIDE DEF walk
<1>6. Nth = [k \in 0 .. length + 1 |->
               IF k = 0 THEN Start
               ELSE IF Nth[k - 1] = NULL THEN NULL ELSE next[Nth[k - 1]]]
  <2> PICK w : w = walk
    OBVIOUS
  <2>1. w = [k \in 0 .. length + 1 |->
               IF k = 0 THEN Start
               ELSE IF w[k - 1] = NULL THEN NULL ELSE next[w[k - 1]]]
    BY <1>5
  <2> QED
    BY <2>1, Zenon DEF Nth
<1>7. 0 \in reached
  BY <1>1, <1>4, <1>6
<1>8. ASSUME NEW k \in Nat, k \in reached PROVE k + 1 \in reached
  BY <1>1, <1>4, <1>6, <1>8
<1> HIDE DEF reached
<1>9. Nat \subseteq reached
  BY <1>7, <1>8, Induct
<1>10. \A k \in 0 .. length + 1 : Nth[k] = walk[k]
  BY <1>1, <1>9 DEF reached
<1> QED
  BY <1>1, <1>10 DEF walk

(* Whenever no swap is half done the list is a permutation of its nodes,   *)
(* however many threads swap: no node is lost, doubled or tied in a cycle  *)
(* by the stores of swap_thread.                                           *)
THEOREM StaysPermutation == Spec => []ListIntact
PROOF
<1>1. IInv /\ OrderInv => ListIntact
  <2> SUFFICES ASSUME IInv, OrderInv,
                      \A s \in Swappers : pc[s] \notin {"setCurrent", "setNext"}
               PROVE  {Nth[k] : k \in Nodes} = Nodes /\ Nth[length + 1] = NULL
    BY DEF ListIntact
  <2>1. PICK pos, at : InOrder(pos, at)
    BY DEF OrderInv
  <2>2. \A n \in 0 .. length : Follows(pos, n, next[n])
    BY <2>1 DEF InOrder, Linked, HalfDone
  <2>3. (\A k \in 0 .. length : Nth[k] = at[k]) /\ Nth[length + 1] = NULL
    BY <2>1, <2>2, WalkInOrder DEF InOrder
  <2>4. /\ length \in Nat
        /\ \A n \in 0 .. length :
             pos[n] \in 0 .. length /\ at[n] \in 0 .. length
             /\ at[pos[n]] = n /\ pos[at[n]] = n
        /\ pos[0] = 0 /\ at[0] = 0
    BY <2>1 DEF InOrder, Ordered, Start, IInv, Typed
  <2>5. \A k \in Nodes : Nth[k] = at[k] /\ at[k] \in Nodes
    BY <2>3, <2>4 DEF Nodes
  <2>6. \A n \in Nodes : pos[n] \in Nodes /\ Nth[pos[n]] = n
    BY <2>3, <2>4 DEF Nodes
  <2> QED
    BY <2>3, <2>5, <2>6
<1> QED
  BY <1>1, OrderInvariant, PTL
=============================================================================
