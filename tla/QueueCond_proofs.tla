---------------------------- MODULE QueueCond_proofs ----------------------------
(***************************************************************************)
(* The blocking queue of task2_2/conditionalVarible for any numbers of     *)
(* readers and writers, any limit and any finite heap: one thread at a     *)
(* time is between locking and unlocking, count stays within the limit, no *)
(* broadcast is missed, and the linked list passes the values on as the    *)
(* bounded FIFO promises.                                                  *)
(***************************************************************************)
EXTENDS QueueCond, TLAPS

(* The statements that a writer and a reader execute with the mutex, and   *)
(* those that they execute without.                                        *)
Filling == {"testFirst", "setFirst", "linkNext", "moveLast", "loadInc", "storeInc"}
Emptying == {"readFirst", "readVal", "loadNext", "storeFirst", "loadDec", "storeDec"}

AddLocked == Filling \union {"assertAdd", "testFull", "waitFull", "countAdd",
                             "broadcastNotEmpty", "unlockAdd"}
GetLocked == Emptying \union {"assertGet", "testEmpty", "waitEmpty", "countGet",
                              "broadcastNotFull", "unlockGet"}

AddFree == {"alloc", "lockAdd", "asleep", "relockAdd", "added", "stop"}
GetFree == {"lockGet", "asleep", "relockGet", "freeTmp", "taken"}

Typed ==
  /\ pc \in [Callers -> AddLocked \union AddFree \union GetLocked \union GetFree]
  /\ \A w \in Writers : pc[w] \in AddLocked \union AddFree
  /\ \A r \in Readers : pc[r] \in GetLocked \union GetFree
  /\ depth \in [Callers -> {0, 1}]
  /\ reg \in [Callers -> Int]
  /\ count \in 0 .. MaxCount
  /\ not_full \subseteq Writers /\ not_empty \subseteq Readers

(* depth says who is inside, and there is only one. *)
OneInside ==
  /\ \A t \in Callers : depth[t] = 1 <=> pc[t] \in AddLocked \union GetLocked
  /\ \A t, u \in Callers : depth[t] = 1 /\ depth[u] = 1 => t = u

(* Each sleeper is on the list of its condition variable. *)
Asleep == \A t \in Callers : pc[t] = "asleep" <=> t \in not_full \union not_empty

(* What the tests of count have established for the thread inside. *)
Tested ==
  /\ \A w \in Writers :
       /\ pc[w] \in Filling => count < MaxCount
       /\ pc[w] = "storeInc" => reg[w] = count
       /\ pc[w] = "waitFull" => count = MaxCount
  /\ \A r \in Readers :
       /\ pc[r] \in Emptying => count > 0
       /\ pc[r] = "storeDec" => reg[r] = count
       /\ pc[r] = "waitEmpty" => count = 0

(* Somebody sleeps on a condition that has become true only while the      *)
(* thread that made it true is still on its way to the broadcast.          *)
BroadcastDue ==
  /\ not_empty # {} =>
       count = 0 \/ \E w \in Writers : pc[w] \in {"countAdd", "broadcastNotEmpty"}
  /\ not_full # {} =>
       count = MaxCount \/ \E r \in Readers : pc[r] \in {"countGet", "broadcastNotFull"}

IInv == Typed /\ OneInside /\ Asleep /\ Tested /\ BroadcastDue /\ AssertsHold

-----------------------------------------------------------------------------
(* What these proofs need of the constants.                                *)
LEMMA Bounds == MaxCount \in Nat \ {0} /\ Readers \intersect Writers = {}
PROOF
  BY QueueAssumption

LEMMA InitHolds == Init => IInv
PROOF
  BY Bounds
  DEF Init, QueueInit, Lock!Init, IInv, Typed, OneInside, Asleep, Tested,
      BroadcastDue, AssertsHold, AddLocked, AddFree, GetLocked, GetFree, Filling,
      Emptying, Callers, Threads

(* Every statement of queue_add and of the loop around it. *)
LEMMA WriterKeeps ==
  ASSUME IInv, NEW w \in Writers, Writer(w)
  PROVE  IInv'
PROOF
<1> USE Bounds
    DEF IInv, Typed, OneInside, Asleep, Tested, BroadcastDue, AssertsHold,
        AddLocked, AddFree, GetLocked, GetFree, Filling, Emptying, Callers,
        Threads, At, Goto, Unlocked, Deref, sync, others, shared, heap, locals,
        client, history, queueVars
<1>1. CASE Unlocked(AllocNew(w, "lockAdd"))
  BY <1>1 DEF AllocNew
<1>2. CASE Acquire(w, "lockAdd", "assertAdd")
  BY <1>2 DEF Acquire, Lock!Acquire
<1>3. CASE Unlocked(AssertNotOver(w, "testFull"))
  BY <1>3 DEF AssertNotOver
<1>4. CASE Unlocked(TestFull(w, "waitFull", "testFirst"))
  BY <1>4 DEF TestFull
<1>5. CASE WaitNotFull(w)
  BY <1>5 DEF WaitNotFull, Lock!Release
<1>6. CASE Acquire(w, "relockAdd", "testFull")
  BY <1>6 DEF Acquire, Lock!Acquire
<1>7. CASE Unlocked(TestFirst(w))
  BY <1>7 DEF TestFirst
<1>8. CASE Unlocked(SetFirst(w))
  BY <1>8 DEF SetFirst
<1>9. CASE Unlocked(LinkNext(w))
  <2>1. /\ pc[w] = "linkNext"
        /\ pc' = [pc EXCEPT ![w] = "moveLast"] \/ UNCHANGED pc
        /\ UNCHANGED <<count, reg, depth, not_full, not_empty>>
    BY <1>9, Zenon DEF LinkNext
  <2>2. fault' # "assert"
    BY <1>9, Zenon DEF LinkNext
  <2> QED
    BY <2>1, <2>2
<1>10. CASE Unlocked(MoveLast(w))
  BY <1>10 DEF MoveLast
<1>11. CASE Unlocked(LoadInc(w))
  BY <1>11 DEF LoadInc
<1>12. CASE Unlocked(StoreInc(w))
  BY <1>12 DEF StoreInc
<1>13. CASE Unlocked(CountAdd(w, "broadcastNotEmpty"))
  BY <1>13 DEF CountAdd
<1>14. CASE BroadcastNotEmpty(w)
  BY <1>14 DEF BroadcastNotEmpty, WakeAll
<1>15. CASE Release(w, "unlockAdd", "added")
  BY <1>15 DEF Release, Lock!Release
<1>16. CASE Unlocked(AddReturned(w, "alloc"))
  BY <1>16 DEF AddReturned
<1> QED
  BY <1>1, <1>2, <1>3, <1>4, <1>5, <1>6, <1>7, <1>8, <1>9, <1>10, <1>11, <1>12, <1>13, <1>14, <1>15, <1>16 DEF Writer, Add, LinkNew

(* Every statement of queue_get and of the loop around it. *)
LEMMA ReaderKeeps ==
  ASSUME IInv, NEW r \in Readers, Reader(r)
  PROVE  IInv'
PROOF
<1> USE Bounds
    DEF IInv, Typed, OneInside, Asleep, Tested, BroadcastDue, AssertsHold,
        AddLocked, AddFree, GetLocked, GetFree, Filling, Emptying, Callers,
        Threads, At, Goto, Unlocked, Deref, sync, others, shared, heap, locals,
        client, history, queueVars
<1>1. CASE Acquire(r, "lockGet", "assertGet")
  BY <1>1 DEF Acquire, Lock!Acquire
<1>2. CASE Unlocked(AssertNotUnder(r, "testEmpty"))
  BY <1>2 DEF AssertNotUnder
<1>3. CASE Unlocked(TestEmpty(r, "waitEmpty", "readFirst"))
  BY <1>3 DEF TestEmpty
<1>4. CASE WaitNotEmpty(r)
  BY <1>4 DEF WaitNotEmpty, Lock!Release
<1>5. CASE Acquire(r, "relockGet", "testEmpty")
  BY <1>5 DEF Acquire, Lock!Acquire
<1>6. CASE Unlocked(ReadFirst(r))
  BY <1>6 DEF ReadFirst
<1>7. CASE Unlocked(ReadVal(r))
  <2>1. /\ pc[r] = "readVal"
        /\ pc' = [pc EXCEPT ![r] = "loadNext"] \/ UNCHANGED pc
        /\ UNCHANGED <<count, reg, depth, not_full, not_empty>>
    BY <1>7, Zenon DEF ReadVal
  <2>2. fault' # "assert"
    BY <1>7, Zenon DEF ReadVal
  <2> QED
    BY <2>1, <2>2
<1>8. CASE Unlocked(LoadNext(r))
  BY <1>8 DEF LoadNext
<1>9. CASE Unlocked(LoadDec(r))
  BY <1>9 DEF LoadDec
<1>10. CASE Unlocked(StoreDec(r))
  BY <1>10 DEF StoreDec
<1>11. CASE Unlocked(StoreFirst(r, "loadDec"))
  BY <1>11 DEF StoreFirst
<1>12. CASE Unlocked(CountGet(r, "broadcastNotFull"))
  BY <1>12 DEF CountGet
<1>13. CASE BroadcastNotFull(r)
  BY <1>13 DEF BroadcastNotFull, WakeAll
<1>14. CASE Release(r, "unlockGet", "freeTmp")
  BY <1>14 DEF Release, Lock!Release
<1>15. CASE Unlocked(FreeTmp(r, "taken"))
  BY <1>15 DEF FreeTmp
<1>16. CASE Unlocked(GetReturned(r, "lockGet"))
  BY <1>16 DEF GetReturned
<1> QED
  BY <1>1, <1>2, <1>3, <1>4, <1>5, <1>6, <1>7, <1>8, <1>9, <1>10, <1>11, <1>12, <1>13, <1>14, <1>15, <1>16 DEF Reader, Get, TakeFirst

(* A wake-up for no reason only sends the sleeper to relock. *)
LEMMA SpuriousKeeps ==
  ASSUME IInv, NEW t \in Callers, SpuriousWakeup(t)
  PROVE  IInv'
PROOF
  BY Bounds
  DEF IInv, Typed, OneInside, Asleep, Tested, BroadcastDue, AssertsHold,
      AddLocked, AddFree, GetLocked, GetFree, Filling, Emptying, Callers, Threads,
      At, Goto, others, shared, history, locals, SpuriousWakeup

(* Every step, of whichever thread, keeps the invariant. *)
LEMMA StepKeeps ==
  ASSUME IInv, [Next]_vars
  PROVE  IInv'
PROOF
<1>1. ASSUME NEW w \in Writers, Writer(w) PROVE IInv'
  BY <1>1, WriterKeeps
<1>2. ASSUME NEW r \in Readers, Reader(r) PROVE IInv'
  BY <1>2, ReaderKeeps
<1>3. ASSUME NEW t \in Callers, SpuriousWakeup(t) PROVE IInv'
  BY <1>3, SpuriousKeeps
<1>4. CASE UNCHANGED vars
  BY <1>4
  DEF vars, queueVars, shared, locals, sync, IInv, Typed, OneInside, Asleep, Tested,
      BroadcastDue, AssertsHold
<1> QED
  BY <1>1, <1>2, <1>3, <1>4 DEF Next, Dead, Idle

(* The invariant holds in every behaviour. *)
THEOREM Invariant == Spec => []IInv
PROOF
  BY InitHolds, StepKeeps, PTL DEF Spec

(* Nobody sleeps on a condition that holds while the mutex is free: every  *)
(* queue_add and queue_get that makes one true broadcasts before it        *)
(* unlocks, for any number of readers and writers and spurious wake-ups.   *)
THEOREM SignalsKept == Spec => []NoMissedSignal
PROOF
<1>1. IInv => NoMissedSignal
  BY DEF IInv, Typed, OneInside, BroadcastDue, NoMissedSignal, Lock!Free, AddLocked,
         GetLocked, Callers, Threads
<1> QED
  BY <1>1, Invariant, PTL

(* The asserts on count hold although a thread tests it again after every  *)
(* wait: count never leaves 0 .. max_count.                                *)
THEOREM CountWithinLimit == Spec => [](AssertsHold /\ count \in 0 .. MaxCount)
PROOF
<1>1. IInv => AssertsHold /\ count \in 0 .. MaxCount
  BY DEF IInv, Typed
<1> QED
  BY <1>1, Invariant, PTL

-----------------------------------------------------------------------------
(* The list.  A thread inside leaves it and count out of step with the     *)
(* values that entered and left, by what its label says: a value that is   *)
(* linked and not counted yet, or read out and still counted, a last that  *)
(* is one node behind, a first that is still the node read out.  Outside   *)
(* the mutex the only nodes are private ones.                              *)
Uncounted == {"moveLast", "loadInc", "storeInc"}
Unmoved == {"loadNext", "storeFirst"}
Overcounted == Unmoved \union {"loadDec", "storeDec"}

(* The node of queue_add before it is linked, of queue_get after.          *)
Holding == {"lockAdd", "assertAdd", "testFull", "waitFull", "asleep", "relockAdd",
            "testFirst", "setFirst", "linkNext"}
Freeing == {"loadDec", "storeDec", "countGet", "broadcastNotFull", "unlockGet",
            "freeTmp"}

Unlinked(w) == pc[w] \in Holding
Taken(r) == pc[r] \in Freeing

Some(S, labels) == \E t \in S : pc[t] \in labels

Data ==
  /\ first \in Ptr /\ live \subseteq Cells
  /\ val \in [Cells -> Nat] /\ next \in [Cells -> Ptr]
  /\ new \in [Writers -> Ptr] /\ i \in [Writers -> Nat]
  /\ tmp \in [Readers -> Ptr] /\ nxt \in [Readers -> Ptr]
  /\ sent \in Seq(Nat) /\ delivered \in Seq(Nat)
  /\ fault \in {"none", "oom"}
  /\ \A w \in Writers : pc[w] # "stop" => i[w] <= MaxVal

(* Private nodes are allocated, and each is one thread's. *)
Private ==
  /\ \A w \in Writers : Unlinked(w) =>
       new[w] \in live /\ val[new[w]] = i[w] /\ next[new[w]] = NULL
  /\ \A r \in Readers : Taken(r) => tmp[r] \in live
  /\ \A v, w \in Writers : Unlinked(v) /\ Unlinked(w) /\ new[v] = new[w] => v = w
  /\ \A q, r \in Readers : Taken(q) /\ Taken(r) /\ tmp[q] = tmp[r] => q = r
  /\ \A w \in Writers, r \in Readers : Unlinked(w) /\ Taken(r) => new[w] # tmp[r]

(* The values whose nodes have left the list. *)
Removed == Len(delivered) - IF Some(Readers, Unmoved) THEN 1 ELSE 0

Size == Len(sent) - Len(delivered)

(* at[k] is the node of the k-th value ever sent. *)
OnList(at) == {at[k] : k \in Removed + 1 .. Len(sent)}

Linked(at) ==
  /\ Removed \in 0 .. Len(sent)
  /\ \A k \in Removed + 1 .. Len(sent) :
       /\ at[k] \in live /\ val[at[k]] = sent[k]
       /\ next[at[k]] = IF k = Len(sent) THEN NULL ELSE at[k + 1]
  /\ \A j, k \in Removed + 1 .. Len(sent) : at[j] = at[k] => j = k
  /\ first = IF Removed = Len(sent) THEN NULL ELSE at[Removed + 1]
  /\ Removed < Len(sent) =>
       LET tail == IF Some(Writers, {"moveLast"}) THEN Len(sent) - 1 ELSE Len(sent)
       IN  Removed < tail /\ last = at[tail]
  /\ \A w \in Writers : Unlinked(w) => new[w] \notin OnList(at)
  /\ \A r \in Readers : Taken(r) => tmp[r] \notin OnList(at)

Counted ==
  /\ Size \in Nat
  /\ count = Size - (IF Some(Writers, Uncounted) THEN 1 ELSE 0)
                  + (IF Some(Readers, Overcounted) THEN 1 ELSE 0)

(* What the thread inside has tested or read. *)
Tasks ==
  /\ \A w \in Writers :
       /\ pc[w] = "setFirst" => first = NULL
       /\ pc[w] = "linkNext" => first # NULL
  /\ \A r \in Readers :
       /\ pc[r] \in {"readVal"} \union Unmoved => tmp[r] = first
       /\ pc[r] = "storeFirst" => nxt[r] = next[first]

ListInv == Data /\ Private /\ Counted /\ Tasks /\ \E at : Linked(at)

Sound == IInv /\ ListInv

(* What holds of the list is kept by a step that moves no node, wherever   *)
(* it leaves the thread that takes it.                                     *)
Keeps ==
  /\ UNCHANGED <<first, last, live, val, next, sent, delivered>>
  /\ Some(Writers, {"moveLast"})' <=> Some(Writers, {"moveLast"})
  /\ Some(Readers, Unmoved)' <=> Some(Readers, Unmoved)
  /\ \A w \in Writers :
       Unlinked(w)' => Unlinked(w) /\ new'[w] = new[w] /\ i'[w] = i[w]
  /\ \A r \in Readers : Taken(r)' => Taken(r) /\ tmp'[r] = tmp[r]

(* Such a step keeps the nodes and the list. *)
LEMMA ListKept ==
  ASSUME Private, Keeps
  PROVE  Private' /\ \A at : Linked(at) => Linked(at)'
PROOF
<1>1. Removed' = Removed /\ \A at : OnList(at)' = OnList(at)
  BY DEF Keeps, Removed, OnList
<1>2. Private'
  BY DEF Keeps, Private
<1>3. ASSUME NEW at, Linked(at) PROVE Linked(at)'
  BY <1>1, <1>3 DEF Keeps, Linked
<1> QED
  BY <1>2, <1>3

(* The labels of a thread inside say all about the lags of the list. *)
LEMMA WriterInside ==
  ASSUME IInv, NEW w \in Writers, pc[w] \in AddLocked
  PROVE  /\ Some(Writers, {"moveLast"}) <=> pc[w] = "moveLast"
         /\ Some(Writers, Uncounted) <=> pc[w] \in Uncounted
         /\ ~Some(Readers, Unmoved) /\ ~Some(Readers, Overcounted)
         /\ \A t \in Callers \ {w} : pc[t] \notin AddLocked \union GetLocked
PROOF
<1>1. \A t \in Callers \ {w} : pc[t] \notin AddLocked \union GetLocked
  BY DEF IInv, OneInside, Callers
<1>2. \A r \in Readers : r \in Callers \ {w}
  BY Bounds DEF Callers
<1>3. Uncounted \union {"moveLast"} \subseteq AddLocked
      /\ Unmoved \union Overcounted \subseteq GetLocked
  BY DEF Uncounted, Unmoved, Overcounted, AddLocked, GetLocked, Filling, Emptying
<1> QED
  BY <1>1, <1>2, <1>3 DEF Some, Callers

(* The same of a reader. *)
LEMMA ReaderInside ==
  ASSUME IInv, NEW r \in Readers, pc[r] \in GetLocked
  PROVE  /\ Some(Readers, Unmoved) <=> pc[r] \in Unmoved
         /\ Some(Readers, Overcounted) <=> pc[r] \in Overcounted
         /\ ~Some(Writers, {"moveLast"}) /\ ~Some(Writers, Uncounted)
         /\ \A t \in Callers \ {r} : pc[t] \notin AddLocked \union GetLocked
PROOF
<1>1. \A t \in Callers \ {r} : pc[t] \notin AddLocked \union GetLocked
  BY DEF IInv, OneInside, Callers
<1>2. \A w \in Writers : w \in Callers \ {r}
  BY Bounds DEF Callers
<1>3. Uncounted \union {"moveLast"} \subseteq AddLocked
      /\ Unmoved \union Overcounted \subseteq GetLocked
  BY DEF Uncounted, Unmoved, Overcounted, AddLocked, GetLocked, Filling, Emptying
<1> QED
  BY <1>1, <1>2, <1>3 DEF Some, Callers

(* The same after a step of that thread to label l. *)
LEMMA WriterArrives ==
  ASSUME IInv, NEW w \in Writers, pc[w] \in AddLocked, NEW l, Goto(w, l)
  PROVE  /\ pc'[w] = l /\ \A t \in Callers \ {w} : pc'[t] = pc[t]
         /\ Some(Writers, {"moveLast"})' <=> l = "moveLast"
         /\ Some(Writers, Uncounted)' <=> l \in Uncounted
         /\ ~Some(Readers, Unmoved)' /\ ~Some(Readers, Overcounted)'
PROOF
<1>1. /\ pc'[w] = l /\ \A t \in Callers \ {w} : pc'[t] = pc[t]
      /\ \A r \in Readers : pc'[r] = pc[r]
  BY Bounds DEF IInv, Typed, Goto, Callers
<1>2. \A t \in Callers \ {w} : pc[t] \notin AddLocked \union GetLocked
  BY WriterInside
<1>3. \A r \in Readers : r \in Callers \ {w}
  BY Bounds DEF Callers
<1>4. Uncounted \union {"moveLast"} \subseteq AddLocked
      /\ Unmoved \union Overcounted \subseteq GetLocked
  BY DEF Uncounted, Unmoved, Overcounted, AddLocked, GetLocked, Filling, Emptying
<1> QED
  BY <1>1, <1>2, <1>3, <1>4 DEF Some, Callers

(* ... and of a reader. *)
LEMMA ReaderArrives ==
  ASSUME IInv, NEW r \in Readers, pc[r] \in GetLocked, NEW l, Goto(r, l)
  PROVE  /\ pc'[r] = l /\ \A t \in Callers \ {r} : pc'[t] = pc[t]
         /\ Some(Readers, Unmoved)' <=> l \in Unmoved
         /\ Some(Readers, Overcounted)' <=> l \in Overcounted
         /\ ~Some(Writers, {"moveLast"})' /\ ~Some(Writers, Uncounted)'
PROOF
<1>1. /\ pc'[r] = l /\ \A t \in Callers \ {r} : pc'[t] = pc[t]
  BY Bounds DEF IInv, Typed, Goto, Callers
<1>2. \A t \in Callers \ {r} : pc[t] \notin AddLocked \union GetLocked
  BY ReaderInside
<1>3. \A w \in Writers : w \in Callers \ {r}
  BY Bounds DEF Callers
<1>4. Uncounted \union {"moveLast"} \subseteq AddLocked
      /\ Unmoved \union Overcounted \subseteq GetLocked
  BY DEF Uncounted, Unmoved, Overcounted, AddLocked, GetLocked, Filling, Emptying
<1> QED
  BY <1>1, <1>2, <1>3, <1>4 DEF Some, Callers

-----------------------------------------------------------------------------
(* The list looks the same from the two labels of u. *)
Alike(u) ==
  /\ pc'[u] = "moveLast" <=> pc[u] = "moveLast"
  /\ \A L \in {Uncounted, Unmoved, Overcounted} : pc'[u] \in L <=> pc[u] \in L
  /\ u \in Writers => (pc'[u] \in Holding <=> pc[u] \in Holding)
  /\ u \in Readers => (pc'[u] \in Freeing <=> pc[u] \in Freeing)
  /\ pc'[u] \in {"setFirst", "linkNext", "readVal"} \union Unmoved => pc'[u] = pc[u]
  /\ pc[u] = "stop" => pc'[u] = "stop"

(* Locking, unlocking, waiting and waking up, the asserts, the tests of    *)
(* count, the statistics.                                                  *)
LEMMA Passes ==
  ASSUME ListInv, \A u \in Callers : Alike(u),
         UNCHANGED <<first, last, count, val, next, live, new, tmp, nxt, i,
                     sent, delivered>>,
         fault' \in {"none", "oom"}
  PROVE  ListInv'
PROOF
<1>1. /\ Some(Writers, {"moveLast"})' <=> Some(Writers, {"moveLast"})
      /\ Some(Writers, Uncounted)' <=> Some(Writers, Uncounted)
      /\ Some(Readers, Unmoved)' <=> Some(Readers, Unmoved)
      /\ Some(Readers, Overcounted)' <=> Some(Readers, Overcounted)
  BY DEF Some, Alike, Callers
<1>2. /\ \A w \in Writers : Unlinked(w)' <=> Unlinked(w)
      /\ \A r \in Readers : Taken(r)' <=> Taken(r)
  BY DEF Unlinked, Taken, Alike, Callers
<1>3. Private' /\ \A at : Linked(at) => Linked(at)'
  BY <1>1, <1>2, ListKept DEF ListInv, Keeps
<1>4. Data'
  BY DEF ListInv, Data, Callers, Alike
<1>5. Counted'
  BY <1>1 DEF ListInv, Counted, Size
<1>6. Tasks'
  BY DEF ListInv, Tasks, Callers, Alike, Unmoved
<1> QED
  BY <1>3, <1>4, <1>5, <1>6 DEF ListInv

(* One thread goes to such a label. *)
LEMMA GoesAlike ==
  ASSUME Typed, NEW t \in Callers, NEW l, Goto(t, l), pc[t] # "stop",
         pc[t] # "moveLast", l # "moveLast",
         \A L \in {Uncounted, Unmoved, Overcounted} : l \in L <=> pc[t] \in L,
         t \in Writers => (l \in Holding <=> pc[t] \in Holding),
         t \in Readers => (l \in Freeing <=> pc[t] \in Freeing),
         l \notin {"setFirst", "linkNext", "readVal"} \union Unmoved
  PROVE  \A u \in Callers : Alike(u)
PROOF
<1>1. pc'[t] = l /\ \A u \in Callers \ {t} : pc'[u] = pc[u]
  BY DEF Typed, Goto
<1> QED
  BY <1>1 DEF Alike

(* A step of a writer that only passes. *)
LEMMA WriterPasses ==
  ASSUME Sound, NEW w \in Writers,
         \/ Acquire(w, "lockAdd", "assertAdd")
         \/ Unlocked(AssertNotOver(w, "testFull"))
         \/ Unlocked(TestFull(w, "waitFull", "testFirst"))
         \/ WaitNotFull(w)
         \/ Acquire(w, "relockAdd", "testFull")
         \/ Unlocked(LoadInc(w))
         \/ Unlocked(CountAdd(w, "broadcastNotEmpty"))
         \/ Release(w, "unlockAdd", "added")
  PROVE  ListInv' /\ UNCHANGED <<sent, delivered>>
PROOF
<1> USE DEF Uncounted, Unmoved, Overcounted, Holding, Freeing, At, Unlocked
<1>1. /\ UNCHANGED <<first, last, count, val, next, live, new, tmp, nxt, i,
                     sent, delivered, fault>>
      /\ \E l \in {"assertAdd", "testFull", "waitFull", "testFirst", "asleep",
                   "storeInc", "broadcastNotEmpty", "added"} :
           /\ Goto(w, l)
           /\ pc[w] # "stop" /\ pc[w] # "moveLast"
           /\ l \in Uncounted <=> pc[w] \in Uncounted
           /\ l \in Holding <=> pc[w] \in Holding
           /\ pc[w] \notin Overcounted
  <2> USE DEF others, shared, heap, locals, client, history
  <2>1. CASE Acquire(w, "lockAdd", "assertAdd")
    BY <2>1 DEF Acquire
  <2>2. CASE Unlocked(AssertNotOver(w, "testFull"))
    BY <2>2, Bounds DEF AssertNotOver, Sound, IInv, Typed
  <2>3. CASE Unlocked(TestFull(w, "waitFull", "testFirst"))
    BY <2>3 DEF TestFull
  <2>4. CASE WaitNotFull(w)
    BY <2>4 DEF WaitNotFull
  <2>5. CASE Acquire(w, "relockAdd", "testFull")
    BY <2>5 DEF Acquire
  <2>6. CASE Unlocked(LoadInc(w))
    BY <2>6 DEF LoadInc
  <2>7. CASE Unlocked(CountAdd(w, "broadcastNotEmpty"))
    BY <2>7 DEF CountAdd
  <2>8. CASE Release(w, "unlockAdd", "added")
    BY <2>8 DEF Release
  <2> QED
    BY <2>1, <2>2, <2>3, <2>4, <2>5, <2>6, <2>7, <2>8
<1>2. \A u \in Callers : Alike(u)
  <2>1. w \in Callers /\ w \notin Readers
    BY Bounds DEF Callers
  <2> QED
    BY <1>1, <2>1, GoesAlike DEF Sound, IInv
<1> QED
  BY <1>1, <1>2, Passes DEF Sound, ListInv, Data

(* ... and of a reader. *)
LEMMA ReaderPasses ==
  ASSUME Sound, NEW r \in Readers,
         \/ Acquire(r, "lockGet", "assertGet")
         \/ Unlocked(AssertNotUnder(r, "testEmpty"))
         \/ Unlocked(TestEmpty(r, "waitEmpty", "readFirst"))
         \/ WaitNotEmpty(r)
         \/ Acquire(r, "relockGet", "testEmpty")
         \/ Unlocked(LoadDec(r))
         \/ Unlocked(CountGet(r, "broadcastNotFull"))
         \/ Release(r, "unlockGet", "freeTmp")
         \/ Unlocked(GetReturned(r, "lockGet"))
  PROVE  ListInv' /\ UNCHANGED <<sent, delivered>>
PROOF
<1> USE DEF Uncounted, Unmoved, Overcounted, Holding, Freeing, At, Unlocked
<1>1. /\ UNCHANGED <<first, last, count, val, next, live, new, tmp, nxt, i,
                     sent, delivered, fault>>
      /\ \E l \in {"assertGet", "testEmpty", "waitEmpty", "readFirst", "asleep",
                   "storeDec", "broadcastNotFull", "freeTmp", "lockGet"} :
           /\ Goto(r, l)
           /\ pc[r] # "stop" /\ pc[r] # "moveLast" /\ pc[r] \notin Uncounted
           /\ pc[r] \notin Unmoved
           /\ l \in Overcounted <=> pc[r] \in Overcounted
           /\ l \in Freeing <=> pc[r] \in Freeing
  <2> USE DEF others, shared, heap, locals, client, history
  <2>1. CASE Acquire(r, "lockGet", "assertGet")
    BY <2>1 DEF Acquire
  <2>2. CASE Unlocked(AssertNotUnder(r, "testEmpty"))
    BY <2>2, Bounds DEF AssertNotUnder, Sound, IInv, Typed
  <2>3. CASE Unlocked(TestEmpty(r, "waitEmpty", "readFirst"))
    BY <2>3 DEF TestEmpty
  <2>4. CASE WaitNotEmpty(r)
    BY <2>4 DEF WaitNotEmpty
  <2>5. CASE Acquire(r, "relockGet", "testEmpty")
    BY <2>5 DEF Acquire
  <2>6. CASE Unlocked(LoadDec(r))
    BY <2>6 DEF LoadDec
  <2>7. CASE Unlocked(CountGet(r, "broadcastNotFull"))
    BY <2>7 DEF CountGet
  <2>8. CASE Release(r, "unlockGet", "freeTmp")
    BY <2>8 DEF Release
  <2>9. CASE Unlocked(GetReturned(r, "lockGet"))
    BY <2>9 DEF GetReturned
  <2> QED
    BY <2>1, <2>2, <2>3, <2>4, <2>5, <2>6, <2>7, <2>8, <2>9
<1>2. \A u \in Callers : Alike(u)
  <2>1. r \in Callers /\ r \notin Writers
    BY Bounds DEF Callers
  <2> QED
    BY <1>1, <2>1, GoesAlike DEF Sound, IInv
<1> QED
  BY <1>1, <1>2, Passes DEF Sound, ListInv, Data

(* A broadcast sends the sleepers to relock; so does a wake-up for no      *)
(* reason.                                                                 *)
LEMMA WakeUps ==
  ASSUME Sound,
         \/ \E w \in Writers : BroadcastNotEmpty(w)
         \/ \E r \in Readers : BroadcastNotFull(r)
         \/ \E t \in Callers : SpuriousWakeup(t)
  PROVE  ListInv' /\ UNCHANGED <<sent, delivered>>
PROOF
<1> USE DEF Uncounted, Unmoved, Overcounted, Holding, Freeing, At, WakeAll, Alike
<1>1. \A u \in not_full \union not_empty : pc[u] = "asleep"
  BY DEF Sound, IInv, Typed, Asleep, Callers
<1>2. not_full \subseteq Writers /\ not_empty \subseteq Readers
  BY DEF Sound, IInv, Typed
<1>3. ASSUME NEW w \in Writers, BroadcastNotEmpty(w)
      PROVE  \A u \in Callers : Alike(u)
  BY <1>1, <1>2, <1>3, Bounds DEF BroadcastNotEmpty
<1>4. ASSUME NEW r \in Readers, BroadcastNotFull(r)
      PROVE  \A u \in Callers : Alike(u)
  BY <1>1, <1>2, <1>4, Bounds DEF BroadcastNotFull
<1>5. ASSUME NEW t \in Callers, SpuriousWakeup(t)
      PROVE  \A u \in Callers : Alike(u)
  <2>1. /\ pc[t] = "asleep" /\ pc'[t] = IF t \in Writers THEN "relockAdd" ELSE "relockGet"
        /\ \A u \in Callers \ {t} : pc'[u] = pc[u]
    BY <1>5 DEF SpuriousWakeup, Sound, IInv, Typed, Goto
  <2> QED
    BY <2>1, Bounds
<1>6. UNCHANGED others
  BY DEF BroadcastNotEmpty, BroadcastNotFull, SpuriousWakeup
<1> HIDE DEF Alike
<1>7. UNCHANGED <<first, last, count, val, next, live, new, tmp, nxt, i,
                  sent, delivered, fault>>
  BY <1>6 DEF others, shared, heap, locals, client, history
<1> QED
  BY <1>3, <1>4, <1>5, <1>7, Passes DEF Sound, ListInv, Data

(* The statements inside that move no node but note something.             *)
LEMMA WriterNotes ==
  ASSUME Sound, NEW w \in Writers,
         Unlocked(TestFirst(w)) \/ Unlocked(StoreInc(w))
  PROVE  ListInv' /\ UNCHANGED <<sent, delivered>>
PROOF
<1> USE DEF At, Unlocked, shared, heap, locals, client, history
<1>1. pc[w] \in {"testFirst", "storeInc"} /\ pc[w] \in AddLocked
  BY DEF TestFirst, StoreInc, AddLocked, Filling
<1>2. PICK l \in {"setFirst", "linkNext", "countAdd"} :
        /\ Goto(w, l)
        /\ l = "countAdd" <=> pc[w] = "storeInc"
        /\ l = "setFirst" => first = NULL
        /\ l = "linkNext" => first # NULL
  BY DEF TestFirst, StoreInc
<1>3. /\ pc'[w] = l /\ \A t \in Callers \ {w} : pc'[t] = pc[t]
      /\ w \in Callers /\ w \notin Readers
      /\ ~Some(Writers, {"moveLast"}) /\ ~Some(Writers, {"moveLast"})'
      /\ Some(Writers, Uncounted) <=> pc[w] = "storeInc"
      /\ ~Some(Writers, Uncounted)'
      /\ ~Some(Readers, Unmoved) /\ ~Some(Readers, Unmoved)'
      /\ ~Some(Readers, Overcounted) /\ ~Some(Readers, Overcounted)'
  BY <1>1, <1>2, WriterInside, WriterArrives, Bounds DEF Sound, Uncounted, Callers
<1>4. /\ UNCHANGED <<first, last, val, next, live, new, tmp, nxt, i, sent, delivered,
                     fault>>
      /\ count' = IF pc[w] = "storeInc" THEN count + 1 ELSE count
  BY DEF TestFirst, StoreInc, Sound, IInv, Tested
<1>5. /\ \A v \in Writers : Unlinked(v)' => Unlinked(v)
      /\ \A r \in Readers : Taken(r)' <=> Taken(r)
  BY <1>1, <1>2, <1>3 DEF Unlinked, Taken, Holding, Callers
<1>6. Private' /\ \A at : Linked(at) => Linked(at)'
  BY <1>3, <1>4, <1>5, ListKept DEF Sound, ListInv, Keeps
<1>7. Data'
  BY <1>1, <1>2, <1>3, <1>4 DEF Sound, ListInv, Data, Callers
<1>8. Counted'
  BY <1>1, <1>3, <1>4 DEF Sound, ListInv, Counted, Size
<1>9. Tasks'
  <2>1. \A r \in Readers : pc'[r] = pc[r]
    BY <1>3 DEF Callers
  <2>2. \A v \in Writers \ {w} : pc'[v] = pc[v]
    BY <1>3 DEF Callers
  <2> QED
    BY <2>1, <2>2, <1>2, <1>3, <1>4 DEF Sound, ListInv, Tasks
<1> QED
  BY <1>4, <1>6, <1>7, <1>8, <1>9 DEF Sound, ListInv

(* ... and those of a reader: tmp, first->next, the end of count--.        *)
LEMMA ReaderNotes ==
  ASSUME Sound, NEW r \in Readers,
         Unlocked(ReadFirst(r)) \/ Unlocked(LoadNext(r)) \/ Unlocked(StoreDec(r))
  PROVE  ListInv' /\ UNCHANGED <<sent, delivered>>
PROOF
<1> USE DEF At, Unlocked, shared, heap, locals, client, history
<1>1. /\ pc[r] \in {"readFirst", "loadNext", "storeDec"} /\ pc[r] \in GetLocked
      /\ r \in Callers /\ r \notin Writers
  BY Bounds DEF ReadFirst, LoadNext, StoreDec, GetLocked, Emptying, Callers
<1>2. ASSUME pc[r] = "loadNext" PROVE first \in live /\ tmp[r] = first
  <2>1. PICK at : Linked(at)
    BY DEF Sound, ListInv
  <2>2. Some(Readers, Unmoved)
    BY <1>1, <1>2 DEF Some, Unmoved
  <2>3. Removed < Len(sent) /\ Removed \in Nat /\ Len(sent) \in Nat
    BY <2>1, <2>2 DEF Sound, ListInv, Data, Counted, Size, Removed, Linked
  <2> QED
    BY <2>1, <2>3, <1>1, <1>2 DEF Linked, Sound, ListInv, Tasks, Unmoved
<1>3. PICK l \in {"readVal", "storeFirst", "countGet"} :
        /\ Goto(r, l)
        /\ l = "countGet" <=> pc[r] = "storeDec"
        /\ l = "storeFirst" <=> pc[r] = "loadNext"
        /\ l = "readVal" <=> pc[r] = "readFirst"
  BY <1>1, <1>2 DEF ReadFirst, LoadNext, StoreDec, Deref
<1>4. /\ pc'[r] = l /\ \A t \in Callers \ {r} : pc'[t] = pc[t]
      /\ ~Some(Writers, {"moveLast"}) /\ ~Some(Writers, {"moveLast"})'
      /\ ~Some(Writers, Uncounted) /\ ~Some(Writers, Uncounted)'
      /\ Some(Readers, Unmoved)' <=> Some(Readers, Unmoved)
      /\ Some(Readers, Overcounted) <=> pc[r] # "readFirst"
      /\ Some(Readers, Overcounted)' <=> pc[r] = "loadNext"
  BY <1>1, <1>3, ReaderInside, ReaderArrives DEF Sound, Unmoved, Overcounted
<1>5. /\ UNCHANGED <<first, last, val, next, live, new, i, sent, delivered, fault>>
      /\ count' = IF pc[r] = "storeDec" THEN count - 1 ELSE count
      /\ tmp' = IF pc[r] = "readFirst" THEN [tmp EXCEPT ![r] = first] ELSE tmp
      /\ nxt' = IF pc[r] = "loadNext" THEN [nxt EXCEPT ![r] = next[first]] ELSE nxt
  BY <1>1, <1>2 DEF ReadFirst, LoadNext, StoreDec, Deref, Sound, IInv, Tested
<1>6. /\ \A w \in Writers : Unlinked(w)' <=> Unlinked(w)
      /\ \A q \in Readers : Taken(q)' => Taken(q) /\ tmp'[q] = tmp[q]
  <2>1. \A w \in Writers : Unlinked(w)' <=> Unlinked(w)
    BY <1>1, <1>4 DEF Unlinked, Callers
  <2>2. ASSUME NEW q \in Readers, Taken(q)' PROVE Taken(q) /\ tmp'[q] = tmp[q]
    <3>1. CASE q = r
      BY <3>1, <2>2, <1>1, <1>3, <1>4, <1>5 DEF Taken, Freeing
    <3>2. CASE q # r
      BY <3>2, <2>2, <1>4, <1>5 DEF Taken, Sound, ListInv, Data, Callers
    <3> QED
      BY <3>1, <3>2
  <2> QED
    BY <2>1, <2>2
<1>7. Private' /\ \A at : Linked(at) => Linked(at)'
  BY <1>4, <1>5, <1>6, ListKept DEF Sound, ListInv, Keeps
<1>8. Data'
  <2>1. \A w \in Writers : pc'[w] = pc[w]
    BY <1>1, <1>4 DEF Callers
  <2>2. tmp' \in [Readers -> Ptr] /\ nxt' \in [Readers -> Ptr]
    <3>1. pc[r] = "loadNext" => next[first] \in Ptr
      BY <1>2 DEF Sound, ListInv, Data
    <3> QED
      BY <3>1, <1>5 DEF Sound, ListInv, Data
  <2> QED
    BY <2>1, <2>2, <1>5 DEF Sound, ListInv, Data
<1>9. Counted'
  BY <1>1, <1>4, <1>5 DEF Sound, ListInv, Counted, Size
<1>10. Tasks'
  <2>1. \A w \in Writers : pc'[w] = pc[w]
    BY <1>1, <1>4 DEF Callers
  <2>2. /\ pc'[r] \in {"readVal"} \union Unmoved => tmp'[r] = first
        /\ pc'[r] = "storeFirst" => nxt'[r] = next[first]
    BY <1>2, <1>3, <1>4, <1>5 DEF Sound, ListInv, Data, Tasks, Unmoved
  <2>3. \A q \in Readers \ {r} : pc'[q] = pc[q] /\ tmp'[q] = tmp[q] /\ nxt'[q] = nxt[q]
    BY <1>4, <1>5 DEF Sound, ListInv, Data, Callers
  <2> QED
    BY <2>1, <2>2, <2>3, <1>5 DEF Sound, ListInv, Tasks
<1> QED
  BY <1>5, <1>7, <1>8, <1>9, <1>10 DEF Sound, ListInv

(* writer() goes on to its next number, unless that was the last. *)
LEMMA Returns ==
  ASSUME Sound, NEW w \in Writers, Unlocked(AddReturned(w, "alloc"))
  PROVE  ListInv' /\ UNCHANGED <<sent, delivered>>
PROOF
<1> USE DEF At, Unlocked, shared, heap, locals, client, history
<1>1. /\ w \in Callers /\ w \notin Readers /\ pc[w] = "added"
      /\ i' = [i EXCEPT ![w] = @ + 1]
      /\ UNCHANGED <<first, last, count, val, next, live, new, tmp, nxt, sent,
                     delivered, fault>>
  BY Bounds DEF AddReturned, Callers
<1>2. PICK l \in {"alloc", "stop"} : Goto(w, l) /\ (l = "alloc" => i'[w] < MaxVal)
  BY DEF AddReturned
<1>3. /\ pc'[w] = l /\ \A t \in Callers \ {w} : pc'[t] = pc[t]
      /\ i'[w] = i[w] + 1 /\ \A v \in Writers \ {w} : i'[v] = i[v]
      /\ \A r \in Readers : pc'[r] = pc[r]
      /\ \A v \in Writers \ {w} : pc'[v] = pc[v]
  BY <1>1, <1>2 DEF Sound, IInv, Typed, ListInv, Data, Goto, Callers
<1>4. /\ Some(Writers, {"moveLast"})' <=> Some(Writers, {"moveLast"})
      /\ Some(Writers, Uncounted)' <=> Some(Writers, Uncounted)
      /\ Some(Readers, Unmoved)' <=> Some(Readers, Unmoved)
      /\ Some(Readers, Overcounted)' <=> Some(Readers, Overcounted)
  BY <1>1, <1>2, <1>3 DEF Some, Uncounted
<1>5. /\ \A v \in Writers : Unlinked(v)' => Unlinked(v) /\ v # w
      /\ \A r \in Readers : Taken(r)' <=> Taken(r)
  BY <1>1, <1>2, <1>3 DEF Unlinked, Taken, Holding
<1>6. Private' /\ \A at : Linked(at) => Linked(at)'
  BY <1>1, <1>3, <1>4, <1>5, ListKept DEF Sound, ListInv, Keeps
<1>7. Data'
  <2>1. i' \in [Writers -> Nat]
    BY <1>1 DEF Sound, ListInv, Data
  <2>2. \A v \in Writers : pc'[v] # "stop" => i'[v] <= MaxVal
    <3>1. i'[w] \in Nat /\ MaxVal \in Nat
      BY <2>1, QueueAssumption
    <3>2. pc'[w] # "stop" => i'[w] <= MaxVal
      BY <3>1, <1>2, <1>3
    <3> QED
      BY <3>2, <1>3 DEF Sound, ListInv, Data
  <2> QED
    BY <2>1, <2>2, <1>1 DEF Sound, ListInv, Data
<1>8. Counted'
  BY <1>1, <1>4 DEF Sound, ListInv, Counted, Size
<1>9. Tasks'
  BY <1>1, <1>2, <1>3 DEF Sound, ListInv, Tasks
<1> QED
  BY <1>1, <1>6, <1>7, <1>8, <1>9 DEF Sound, ListInv

-----------------------------------------------------------------------------
(* malloc gives out a node that is on no list and in nobody's hands. *)
LEMMA Allocates ==
  ASSUME Sound, NEW w \in Writers, Unlocked(AllocNew(w, "lockAdd"))
  PROVE  ListInv' /\ UNCHANGED <<sent, delivered>>
PROOF
<1> USE DEF At, Unlocked, shared, heap, locals, client, history
<1>1. /\ w \in Callers /\ w \notin Readers /\ pc[w] = "alloc"
      /\ UNCHANGED <<first, last, count, tmp, nxt, i, sent, delivered>>
  BY Bounds DEF AllocNew, Callers
<1>2. CASE UNCHANGED <<heap, new, pc>> /\ fault' = "oom"
  <2>1. \A u \in Callers : Alike(u)
    BY <1>2 DEF Alike
  <2> QED
    BY <2>1, <1>1, <1>2, Passes DEF Sound
<1>3. ASSUME NEW c \in Cells \ live, live' = live \union {c},
             val' = [val EXCEPT ![c] = i[w]], next' = [next EXCEPT ![c] = NULL],
             new' = [new EXCEPT ![w] = c], Goto(w, "lockAdd"), UNCHANGED fault
      PROVE  ListInv'
  <2>1. /\ pc'[w] = "lockAdd" /\ \A v \in Writers \ {w} : pc'[v] = pc[v]
        /\ \A r \in Readers : pc'[r] = pc[r]
    BY <1>1, <1>3 DEF Sound, IInv, Typed, Goto, Callers
  <2>2. /\ new'[w] = c /\ val'[c] = i[w] /\ next'[c] = NULL
        /\ \A v \in Writers \ {w} : new'[v] = new[v]
        /\ \A x \in live : val'[x] = val[x] /\ next'[x] = next[x] /\ x # c
    BY <1>3 DEF Sound, ListInv, Data
  <2>3. /\ Some(Writers, {"moveLast"})' <=> Some(Writers, {"moveLast"})
        /\ Some(Writers, Uncounted)' <=> Some(Writers, Uncounted)
        /\ Some(Readers, Unmoved)' <=> Some(Readers, Unmoved)
        /\ Some(Readers, Overcounted)' <=> Some(Readers, Overcounted)
    BY <1>1, <2>1 DEF Some, Uncounted
  <2>4. /\ \A v \in Writers \ {w} : Unlinked(v)' <=> Unlinked(v)
        /\ \A r \in Readers : Taken(r)' <=> Taken(r)
    BY <2>1 DEF Unlinked, Taken
  <2>5. Removed' = Removed /\ \A at : OnList(at)' = OnList(at)
    BY <1>1, <2>3 DEF Removed, OnList
  <2>6. Private'
    BY <1>1, <1>3, <2>2, <2>4 DEF Private, Sound, ListInv
  <2>7. ASSUME NEW at, Linked(at) PROVE Linked(at)'
    <3>1. c \notin OnList(at)
      BY <1>3, <2>7 DEF Linked, OnList
    <3>2. /\ \A v \in Writers : Unlinked(v)' => new'[v] \notin OnList(at)'
          /\ \A r \in Readers : Taken(r)' => tmp'[r] \notin OnList(at)'
      BY <1>1, <2>2, <2>4, <2>5, <2>7, <3>1 DEF Linked
    <3>3. \A k \in Removed + 1 .. Len(sent) :
            /\ at[k] \in live' /\ val'[at[k]] = sent[k]
            /\ next'[at[k]] = IF k = Len(sent) THEN NULL ELSE at[k + 1]
      BY <1>3, <2>2, <2>7 DEF Linked
    <3> QED
      BY <1>1, <2>3, <2>5, <2>7, <3>2, <3>3 DEF Linked
  <2>8. Data'
    BY <1>1, <1>3, <2>1 DEF Sound, ListInv, Data, Ptr
  <2>9. Counted'
    BY <1>1, <2>3 DEF Sound, ListInv, Counted, Size
  <2>10. Tasks'
    <3>1. ASSUME NEW r \in Readers, pc[r] = "storeFirst" PROVE first \in live
      <4>1. PICK at : Linked(at)
        BY DEF Sound, ListInv
      <4>2. Some(Readers, Unmoved)
        BY <3>1 DEF Some, Unmoved
      <4>3. Removed < Len(sent) /\ Removed \in Nat /\ Len(sent) \in Nat
        BY <4>1, <4>2 DEF Sound, ListInv, Data, Counted, Size, Removed, Linked
      <4> QED
        BY <4>1, <4>3 DEF Linked
    <3> QED
      BY <1>1, <2>1, <2>2, <3>1 DEF Sound, ListInv, Tasks
  <2> QED
    BY <2>6, <2>7, <2>8, <2>9, <2>10 DEF Sound, ListInv
<1>4. \/ UNCHANGED <<heap, new, pc>> /\ fault' = "oom"
      \/ \E c \in Cells \ live :
           /\ live' = live \union {c} /\ val' = [val EXCEPT ![c] = i[w]]
           /\ next' = [next EXCEPT ![c] = NULL] /\ new' = [new EXCEPT ![w] = c]
           /\ Goto(w, "lockAdd") /\ UNCHANGED fault
  BY DEF AllocNew
<1> QED
  BY <1>1, <1>2, <1>3, <1>4

(* free(tmp), after the unlock: the node is nobody else's. *)
LEMMA Frees ==
  ASSUME Sound, NEW r \in Readers, Unlocked(FreeTmp(r, "taken"))
  PROVE  ListInv' /\ UNCHANGED <<sent, delivered>>
PROOF
<1> USE DEF At, Unlocked, shared, heap, locals, client, history
<1>1. /\ r \in Callers /\ r \notin Writers /\ pc[r] = "freeTmp"
      /\ Taken(r) /\ tmp[r] \in live
  BY Bounds DEF FreeTmp, Callers, Taken, Freeing, Sound, ListInv, Private
<1>2. /\ live' = live \ {tmp[r]} /\ Goto(r, "taken")
      /\ UNCHANGED <<first, last, count, val, next, new, tmp, nxt, i, sent, delivered,
                     fault>>
  BY <1>1 DEF FreeTmp, Deref
<1>3. /\ pc'[r] = "taken" /\ \A w \in Writers : pc'[w] = pc[w]
      /\ \A q \in Readers \ {r} : pc'[q] = pc[q]
  BY <1>1, <1>2 DEF Sound, IInv, Typed, Goto, Callers
<1>4. /\ Some(Writers, {"moveLast"})' <=> Some(Writers, {"moveLast"})
      /\ Some(Writers, Uncounted)' <=> Some(Writers, Uncounted)
      /\ Some(Readers, Unmoved)' <=> Some(Readers, Unmoved)
      /\ Some(Readers, Overcounted)' <=> Some(Readers, Overcounted)
  BY <1>1, <1>3 DEF Some, Unmoved, Overcounted
<1>5. /\ \A w \in Writers : Unlinked(w)' <=> Unlinked(w)
      /\ \A q \in Readers : Taken(q)' => Taken(q) /\ q # r
  BY <1>3 DEF Unlinked, Taken, Freeing
<1>6. /\ \A w \in Writers : Unlinked(w) => new[w] # tmp[r]
      /\ \A q \in Readers \ {r} : Taken(q) => tmp[q] # tmp[r]
  BY <1>1 DEF Sound, ListInv, Private
<1>7. Private'
  BY <1>2, <1>5, <1>6 DEF Sound, ListInv, Private
<1>8. Removed' = Removed /\ \A at : OnList(at)' = OnList(at)
  BY <1>2, <1>4 DEF Removed, OnList
<1>9. ASSUME NEW at, Linked(at) PROVE Linked(at)'
  <2>1. tmp[r] \notin OnList(at)
    BY <1>1, <1>9 DEF Linked
  <2>2. \A k \in Removed + 1 .. Len(sent) : at[k] \in live'
    BY <1>2, <1>9, <2>1 DEF Linked, OnList
  <2> QED
    BY <1>2, <1>4, <1>5, <1>8, <1>9, <2>2 DEF Linked
<1>10. Data'
  BY <1>2, <1>3 DEF Sound, ListInv, Data
<1>11. Counted'
  BY <1>2, <1>4 DEF Sound, ListInv, Counted, Size
<1>12. Tasks'
  BY <1>2, <1>3 DEF Sound, ListInv, Tasks, Unmoved
<1> QED
  BY <1>2, <1>7, <1>9, <1>10, <1>11, <1>12 DEF Sound, ListInv

(* Linking new in, at either end of queue_add's if: a value enters. *)
LEMMA Links ==
  ASSUME Sound, NEW w \in Writers, Unlocked(SetFirst(w)) \/ Unlocked(LinkNext(w))
  PROVE  ListInv' /\ Fifo!Put
PROOF
<1> USE DEF At, Unlocked, shared, heap, locals, client, history
<1>1. /\ w \in Callers /\ w \notin Readers /\ MaxCount \in Nat \ {0} /\ NULL \notin Cells
  BY QueueAssumption DEF Callers
<1>2. PICK p \in {"setFirst", "linkNext"} : pc[w] = p
  BY DEF SetFirst, LinkNext
<1>3. PICK at : Linked(at)
  BY DEF Sound, ListInv
<1>4. /\ p \in AddLocked /\ ~Some(Writers, {"moveLast"}) /\ ~Some(Writers, Uncounted)
      /\ ~Some(Readers, Unmoved) /\ ~Some(Readers, Overcounted)
  BY <1>2, WriterInside DEF Sound, AddLocked, Filling, Uncounted
<1>5. /\ Len(sent) \in Nat /\ Len(delivered) \in Nat /\ Len(delivered) <= Len(sent)
      /\ Removed = Len(delivered) /\ count = Size /\ Size < MaxCount
      /\ live \subseteq Cells
  BY <1>1, <1>2, <1>4 DEF Sound, IInv, Tested, Filling, ListInv, Data, Counted, Size, Removed
<1>6. /\ Unlinked(w) /\ new[w] \in live /\ val[new[w]] = i[w] /\ next[new[w]] = NULL
      /\ new[w] \notin OnList(at)
  BY <1>2, <1>3 DEF Unlinked, Holding, Sound, ListInv, Private, Linked
<1>7. \A k \in Len(delivered) + 1 .. Len(sent) :
        /\ at[k] \in live /\ val[at[k]] = sent[k] /\ at[k] # new[w]
        /\ next[at[k]] = IF k = Len(sent) THEN NULL ELSE at[k + 1]
  BY <1>3, <1>5, <1>6 DEF Linked, OnList
<1>8. /\ first = IF Len(delivered) = Len(sent) THEN NULL ELSE at[Len(delivered) + 1]
      /\ Len(delivered) < Len(sent) => last = at[Len(sent)]
      /\ \A j, k \in Len(delivered) + 1 .. Len(sent) : at[j] = at[k] => j = k
  BY <1>3, <1>4, <1>5 DEF Linked
<1>9. p = "setFirst" <=> Len(delivered) = Len(sent)
  <2>1. p = "setFirst" <=> first = NULL
    BY <1>2 DEF Sound, ListInv, Tasks
  <2> QED
    BY <2>1, <1>1, <1>5, <1>7, <1>8
<1>10. PICK l : l = IF p = "setFirst" THEN "loadInc" ELSE "moveLast"
  OBVIOUS
<1>11. /\ Goto(w, l) /\ sent' = Append(sent, i[w])
       /\ UNCHANGED <<count, val, live, new, tmp, nxt, i, delivered, fault>>
       /\ first' = IF p = "setFirst" THEN new[w] ELSE first
       /\ last' = IF p = "setFirst" THEN new[w] ELSE last
       /\ next' = IF p = "setFirst" THEN next ELSE [next EXCEPT ![last] = new[w]]
  <2>1. CASE p = "setFirst"
    BY <2>1, <1>2, <1>10 DEF SetFirst, LinkNext
  <2>2. CASE p = "linkNext"
    <3>1. last \in live
      BY <2>2, <1>5, <1>7, <1>8, <1>9
    <3> QED
      BY <3>1, <2>2, <1>2, <1>10 DEF SetFirst, LinkNext, Deref
  <2> QED
    BY <2>1, <2>2
<1> HIDE DEF At, Unlocked, shared, heap, locals, client, history
<1>12. /\ i[w] \in Nat /\ Len(sent') = Len(sent) + 1 /\ sent' \in Seq(Nat)
       /\ \A k \in 1 .. Len(sent) : sent'[k] = sent[k]
       /\ sent'[Len(sent) + 1] = i[w]
  BY <1>11 DEF Sound, ListInv, Data
<1>13. /\ pc'[w] = l /\ \A t \in Callers \ {w} : pc'[t] = pc[t]
       /\ Some(Writers, {"moveLast"})' <=> l = "moveLast"
       /\ Some(Writers, Uncounted)'
       /\ ~Some(Readers, Unmoved)' /\ ~Some(Readers, Overcounted)'
  BY <1>2, <1>4, <1>10, <1>11, WriterArrives DEF Sound, Uncounted
<1>14. /\ \A v \in Writers \ {w} : pc'[v] = pc[v]
       /\ \A r \in Readers : pc'[r] = pc[r]
  BY <1>1, <1>13 DEF Callers
<1>15. /\ ~Unlinked(w)' /\ \A v \in Writers \ {w} : Unlinked(v)' <=> Unlinked(v)
       /\ \A r \in Readers : Taken(r)' <=> Taken(r)
  BY <1>10, <1>13, <1>14 DEF Unlinked, Taken, Holding
<1>16. Data'
  <2>1. first' \in Ptr /\ next' \in [Cells -> Ptr]
    BY <1>5, <1>6, <1>11 DEF Sound, ListInv, Data, Ptr
  <2>2. \A v \in Writers : pc'[v] # "stop" => i'[v] <= MaxVal
    BY <1>2, <1>11, <1>14 DEF Sound, ListInv, Data
  <2> QED
    BY <2>1, <2>2, <1>11, <1>12 DEF Sound, ListInv, Data
<1>17. Private'
  <2>1. \A v \in Writers : Unlinked(v)' => new[v] \notin OnList(at)
    BY <1>3, <1>15 DEF Linked
  <2>2. ASSUME NEW v \in Writers, Unlinked(v)' PROVE next'[new[v]] = next[new[v]]
    <3>1. p = "linkNext" => last \in OnList(at)
      BY <1>2, <1>5, <1>8, <1>9 DEF OnList
    <3>2. new[v] \in Cells
      BY <2>2, <1>5, <1>15 DEF Sound, ListInv, Private
    <3>3. CASE p = "setFirst"
      BY <3>3, <1>11
    <3>4. CASE p = "linkNext"
      BY <3>1, <3>2, <3>4, <2>1, <2>2, <1>11 DEF Sound, ListInv, Data
    <3> QED
      BY <3>3, <3>4
  <2> QED
    BY <2>2, <1>11, <1>15 DEF Sound, ListInv, Private
<1>18. PICK at2 : at2 = [k \in 1 .. Len(sent) + 1 |->
                           IF k = Len(sent) + 1 THEN new[w] ELSE at[k]]
  OBVIOUS
<1>19. /\ at2[Len(sent) + 1] = new[w]
       /\ \A k \in Len(delivered) + 1 .. Len(sent) : at2[k] = at[k]
  BY <1>5, <1>18
<1>20. Removed' = Len(delivered)
  BY <1>11, <1>13 DEF Removed
<1>21. OnList(at2)' = OnList(at) \union {new[w]}
  <2>1. Len(delivered) + 1 .. Len(sent) + 1
          = (Len(delivered) + 1 .. Len(sent)) \union {Len(sent) + 1}
    BY <1>5
  <2>2. OnList(at2)' = {at2[k] : k \in Len(delivered) + 1 .. Len(sent) + 1}
    BY <1>12, <1>20 DEF OnList
  <2>3. OnList(at) = {at2[k] : k \in Len(delivered) + 1 .. Len(sent)}
    BY <1>5, <1>19 DEF OnList
  <2> QED
    BY <2>1, <2>2, <2>3, <1>19
<1>22. Linked(at2)'
  <2>1. ASSUME NEW k \in Len(delivered) + 1 .. Len(sent) + 1
        PROVE  /\ at2[k] \in live' /\ val'[at2[k]] = sent'[k]
               /\ next'[at2[k]] = IF k = Len(sent) + 1 THEN NULL ELSE at2[k + 1]
    <3>1. CASE k = Len(sent) + 1
      <4>1. next'[new[w]] = NULL
        <5>1. CASE p = "setFirst"
          BY <5>1, <1>6, <1>11
        <5>2. CASE p = "linkNext"
          <6>1. last # new[w]
            BY <5>2, <1>2, <1>5, <1>7, <1>8, <1>9
          <6> QED
            BY <5>2, <6>1, <1>5, <1>6, <1>11 DEF Sound, ListInv, Data
        <5> QED
          BY <5>1, <5>2
      <4> QED
        BY <4>1, <3>1, <1>6, <1>11, <1>12, <1>19
    <3>2. CASE k = Len(sent)
      <4>1. Len(delivered) < Len(sent) /\ p = "linkNext" /\ last = at[k] /\ at2[k] = at[k]
        BY <3>2, <2>1, <1>2, <1>5, <1>8, <1>9, <1>19
      <4>2. next'[at[k]] = new[w]
        BY <4>1, <3>2, <2>1, <1>5, <1>7, <1>11 DEF Sound, ListInv, Data
      <4> QED
        BY <4>1, <4>2, <3>2, <2>1, <1>5, <1>7, <1>11, <1>12, <1>19
    <3>3. CASE k < Len(sent)
      <4>1. /\ k \in Len(delivered) + 1 .. Len(sent) /\ k + 1 \in Len(delivered) + 1 .. Len(sent)
            /\ k \in 1 .. Len(sent)
            /\ p = "linkNext" /\ last = at[Len(sent)] /\ at[k] # last
        BY <3>3, <2>1, <1>2, <1>5, <1>8, <1>9
      <4>2. next'[at[k]] = next[at[k]]
        BY <4>1, <1>5, <1>7, <1>11 DEF Sound, ListInv, Data
      <4> QED
        BY <4>1, <4>2, <3>3, <1>5, <1>7, <1>11, <1>12, <1>19
    <3> QED
      BY <3>1, <3>2, <3>3, <1>5
  <2>2. \A j, k \in Len(delivered) + 1 .. Len(sent) + 1 : at2[j] = at2[k] => j = k
    <3>1. \A k \in Len(delivered) + 1 .. Len(sent) + 1 :
            k = Len(sent) + 1 \/ k \in Len(delivered) + 1 .. Len(sent)
      BY <1>5
    <3> QED
      BY <3>1, <1>7, <1>8, <1>19
  <2>3. first' = at2[Len(delivered) + 1]
    BY <1>5, <1>8, <1>9, <1>11, <1>19
  <2>4. /\ l = "moveLast" => Len(delivered) < Len(sent) /\ last' = at2[Len(sent)]
        /\ l # "moveLast" => last' = at2[Len(sent) + 1]
    BY <1>2, <1>5, <1>8, <1>9, <1>10, <1>11, <1>19
  <2>5. /\ \A v \in Writers : Unlinked(v)' => new'[v] \notin OnList(at2)'
        /\ \A r \in Readers : Taken(r)' => tmp'[r] \notin OnList(at2)'
    BY <1>3, <1>6, <1>11, <1>15, <1>21 DEF Sound, ListInv, Private, Linked
  <2> QED
    BY <2>1, <2>2, <2>3, <2>4, <2>5, <1>5, <1>12, <1>13, <1>20 DEF Linked
<1>23. Counted'
  BY <1>5, <1>11, <1>12, <1>13 DEF Counted, Size
<1>24. Tasks'
  <2>1. \A r \in Readers : pc[r] \notin AddLocked \union GetLocked
    BY <1>1, <1>2, <1>4, WriterInside DEF Sound, Callers
  <2>2. \A v \in Writers \ {w} : pc[v] \notin AddLocked \union GetLocked
    BY <1>1, <1>2, <1>4, WriterInside DEF Sound, Callers
  <2> QED
    BY <2>1, <2>2, <1>10, <1>13, <1>14 DEF Tasks, Unmoved, AddLocked, GetLocked, Filling, Emptying
<1>25. Fifo!Put
  <2>1. i[w] \in 0 .. MaxVal
    <3>1. i[w] <= MaxVal
      BY <1>2 DEF Sound, ListInv, Data
    <3> QED
      BY <3>1, <1>12, QueueAssumption
  <2> QED
    BY <2>1, <1>5, <1>11 DEF Fifo!Put, Fifo!Inside, Size
<1> QED
  BY <1>16, <1>17, <1>22, <1>23, <1>24, <1>25 DEF ListInv

(* q->last = q->last->next catches up with the node that was linked. *)
LEMMA LastMoves ==
  ASSUME Sound, NEW w \in Writers, Unlocked(MoveLast(w))
  PROVE  ListInv' /\ UNCHANGED <<sent, delivered>>
PROOF
<1> USE DEF At, Unlocked, shared, heap, locals, client, history
<1>1. /\ w \in Callers /\ w \notin Readers /\ NULL \notin Cells
      /\ pc[w] = "moveLast" /\ pc[w] \in AddLocked
  BY QueueAssumption DEF Callers, MoveLast, AddLocked, Filling
<1>2. PICK at : Linked(at)
  BY DEF Sound, ListInv
<1>3. /\ Some(Writers, {"moveLast"}) /\ Some(Writers, Uncounted)
      /\ ~Some(Readers, Unmoved) /\ ~Some(Readers, Overcounted)
  BY <1>1, WriterInside DEF Sound, Uncounted
<1>4. /\ Len(sent) \in Nat /\ Len(delivered) \in Nat
      /\ Len(delivered) < Len(sent) /\ Removed = Len(delivered)
  BY <1>3 DEF Sound, IInv, Typed, ListInv, Data, Counted, Size, Removed
<1>5. last \in live /\ last = at[Len(sent) - 1] /\ next[last] = at[Len(sent)]
  BY <1>2, <1>3, <1>4 DEF Linked
<1>6. /\ last' = next[last] /\ Goto(w, "loadInc")
      /\ UNCHANGED <<first, count, val, next, live, new, tmp, nxt, i, sent, delivered,
                     fault>>
  BY <1>5 DEF MoveLast, Deref
<1> HIDE DEF At, Unlocked, shared, heap, locals, client, history
<1>7. /\ pc'[w] = "loadInc" /\ \A t \in Callers \ {w} : pc'[t] = pc[t]
      /\ ~Some(Writers, {"moveLast"})' /\ Some(Writers, Uncounted)'
      /\ ~Some(Readers, Unmoved)' /\ ~Some(Readers, Overcounted)'
  BY <1>1, <1>6, WriterArrives DEF Sound, Uncounted
<1>8. /\ \A v \in Writers \ {w} : pc'[v] = pc[v]
      /\ \A r \in Readers : pc'[r] = pc[r]
  BY <1>1, <1>7 DEF Callers
<1>9. /\ \A v \in Writers : Unlinked(v)' <=> Unlinked(v)
      /\ \A r \in Readers : Taken(r)' <=> Taken(r)
  BY <1>1, <1>7, <1>8 DEF Unlinked, Taken, Holding
<1>10. Private'
  BY <1>6, <1>9 DEF Sound, ListInv, Private
<1>11. Removed' = Removed /\ OnList(at)' = OnList(at)
  BY <1>3, <1>6, <1>7 DEF Removed, OnList
<1>12. Linked(at)'
  BY <1>2, <1>4, <1>5, <1>6, <1>7, <1>9, <1>11 DEF Linked
<1>13. Data'
  BY <1>1, <1>6, <1>8 DEF Sound, ListInv, Data
<1>14. Counted'
  BY <1>3, <1>6, <1>7 DEF Sound, ListInv, Counted, Size
<1>15. Tasks'
  BY <1>6, <1>7, <1>8 DEF Sound, ListInv, Tasks
<1> QED
  BY <1>6, <1>10, <1>12, <1>13, <1>14, <1>15 DEF ListInv

(* *val = tmp->val: the oldest value leaves. *)
LEMMA ValueRead ==
  ASSUME Sound, NEW r \in Readers, Unlocked(ReadVal(r))
  PROVE  ListInv' /\ Fifo!Get
PROOF
<1> USE DEF At, Unlocked, shared, heap, locals, client, history
<1>1. /\ r \in Callers /\ r \notin Writers /\ NULL \notin Cells
      /\ pc[r] = "readVal" /\ pc[r] \in GetLocked
  BY QueueAssumption DEF Callers, ReadVal, GetLocked, Emptying
<1>2. PICK at : Linked(at)
  BY DEF Sound, ListInv
<1>3. /\ ~Some(Writers, {"moveLast"}) /\ ~Some(Writers, Uncounted)
      /\ ~Some(Readers, Unmoved) /\ ~Some(Readers, Overcounted)
  BY <1>1, ReaderInside DEF Sound, Unmoved, Overcounted
<1>4. /\ Len(sent) \in Nat /\ Len(delivered) \in Nat /\ Len(delivered) < Len(sent)
      /\ Removed = Len(delivered) /\ Size > 0
  BY <1>1, <1>3 DEF Sound, IInv, Typed, Tested, Emptying, ListInv, Data, Counted, Size,
                    Removed
<1>5. /\ tmp[r] = first /\ first = at[Len(delivered) + 1] /\ first \in live
      /\ val[first] = sent[Len(delivered) + 1]
  BY <1>1, <1>2, <1>4 DEF Linked, Sound, ListInv, Tasks
<1>6. /\ delivered' = Append(delivered, sent[Len(delivered) + 1]) /\ Goto(r, "loadNext")
      /\ UNCHANGED <<first, last, count, val, next, live, new, tmp, nxt, i, sent, fault>>
  BY <1>5 DEF ReadVal, Deref
<1> HIDE DEF At, Unlocked, shared, heap, locals, client, history
<1>7. /\ sent[Len(delivered) + 1] \in Nat /\ delivered' \in Seq(Nat)
      /\ Len(delivered') = Len(delivered) + 1
  BY <1>4, <1>6 DEF Sound, ListInv, Data
<1>8. /\ pc'[r] = "loadNext" /\ \A t \in Callers \ {r} : pc'[t] = pc[t]
      /\ ~Some(Writers, {"moveLast"})' /\ ~Some(Writers, Uncounted)'
      /\ Some(Readers, Unmoved)' /\ Some(Readers, Overcounted)'
  BY <1>1, <1>6, ReaderArrives DEF Sound, Unmoved, Overcounted
<1>9. /\ \A w \in Writers : pc'[w] = pc[w]
      /\ \A q \in Readers \ {r} : pc'[q] = pc[q]
  BY <1>1, <1>8 DEF Callers
<1>10. /\ \A w \in Writers : Unlinked(w)' <=> Unlinked(w)
       /\ \A q \in Readers : Taken(q)' <=> Taken(q)
  BY <1>1, <1>8, <1>9 DEF Unlinked, Taken, Freeing
<1>11. Private'
  BY <1>6, <1>10 DEF Sound, ListInv, Private
<1>12. Removed' = Removed /\ OnList(at)' = OnList(at)
  BY <1>4, <1>6, <1>7, <1>8 DEF Removed, OnList
<1>13. Linked(at)'
  BY <1>2, <1>3, <1>4, <1>6, <1>8, <1>10, <1>12 DEF Linked
<1>14. Data'
  BY <1>6, <1>7, <1>9 DEF Sound, ListInv, Data
<1>15. Counted'
  BY <1>3, <1>4, <1>6, <1>7, <1>8 DEF Sound, ListInv, Counted, Size
<1>16. Tasks'
  BY <1>5, <1>6, <1>8, <1>9 DEF Sound, ListInv, Tasks
<1>17. Fifo!Get
  BY <1>4, <1>6 DEF Fifo!Get, Fifo!Inside, Size
<1> QED
  BY <1>11, <1>13, <1>14, <1>15, <1>16, <1>17 DEF ListInv

(* q->first = q->first->next, the store: the oldest node leaves the list. *)
LEMMA FirstMoves ==
  ASSUME Sound, NEW r \in Readers, Unlocked(StoreFirst(r, "loadDec"))
  PROVE  ListInv' /\ UNCHANGED <<sent, delivered>>
PROOF
<1> USE DEF At, Unlocked, shared, heap, locals, client, history
<1>1. /\ r \in Callers /\ r \notin Writers /\ NULL \notin Cells
      /\ pc[r] = "storeFirst" /\ pc[r] \in GetLocked
  BY QueueAssumption DEF Callers, StoreFirst, GetLocked, Emptying
<1>2. PICK at : Linked(at)
  BY DEF Sound, ListInv
<1>3. /\ ~Some(Writers, {"moveLast"}) /\ ~Some(Writers, Uncounted)
      /\ Some(Readers, Unmoved) /\ Some(Readers, Overcounted)
  BY <1>1, ReaderInside DEF Sound, Unmoved, Overcounted
<1>4. /\ Len(sent) \in Nat /\ Len(delivered) \in Nat \ {0}
      /\ Len(delivered) <= Len(sent) /\ Removed = Len(delivered) - 1
  BY <1>2, <1>3 DEF Sound, ListInv, Data, Counted, Size, Removed, Linked
<1>5. /\ tmp[r] = first /\ first = at[Len(delivered)] /\ first \in live
      /\ nxt[r] = IF Len(delivered) = Len(sent) THEN NULL ELSE at[Len(delivered) + 1]
  BY <1>1, <1>2, <1>4 DEF Linked, Sound, ListInv, Tasks, Unmoved
<1>6. /\ first' = nxt[r] /\ Goto(r, "loadDec")
      /\ UNCHANGED <<last, count, val, next, live, new, tmp, nxt, i, sent, delivered,
                     fault>>
  BY DEF StoreFirst
<1> HIDE DEF At, Unlocked, shared, heap, locals, client, history
<1>7. /\ pc'[r] = "loadDec" /\ \A t \in Callers \ {r} : pc'[t] = pc[t]
      /\ ~Some(Writers, {"moveLast"})' /\ ~Some(Writers, Uncounted)'
      /\ ~Some(Readers, Unmoved)' /\ Some(Readers, Overcounted)'
  BY <1>1, <1>6, ReaderArrives DEF Sound, Unmoved, Overcounted
<1>8. /\ \A w \in Writers : pc'[w] = pc[w]
      /\ \A q \in Readers \ {r} : pc'[q] = pc[q]
  BY <1>1, <1>7 DEF Callers
<1>9. /\ \A w \in Writers : Unlinked(w)' <=> Unlinked(w)
      /\ \A q \in Readers \ {r} : Taken(q)' <=> Taken(q)
      /\ Taken(r)' /\ ~Taken(r)
  BY <1>1, <1>7, <1>8 DEF Unlinked, Taken, Freeing
<1>10. /\ Removed' = Len(delivered)
       /\ OnList(at) = OnList(at)' \union {first}
       /\ first \notin OnList(at)'
  <2>1. Removed' = Len(delivered)
    BY <1>6, <1>7 DEF Removed
  <2>2. Len(delivered) .. Len(sent) = (Len(delivered) + 1 .. Len(sent)) \union {Len(delivered)}
    BY <1>4
  <2>3. OnList(at) = OnList(at)' \union {first}
    BY <2>1, <2>2, <1>4, <1>5, <1>6 DEF OnList
  <2>4. ASSUME NEW k \in Len(delivered) + 1 .. Len(sent) PROVE at[k] # first
    <3>1. /\ k \in Len(delivered) .. Len(sent) /\ Len(delivered) \in Len(delivered) .. Len(sent)
          /\ k # Len(delivered)
      BY <1>4
    <3> QED
      BY <3>1, <1>2, <1>4, <1>5 DEF Linked
  <2> QED
    BY <2>1, <2>3, <2>4, <1>6 DEF OnList
<1>11. Private'
  <2>1. first \in OnList(at)
    BY <1>10
  <2>2. /\ \A w \in Writers : Unlinked(w) => new[w] # first
        /\ \A q \in Readers : Taken(q) => tmp[q] # first
    BY <2>1, <1>2 DEF Linked
  <2> QED
    BY <2>2, <1>5, <1>6, <1>9 DEF Sound, ListInv, Private
<1>12. Linked(at)'
  <2>1. /\ Removed' \in 0 .. Len(sent')
        /\ Removed' < Len(sent') => last' = at[Len(sent')]
    BY <1>2, <1>3, <1>4, <1>6, <1>10 DEF Linked
  <2>2. /\ \A k \in Len(delivered) + 1 .. Len(sent) :
             /\ at[k] \in live /\ val[at[k]] = sent[k]
             /\ next[at[k]] = IF k = Len(sent) THEN NULL ELSE at[k + 1]
        /\ \A j, k \in Len(delivered) + 1 .. Len(sent) : at[j] = at[k] => j = k
    <3>1. \A k \in Len(delivered) + 1 .. Len(sent) : k \in Len(delivered) .. Len(sent)
      BY <1>4
    <3>2. Removed + 1 = Len(delivered)
      BY <1>4
    <3> QED
      BY <3>1, <3>2, <1>2 DEF Linked
  <2>3. /\ \A w \in Writers : Unlinked(w)' => new'[w] \notin OnList(at)'
        /\ \A q \in Readers : Taken(q)' => tmp'[q] \notin OnList(at)'
    BY <1>2, <1>5, <1>6, <1>9, <1>10 DEF Linked
  <2> QED
    BY <2>1, <2>2, <2>3, <1>5, <1>6, <1>7, <1>10 DEF Linked
<1>13. Data'
  BY <1>6, <1>8 DEF Sound, ListInv, Data
<1>14. Counted'
  BY <1>3, <1>6, <1>7 DEF Sound, ListInv, Counted, Size
<1>15. Tasks'
  <2>1. \A q \in Readers \ {r} : pc[q] \notin GetLocked
    BY <1>1, ReaderInside DEF Sound, Callers
  <2>2. \A w \in Writers : pc[w] \notin AddLocked
    BY <1>1, ReaderInside DEF Sound, Callers
  <2> QED
    BY <2>1, <2>2, <1>7, <1>8 DEF Tasks, Unmoved, AddLocked, GetLocked, Filling, Emptying
<1> QED
  BY <1>6, <1>11, <1>12, <1>13, <1>14, <1>15 DEF ListInv

-----------------------------------------------------------------------------
(* Every step keeps the list, and is one of the bounded FIFO or none.      *)
LEMMA ListStep ==
  ASSUME Sound, [Next]_vars
  PROVE  Sound' /\ [Fifo!Next]_<<sent, delivered>>
PROOF
<1>1. IInv'
  BY StepKeeps DEF Sound
<1>2. ASSUME NEW w \in Writers, Writer(w)
      PROVE  ListInv' /\ [Fifo!Next]_<<sent, delivered>>
  <2>1. ASSUME Unlocked(LinkNew(w)) PROVE ListInv' /\ [Fifo!Next]_<<sent, delivered>>
    BY <2>1, WriterNotes, WriterPasses, Links, LastMoves DEF LinkNew, Unlocked, Fifo!Next
  <2> QED
    BY <1>2, <2>1, WriterPasses, WakeUps, Allocates, Returns DEF Writer, Add
<1>3. ASSUME NEW r \in Readers, Reader(r)
      PROVE  ListInv' /\ [Fifo!Next]_<<sent, delivered>>
  <2>1. ASSUME Unlocked(TakeFirst(r)) PROVE ListInv' /\ [Fifo!Next]_<<sent, delivered>>
    BY <2>1, ReaderNotes, ReaderPasses, ValueRead DEF TakeFirst, Unlocked, Fifo!Next
  <2> QED
    BY <1>3, <2>1, ReaderPasses, WakeUps, Frees, FirstMoves DEF Reader, Get
<1>4. ASSUME NEW t \in Callers, SpuriousWakeup(t)
      PROVE  ListInv' /\ UNCHANGED <<sent, delivered>>
  BY <1>4, WakeUps
<1>5. CASE UNCHANGED vars
  <2>1. /\ UNCHANGED <<first, last, count, val, next, live, new, tmp, nxt, i,
                       sent, delivered, fault, pc>>
    BY <1>5 DEF vars, queueVars, shared, heap, locals, client, history
  <2>2. \A u \in Callers : Alike(u)
    BY <2>1 DEF Alike
  <2> QED
    BY <2>1, <2>2, <1>1, Passes DEF Sound, ListInv, Data
<1> QED
  BY <1>1, <1>2, <1>3, <1>4, <1>5 DEF Next, Dead, Idle, Sound

(* The queue begins empty. *)
LEMMA ListInit == Init => Sound /\ Fifo!Init
PROOF
<1> SUFFICES ASSUME Init PROVE ListInv /\ Fifo!Init
  BY InitHolds DEF Sound
<1>1. /\ \A w \in Writers : pc[w] = "alloc"
      /\ \A r \in Readers : pc[r] = "lockGet"
  BY QueueAssumption DEF Init, Callers
<1>2. /\ first = NULL /\ last = NULL /\ count = 0 /\ live = {} /\ fault = "none"
      /\ val = [c \in Cells |-> 0] /\ next = [c \in Cells |-> NULL]
      /\ new = [w \in Writers |-> NULL] /\ i = [w \in Writers |-> 0]
      /\ tmp = [r \in Readers |-> NULL] /\ nxt = [r \in Readers |-> NULL]
      /\ sent = <<>> /\ delivered = <<>>
  BY DEF Init, QueueInit
<1>3. /\ ~Some(Writers, {"moveLast"}) /\ ~Some(Writers, Uncounted)
      /\ ~Some(Readers, Unmoved) /\ ~Some(Readers, Overcounted)
  BY <1>1 DEF Some, Uncounted, Unmoved, Overcounted
<1>4. /\ \A w \in Writers : ~Unlinked(w)
      /\ \A r \in Readers : ~Taken(r)
  BY <1>1 DEF Unlinked, Taken, Holding, Freeing
<1>5. Data
  BY <1>2, QueueAssumption DEF Data, Ptr
<1>6. Private /\ Tasks
  BY <1>1, <1>4 DEF Private, Tasks, Unmoved
<1>7. Counted
  BY <1>2, <1>3 DEF Counted, Size
<1>8. Linked(<<>>)
  BY <1>2, <1>3, <1>4 DEF Linked, Removed
<1> QED
  BY <1>2, <1>5, <1>6, <1>7, <1>8 DEF ListInv, Fifo!Init

(* Whenever it is looked at, the list holds the values that were added and *)
(* not taken, up to the lag of the one thread inside.                      *)
THEOREM ListInvariant == Spec => []Sound
PROOF
<1>1. Init => Sound
  BY ListInit
<1>2. Sound /\ [Next]_vars => Sound'
  BY ListStep
<1> QED
  BY <1>1, <1>2, PTL DEF Spec

(* The blocking queue implements the bounded FIFO: values enter only below *)
(* max_count and leave in the order in which they entered, whoever sleeps  *)
(* or wakes in between.                                                    *)
THEOREM FifoRefined == Spec => ImplementsFifo
PROOF
<1>1. Init => Fifo!Init
  BY ListInit
<1>2. Sound /\ [Next]_vars => [Fifo!Next]_<<sent, delivered>>
  BY ListStep
<1> QED
  BY <1>1, <1>2, ListInvariant, PTL DEF Spec, ImplementsFifo, Fifo!Spec

(* No NULL or freed node is ever dereferenced, and none is freed twice.    *)
THEOREM NothingDangles == Spec => []NoBadAccess
PROOF
<1>1. Sound => NoBadAccess
  BY DEF Sound, ListInv, Data, NoBadAccess
<1> QED
  BY <1>1, ListInvariant, PTL
=============================================================================
