------------------------- MODULE QueueLocked_proofs -------------------------
(***************************************************************************)
(* The five queue programs with one lock, for any readers, writers, limit  *)
(* and finite heap: the list is what was added and not yet taken, no node  *)
(* is lost where a failed queue_add cleans up, the transfer check of       *)
(* reader() never fails, and every program implements the bounded FIFO.    *)
(*                                                                         *)
(* The invariant is about the thread that holds the lock.  While it is     *)
(* inside, the list, count and the statistics are out of step with one     *)
(* another by amounts that its own label determines (Removed, Counted,     *)
(* Linked); nobody else can see them.  Outside the lock the only nodes     *)
(* are private: those allocated and not linked, and those unlinked and not *)
(* freed, and no two threads have the same one.                            *)
(***************************************************************************)
EXTENDS QueueLocked, FiniteSetTheorems, WellFoundedInduction, TLAPS

(* The labels at which a thread is inside the lock.  AllocFirst: malloc    *)
(* and free are outside it.                                                *)
AddLabels == {"assertAdd", "testFull", "unlockFull", "testFirst", "setFirst",
              "linkNext", "moveLast", "loadInc", "storeInc", "countAdd", "unlockAdd"}
GetLabels == {"assertGet", "testEmpty", "unlockEmpty", "readFirst", "readVal",
              "loadNext", "storeFirst", "loadDec", "storeDec", "countGet",
              "unlockGet"}
Inside ==
  AddLabels \union GetLabels \union {"printing"}
    \union (IF AllocFirst THEN {} ELSE {"alloc", "freeTmp"})

WriterLabels == AddLabels \union {"alloc", "lockAdd", "freeNew", "added", "stop"}
ReaderLabels == GetLabels \union {"lockGet", "freeTmp", "taken"}
MonitorLabels == {"monitor", "printing"}

Data ==
  /\ first \in Ptr /\ count \in Int /\ add_count \in Int /\ get_count \in Int
  /\ val \in [Cells -> Nat]
  /\ next \in [Cells -> Ptr]
  /\ live \subseteq Cells
  /\ new \in [Writers -> Ptr] /\ i \in [Writers -> Nat]
  /\ tmp \in [Readers -> Ptr] /\ nxt \in [Readers -> Ptr] /\ got \in [Readers -> Int]
  /\ reg \in [Callers -> Int]
  /\ sent \in Seq(Nat) /\ delivered \in Seq(Nat)
  /\ fault \in {"none", "oom"}
  /\ program \in AllPrograms

Labels ==
  /\ pc = [t \in Threads |-> pc[t]]
  /\ \A w \in Writers : pc[w] \in WriterLabels
  /\ \A r \in Readers : pc[r] \in ReaderLabels
  /\ pc[Monitor] \in MonitorLabels

Typed == Data /\ Labels

(* The thread inside the lock is the one that holds it, and the only one. *)
Exclusion ==
  /\ depth \in [Threads -> 0 .. 1]
  /\ \A t \in Threads : depth[t] = 1 <=> pc[t] \in Inside
  /\ \A t, u \in Threads : depth[t] = 1 /\ depth[u] = 1 => t = u

(* A node that a writer has not linked yet, and one that a reader has      *)
(* unlinked and not freed.                                                 *)
Unlinked(w) ==
  pc[w] \in {"testFirst", "setFirst", "linkNext"}
    \union (IF AllocFirst
            THEN {"lockAdd", "assertAdd", "testFull", "unlockFull", "freeNew"}
            ELSE {})
Taken(r) ==
  pc[r] \in {"freeTmp"}
    \union (IF AllocFirst THEN {"loadDec", "storeDec", "countGet", "unlockGet"}
            ELSE {})

(* Nodes in private hands are allocated and nobody else's. *)
Private ==
  /\ \A w \in Writers : Unlinked(w) =>
       new[w] \in live /\ val[new[w]] = i[w] /\ next[new[w]] = NULL
  /\ \A r \in Readers : Taken(r) => tmp[r] \in live
  /\ \A v, w \in Writers : Unlinked(v) /\ Unlinked(w) /\ new[v] = new[w] => v = w
  /\ \A q, r \in Readers : Taken(q) /\ Taken(r) /\ tmp[q] = tmp[r] => q = r
  /\ \A w \in Writers, r \in Readers : Unlinked(w) /\ Taken(r) => new[w] # tmp[r]

(* The values that have left the list, and the values inside, as the       *)
(* thread that holds the lock sees them at label p.                        *)
Removed(p) ==
  Len(delivered) - (IF p \in {"loadNext", "storeFirst"} THEN 1 ELSE 0)

Size == Len(sent) - Len(delivered)

(* at[k] is the node of the k-th value ever sent. *)
OnList(at, p) == {at[k] : k \in Removed(p) + 1 .. Len(sent)}

Linked(at, p) ==
  /\ Removed(p) \in 0 .. Len(sent)
  /\ \A k \in Removed(p) + 1 .. Len(sent) :
       /\ at[k] \in live /\ val[at[k]] = sent[k]
       /\ next[at[k]] = IF k = Len(sent) THEN NULL ELSE at[k + 1]
  /\ \A j, k \in Removed(p) + 1 .. Len(sent) : at[j] = at[k] => j = k
  /\ first = IF Removed(p) = Len(sent) THEN NULL ELSE at[Removed(p) + 1]
  /\ Removed(p) < Len(sent) =>
       LET tail == IF p = "moveLast" THEN Len(sent) - 1 ELSE Len(sent)
       IN  Removed(p) < tail /\ last = at[tail]
  /\ \A w \in Writers : Unlinked(w) => new[w] \notin OnList(at, p)
  /\ \A r \in Readers : Taken(r) => tmp[r] \notin OnList(at, p)

(* What the fields of queue_t still lack, or have too much. *)
Counted(p) ==
  /\ Size \in 0 .. MaxCount
  /\ count = IF p \in {"moveLast", "loadInc", "storeInc"} THEN Size - 1
             ELSE IF p \in {"loadNext", "storeFirst", "freeTmp", "loadDec", "storeDec"}
             THEN Size + 1 ELSE Size
  /\ add_count - get_count =
       IF p \in {"moveLast", "loadInc", "storeInc", "countAdd"} THEN Size - 1
       ELSE IF p \in {"loadNext", "storeFirst", "freeTmp", "loadDec", "storeDec",
                      "countGet"}
       THEN Size + 1 ELSE Size

(* The statement at which the holder is, and what it has tested or read. *)
Task(t) ==
  /\ pc[t] \in {"alloc", "testFirst", "setFirst", "linkNext"} => Size < MaxCount
  /\ pc[t] = "setFirst" => first = NULL
  /\ pc[t] = "linkNext" => first # NULL
  /\ pc[t] \in {"storeInc", "storeDec"} => reg[t] = count
  /\ pc[t] \in {"moveLast", "readFirst", "readVal"} => Size > 0
  /\ pc[t] \in {"readVal", "loadNext", "storeFirst"} => tmp[t] = first
  /\ pc[t] = "storeFirst" => nxt[t] = next[first]

(* Every allocated node is on the list or in private hands. *)
Accounted(at, p) ==
  program \in {"spin", "my_mutex", "my_spinlock"} =>
    \A c \in live :
      \/ c \in OnList(at, p)
      \/ \E w \in Writers : Unlinked(w) /\ new[w] = c
      \/ \E r \in Readers : Taken(r) /\ tmp[r] = c

Coherent(at, p) ==
  Linked(at, p) /\ Counted(p) /\ Accounted(at, p)

ListInv(at) ==
  /\ (\A t \in Threads : depth[t] = 0) => Coherent(at, "monitor")
  /\ \A t \in Threads : depth[t] = 1 => Coherent(at, pc[t]) /\ Task(t)

Inv ==
  /\ Typed
  /\ Exclusion
  /\ Private
  /\ \E at : ListInv(at)

-----------------------------------------------------------------------------
(* A label of queue_add stays one of a writer's ... *)
LEMMA WriterGoes ==
  ASSUME Labels, NEW w \in Writers, NEW l \in WriterLabels, Goto(w, l)
  PROVE  Labels'
PROOF
  BY QueueAssumption, LockedAssumption DEF Labels, Goto, Threads, Callers

(* ... and one of queue_get one of a reader's. *)
LEMMA ReaderGoes ==
  ASSUME Labels, NEW r \in Readers, NEW l \in ReaderLabels, Goto(r, l)
  PROVE  Labels'
PROOF
  BY QueueAssumption, LockedAssumption DEF Labels, Goto, Threads, Callers

(* What a thread that stays inside, or outside, the lock leaves as it is.  *)
LEMMA StaysInside ==
  ASSUME Typed, Exclusion, NEW t \in Threads, NEW l, At(t, pc[t]),
         pc[t] \in Inside, l \in Inside, Goto(t, l), UNCHANGED <<depth, program>>
  PROVE  /\ Exclusion' /\ depth[t] = 1 /\ depth'[t] = 1 /\ pc'[t] = l
         /\ \A u \in Threads \ {t} :
              depth[u] = 0 /\ depth'[u] = 0 /\ pc'[u] = pc[u] /\ pc[u] \notin Inside
PROOF
  BY DEF Typed, Labels, Exclusion, Goto, Inside, AllocFirst

(* The same for malloc, free and the loops, outside the lock. *)
LEMMA StaysOutside ==
  ASSUME Typed, Exclusion, NEW t \in Threads, NEW l,
         pc[t] \notin Inside, l \notin Inside, Goto(t, l), UNCHANGED <<depth, program>>
  PROVE  /\ Exclusion' /\ depth[t] = 0 /\ pc'[t] = l
         /\ \A u \in Threads \ {t} : depth'[u] = depth[u] /\ pc'[u] = pc[u]
PROOF
  BY DEF Typed, Labels, Exclusion, Goto, Inside, AllocFirst

(* It is enough to say what the list looks like to the thread inside. *)
LEMMA HolderSees ==
  ASSUME Exclusion, NEW t \in Threads, depth[t] = 1, NEW at
  PROVE  ListInv(at) <=> Coherent(at, pc[t]) /\ Task(t)
PROOF
  BY DEF Exclusion, ListInv

(* A step that leaves the nodes, and who has which, as they are. *)
Keeps ==
  /\ UNCHANGED <<first, last, live, val, next, sent, delivered, program>>
  /\ \A w \in Writers :
       /\ Unlinked(w)' => Unlinked(w) /\ new'[w] = new[w] /\ i'[w] = i[w]
       /\ Unlinked(w) /\ program \in {"spin", "my_mutex", "my_spinlock"} => Unlinked(w)'
  /\ \A r \in Readers :
       /\ Taken(r)' => Taken(r) /\ tmp'[r] = tmp[r]
       /\ Taken(r) => Taken(r)'

SameLag(p, l) ==
  /\ p \in {"loadNext", "storeFirst"} <=> l \in {"loadNext", "storeFirst"}
  /\ p = "moveLast" <=> l = "moveLast"

(* The list is then what it was, for whoever looks at it next. *)
LEMMA ListKept ==
  ASSUME Private, Keeps, NEW at, NEW p, NEW l, SameLag(p, l)
  PROVE  /\ Private'
         /\ Linked(at, p) => Linked(at, l)'
         /\ Accounted(at, p) => Accounted(at, l)'
PROOF
<1>1. Removed(l)' = Removed(p)
  BY DEF Keeps, SameLag, Removed
<1>2. OnList(at, l)' = OnList(at, p)
  BY <1>1 DEF Keeps, OnList
<1>3. Private'
  BY DEF Keeps, Private
<1>4. Linked(at, p) => Linked(at, l)'
  BY <1>1, <1>2 DEF Keeps, Linked, SameLag
<1>5. Accounted(at, p) => Accounted(at, l)'
  BY <1>2 DEF Keeps, Accounted
<1> QED
  BY <1>3, <1>4, <1>5


(* A step inside the lock that leaves the list alone. *)
LEMMA QuietStep ==
  ASSUME Typed, Exclusion, Private, NEW at, ListInv(at), NEW t \in Threads, NEW l,
         At(t, pc[t]), pc[t] \in Inside, l \in Inside, Goto(t, l), UNCHANGED depth,
         Keeps, SameLag(pc[t], l), Typed', Counted(l)', Task(t)'
  PROVE  Inv'
PROOF
<1>1. /\ Exclusion' /\ depth[t] = 1 /\ depth'[t] = 1 /\ pc'[t] = l
  BY StaysInside DEF Keeps
<1>2. Coherent(at, pc[t])
  BY <1>1, HolderSees
<1>3. Private' /\ Linked(at, l)' /\ Accounted(at, l)'
  BY <1>2, ListKept DEF Coherent
<1>4. ListInv(at)'
  BY <1>1, <1>3 DEF ListInv, Coherent, Exclusion
<1> QED
  BY <1>1, <1>3, <1>4 DEF Inv

(* The statements of queue_add between lock and unlock that only test and  *)
(* count.                                                                  *)
LEMMA AddCounts ==
  ASSUME Typed, Exclusion, Private, NEW at, ListInv(at), NEW w \in Writers, NEW room,
         room = (IF AllocFirst THEN "testFirst" ELSE "alloc"),
         UNCHANGED <<depth, program>>,
         \/ AssertNotOver(w, "testFull") \/ TestFull(w, "unlockFull", room)
         \/ TestFirst(w) \/ LoadInc(w) \/ StoreInc(w) \/ CountAdd(w, "unlockAdd")
  PROVE  Inv'
PROOF
<1> USE DEF shared, heap, locals, client, history
<1>1. w \in Threads /\ w \notin Readers /\ w # Monitor /\ Readers \cap Writers = {}
  BY QueueAssumption, LockedAssumption DEF Threads, Callers
<1>2. ASSUME NEW l, At(w, pc[w]), pc[w] \in Inside, l \in Inside, Goto(w, l),
             Keeps, SameLag(pc[w], l), Typed', Counted(l)', Task(w)'
      PROVE  Inv'
  BY <1>1, <1>2, QuietStep
<1>3. pc[w] \in Inside => Coherent(at, pc[w]) /\ Task(w)
  BY <1>1 DEF Exclusion, ListInv
<1>4. CASE AssertNotOver(w, "testFull")
  <2>1. pc[w] = "assertAdd" /\ At(w, "assertAdd") /\ pc[w] \in Inside
    BY <1>4 DEF AssertNotOver, At, Inside, AddLabels, GetLabels
  <2>2. Coherent(at, pc[w]) /\ Task(w)
    BY <1>3, <2>1
  <2>3. PICK l \in {"testFull"} : Goto(w, l) /\ UNCHANGED fault
    BY <1>4, <2>1, <2>2, QueueAssumption DEF AssertNotOver, Coherent, Counted
  <2>4. l \in Inside /\ SameLag(pc[w], l)
    BY <2>1, <2>3 DEF Inside, AddLabels, GetLabels, SameLag
  <2>5. Typed'
    <3>1. Data'
      BY <1>4, <1>1, <2>1, <2>3 DEF AssertNotOver, Typed, Data, Callers, Ptr
    <3>2. Labels'
      BY <1>1, <2>3, WriterGoes DEF Typed, WriterLabels, ReaderLabels, AddLabels, GetLabels
    <3> QED
      BY <3>1, <3>2 DEF Typed
  <2>6. Keeps
    BY <1>4, <1>1, <2>1, <2>3 DEF AssertNotOver, Keeps, Unlinked, Taken, Typed, Labels, Data, Goto, AllocFirst
  <2>7. Counted(l)'
    BY <1>4, <1>1, <2>1, <2>2, <2>3 DEF AssertNotOver, Coherent, Counted, Size, Task, Goto, Typed, Labels, Data, Callers
  <2>8. Task(w)'
    BY <1>4, <1>1, <2>1, <2>2, <2>3, QueueAssumption DEF AssertNotOver, Coherent, Counted, Task, Size, Goto, Typed, Labels, Data, Callers
  <2> QED
    BY <1>2, <2>1, <2>3, <2>4, <2>5, <2>6, <2>7, <2>8
<1>5. CASE TestFull(w, "unlockFull", room)
  <2>1. pc[w] = "testFull" /\ At(w, "testFull") /\ pc[w] \in Inside
    BY <1>5 DEF TestFull, At, Inside, AddLabels, GetLabels
  <2>2. Coherent(at, pc[w]) /\ Task(w)
    BY <1>3, <2>1
  <2>3. PICK l \in {"unlockFull", room} : Goto(w, l) /\ UNCHANGED fault
    BY <1>5, <2>1, <2>2 DEF TestFull
  <2>4. l \in Inside /\ SameLag(pc[w], l)
    BY <2>1, <2>3 DEF Inside, AddLabels, GetLabels, SameLag
  <2>5. Typed'
    <3>1. Data'
      BY <1>5, <1>1, <2>1, <2>3 DEF TestFull, Typed, Data, Callers, Ptr
    <3>2. Labels'
      BY <1>1, <2>3, WriterGoes DEF Typed, WriterLabels, ReaderLabels, AddLabels, GetLabels
    <3> QED
      BY <3>1, <3>2 DEF Typed
  <2>6. Keeps
    BY <1>5, <1>1, <2>1, <2>3 DEF TestFull, Keeps, Unlinked, Taken, Typed, Labels, Data, Goto, AllocFirst
  <2>7. Counted(l)'
    BY <1>5, <1>1, <2>1, <2>2, <2>3 DEF TestFull, Coherent, Counted, Size, Task, Goto, Typed, Labels, Data, Callers
  <2>8. Task(w)'
    BY <1>5, <1>1, <2>1, <2>2, <2>3, QueueAssumption DEF TestFull, Coherent, Counted, Task, Size, Goto, Typed, Labels, Data, Callers
  <2> QED
    BY <1>2, <2>1, <2>3, <2>4, <2>5, <2>6, <2>7, <2>8
<1>6. CASE TestFirst(w)
  <2>1. pc[w] = "testFirst" /\ At(w, "testFirst") /\ pc[w] \in Inside
    BY <1>6 DEF TestFirst, At, Inside, AddLabels, GetLabels
  <2>2. Coherent(at, pc[w]) /\ Task(w)
    BY <1>3, <2>1
  <2>3. PICK l \in {"setFirst", "linkNext"} : Goto(w, l) /\ UNCHANGED fault
    BY <1>6, <2>1, <2>2 DEF TestFirst
  <2>4. l \in Inside /\ SameLag(pc[w], l)
    BY <2>1, <2>3 DEF Inside, AddLabels, GetLabels, SameLag
  <2>5. Typed'
    <3>1. Data'
      BY <1>6, <1>1, <2>1, <2>3 DEF TestFirst, Typed, Data, Callers, Ptr
    <3>2. Labels'
      BY <1>1, <2>3, WriterGoes DEF Typed, WriterLabels, ReaderLabels, AddLabels, GetLabels
    <3> QED
      BY <3>1, <3>2 DEF Typed
  <2>6. Keeps
    BY <1>6, <1>1, <2>1, <2>3 DEF TestFirst, Keeps, Unlinked, Taken, Typed, Labels, Data, Goto, AllocFirst
  <2>7. Counted(l)'
    BY <1>6, <1>1, <2>1, <2>2, <2>3 DEF TestFirst, Coherent, Counted, Size, Task, Goto, Typed, Labels, Data, Callers
  <2>8. Task(w)'
    BY <1>6, <1>1, <2>1, <2>2, <2>3, QueueAssumption DEF TestFirst, Coherent, Counted, Task, Size, Goto, Typed, Labels, Data, Callers
  <2> QED
    BY <1>2, <2>1, <2>3, <2>4, <2>5, <2>6, <2>7, <2>8
<1>7. CASE LoadInc(w)
  <2>1. pc[w] = "loadInc" /\ At(w, "loadInc") /\ pc[w] \in Inside
    BY <1>7 DEF LoadInc, At, Inside, AddLabels, GetLabels
  <2>2. Coherent(at, pc[w]) /\ Task(w)
    BY <1>3, <2>1
  <2>3. PICK l \in {"storeInc"} : Goto(w, l) /\ UNCHANGED fault
    BY <1>7, <2>1, <2>2 DEF LoadInc
  <2>4. l \in Inside /\ SameLag(pc[w], l)
    BY <2>1, <2>3 DEF Inside, AddLabels, GetLabels, SameLag
  <2>5. Typed'
    <3>1. Data'
      BY <1>7, <1>1, <2>1, <2>3 DEF LoadInc, Typed, Data, Callers, Ptr
    <3>2. Labels'
      BY <1>1, <2>3, WriterGoes DEF Typed, WriterLabels, ReaderLabels, AddLabels, GetLabels
    <3> QED
      BY <3>1, <3>2 DEF Typed
  <2>6. Keeps
    BY <1>7, <1>1, <2>1, <2>3 DEF LoadInc, Keeps, Unlinked, Taken, Typed, Labels, Data, Goto, AllocFirst
  <2>7. Counted(l)'
    BY <1>7, <1>1, <2>1, <2>2, <2>3 DEF LoadInc, Coherent, Counted, Size, Task, Goto, Typed, Labels, Data, Callers
  <2>8. Task(w)'
    BY <1>7, <1>1, <2>1, <2>2, <2>3, QueueAssumption DEF LoadInc, Coherent, Counted, Task, Size, Goto, Typed, Labels, Data, Callers
  <2> QED
    BY <1>2, <2>1, <2>3, <2>4, <2>5, <2>6, <2>7, <2>8
<1>8. CASE StoreInc(w)
  <2>1. pc[w] = "storeInc" /\ At(w, "storeInc") /\ pc[w] \in Inside
    BY <1>8 DEF StoreInc, At, Inside, AddLabels, GetLabels
  <2>2. Coherent(at, pc[w]) /\ Task(w)
    BY <1>3, <2>1
  <2>3. PICK l \in {"countAdd"} : Goto(w, l) /\ UNCHANGED fault
    BY <1>8, <2>1, <2>2 DEF StoreInc
  <2>4. l \in Inside /\ SameLag(pc[w], l)
    BY <2>1, <2>3 DEF Inside, AddLabels, GetLabels, SameLag
  <2>5. Typed'
    <3>1. Data'
      BY <1>8, <1>1, <2>1, <2>3 DEF StoreInc, Typed, Data, Callers, Ptr
    <3>2. Labels'
      BY <1>1, <2>3, WriterGoes DEF Typed, WriterLabels, ReaderLabels, AddLabels, GetLabels
    <3> QED
      BY <3>1, <3>2 DEF Typed
  <2>6. Keeps
    BY <1>8, <1>1, <2>1, <2>3 DEF StoreInc, Keeps, Unlinked, Taken, Typed, Labels, Data, Goto, AllocFirst
  <2>7. Counted(l)'
    BY <1>8, <1>1, <2>1, <2>2, <2>3 DEF StoreInc, Coherent, Counted, Size, Task, Goto, Typed, Labels, Data, Callers
  <2>8. Task(w)'
    BY <1>8, <1>1, <2>1, <2>2, <2>3, QueueAssumption DEF StoreInc, Coherent, Counted, Task, Size, Goto, Typed, Labels, Data, Callers
  <2> QED
    BY <1>2, <2>1, <2>3, <2>4, <2>5, <2>6, <2>7, <2>8
<1>9. CASE CountAdd(w, "unlockAdd")
  <2>1. pc[w] = "countAdd" /\ At(w, "countAdd") /\ pc[w] \in Inside
    BY <1>9 DEF CountAdd, At, Inside, AddLabels, GetLabels
  <2>2. Coherent(at, pc[w]) /\ Task(w)
    BY <1>3, <2>1
  <2>3. PICK l \in {"unlockAdd"} : Goto(w, l) /\ UNCHANGED fault
    BY <1>9, <2>1, <2>2 DEF CountAdd
  <2>4. l \in Inside /\ SameLag(pc[w], l)
    BY <2>1, <2>3 DEF Inside, AddLabels, GetLabels, SameLag
  <2>5. Typed'
    <3>1. Data'
      BY <1>9, <1>1, <2>1, <2>3 DEF CountAdd, Typed, Data, Callers, Ptr
    <3>2. Labels'
      BY <1>1, <2>3, WriterGoes DEF Typed, WriterLabels, ReaderLabels, AddLabels, GetLabels
    <3> QED
      BY <3>1, <3>2 DEF Typed
  <2>6. Keeps
    BY <1>9, <1>1, <2>1, <2>3 DEF CountAdd, Keeps, Unlinked, Taken, Typed, Labels, Data, Goto, AllocFirst
  <2>7. Counted(l)'
    BY <1>9, <1>1, <2>1, <2>2, <2>3 DEF CountAdd, Coherent, Counted, Size, Task, Goto, Typed, Labels, Data, Callers
  <2>8. Task(w)'
    BY <1>9, <1>1, <2>1, <2>2, <2>3, QueueAssumption DEF CountAdd, Coherent, Counted, Task, Size, Goto, Typed, Labels, Data, Callers
  <2> QED
    BY <1>2, <2>1, <2>3, <2>4, <2>5, <2>6, <2>7, <2>8
<1> QED
  BY <1>4, <1>5, <1>6, <1>7, <1>8, <1>9

(* ... and those of queue_get. *)
LEMMA GetCounts ==
  ASSUME Typed, Exclusion, Private, NEW at, ListInv(at), NEW r \in Readers,
         UNCHANGED <<depth, program>>,
         \/ AssertNotUnder(r, "testEmpty") \/ TestEmpty(r, "unlockEmpty", "readFirst")
         \/ ReadFirst(r) \/ LoadNext(r) \/ LoadDec(r) \/ StoreDec(r)
         \/ CountGet(r, "unlockGet")
  PROVE  Inv'
PROOF
<1> USE DEF shared, heap, locals, client, history
<1>1. r \in Threads /\ r \notin Writers /\ r # Monitor /\ Readers \cap Writers = {}
  BY QueueAssumption, LockedAssumption DEF Threads, Callers
<1>2. ASSUME NEW l, At(r, pc[r]), pc[r] \in Inside, l \in Inside, Goto(r, l),
             Keeps, SameLag(pc[r], l), Typed', Counted(l)', Task(r)'
      PROVE  Inv'
  BY <1>1, <1>2, QuietStep
<1>3. pc[r] \in Inside => Coherent(at, pc[r]) /\ Task(r)
  BY <1>1 DEF Exclusion, ListInv
<1>4. CASE AssertNotUnder(r, "testEmpty")
  <2>1. pc[r] = "assertGet" /\ At(r, "assertGet") /\ pc[r] \in Inside
    BY <1>4 DEF AssertNotUnder, At, Inside, AddLabels, GetLabels
  <2>2. Coherent(at, pc[r]) /\ Task(r)
    BY <1>3, <2>1
  <2>3. PICK l \in {"testEmpty"} : Goto(r, l) /\ UNCHANGED fault
    BY <1>4, <2>1, <2>2, QueueAssumption DEF AssertNotUnder, Coherent, Counted
  <2>4. l \in Inside /\ SameLag(pc[r], l)
    BY <2>1, <2>3 DEF Inside, AddLabels, GetLabels, SameLag
  <2>5. Typed'
    <3>1. Data'
      BY <1>4, <1>1, <2>1, <2>3 DEF AssertNotUnder, Typed, Data, Callers, Ptr
    <3>2. Labels'
      BY <1>1, <2>3, ReaderGoes DEF Typed, WriterLabels, ReaderLabels, AddLabels, GetLabels
    <3> QED
      BY <3>1, <3>2 DEF Typed
  <2>6. Keeps
    BY <1>4, <1>1, <2>1, <2>3 DEF AssertNotUnder, Keeps, Unlinked, Taken, Typed, Labels, Data, Goto, AllocFirst
  <2>7. Counted(l)'
    BY <1>4, <1>1, <2>1, <2>2, <2>3 DEF AssertNotUnder, Coherent, Counted, Size, Task, Goto, Typed, Labels, Data, Callers
  <2>8. Task(r)'
    BY <1>4, <1>1, <2>1, <2>2, <2>3, QueueAssumption DEF AssertNotUnder, Coherent, Counted, Task, Size, Goto, Typed, Labels, Data, Callers
  <2> QED
    BY <1>2, <2>1, <2>3, <2>4, <2>5, <2>6, <2>7, <2>8
<1>5. CASE TestEmpty(r, "unlockEmpty", "readFirst")
  <2>1. pc[r] = "testEmpty" /\ At(r, "testEmpty") /\ pc[r] \in Inside
    BY <1>5 DEF TestEmpty, At, Inside, AddLabels, GetLabels
  <2>2. Coherent(at, pc[r]) /\ Task(r)
    BY <1>3, <2>1
  <2>3. PICK l \in {"unlockEmpty", "readFirst"} : Goto(r, l) /\ UNCHANGED fault
    BY <1>5, <2>1, <2>2 DEF TestEmpty
  <2>4. l \in Inside /\ SameLag(pc[r], l)
    BY <2>1, <2>3 DEF Inside, AddLabels, GetLabels, SameLag
  <2>5. Typed'
    <3>1. Data'
      BY <1>5, <1>1, <2>1, <2>3 DEF TestEmpty, Typed, Data, Callers, Ptr
    <3>2. Labels'
      BY <1>1, <2>3, ReaderGoes DEF Typed, WriterLabels, ReaderLabels, AddLabels, GetLabels
    <3> QED
      BY <3>1, <3>2 DEF Typed
  <2>6. Keeps
    BY <1>5, <1>1, <2>1, <2>3 DEF TestEmpty, Keeps, Unlinked, Taken, Typed, Labels, Data, Goto, AllocFirst
  <2>7. Counted(l)'
    BY <1>5, <1>1, <2>1, <2>2, <2>3 DEF TestEmpty, Coherent, Counted, Size, Task, Goto, Typed, Labels, Data, Callers
  <2>8. Task(r)'
    BY <1>5, <1>1, <2>1, <2>2, <2>3, QueueAssumption DEF TestEmpty, Coherent, Counted, Task, Size, Goto, Typed, Labels, Data, Callers
  <2> QED
    BY <1>2, <2>1, <2>3, <2>4, <2>5, <2>6, <2>7, <2>8
<1>6. CASE ReadFirst(r)
  <2>1. pc[r] = "readFirst" /\ At(r, "readFirst") /\ pc[r] \in Inside
    BY <1>6 DEF ReadFirst, At, Inside, AddLabels, GetLabels
  <2>2. Coherent(at, pc[r]) /\ Task(r)
    BY <1>3, <2>1
  <2>3. PICK l \in {"readVal"} : Goto(r, l) /\ UNCHANGED fault
    BY <1>6, <2>1, <2>2 DEF ReadFirst
  <2>4. l \in Inside /\ SameLag(pc[r], l)
    BY <2>1, <2>3 DEF Inside, AddLabels, GetLabels, SameLag
  <2>5. Typed'
    <3>1. Data'
      BY <1>6, <1>1, <2>1, <2>3 DEF ReadFirst, Typed, Data, Callers, Ptr
    <3>2. Labels'
      BY <1>1, <2>3, ReaderGoes DEF Typed, WriterLabels, ReaderLabels, AddLabels, GetLabels
    <3> QED
      BY <3>1, <3>2 DEF Typed
  <2>6. Keeps
    BY <1>6, <1>1, <2>1, <2>3 DEF ReadFirst, Keeps, Unlinked, Taken, Typed, Labels, Data, Goto, AllocFirst
  <2>7. Counted(l)'
    BY <1>6, <1>1, <2>1, <2>2, <2>3 DEF ReadFirst, Coherent, Counted, Size, Task, Goto, Typed, Labels, Data, Callers
  <2>8. Task(r)'
    BY <1>6, <1>1, <2>1, <2>2, <2>3, QueueAssumption DEF ReadFirst, Coherent, Counted, Task, Size, Goto, Typed, Labels, Data, Callers
  <2> QED
    BY <1>2, <2>1, <2>3, <2>4, <2>5, <2>6, <2>7, <2>8
<1>7. CASE LoadNext(r)
  <2>1. pc[r] = "loadNext" /\ At(r, "loadNext") /\ pc[r] \in Inside
    BY <1>7 DEF LoadNext, At, Inside, AddLabels, GetLabels
  <2>2. Coherent(at, pc[r]) /\ Task(r)
    BY <1>3, <2>1
  <2>3. PICK l \in {"storeFirst"} : Goto(r, l) /\ UNCHANGED fault
    BY <1>7, <2>1, <2>2, QueueAssumption DEF LoadNext, Deref, Coherent, Counted, Linked, Task, Removed, Size, Typed, Data
  <2>4. l \in Inside /\ SameLag(pc[r], l)
    BY <2>1, <2>3 DEF Inside, AddLabels, GetLabels, SameLag
  <2>5. Typed'
    <3>1. Data'
      BY <1>7, <1>1, <2>1, <2>3 DEF LoadNext, Typed, Data, Callers, Ptr, Deref
    <3>2. Labels'
      BY <1>1, <2>3, ReaderGoes DEF Typed, WriterLabels, ReaderLabels, AddLabels, GetLabels
    <3> QED
      BY <3>1, <3>2 DEF Typed
  <2>6. Keeps
    BY <1>7, <1>1, <2>1, <2>3 DEF LoadNext, Keeps, Unlinked, Taken, Typed, Labels, Data, Goto, AllocFirst, Deref
  <2>7. Counted(l)'
    BY <1>7, <1>1, <2>1, <2>2, <2>3 DEF LoadNext, Coherent, Counted, Size, Task, Goto, Typed, Labels, Data, Callers, Deref
  <2>8. Task(r)'
    BY <1>7, <1>1, <2>1, <2>2, <2>3, QueueAssumption DEF LoadNext, Coherent, Counted, Task, Size, Goto, Typed, Labels, Data, Callers, Deref
  <2> QED
    BY <1>2, <2>1, <2>3, <2>4, <2>5, <2>6, <2>7, <2>8
<1>8. CASE LoadDec(r)
  <2>1. pc[r] = "loadDec" /\ At(r, "loadDec") /\ pc[r] \in Inside
    BY <1>8 DEF LoadDec, At, Inside, AddLabels, GetLabels
  <2>2. Coherent(at, pc[r]) /\ Task(r)
    BY <1>3, <2>1
  <2>3. PICK l \in {"storeDec"} : Goto(r, l) /\ UNCHANGED fault
    BY <1>8, <2>1, <2>2 DEF LoadDec
  <2>4. l \in Inside /\ SameLag(pc[r], l)
    BY <2>1, <2>3 DEF Inside, AddLabels, GetLabels, SameLag
  <2>5. Typed'
    <3>1. Data'
      BY <1>8, <1>1, <2>1, <2>3 DEF LoadDec, Typed, Data, Callers, Ptr
    <3>2. Labels'
      BY <1>1, <2>3, ReaderGoes DEF Typed, WriterLabels, ReaderLabels, AddLabels, GetLabels
    <3> QED
      BY <3>1, <3>2 DEF Typed
  <2>6. Keeps
    BY <1>8, <1>1, <2>1, <2>3 DEF LoadDec, Keeps, Unlinked, Taken, Typed, Labels, Data, Goto, AllocFirst
  <2>7. Counted(l)'
    BY <1>8, <1>1, <2>1, <2>2, <2>3 DEF LoadDec, Coherent, Counted, Size, Task, Goto, Typed, Labels, Data, Callers
  <2>8. Task(r)'
    BY <1>8, <1>1, <2>1, <2>2, <2>3, QueueAssumption DEF LoadDec, Coherent, Counted, Task, Size, Goto, Typed, Labels, Data, Callers
  <2> QED
    BY <1>2, <2>1, <2>3, <2>4, <2>5, <2>6, <2>7, <2>8
<1>9. CASE StoreDec(r)
  <2>1. pc[r] = "storeDec" /\ At(r, "storeDec") /\ pc[r] \in Inside
    BY <1>9 DEF StoreDec, At, Inside, AddLabels, GetLabels
  <2>2. Coherent(at, pc[r]) /\ Task(r)
    BY <1>3, <2>1
  <2>3. PICK l \in {"countGet"} : Goto(r, l) /\ UNCHANGED fault
    BY <1>9, <2>1, <2>2 DEF StoreDec
  <2>4. l \in Inside /\ SameLag(pc[r], l)
    BY <2>1, <2>3 DEF Inside, AddLabels, GetLabels, SameLag
  <2>5. Typed'
    <3>1. Data'
      BY <1>9, <1>1, <2>1, <2>3 DEF StoreDec, Typed, Data, Callers, Ptr
    <3>2. Labels'
      BY <1>1, <2>3, ReaderGoes DEF Typed, WriterLabels, ReaderLabels, AddLabels, GetLabels
    <3> QED
      BY <3>1, <3>2 DEF Typed
  <2>6. Keeps
    BY <1>9, <1>1, <2>1, <2>3 DEF StoreDec, Keeps, Unlinked, Taken, Typed, Labels, Data, Goto, AllocFirst
  <2>7. Counted(l)'
    BY <1>9, <1>1, <2>1, <2>2, <2>3 DEF StoreDec, Coherent, Counted, Size, Task, Goto, Typed, Labels, Data, Callers
  <2>8. Task(r)'
    BY <1>9, <1>1, <2>1, <2>2, <2>3, QueueAssumption DEF StoreDec, Coherent, Counted, Task, Size, Goto, Typed, Labels, Data, Callers
  <2> QED
    BY <1>2, <2>1, <2>3, <2>4, <2>5, <2>6, <2>7, <2>8
<1>10. CASE CountGet(r, "unlockGet")
  <2>1. pc[r] = "countGet" /\ At(r, "countGet") /\ pc[r] \in Inside
    BY <1>10 DEF CountGet, At, Inside, AddLabels, GetLabels
  <2>2. Coherent(at, pc[r]) /\ Task(r)
    BY <1>3, <2>1
  <2>3. PICK l \in {"unlockGet"} : Goto(r, l) /\ UNCHANGED fault
    BY <1>10, <2>1, <2>2 DEF CountGet
  <2>4. l \in Inside /\ SameLag(pc[r], l)
    BY <2>1, <2>3 DEF Inside, AddLabels, GetLabels, SameLag
  <2>5. Typed'
    <3>1. Data'
      BY <1>10, <1>1, <2>1, <2>3 DEF CountGet, Typed, Data, Callers, Ptr
    <3>2. Labels'
      BY <1>1, <2>3, ReaderGoes DEF Typed, WriterLabels, ReaderLabels, AddLabels, GetLabels
    <3> QED
      BY <3>1, <3>2 DEF Typed
  <2>6. Keeps
    BY <1>10, <1>1, <2>1, <2>3 DEF CountGet, Keeps, Unlinked, Taken, Typed, Labels, Data, Goto, AllocFirst
  <2>7. Counted(l)'
    BY <1>10, <1>1, <2>1, <2>2, <2>3 DEF CountGet, Coherent, Counted, Size, Task, Goto, Typed, Labels, Data, Callers
  <2>8. Task(r)'
    BY <1>10, <1>1, <2>1, <2>2, <2>3, QueueAssumption DEF CountGet, Coherent, Counted, Task, Size, Goto, Typed, Labels, Data, Callers
  <2> QED
    BY <1>2, <2>1, <2>3, <2>4, <2>5, <2>6, <2>7, <2>8
<1> QED
  BY <1>4, <1>5, <1>6, <1>7, <1>8, <1>9, <1>10

(* A step inside the lock that changes the list. *)
LEMMA HolderStep ==
  ASSUME Typed, Exclusion, NEW t \in Threads, NEW l, At(t, pc[t]),
         pc[t] \in Inside, l \in Inside, Goto(t, l), UNCHANGED <<depth, program>>,
         Typed', Private', NEW at, Coherent(at, l)', Task(t)'
  PROVE  Inv'
PROOF
<1>1. Exclusion' /\ depth'[t] = 1 /\ pc'[t] = l
  BY StaysInside
<1>2. ListInv(at)'
  BY <1>1 DEF ListInv, Exclusion
<1> QED
  BY <1>1, <1>2 DEF Inv

(* Linking new in, at either end of queue_add's if. *)
LEMMA Links ==
  ASSUME Typed, Exclusion, Private, NEW at, ListInv(at), NEW w \in Writers,
         UNCHANGED <<depth, program>>,
         SetFirst(w) \/ LinkNext(w)
  PROVE  Inv'
PROOF
<1> USE DEF shared, heap, locals, client, history
<1>1. /\ w \in Threads /\ w \notin Readers /\ w # Monitor
      /\ MaxCount \in Nat \ {0} /\ NULL \notin Cells
  BY QueueAssumption, LockedAssumption DEF Threads, Callers
<1>2. PICK p \in {"setFirst", "linkNext"} : pc[w] = p /\ At(w, p)
  BY DEF SetFirst, LinkNext, At
<1>3. p \in Inside /\ Coherent(at, p) /\ Task(w)
  BY <1>1, <1>2 DEF Exclusion, ListInv, Inside, AddLabels
<1>4. /\ Unlinked(w) /\ new[w] \in live /\ val[new[w]] = i[w] /\ next[new[w]] = NULL
      /\ new[w] \notin OnList(at, p)
  BY <1>2, <1>3 DEF Unlinked, Private, Coherent, Linked
<1>5. /\ Len(sent) \in Nat /\ Len(delivered) \in Nat /\ Len(delivered) <= Len(sent)
      /\ Removed(p) = Len(delivered) /\ Size < MaxCount /\ live \subseteq Cells
  BY <1>2, <1>3 DEF Typed, Data, Removed, Coherent, Linked, Task
<1>6. \A k \in Len(delivered) + 1 .. Len(sent) :
        /\ at[k] \in live /\ val[at[k]] = sent[k] /\ at[k] # new[w]
        /\ next[at[k]] = IF k = Len(sent) THEN NULL ELSE at[k + 1]
  BY <1>3, <1>4, <1>5 DEF Coherent, Linked, OnList
<1>7. /\ first = IF Len(delivered) = Len(sent) THEN NULL ELSE at[Len(delivered) + 1]
      /\ Len(delivered) < Len(sent) => last = at[Len(sent)]
      /\ \A j, k \in Len(delivered) + 1 .. Len(sent) : at[j] = at[k] => j = k
  BY <1>2, <1>3, <1>5 DEF Coherent, Linked
<1>8. p = "setFirst" <=> Len(delivered) = Len(sent)
  BY <1>1, <1>2, <1>3, <1>5, <1>6, <1>7 DEF Task
<1>9. PICK l : l = IF p = "setFirst" THEN "loadInc" ELSE "moveLast"
  OBVIOUS
<1>10. /\ Goto(w, l) /\ sent' = Append(sent, i[w])
       /\ UNCHANGED <<count, add_count, get_count, val, live, new, tmp, got, nxt, reg,
                      i, delivered, fault>>
       /\ first' = IF p = "setFirst" THEN new[w] ELSE first
       /\ last' = IF p = "setFirst" THEN new[w] ELSE last
       /\ next' = IF p = "setFirst" THEN next ELSE [next EXCEPT ![last] = new[w]]
  <2>1. CASE p = "setFirst"
    BY <2>1, <1>2, <1>9 DEF SetFirst, LinkNext, At
  <2>2. CASE p = "linkNext"
    <3>1. last \in live
      BY <2>2, <1>5, <1>6, <1>7, <1>8
    <3> QED
      BY <3>1, <2>2, <1>2, <1>9 DEF SetFirst, LinkNext, At, Deref
  <2> QED
    BY <2>1, <2>2
<1>11. /\ Len(sent') = Len(sent) + 1 /\ sent' \in Seq(Nat)
       /\ \A k \in 1 .. Len(sent) : sent'[k] = sent[k]
       /\ sent'[Len(sent) + 1] = i[w]
  BY <1>1, <1>10 DEF Typed, Data
<1>12. l \in Inside /\ l \in WriterLabels
  BY <1>9 DEF Inside, WriterLabels, AddLabels
<1>13. Typed'
  <2>1. Data'
    BY <1>1, <1>4, <1>5, <1>10, <1>11 DEF Typed, Data, Ptr
  <2>2. Labels'
    BY <1>10, <1>12, WriterGoes DEF Typed
  <2> QED
    BY <2>1, <2>2 DEF Typed
<1>14. /\ ~Unlinked(w)' /\ \A v \in Writers \ {w} : Unlinked(v)' <=> Unlinked(v)
       /\ \A r \in Readers : Taken(r)' <=> Taken(r)
  BY <1>1, <1>9, <1>10 DEF Typed, Labels, Goto, Unlinked, Taken, AllocFirst, Threads, Callers
<1>15. Private'
  <2>1. \A v \in Writers : Unlinked(v)' => new[v] \notin OnList(at, p)
    BY <1>3, <1>14 DEF Coherent, Linked
  <2>2. \A v \in Writers : Unlinked(v)' => next'[new[v]] = next[new[v]]
    <3>1. p = "linkNext" => last \in OnList(at, p)
      BY <1>2, <1>5, <1>7, <1>8 DEF OnList
    <3>2. ASSUME NEW v \in Writers, Unlinked(v)' PROVE next'[new[v]] = next[new[v]]
      <4>1. new[v] \in Cells
        BY <3>2, <1>5, <1>14 DEF Private
      <4>2. CASE p = "setFirst"
        BY <4>2, <1>10
      <4>3. CASE p = "linkNext"
        BY <4>1, <4>3, <3>1, <3>2, <2>1, <1>10 DEF Typed, Data
      <4> QED
        BY <4>2, <4>3
    <3> QED
      BY <3>2
  <2> QED
    BY <2>2, <1>10, <1>14 DEF Private
<1>16. PICK at2 : at2 = [k \in 1 .. Len(sent) + 1 |->
                           IF k = Len(sent) + 1 THEN new[w] ELSE at[k]]
  OBVIOUS
<1>17. /\ at2[Len(sent) + 1] = new[w]
       /\ \A k \in Len(delivered) + 1 .. Len(sent) : at2[k] = at[k]
  BY <1>5, <1>16
<1>18. Removed(l)' = Len(delivered)
  BY <1>9, <1>10 DEF Removed
<1>19. OnList(at2, l)' = OnList(at, p) \union {new[w]}
  <2>1. Len(delivered) + 1 .. Len(sent) + 1
          = (Len(delivered) + 1 .. Len(sent)) \union {Len(sent) + 1}
    BY <1>5
  <2> QED
    BY <2>1, <1>5, <1>11, <1>17, <1>18 DEF OnList
<1>20. Linked(at2, l)'
  <2>1. /\ Removed(l)' \in 0 .. Len(sent') /\ Removed(l)' < Len(sent')
        /\ Removed(l)' = Len(delivered) /\ Len(sent') = Len(sent) + 1
    BY <1>5, <1>11, <1>18
  <2>2. ASSUME NEW k \in Len(delivered) + 1 .. Len(sent) + 1
        PROVE  /\ at2[k] \in live' /\ val'[at2[k]] = sent'[k]
               /\ next'[at2[k]] = IF k = Len(sent) + 1 THEN NULL ELSE at2[k + 1]
    <3>1. CASE k = Len(sent) + 1
      <4>1. next'[new[w]] = NULL
        <5>1. CASE p = "setFirst"
          BY <5>1, <1>4, <1>10
        <5>2. CASE p = "linkNext"
          <6>1. last # new[w]
            BY <5>2, <1>2, <1>5, <1>6, <1>7, <1>8
          <6> QED
            BY <5>2, <6>1, <1>4, <1>5, <1>10 DEF Typed, Data
        <5> QED
          BY <5>1, <5>2
      <4> QED
        BY <4>1, <3>1, <1>4, <1>10, <1>11, <1>17
    <3>2. CASE k = Len(sent)
      <4>1. Len(delivered) < Len(sent) /\ p = "linkNext" /\ last = at[k] /\ at2[k] = at[k]
        BY <3>2, <2>2, <1>2, <1>5, <1>7, <1>8, <1>17
      <4>2. next'[at[k]] = new[w]
        BY <4>1, <3>2, <2>2, <1>5, <1>6, <1>10 DEF Typed, Data
      <4> QED
        BY <4>1, <4>2, <3>2, <2>2, <1>5, <1>6, <1>10, <1>11, <1>17
    <3>3. CASE k < Len(sent)
      <4>1. /\ k \in Len(delivered) + 1 .. Len(sent) /\ k + 1 \in Len(delivered) + 1 .. Len(sent)
            /\ k \in 1 .. Len(sent)
            /\ p = "linkNext" /\ last = at[Len(sent)] /\ at[k] # last
        BY <3>3, <2>2, <1>2, <1>5, <1>7, <1>8
      <4>2. next'[at[k]] = next[at[k]]
        BY <4>1, <1>5, <1>6, <1>10 DEF Typed, Data
      <4> QED
        BY <4>1, <4>2, <3>3, <1>5, <1>6, <1>10, <1>11, <1>17
    <3> QED
      BY <3>1, <3>2, <3>3, <1>5
  <2>3. \A j, k \in Len(delivered) + 1 .. Len(sent) + 1 : at2[j] = at2[k] => j = k
    <3>1. \A k \in Len(delivered) + 1 .. Len(sent) + 1 :
            k = Len(sent) + 1 \/ k \in Len(delivered) + 1 .. Len(sent)
      BY <1>5
    <3> QED
      BY <3>1, <1>6, <1>7, <1>17
  <2>4. first' = at2[Len(delivered) + 1]
    BY <1>5, <1>7, <1>8, <1>10, <1>17
  <2>5. /\ l = "moveLast" => Len(delivered) < Len(sent) /\ last' = at2[Len(sent)]
        /\ l # "moveLast" => last' = at2[Len(sent) + 1]
    BY <1>2, <1>5, <1>7, <1>8, <1>9, <1>10, <1>17
  <2>6. /\ \A v \in Writers : Unlinked(v)' => new'[v] \notin OnList(at2, l)'
        /\ \A r \in Readers : Taken(r)' => tmp'[r] \notin OnList(at2, l)'
    BY <1>3, <1>4, <1>10, <1>14, <1>19 DEF Private, Coherent, Linked
  <2> QED
    BY <2>1, <2>2, <2>3, <2>4, <2>5, <2>6 DEF Linked
<1>21. Counted(l)'
  BY <1>1, <1>2, <1>3, <1>5, <1>9, <1>10, <1>11 DEF Coherent, Counted, Size
<1>22. Accounted(at2, l)'
  BY <1>3, <1>10, <1>14, <1>19 DEF Coherent, Accounted
<1>23. Task(w)'
  BY <1>1, <1>5, <1>9, <1>10, <1>11 DEF Typed, Labels, Goto, Task, Size
<1> QED
  BY <1>1, <1>2, <1>3, <1>10, <1>12, <1>13, <1>15, <1>20, <1>21, <1>22, <1>23, HolderStep
  DEF Coherent

(* q->last = q->last->next catches up with the node that was linked. *)
LEMMA LastMoves ==
  ASSUME Typed, Exclusion, Private, NEW at, ListInv(at), NEW w \in Writers,
         UNCHANGED <<depth, program>>, MoveLast(w)
  PROVE  Inv'
PROOF
<1> USE DEF shared, heap, locals, client, history
<1>1. /\ w \in Threads /\ w \notin Readers /\ w # Monitor
      /\ MaxCount \in Nat \ {0} /\ NULL \notin Cells
  BY QueueAssumption, LockedAssumption DEF Threads, Callers
<1>2. pc[w] = "moveLast" /\ At(w, "moveLast") /\ "moveLast" \in Inside
  BY DEF MoveLast, At, Inside, AddLabels
<1>3. Coherent(at, "moveLast") /\ Task(w)
  BY <1>1, <1>2 DEF Exclusion, ListInv
<1>4. /\ Len(sent) \in Nat /\ Len(delivered) \in Nat
      /\ Len(delivered) <= Len(sent) - 1 /\ Removed("moveLast") = Len(delivered)
  BY <1>2, <1>3 DEF Typed, Data, Task, Size, Removed
<1>5. last \in live /\ last = at[Len(sent) - 1] /\ next[last] = at[Len(sent)]
  <2>1. Len(delivered) < Len(sent) /\ Len(delivered) < Len(sent) - 1
    <3>1. Removed("moveLast") # Len(sent)
      BY <1>4
    <3> QED
      BY <3>1, <1>3, <1>4 DEF Coherent, Linked
  <2> QED
    BY <2>1, <1>3, <1>4 DEF Coherent, Linked
<1>6. /\ last' = next[last] /\ Goto(w, "loadInc")
      /\ UNCHANGED <<first, count, add_count, get_count, val, next, live, new, tmp, got,
                     nxt, reg, i, sent, delivered, fault>>
  BY <1>5 DEF MoveLast, Deref
<1>7. "loadInc" \in Inside /\ "loadInc" \in WriterLabels
  BY DEF Inside, WriterLabels, AddLabels
<1>8. Typed'
  <2>1. Data'
    BY <1>6 DEF Typed, Data, Ptr
  <2>2. Labels'
    BY <1>6, <1>7, WriterGoes DEF Typed
  <2> QED
    BY <2>1, <2>2 DEF Typed
<1>9. /\ \A v \in Writers : Unlinked(v)' <=> Unlinked(v)
      /\ \A r \in Readers : Taken(r)' <=> Taken(r)
  BY <1>1, <1>2, <1>6 DEF Typed, Labels, Goto, Unlinked, Taken, AllocFirst, Threads, Callers
<1>10. Private'
  BY <1>6, <1>9 DEF Private
<1>11. Removed("loadInc")' = Len(delivered) /\ OnList(at, "loadInc")' = OnList(at, "moveLast")
  BY <1>4, <1>6 DEF Removed, OnList
<1>12. Linked(at, "loadInc")'
  BY <1>3, <1>4, <1>5, <1>6, <1>9, <1>11 DEF Coherent, Linked
<1>13. Counted("loadInc")' /\ Accounted(at, "loadInc")'
  BY <1>3, <1>6, <1>9, <1>11 DEF Coherent, Counted, Size, Accounted
<1>14. Task(w)'
  BY <1>1, <1>6 DEF Typed, Labels, Goto, Task
<1> QED
  BY <1>1, <1>2, <1>6, <1>7, <1>8, <1>10, <1>12, <1>13, <1>14, HolderStep DEF Coherent

(* *val = tmp->val: the oldest value leaves. *)
LEMMA ValueRead ==
  ASSUME Typed, Exclusion, Private, NEW at, ListInv(at), NEW r \in Readers,
         UNCHANGED <<depth, program>>, ReadVal(r)
  PROVE  /\ Inv' /\ Size > 0
         /\ delivered' = Append(delivered, sent[Len(delivered) + 1])
         /\ got' = [got EXCEPT ![r] = sent[Len(delivered) + 1]]
PROOF
<1> USE DEF shared, heap, locals, client, history
<1>1. /\ r \in Threads /\ r \notin Writers /\ r # Monitor
      /\ MaxCount \in Nat \ {0} /\ NULL \notin Cells
  BY QueueAssumption, LockedAssumption DEF Threads, Callers
<1>2. pc[r] = "readVal" /\ At(r, "readVal") /\ "readVal" \in Inside
  BY DEF ReadVal, At, Inside, GetLabels
<1>3. Coherent(at, "readVal") /\ Task(r)
  BY <1>1, <1>2 DEF Exclusion, ListInv
<1>4. /\ Len(sent) \in Nat /\ Len(delivered) \in Nat /\ Len(delivered) < Len(sent)
      /\ Removed("readVal") = Len(delivered) /\ Size > 0
  BY <1>2, <1>3 DEF Typed, Data, Coherent, Linked, Task, Size, Removed
<1>5. /\ tmp[r] = first /\ first = at[Len(delivered) + 1] /\ first \in live
      /\ val[first] = sent[Len(delivered) + 1]
  BY <1>2, <1>3, <1>4 DEF Coherent, Linked, Task
<1>6. /\ delivered' = Append(delivered, sent[Len(delivered) + 1])
      /\ got' = [got EXCEPT ![r] = sent[Len(delivered) + 1]] /\ Goto(r, "loadNext")
      /\ UNCHANGED <<first, last, count, add_count, get_count, val, next, live, new, tmp,
                     nxt, reg, i, sent, fault>>
  BY <1>5 DEF ReadVal, Deref
<1>7. "loadNext" \in Inside /\ "loadNext" \in ReaderLabels
  BY DEF Inside, ReaderLabels, GetLabels
<1>8. sent[Len(delivered) + 1] \in Nat
  BY <1>4 DEF Typed, Data
<1>9. Len(delivered') = Len(delivered) + 1 /\ delivered' \in Seq(Nat)
  BY <1>6, <1>8 DEF Typed, Data
<1>10. Typed'
  <2>1. Data'
    BY <1>6, <1>8, <1>9 DEF Typed, Data
  <2>2. Labels'
    BY <1>6, <1>7, ReaderGoes DEF Typed
  <2> QED
    BY <2>1, <2>2 DEF Typed
<1>11. /\ \A v \in Writers : Unlinked(v)' <=> Unlinked(v)
       /\ \A q \in Readers : Taken(q)' <=> Taken(q)
  BY <1>1, <1>2, <1>6 DEF Typed, Labels, Goto, Unlinked, Taken, AllocFirst, Threads, Callers
<1>12. Private'
  BY <1>6, <1>11 DEF Private
<1>13. /\ Removed("loadNext")' = Len(delivered)
       /\ OnList(at, "loadNext")' = OnList(at, "readVal")
  BY <1>4, <1>6, <1>9 DEF Removed, OnList
<1>14. Linked(at, "loadNext")'
  BY <1>3, <1>4, <1>6, <1>11, <1>13 DEF Coherent, Linked
<1>15. Counted("loadNext")' /\ Accounted(at, "loadNext")'
  <2>1. Size' = Size - 1 /\ Size' \in 0 .. MaxCount
    BY <1>1, <1>3, <1>4, <1>6, <1>9 DEF Coherent, Counted, Size
  <2>2. Counted("loadNext")'
    BY <2>1, <1>3, <1>4, <1>6 DEF Coherent, Counted, Size
  <2>3. Accounted(at, "loadNext")'
    BY <1>3, <1>6, <1>11, <1>13 DEF Coherent, Accounted
  <2> QED
    BY <2>2, <2>3
<1>16. Task(r)'
  BY <1>1, <1>5, <1>6 DEF Typed, Labels, Goto, Task
<1> QED
  BY <1>1, <1>2, <1>4, <1>6, <1>7, <1>10, <1>12, <1>14, <1>15, <1>16, HolderStep
  DEF Coherent

(* q->first = q->first->next, the store: the oldest node leaves. *)
LEMMA FirstMoves ==
  ASSUME Typed, Exclusion, Private, NEW at, ListInv(at), NEW r \in Readers, NEW l,
         l = (IF AllocFirst THEN "loadDec" ELSE "freeTmp"),
         UNCHANGED <<depth, program>>, StoreFirst(r, l)
  PROVE  Inv'
PROOF
<1> USE DEF shared, heap, locals, client, history
<1>1. /\ r \in Threads /\ r \notin Writers /\ r # Monitor
      /\ MaxCount \in Nat \ {0} /\ NULL \notin Cells
  BY QueueAssumption, LockedAssumption DEF Threads, Callers
<1>2. pc[r] = "storeFirst" /\ At(r, "storeFirst") /\ "storeFirst" \in Inside
  BY DEF StoreFirst, At, Inside, GetLabels
<1>3. Coherent(at, "storeFirst") /\ Task(r)
  BY <1>1, <1>2 DEF Exclusion, ListInv
<1>4. /\ Len(sent) \in Nat /\ Len(delivered) \in Nat \ {0}
      /\ Len(delivered) <= Len(sent) /\ Removed("storeFirst") = Len(delivered) - 1
  BY <1>3 DEF Typed, Data, Coherent, Linked, Counted, Size, Removed
<1>5. /\ tmp[r] = first /\ first = at[Len(delivered)] /\ first \in live
      /\ nxt[r] = IF Len(delivered) = Len(sent) THEN NULL ELSE at[Len(delivered) + 1]
  BY <1>2, <1>3, <1>4 DEF Coherent, Linked, Task
<1>6. /\ first' = nxt[r] /\ Goto(r, l)
      /\ UNCHANGED <<last, count, add_count, get_count, val, next, live, new, tmp, got,
                     nxt, reg, i, sent, delivered, fault>>
  BY DEF StoreFirst
<1>7. l \in Inside /\ l \in ReaderLabels /\ l \notin {"loadNext", "storeFirst", "moveLast"}
  BY DEF Inside, ReaderLabels, GetLabels
<1>8. Typed'
  <2>1. Data'
    BY <1>6 DEF Typed, Data
  <2>2. Labels'
    BY <1>6, <1>7, ReaderGoes DEF Typed
  <2> QED
    BY <2>1, <2>2 DEF Typed
<1>9. /\ \A v \in Writers : Unlinked(v)' <=> Unlinked(v)
      /\ \A q \in Readers \ {r} : Taken(q)' <=> Taken(q)
      /\ Taken(r)' /\ ~Taken(r)
  BY <1>1, <1>2, <1>6 DEF Typed, Labels, Goto, Unlinked, Taken, AllocFirst, Threads, Callers
<1>10. /\ Removed(l)' = Len(delivered)
       /\ OnList(at, "storeFirst") = OnList(at, l)' \union {first}
       /\ first \notin OnList(at, l)'
  <2>1. Removed(l)' = Len(delivered)
    BY <1>6, <1>7 DEF Removed
  <2>2. Len(delivered) .. Len(sent) = (Len(delivered) + 1 .. Len(sent)) \union {Len(delivered)}
    BY <1>4
  <2>3. OnList(at, "storeFirst") = OnList(at, l)' \union {first}
    BY <2>1, <2>2, <1>4, <1>5, <1>6 DEF OnList
  <2>4. ASSUME NEW k \in Len(delivered) + 1 .. Len(sent) PROVE at[k] # first
    <3>1. /\ k \in Len(delivered) .. Len(sent) /\ Len(delivered) \in Len(delivered) .. Len(sent)
          /\ k # Len(delivered)
      BY <1>4
    <3> QED
      BY <3>1, <1>3, <1>4, <1>5 DEF Coherent, Linked
  <2> QED
    BY <2>1, <2>3, <2>4, <1>6 DEF OnList
<1>11. Private'
  <2>1. first \in OnList(at, "storeFirst")
    BY <1>10
  <2>2. /\ \A v \in Writers : Unlinked(v) => new[v] # first
        /\ \A q \in Readers : Taken(q) => tmp[q] # first
    BY <2>1, <1>3 DEF Coherent, Linked
  <2> QED
    BY <2>2, <1>5, <1>6, <1>9 DEF Private
<1>12. Linked(at, l)'
  <2>1. /\ Removed(l)' \in 0 .. Len(sent')
        /\ Removed(l)' < Len(sent') => last' = at[Len(sent')]
    BY <1>3, <1>4, <1>6, <1>10 DEF Coherent, Linked
  <2>2. /\ \A k \in Len(delivered) + 1 .. Len(sent) :
             /\ at[k] \in live /\ val[at[k]] = sent[k]
             /\ next[at[k]] = IF k = Len(sent) THEN NULL ELSE at[k + 1]
        /\ \A j, k \in Len(delivered) + 1 .. Len(sent) : at[j] = at[k] => j = k
    <3>1. Removed("storeFirst") + 1 = Len(delivered)
      BY <1>4
    <3>2. \A k \in Len(delivered) + 1 .. Len(sent) : k \in Len(delivered) .. Len(sent)
      BY <1>4
    <3> QED
      BY <3>1, <3>2, <1>3 DEF Coherent, Linked
  <2>3. /\ \A v \in Writers : Unlinked(v)' => new'[v] \notin OnList(at, l)'
        /\ \A q \in Readers : Taken(q)' => tmp'[q] \notin OnList(at, l)'
    BY <1>3, <1>5, <1>6, <1>9, <1>10 DEF Coherent, Linked
  <2> QED
    BY <2>1, <2>2, <2>3, <1>5, <1>6, <1>7, <1>10 DEF Linked
<1>13. Counted(l)'
  BY <1>3, <1>6 DEF Coherent, Counted, Size
<1>14. Accounted(at, l)'
  BY <1>3, <1>5, <1>6, <1>9, <1>10 DEF Coherent, Accounted
<1>15. Task(r)'
  BY <1>1, <1>6 DEF Typed, Labels, Goto, Task
<1> QED
  BY <1>1, <1>2, <1>6, <1>7, <1>8, <1>11, <1>12, <1>13, <1>14, <1>15, HolderStep
  DEF Coherent

-----------------------------------------------------------------------------
(* A node that malloc gives out is on no list and in nobody's hands. *)
LEMMA NodeGiven ==
  ASSUME Typed, Private, NEW w \in Writers, NEW c \in Cells \ live,
         live' = live \union {c}, val' = [val EXCEPT ![c] = i[w]],
         next' = [next EXCEPT ![c] = NULL], new' = [new EXCEPT ![w] = c],
         UNCHANGED <<first, last, sent, delivered, program, tmp, i>>,
         Unlinked(w)', ~Unlinked(w),
         \A v \in Writers \ {w} : Unlinked(v)' <=> Unlinked(v),
         \A r \in Readers : Taken(r)' <=> Taken(r),
         NEW at, NEW p, NEW l, SameLag(p, l)
  PROVE  /\ Private'
         /\ Linked(at, p) => Linked(at, l)'
         /\ Accounted(at, p) => Accounted(at, l)'
PROOF
<1>1. /\ new'[w] = c /\ val'[c] = i[w] /\ next'[c] = NULL
      /\ \A v \in Writers \ {w} : new'[v] = new[v]
      /\ \A x \in live : val'[x] = val[x] /\ next'[x] = next[x] /\ x # c
  BY DEF Typed, Data
<1>2. Removed(l)' = Removed(p) /\ OnList(at, l)' = OnList(at, p)
  BY DEF SameLag, Removed, OnList
<1>3. Private'
  BY <1>1 DEF Private
<1>4. ASSUME Linked(at, p) PROVE Linked(at, l)'
  <2>1. c \notin OnList(at, p)
    BY <1>4 DEF Linked, OnList
  <2>2. /\ \A v \in Writers : Unlinked(v)' => new'[v] \notin OnList(at, l)'
        /\ \A r \in Readers : Taken(r)' => tmp'[r] \notin OnList(at, l)'
    BY <2>1, <1>1, <1>2, <1>4 DEF Linked
  <2>3. \A k \in Removed(p) + 1 .. Len(sent) :
          /\ at[k] \in live' /\ val'[at[k]] = sent[k]
          /\ next'[at[k]] = IF k = Len(sent) THEN NULL ELSE at[k + 1]
    BY <1>1, <1>4 DEF Linked
  <2> QED
    BY <2>2, <2>3, <1>2, <1>4 DEF Linked, SameLag
<1>5. Accounted(at, p) => Accounted(at, l)'
  BY <1>1, <1>2 DEF Accounted
<1> QED
  BY <1>3, <1>4, <1>5

(* A node in private hands can be freed without the list noticing. *)
LEMMA NodeFreed ==
  ASSUME Private, NEW c, live' = live \ {c},
         UNCHANGED <<first, last, val, next, sent, delivered, program, new, tmp, i>>,
         \A v \in Writers : Unlinked(v)' <=> Unlinked(v) /\ new[v] # c,
         \A r \in Readers : Taken(r)' <=> Taken(r) /\ tmp[r] # c,
         \/ \E v \in Writers : Unlinked(v) /\ new[v] = c
         \/ \E r \in Readers : Taken(r) /\ tmp[r] = c,
         NEW at, NEW p, NEW l, SameLag(p, l)
  PROVE  /\ Private'
         /\ Linked(at, p) => Linked(at, l)'
         /\ Accounted(at, p) => Accounted(at, l)'
PROOF
<1>1. Removed(l)' = Removed(p) /\ OnList(at, l)' = OnList(at, p)
  BY DEF SameLag, Removed, OnList
<1>2. Private'
  BY DEF Private
<1>3. ASSUME Linked(at, p) PROVE Linked(at, l)'
  <2>1. c \notin OnList(at, p)
    BY <1>3 DEF Linked
  <2>2. \A k \in Removed(p) + 1 .. Len(sent) : at[k] \in live'
    BY <2>1, <1>3 DEF Linked, OnList
  <2> QED
    BY <2>2, <1>1, <1>3 DEF Linked, SameLag
<1>4. Accounted(at, p) => Accounted(at, l)'
  BY <1>1 DEF Accounted
<1> QED
  BY <1>2, <1>3, <1>4

(* A step outside the lock. *)
LEMMA OutsideStep ==
  ASSUME Typed, Exclusion, NEW at, ListInv(at), NEW t \in Threads, NEW l,
         pc[t] \notin Inside, l \notin Inside, Goto(t, l),
         UNCHANGED <<depth, program, first, count, add_count, get_count,
                     sent, delivered, tmp, nxt, reg>>,
         \A x \in live : next'[x] = next[x],
         Typed', Private',
         \A p : Linked(at, p) => Linked(at, p)',
         \A p : Accounted(at, p) => Accounted(at, p)'
  PROVE  Inv'
PROOF
<1>1. /\ Exclusion' /\ depth[t] = 0
      /\ \A u \in Threads \ {t} : depth'[u] = depth[u] /\ pc'[u] = pc[u]
  BY StaysOutside
<1>2. \A p : Coherent(at, p) => Coherent(at, p)'
  BY DEF Coherent, Counted, Size
<1>3. ASSUME NEW u \in Threads \ {t}, Coherent(at, pc[u]), Task(u) PROVE Task(u)'
  <2>1. CASE pc[u] = "storeFirst"
    <3>1. first \in live
      <4>1. Len(sent) \in Nat /\ Len(delivered) \in Nat /\ Len(delivered) <= Len(sent)
        BY <1>3 DEF Typed, Data, Coherent, Counted, Size
      <4>2. Removed("storeFirst") = Len(delivered) - 1 /\ Removed("storeFirst") < Len(sent)
        BY <4>1 DEF Removed
      <4> QED
        BY <2>1, <4>1, <4>2, <1>3 DEF Coherent, Linked
    <3> QED
      BY <2>1, <3>1, <1>1, <1>3 DEF Task, Size
  <2>2. CASE pc[u] # "storeFirst"
    BY <2>2, <1>1, <1>3 DEF Task, Size
  <2> QED
    BY <2>1, <2>2
<1>4. ListInv(at)'
  <2>1. ASSUME \A u \in Threads : depth'[u] = 0 PROVE Coherent(at, "monitor")'
    BY <2>1, <1>2 DEF ListInv
  <2>2. ASSUME NEW u \in Threads, depth'[u] = 1 PROVE Coherent(at, pc[u])' /\ Task(u)'
    <3>1. u # t /\ depth[u] = 1 /\ pc'[u] = pc[u]
      BY <2>2, <1>1
    <3>2. Coherent(at, pc[u]) /\ Task(u)
      BY <3>1 DEF ListInv
    <3>3. Coherent(at, pc[u])'
      <4> PICK p : p = pc[u]
        OBVIOUS
      <4> QED
        BY <3>1, <3>2, <1>2
    <3> QED
      BY <3>1, <3>2, <3>3, <1>3
  <2> QED
    BY <2>1, <2>2 DEF ListInv
<1> QED
  BY <1>1, <1>4 DEF Inv

(* malloc in queue_add, before or under the lock. *)
LEMMA Allocates ==
  ASSUME Typed, Exclusion, Private, NEW at, ListInv(at), NEW w \in Writers, NEW l,
         l = (IF AllocFirst THEN "lockAdd" ELSE "testFirst"),
         UNCHANGED <<depth, program>>, AllocNew(w, l)
  PROVE  Inv'
PROOF
<1> USE DEF shared, heap, locals, client, history
<1>1. w \in Threads /\ w \notin Readers /\ w # Monitor
  BY QueueAssumption, LockedAssumption DEF Threads, Callers
<1>2. pc[w] = "alloc" /\ At(w, pc[w]) /\ ~Unlinked(w)
  BY DEF AllocNew, At, Unlinked
<1>3. CASE UNCHANGED <<shared, heap, locals, client, history, pc>> /\ fault' = "oom"
  <2>1. Typed'
    BY <1>3 DEF Typed, Data, Labels
  <2>2. Private' /\ Exclusion'
    BY <1>3 DEF Private, Exclusion, Unlinked, Taken, Inside, AllocFirst
  <2>3. ListInv(at)'
    BY <1>3 DEF ListInv, Coherent, Linked, Counted, Accounted, Task, OnList, Removed,
       Size, Unlinked, Taken, AllocFirst
  <2> QED
    BY <2>1, <2>2, <2>3 DEF Inv
<1>4. ASSUME NEW c \in Cells \ live,
             live' = live \union {c}, val' = [val EXCEPT ![c] = i[w]],
             next' = [next EXCEPT ![c] = NULL], new' = [new EXCEPT ![w] = c],
             Goto(w, l), UNCHANGED <<shared, tmp, got, nxt, reg, client, history, fault>>
      PROVE  Inv'
  <2>1. Typed'
    <3>1. Data'
      BY <1>4 DEF Typed, Data, Ptr
    <3>2. Labels'
      BY <1>4, WriterGoes DEF Typed, WriterLabels, AddLabels
    <3> QED
      BY <3>1, <3>2 DEF Typed
  <2>2. Unlinked(w)'
    BY <1>1, <1>4 DEF Typed, Labels, Goto, Unlinked, AllocFirst
  <2>3. /\ \A v \in Writers \ {w} : Unlinked(v)' <=> Unlinked(v)
        /\ \A r \in Readers : Taken(r)' <=> Taken(r)
    BY <1>1, <1>4 DEF Typed, Labels, Goto, Unlinked, Taken, AllocFirst, Threads, Callers
  <2>4. ASSUME NEW p, NEW q, SameLag(p, q)
        PROVE  /\ Private'
               /\ Linked(at, p) => Linked(at, q)'
               /\ Accounted(at, p) => Accounted(at, q)'
    <3>1. UNCHANGED <<first, last, sent, delivered, program, tmp, i>>
      BY <1>4
    <3> HIDE DEF shared, heap, locals, client, history
    <3> QED
      BY <2>2, <2>3, <2>4, <3>1, <1>2, <1>4, NodeGiven
  <2>5. CASE AllocFirst
    <3>1. pc[w] \notin Inside /\ l \notin Inside
      BY <2>5, <1>2 DEF Inside, AddLabels, GetLabels
    <3>2. Private' /\ \A p : (Linked(at, p) => Linked(at, p)')
                            /\ (Accounted(at, p) => Accounted(at, p)')
      BY <2>4 DEF SameLag
    <3>3. \A x \in live : next'[x] = next[x]
      BY <1>4 DEF Typed, Data
    <3>4. UNCHANGED <<depth, program, first, count, add_count, get_count,
                      sent, delivered, tmp, nxt, reg>>
      BY <1>4
    <3> HIDE DEF shared, heap, locals, client, history
    <3> QED
      BY <3>1, <3>2, <3>3, <3>4, <2>1, <1>1, <1>4, OutsideStep
  <2>6. CASE ~AllocFirst
    <3>1. "alloc" \in Inside /\ l = "testFirst" /\ l \in Inside
      BY <2>6 DEF Inside, AddLabels
    <3>2. Coherent(at, "alloc") /\ Task(w)
      BY <3>1, <1>1, <1>2 DEF Exclusion, ListInv
    <3>3. Private' /\ Linked(at, l)' /\ Accounted(at, l)'
      BY <3>1, <3>2, <2>4 DEF SameLag, Coherent
    <3>4. Counted(l)'
      BY <3>1, <3>2, <1>4 DEF Coherent, Counted, Size
    <3>5. Task(w)'
      BY <3>1, <3>2, <1>1, <1>2, <1>4 DEF Typed, Labels, Goto, Task, Size
    <3> QED
      BY <3>1, <3>3, <3>4, <3>5, <2>1, <1>1, <1>2, <1>4, HolderStep DEF Coherent
  <2> QED
    BY <2>5, <2>6
<1>5. \/ UNCHANGED <<shared, heap, locals, client, history, pc>> /\ fault' = "oom"
      \/ \E c \in Cells \ live :
           /\ live' = live \union {c} /\ val' = [val EXCEPT ![c] = i[w]]
           /\ next' = [next EXCEPT ![c] = NULL] /\ new' = [new EXCEPT ![w] = c]
           /\ Goto(w, l)
           /\ UNCHANGED <<shared, tmp, got, nxt, reg, client, history, fault>>
  BY DEF AllocNew
<1> QED
  BY <1>3, <1>4, <1>5

(* free(tmp) in queue_get, after or under the lock. *)
LEMMA Frees ==
  ASSUME Typed, Exclusion, Private, NEW at, ListInv(at), NEW r \in Readers, NEW l,
         l = (IF AllocFirst THEN "taken" ELSE "loadDec"),
         UNCHANGED <<depth, program>>, FreeTmp(r, l)
  PROVE  Inv'
PROOF
<1> USE DEF shared, heap, locals, client, history
<1>1. r \in Threads /\ r \notin Writers /\ r # Monitor
  BY QueueAssumption, LockedAssumption DEF Threads, Callers
<1>2. pc[r] = "freeTmp" /\ At(r, pc[r]) /\ Taken(r) /\ tmp[r] \in live
  BY DEF FreeTmp, At, Taken, Private
<1>3. /\ live' = live \ {tmp[r]} /\ Goto(r, l)
      /\ UNCHANGED <<shared, val, next, locals, client, history, fault>>
  BY <1>2 DEF FreeTmp, Deref
<1>4. Typed'
  <2>1. Data'
    BY <1>3 DEF Typed, Data
  <2>2. Labels'
    BY <1>3, ReaderGoes DEF Typed, ReaderLabels, GetLabels
  <2> QED
    BY <2>1, <2>2 DEF Typed
<1>5. /\ \A v \in Writers : Unlinked(v)' <=> Unlinked(v) /\ new[v] # tmp[r]
      /\ \A q \in Readers : Taken(q)' <=> Taken(q) /\ tmp[q] # tmp[r]
  <2>1. /\ \A v \in Writers : Unlinked(v)' <=> Unlinked(v)
        /\ \A q \in Readers \ {r} : Taken(q)' <=> Taken(q)
        /\ ~Taken(r)'
    BY <1>1, <1>3 DEF Typed, Labels, Goto, Unlinked, Taken, AllocFirst, Threads, Callers
  <2> QED
    BY <2>1, <1>2 DEF Private
<1>6. ASSUME NEW p, NEW q, SameLag(p, q)
      PROVE  /\ Private'
             /\ Linked(at, p) => Linked(at, q)'
             /\ Accounted(at, p) => Accounted(at, q)'
  <2>1. UNCHANGED <<first, last, val, next, sent, delivered, program, new, tmp, i>>
    BY <1>3
  <2> HIDE DEF shared, heap, locals, client, history
  <2> QED
    BY <2>1, <1>2, <1>3, <1>5, <1>6, NodeFreed
<1>7. CASE AllocFirst
  <2>1. pc[r] \notin Inside /\ l \notin Inside
    BY <1>2, <1>7 DEF Inside, AddLabels, GetLabels
  <2>2. Private' /\ \A p : (Linked(at, p) => Linked(at, p)')
                          /\ (Accounted(at, p) => Accounted(at, p)')
    BY <1>6 DEF SameLag
  <2>3. \A x \in live : next'[x] = next[x]
    BY <1>3
  <2>4. UNCHANGED <<depth, program, first, count, add_count, get_count,
                    sent, delivered, tmp, nxt, reg>>
    BY <1>3
  <2> HIDE DEF shared, heap, locals, client, history
  <2> QED
    BY <2>1, <2>2, <2>3, <2>4, <1>1, <1>3, <1>4, OutsideStep
<1>8. CASE ~AllocFirst
  <2>1. "freeTmp" \in Inside /\ l = "loadDec" /\ l \in Inside
    BY <1>8 DEF Inside, GetLabels
  <2>2. Coherent(at, "freeTmp") /\ Task(r)
    BY <2>1, <1>1, <1>2 DEF Exclusion, ListInv
  <2>3. Private' /\ Linked(at, l)' /\ Accounted(at, l)'
    BY <2>1, <2>2, <1>6 DEF SameLag, Coherent
  <2>4. Counted(l)'
    BY <2>1, <2>2, <1>3 DEF Coherent, Counted, Size
  <2>5. Task(r)'
    BY <2>1, <2>2, <1>1, <1>2, <1>3 DEF Typed, Labels, Goto, Task, Size
  <2> QED
    BY <2>1, <2>3, <2>4, <2>5, <1>1, <1>2, <1>3, <1>4, HolderStep DEF Coherent
<1> QED
  BY <1>7, <1>8

(* free(new) of the spin program. *)
LEMMA FreesNew ==
  ASSUME Typed, Exclusion, Private, NEW at, ListInv(at), NEW w \in Writers,
         AllocFirst, FreeNew(w)
  PROVE  Inv'
PROOF
<1> USE DEF shared, heap, locals, client, history
<1>1. w \in Threads /\ w \notin Readers /\ w # Monitor
  BY QueueAssumption, LockedAssumption DEF Threads, Callers
<1>2. pc[w] = "freeNew" /\ Unlinked(w) /\ new[w] \in live
  BY DEF FreeNew, At, Unlinked, Private
<1>3. /\ live' = live \ {new[w]} /\ Goto(w, "alloc")
      /\ UNCHANGED <<shared, val, next, locals, client, history, fault, depth, program>>
  BY DEF FreeNew
<1>4. Typed'
  <2>1. Data'
    BY <1>3 DEF Typed, Data
  <2>2. Labels'
    BY <1>3, WriterGoes DEF Typed, WriterLabels, AddLabels
  <2> QED
    BY <2>1, <2>2 DEF Typed
<1>5. /\ \A v \in Writers : Unlinked(v)' <=> Unlinked(v) /\ new[v] # new[w]
      /\ \A q \in Readers : Taken(q)' <=> Taken(q) /\ tmp[q] # new[w]
  <2>1. /\ \A v \in Writers \ {w} : Unlinked(v)' <=> Unlinked(v)
        /\ \A q \in Readers : Taken(q)' <=> Taken(q)
        /\ ~Unlinked(w)'
    BY <1>1, <1>3 DEF Typed, Labels, Goto, Unlinked, Taken, AllocFirst, Threads, Callers
  <2> QED
    BY <2>1, <1>2 DEF Private
<1>6. ASSUME NEW p
      PROVE  /\ Private'
             /\ Linked(at, p) => Linked(at, p)'
             /\ Accounted(at, p) => Accounted(at, p)'
  <2>1. UNCHANGED <<first, last, val, next, sent, delivered, program, new, tmp, i>>
    BY <1>3
  <2>2. SameLag(p, p)
    BY DEF SameLag
  <2> HIDE DEF shared, heap, locals, client, history
  <2> QED
    BY <2>1, <2>2, <1>2, <1>3, <1>5, NodeFreed
<1>7. pc[w] \notin Inside /\ "alloc" \notin Inside
  BY <1>2 DEF Inside, AddLabels, GetLabels
<1>8. /\ \A x \in live : next'[x] = next[x]
      /\ UNCHANGED <<depth, program, first, count, add_count, get_count,
                     sent, delivered, tmp, nxt, reg>>
  BY <1>3
<1> HIDE DEF shared, heap, locals, client, history
<1> QED
  BY <1>1, <1>3, <1>4, <1>6, <1>7, <1>8, OutsideStep

(* The loops of reader() and writer() around the calls. *)
LEMMA Returns ==
  ASSUME Typed, Exclusion, Private, NEW at, ListInv(at), UNCHANGED <<depth, program>>,
         \/ \E w \in Writers : AddReturned(w, AddStart)
         \/ \E r \in Readers : GetReturned(r, GetStart)
  PROVE  Inv'
PROOF
<1> USE DEF shared, heap, locals, client, history
<1>1. PICK t, l :
        /\ t \in Callers
        /\ pc[t] \in {"added", "taken"} /\ pc[t] \notin Inside /\ l \notin Inside
        /\ Goto(t, l)
        /\ UNCHANGED <<shared, heap, locals, history, fault>>
        /\ \/ t \in Writers /\ l \in {AddStart, "stop"} /\ i' = [i EXCEPT ![t] = @ + 1]
              /\ pc[t] = "added"
           \/ t \in Readers /\ l = GetStart /\ i' = i /\ pc[t] = "taken"
  <2>1. CASE \E w \in Writers : AddReturned(w, AddStart)
    <3>1. PICK w \in Writers : AddReturned(w, AddStart)
      BY <2>1
    <3>2. /\ Goto(w, IF i'[w] < MaxVal THEN AddStart ELSE "stop")
          /\ pc[w] = "added" /\ i' = [i EXCEPT ![w] = @ + 1]
          /\ UNCHANGED <<shared, heap, locals, history, fault>>
      BY <3>1 DEF AddReturned, At
    <3>3. "added" \notin Inside /\ AddStart \notin Inside /\ "stop" \notin Inside
      BY DEF Inside, AddLabels, GetLabels, AddStart
    <3>4. CASE i'[w] < MaxVal
      BY <3>2, <3>3, <3>4 DEF Callers
    <3>5. CASE ~(i'[w] < MaxVal)
      BY <3>2, <3>3, <3>5 DEF Callers
    <3> QED
      BY <3>4, <3>5
  <2>2. CASE \E r \in Readers : GetReturned(r, GetStart)
    BY <2>2 DEF GetReturned, At, Inside, AddLabels, GetLabels, GetStart, Callers
  <2> QED
    BY <2>1, <2>2
<1>2. t \in Threads /\ ~(t \in Writers /\ t \in Readers) /\ t # Monitor
  BY <1>1, QueueAssumption, LockedAssumption DEF Threads, Callers
<1>3. Typed'
  <2>1. Data'
    BY <1>1 DEF Typed, Data
  <2>2. Labels'
    BY <1>1, WriterGoes, ReaderGoes DEF Typed, WriterLabels, ReaderLabels, AddLabels,
       GetLabels, AddStart, GetStart
  <2> QED
    BY <2>1, <2>2 DEF Typed
<1>4. /\ \A v \in Writers : Unlinked(v)' <=> Unlinked(v)
      /\ \A q \in Readers : Taken(q)' <=> Taken(q)
      /\ \A v \in Writers : Unlinked(v) => i'[v] = i[v]
  <2>1. CASE t \in Writers
    <3>1. ~Unlinked(t) /\ l \in {"alloc", "lockAdd", "stop"} /\ (AllocFirst => l # "lockAdd")
      BY <2>1, <1>1, <1>2 DEF Unlinked, AddStart
    <3>2. ~Unlinked(t)'
      BY <3>1, <1>1, <1>2 DEF Typed, Labels, Goto, Unlinked, AllocFirst
    <3> QED
      BY <2>1, <3>1, <3>2, <1>1, <1>2 DEF Typed, Data, Labels, Goto, Unlinked, Taken,
         AllocFirst, Threads, Callers
  <2>2. CASE t \in Readers
    <3>1. ~Taken(t) /\ l = "lockGet" /\ i' = i
      BY <2>2, <1>1, <1>2 DEF Taken, GetStart
    <3>2. ~Taken(t)'
      BY <3>1, <1>1, <1>2 DEF Typed, Labels, Goto, Taken, AllocFirst
    <3> QED
      BY <2>2, <3>1, <3>2, <1>1, <1>2 DEF Typed, Labels, Goto, Unlinked, Taken,
         AllocFirst, Threads, Callers
  <2> QED
    BY <1>1, <2>1, <2>2 DEF Callers
<1>5. Keeps
  BY <1>1, <1>4 DEF Keeps
<1>6. ASSUME NEW p
      PROVE  /\ Private'
             /\ Linked(at, p) => Linked(at, p)'
             /\ Accounted(at, p) => Accounted(at, p)'
  BY <1>5, ListKept DEF SameLag
<1>7. /\ \A x \in live : next'[x] = next[x]
      /\ UNCHANGED <<depth, program, first, count, add_count, get_count,
                     sent, delivered, tmp, nxt, reg>>
  BY <1>1
<1> HIDE DEF shared, heap, locals, client, history
<1> QED
  BY <1>1, <1>2, <1>3, <1>6, <1>7, OutsideStep

(* Taking the lock: what was true of the list with nobody inside is true   *)
(* for the thread that comes in.                                           *)
LEMMA Enters ==
  ASSUME Typed, Exclusion, Private, NEW at, ListInv(at), NEW t \in Threads, NEW k, NEW l,
         Acquire(t, k, l),
         \/ t \in Writers /\ k = "lockAdd" /\ l = "assertAdd"
         \/ t \in Readers /\ k = "lockGet" /\ l = "assertGet"
         \/ t = Monitor /\ k = "monitor" /\ l = "printing"
  PROVE  Inv'
PROOF
<1> USE DEF shared, heap, locals, client, history
<1>1. Monitor \notin Callers /\ Readers \cap Writers = {}
  BY QueueAssumption, LockedAssumption
<1>2. /\ pc[t] = k /\ Goto(t, l) /\ \A u \in Threads : depth[u] = 0
      /\ depth' = [depth EXCEPT ![t] = 1]
      /\ UNCHANGED <<shared, heap, locals, client, fault, history, program>>
  BY DEF Acquire, At, Lock!Acquire, Exclusion
<1>3. Typed'
  <2>1. Data'
    BY <1>2 DEF Typed, Data
  <2>2. Labels'
    <3>1. CASE t \in Callers
      BY <3>1, <1>1, <1>2, WriterGoes, ReaderGoes DEF Typed, WriterLabels, ReaderLabels,
         AddLabels, GetLabels, Callers
    <3>2. CASE t = Monitor
      BY <3>2, <1>1, <1>2 DEF Typed, Labels, Goto, MonitorLabels, Threads, Callers
    <3> QED
      BY <3>1, <3>2 DEF Threads
  <2> QED
    BY <2>1, <2>2 DEF Typed
<1>4. l \in Inside /\ k \notin Inside
  BY DEF Inside, AddLabels, GetLabels
<1>5. Exclusion'
  BY <1>2, <1>4 DEF Typed, Labels, Goto, Exclusion, Inside, AllocFirst
<1>6. Keeps
  BY <1>1, <1>2 DEF Keeps, Unlinked, Taken, Typed, Labels, Goto, AllocFirst, Threads,
     Callers
<1>7. Coherent(at, "monitor") /\ SameLag("monitor", l)
  BY <1>2 DEF ListInv, SameLag
<1>8. Private' /\ Linked(at, l)' /\ Accounted(at, l)'
  BY <1>6, <1>7, ListKept DEF Coherent
<1>9. Counted(l)'
  BY <1>2, <1>7 DEF Coherent, Counted, Size
<1>10. pc'[t] = l /\ Task(t)'
  BY <1>2 DEF Typed, Labels, Goto, Task
<1>11. ListInv(at)'
  <2>1. /\ depth'[t] = 1 /\ \A u \in Threads : depth'[u] = 1 => u = t
    BY <1>2 DEF Exclusion
  <2> QED
    BY <2>1, <1>8, <1>9, <1>10 DEF ListInv, Coherent
<1> QED
  BY <1>3, <1>5, <1>8, <1>11 DEF Inv

(* Releasing it. *)
LEMMA Leaves ==
  ASSUME Typed, Exclusion, Private, NEW at, ListInv(at), NEW t \in Threads, NEW k, NEW l,
         Release(t, k, l),
         \/ t \in Writers /\ k = "unlockFull" /\ AllocFirst /\ l = "freeNew"
         \/ t \in Writers /\ k = "unlockFull" /\ program \in {"mutex", "sem"} /\ l = "alloc"
         \/ t \in Writers /\ k = "unlockFull" /\ ~AllocFirst /\ l = "lockAdd"
         \/ t \in Writers /\ k = "unlockAdd" /\ l = "added"
         \/ t \in Readers /\ k = "unlockEmpty" /\ l = "lockGet"
         \/ t \in Readers /\ k = "unlockGet" /\ l = IF AllocFirst THEN "freeTmp" ELSE "taken"
         \/ t = Monitor /\ k = "printing" /\ l = "monitor"
  PROVE  Inv'
PROOF
<1> USE DEF shared, heap, locals, client, history
<1>1. Monitor \notin Callers /\ Readers \cap Writers = {}
  BY QueueAssumption, LockedAssumption
<1>2. /\ pc[t] = k /\ Goto(t, l) /\ depth[t] = 1
      /\ depth' = [depth EXCEPT ![t] = 0]
      /\ \A u \in Threads \ {t} : depth[u] = 0
      /\ UNCHANGED <<shared, heap, locals, client, fault, history, program>>
  <2>1. /\ pc[t] = k /\ Goto(t, l) /\ depth[t] > 0
        /\ depth' = [depth EXCEPT ![t] = @ - 1]
        /\ UNCHANGED <<shared, heap, locals, client, fault, history, program>>
    BY DEF Release, At, Lock!Release
  <2>2. depth[t] = 1
    BY <2>1 DEF Exclusion
  <2> QED
    BY <2>1, <2>2 DEF Exclusion
<1>3. Typed'
  <2>1. Data'
    BY <1>2 DEF Typed, Data
  <2>2. Labels'
    <3>1. CASE t \in Callers
      BY <3>1, <1>1, <1>2, WriterGoes, ReaderGoes DEF Typed, WriterLabels, ReaderLabels,
         AddLabels, GetLabels, Callers
    <3>2. CASE t = Monitor
      BY <3>2, <1>1, <1>2 DEF Typed, Labels, Goto, MonitorLabels, Threads, Callers
    <3> QED
      BY <3>1, <3>2 DEF Threads
  <2> QED
    BY <2>1, <2>2 DEF Typed
<1>4. l \notin Inside /\ k \in Inside
  BY DEF Inside, AddLabels, GetLabels, AllocFirst
<1>5. Exclusion'
  BY <1>2, <1>4 DEF Typed, Labels, Goto, Exclusion, Inside, AllocFirst
<1>6. Keeps
  <2>1. \A u \in Threads : pc'[u] = IF u = t THEN l ELSE pc[u]
    BY <1>2 DEF Typed, Labels, Goto
  <2>2. AllocFirst' = AllocFirst
    BY <1>2 DEF AllocFirst
  <2>3. \A w \in Writers :
          /\ Unlinked(w)' => Unlinked(w)
          /\ Unlinked(w) /\ program \in {"spin", "my_mutex", "my_spinlock"} => Unlinked(w)'
    <3>1. ASSUME NEW w \in Writers, w # t PROVE Unlinked(w)' <=> Unlinked(w)
      BY <2>1, <2>2, <3>1 DEF Unlinked, Threads, Callers
    <3>2. CASE t \in Writers
      BY <2>1, <2>2, <3>1, <3>2, <1>1, <1>2 DEF Unlinked, AllocFirst, Threads, Callers
    <3> QED
      BY <3>1, <3>2
  <2>4. \A r \in Readers : Taken(r)' <=> Taken(r)
    BY <2>1, <2>2, <1>1, <1>2 DEF Taken, Threads, Callers
  <2> QED
    BY <2>3, <2>4, <1>2 DEF Keeps
<1>7. Coherent(at, k) /\ SameLag(k, "monitor")
  BY <1>2 DEF ListInv, SameLag
<1>8. Private' /\ Linked(at, "monitor")' /\ Accounted(at, "monitor")'
  BY <1>6, <1>7, ListKept DEF Coherent
<1>9. Counted("monitor")'
  BY <1>2, <1>7 DEF Coherent, Counted, Size
<1>10. ListInv(at)'
  <2>1. \A u \in Threads : depth'[u] = 0
    BY <1>2 DEF Exclusion
  <2> QED
    BY <2>1, <1>8, <1>9 DEF ListInv, Coherent
<1> QED
  BY <1>3, <1>5, <1>8, <1>10 DEF Inv

-----------------------------------------------------------------------------
(* Every step of queue_add in writer() preserves the invariant ... *)
LEMMA WriterKeeps ==
  ASSUME Inv, NEW w \in Writers, Writer(w)
  PROVE  Inv'
PROOF
<1>1. PICK at : ListInv(at)
  BY DEF Inv
<1>2. Typed /\ Exclusion /\ Private /\ w \in Threads
  BY DEF Inv, Threads, Callers
<1>3. ASSUME NEW to, LockedAdd(w, to), AllocFirst,
             to = "freeNew" \/ (program \in {"mutex", "sem"} /\ to = "alloc")
      PROVE  Inv'
  <2>1. \/ Unlocked(AllocNew(w, "lockAdd"))
        \/ Unlocked(AssertNotOver(w, "testFull") \/ TestFull(w, "unlockFull", "testFirst")
                    \/ TestFirst(w) \/ LoadInc(w) \/ StoreInc(w) \/ CountAdd(w, "unlockAdd"))
        \/ Unlocked(SetFirst(w) \/ LinkNext(w)) \/ Unlocked(MoveLast(w))
        \/ Acquire(w, "lockAdd", "assertAdd")
        \/ Release(w, "unlockFull", to) \/ Release(w, "unlockAdd", "added")
    BY <1>3 DEF LockedAdd, LinkNew, Unlocked
  <2> QED
    BY <2>1, <1>1, <1>2, <1>3, Allocates, AddCounts, Links, LastMoves, Enters, Leaves
    DEF Unlocked
<1>4. ASSUME GuardedAdd(w), ~AllocFirst
      PROVE  Inv'
  <2>1. \/ Unlocked(AllocNew(w, "testFirst"))
        \/ Unlocked(AssertNotOver(w, "testFull") \/ TestFull(w, "unlockFull", "alloc")
                    \/ TestFirst(w) \/ LoadInc(w) \/ StoreInc(w) \/ CountAdd(w, "unlockAdd"))
        \/ Unlocked(SetFirst(w) \/ LinkNext(w)) \/ Unlocked(MoveLast(w))
        \/ Acquire(w, "lockAdd", "assertAdd")
        \/ Release(w, "unlockFull", "lockAdd") \/ Release(w, "unlockAdd", "added")
    BY <1>4 DEF GuardedAdd, LinkNew, Unlocked
  <2> QED
    BY <2>1, <1>1, <1>2, <1>4, Allocates, AddCounts, Links, LastMoves, Enters, Leaves
    DEF Unlocked
<1>5. CASE MutexAdd(w) \/ SemAdd(w) \/ SpinAdd(w)
  <2>1. CASE MutexAdd(w) \/ SemAdd(w)
    BY <2>1, <1>3 DEF MutexAdd, SemAdd, AllocFirst
  <2>2. CASE SpinAdd(w)
    BY <2>2, <1>1, <1>2, <1>3, FreesNew DEF SpinAdd, AllocFirst
  <2> QED
    BY <1>5, <2>1, <2>2
<1>6. CASE MyMutexWriter(w) \/ MySpinlockWriter(w)
  BY <1>4, <1>6 DEF MyMutexWriter, MySpinlockWriter, AllocFirst
<1>7. CASE Unlocked(AddReturned(w, AddStart))
  BY <1>1, <1>2, <1>7, Returns DEF Unlocked
<1> QED
  BY <1>5, <1>6, <1>7 DEF Writer

(* ... every step of queue_get in reader() ... *)
LEMMA ReaderKeeps ==
  ASSUME Inv, NEW r \in Readers, Reader(r)
  PROVE  Inv'
PROOF
<1>1. PICK at : ListInv(at)
  BY DEF Inv
<1>2. Typed /\ Exclusion /\ Private /\ r \in Threads
  BY DEF Inv, Threads, Callers
<1>3. ASSUME LockedGet(r), AllocFirst
      PROVE  Inv'
  <2>1. \/ Unlocked(AssertNotUnder(r, "testEmpty")
                    \/ TestEmpty(r, "unlockEmpty", "readFirst")
                    \/ ReadFirst(r) \/ LoadNext(r) \/ LoadDec(r) \/ StoreDec(r)
                    \/ CountGet(r, "unlockGet"))
        \/ Unlocked(ReadVal(r)) \/ Unlocked(StoreFirst(r, "loadDec"))
        \/ Unlocked(FreeTmp(r, "taken"))
        \/ Acquire(r, "lockGet", "assertGet")
        \/ Release(r, "unlockEmpty", "lockGet") \/ Release(r, "unlockGet", "freeTmp")
    BY <1>3 DEF LockedGet, TakeFirst, Unlocked
  <2> QED
    BY <2>1, <1>1, <1>2, <1>3, GetCounts, ValueRead, FirstMoves, Frees, Enters, Leaves
    DEF Unlocked
<1>4. ASSUME GuardedGet(r), ~AllocFirst
      PROVE  Inv'
  <2>1. \/ Unlocked(AssertNotUnder(r, "testEmpty")
                    \/ TestEmpty(r, "unlockEmpty", "readFirst")
                    \/ ReadFirst(r) \/ LoadNext(r) \/ LoadDec(r) \/ StoreDec(r)
                    \/ CountGet(r, "unlockGet"))
        \/ Unlocked(ReadVal(r)) \/ Unlocked(StoreFirst(r, "freeTmp"))
        \/ Unlocked(FreeTmp(r, "loadDec"))
        \/ Acquire(r, "lockGet", "assertGet")
        \/ Release(r, "unlockEmpty", "lockGet") \/ Release(r, "unlockGet", "taken")
    BY <1>4 DEF GuardedGet, TakeFirst, Unlocked
  <2> QED
    BY <2>1, <1>1, <1>2, <1>4, GetCounts, ValueRead, FirstMoves, Frees, Enters, Leaves
    DEF Unlocked
<1>5. CASE MutexGet(r) \/ SemGet(r) \/ SpinGet(r)
  BY <1>3, <1>5 DEF MutexGet, SemGet, SpinGet, AllocFirst
<1>6. CASE MyMutexReader(r) \/ MySpinlockReader(r)
  BY <1>4, <1>6 DEF MyMutexReader, MySpinlockReader, AllocFirst
<1>7. CASE Unlocked(GetReturned(r, GetStart))
  BY <1>1, <1>2, <1>7, Returns DEF Unlocked
<1> QED
  BY <1>5, <1>6, <1>7 DEF Reader

(* ... and queue_print_stats, which takes the lock and looks. *)
LEMMA InvStep == Inv /\ [Next]_vars => Inv'
PROOF
<1> SUFFICES ASSUME Inv, [Next]_vars PROVE Inv'
  OBVIOUS
<1>1. CASE PrintStats
  <2>1. PICK at : ListInv(at)
    BY DEF Inv
  <2>2. Typed /\ Exclusion /\ Private /\ Monitor \in Threads
    BY DEF Inv, Threads
  <2> QED
    BY <2>1, <2>2, <1>1, Enters, Leaves DEF PrintStats
<1>2. CASE Dead \/ UNCHANGED vars
  <2>1. UNCHANGED vars
    BY <1>2 DEF Dead
  <2>2. Typed' /\ Exclusion' /\ Private'
    <3>1. Typed'
      BY <2>1 DEF Inv, vars, queueVars, shared, heap, locals, client, history, Typed, Data,
         Labels
    <3>2. Exclusion'
      BY <2>1 DEF Inv, vars, queueVars, Exclusion, Inside, AllocFirst
    <3>3. Private'
      BY <2>1 DEF Inv, vars, queueVars, heap, locals, client, Private, Unlinked, Taken,
         AllocFirst
    <3> QED
      BY <3>1, <3>2, <3>3
  <2>3. PICK at : ListInv(at)
    BY DEF Inv
  <2>4. ListInv(at)'
    BY <2>1, <2>3 DEF vars, queueVars, shared, heap, locals, client, history, ListInv,
       Coherent, Linked, Counted, Accounted, Task, OnList, Removed, Size, Unlinked, Taken,
       AllocFirst
  <2> QED
    BY <2>2, <2>4 DEF Inv
<1> QED
  BY <1>1, <1>2, WriterKeeps, ReaderKeeps DEF Next

(* queue_init and the calls of pthread_create establish it. *)
LEMMA InvInit == Init => Inv
PROOF
<1> SUFFICES ASSUME Init PROVE Inv
  OBVIOUS
<1> USE QueueAssumption, LockedAssumption DEF Init, QueueInit, Lock!Init
<1>1. Monitor \notin Callers /\ Readers \cap Writers = {}
  OBVIOUS
<1>2. Data
  BY DEF Data, Ptr
<1>3. Labels
  BY <1>1 DEF Labels, Threads, Callers, WriterLabels, ReaderLabels, MonitorLabels, AddLabels,
     GetLabels, AddStart, GetStart
<1>4. Exclusion
  BY <1>1 DEF Exclusion, Inside, AddLabels, GetLabels, AddStart, GetStart
<1>5. /\ \A w \in Writers : ~Unlinked(w)
      /\ \A r \in Readers : ~Taken(r)
  BY <1>1 DEF Unlinked, Taken, AddStart, GetStart, Threads, Callers
<1>6. Private
  BY <1>5 DEF Private
<1>7. Len(sent) = 0 /\ Len(delivered) = 0 /\ MaxCount \in Nat
  OBVIOUS
<1>8. \A at : Coherent(at, "monitor")
  BY <1>5, <1>7 DEF Coherent, Linked, Counted, Accounted, OnList, Removed, Size
<1>9. \A at : ListInv(at)
  BY <1>8 DEF ListInv
<1> QED
  BY <1>2, <1>3, <1>4, <1>6, <1>9 DEF Inv, Typed

(* The list, its fields and the nodes outside it are what the thread that  *)
(* holds the lock takes them to be, in each of the five programs.          *)
THEOREM Invariant == Spec => []Inv
PROOF
<1> QED
  BY InvInit, InvStep, PTL DEF Spec

-----------------------------------------------------------------------------
(* Induction over the numbers, from the least element a set of them has. *)
LEMMA Least ==
  ASSUME NEW T, T \subseteq Nat, T # {}
  PROVE  \E m \in T : \A k \in T : m <= k
PROOF
<1>1. \E x \in T : \A y \in T : ~(<<y, x>> \in OpToRel(<, Nat))
  BY NatLessThanWellFounded, WFMin, Zenon
<1>2. PICK x \in T : \A y \in T : ~(<<y, x>> \in OpToRel(<, Nat))
  BY <1>1, Zenon
<1>3. \A y \in T : <<y, x>> \in Nat \X Nat
  OBVIOUS
<1>4. \A y \in T : ~(y < x)
  BY <1>2, <1>3 DEF OpToRel
<1> QED
  BY <1>4

(* ... in the form in which the walk below needs it. *)
LEMMA Induct ==
  ASSUME NEW T, 0 \in T, \A n \in Nat : n \in T => n + 1 \in T
  PROVE  Nat \subseteq T
PROOF
<1> SUFFICES ASSUME Nat \ T # {} PROVE FALSE
  OBVIOUS
<1>1. PICK m \in Nat \ T : \A k \in Nat \ T : m <= k
  BY Least, Zenon
<1>2. m # 0 /\ m - 1 \in Nat /\ m - 1 \in T
  BY <1>1
<1> QED
  BY <1>1, <1>2

(* The walk from first meets the nodes of the list in order, then NULL. *)
LEMMA WalkMeetsList ==
  ASSUME Typed, NEW at, NEW p, Linked(at, p)
  PROVE  \E n, gone :
           /\ gone = Removed(p) /\ n = Len(sent) - gone
           /\ n \in Nat /\ gone \in Nat /\ Len(sent) = gone + n
           /\ 0 .. n \subseteq DOMAIN NthCell
           /\ \A k \in 0 .. n - 1 : NthCell[k] = at[gone + k + 1]
           /\ NthCell[n] = NULL
PROOF
<1>1. PICK n, gone, card :
        n = Len(sent) - gone /\ gone = Removed(p) /\ card = Cardinality(Cells)
  OBVIOUS
<1>2. /\ n \in Nat /\ gone \in Nat /\ Len(sent) = gone + n
      /\ first = IF n = 0 THEN NULL ELSE at[gone + 1]
      /\ \A k \in 1 .. n : at[gone + k] \in Cells /\ at[gone + k] # NULL
      /\ \A k \in 1 .. n :
           next[at[gone + k]] = IF k = n THEN NULL ELSE at[gone + k + 1]
      /\ \A j, k \in 1 .. n : at[gone + j] = at[gone + k] => j = k
  <2>1. n \in Nat /\ gone \in Nat /\ Len(sent) = gone + n
    BY <1>1 DEF Linked, Typed, Data
  <2>2. \A k \in 1 .. n : gone + k \in gone + 1 .. Len(sent)
    BY <2>1
  <2>3. /\ \A k \in gone + 1 .. Len(sent) :
             /\ at[k] \in live
             /\ next[at[k]] = IF k = Len(sent) THEN NULL ELSE at[k + 1]
        /\ \A j, k \in gone + 1 .. Len(sent) : at[j] = at[k] => j = k
        /\ first = IF gone = Len(sent) THEN NULL ELSE at[gone + 1]
    BY <1>1 DEF Linked
  <2>4. live \subseteq Cells /\ NULL \notin Cells
    BY QueueAssumption DEF Typed, Data
  <2>5. \A j, k \in 1 .. n : gone + j = gone + k => j = k
    BY <2>1
  <2>6. \A k \in 1 .. n : gone + k = Len(sent) <=> k = n
    BY <2>1
  <2>7. \A j, k \in 1 .. n : at[gone + j] = at[gone + k] => j = k
    BY <2>2, <2>3, <2>5
  <2> QED
    BY <2>1, <2>2, <2>3, <2>4, <2>6, <2>7
<1>3. card \in Nat /\ n <= card
  <2>1. PICK f : f = [k \in 1 .. n |-> at[gone + k]]
    OBVIOUS
  <2>2. f \in Injection(1 .. n, Cells)
    BY <2>1, <1>2 DEF Injection, IsInjective
  <2>3. Cardinality(1 .. n) <= Cardinality(Cells)
    BY <2>2, FS_Injection, QueueAssumption
  <2>4. Cardinality(1 .. n) = n
    BY <1>2, FS_Interval
  <2>5. Cardinality(Cells) \in Nat
    BY FS_CardinalityType, QueueAssumption
  <2> QED
    BY <2>3, <2>4, <2>5, <1>1
<1>4. PICK walk : walk = [k \in 0 .. card |-> IF k < n THEN at[gone + k + 1] ELSE NULL]
  OBVIOUS
<1>5. walk = [k \in 0 .. card |->
               IF k = 0 THEN first
               ELSE IF walk[k - 1] = NULL THEN NULL ELSE next[walk[k - 1]]]
  <2>1. walk[0] = first
    BY <1>2, <1>3, <1>4
  <2>2. ASSUME NEW k \in 0 .. card, k # 0
        PROVE  walk[k] = IF walk[k - 1] = NULL THEN NULL ELSE next[walk[k - 1]]
    <3>1. k \in Nat /\ k - 1 \in 0 .. card
      BY <2>2, <1>3
    <3>2. CASE k - 1 < n
      <4>1. /\ k \in 1 .. n /\ gone + (k - 1) + 1 = gone + k
            /\ walk[k - 1] = at[gone + k]
        BY <3>1, <3>2, <1>2, <1>4
      <4>2. next[at[gone + k]] = walk[k]
        BY <4>1, <3>1, <1>2, <1>4
      <4> QED
        BY <4>1, <4>2, <1>2
    <3>3. CASE ~(k - 1 < n)
      BY <3>1, <3>3, <1>2, <1>4
    <3> QED
      BY <3>2, <3>3
  <2> QED
    BY <2>1, <2>2, <1>4
<1>6. NthCell = [k \in 0 .. card |->
               IF k = 0 THEN first
               ELSE IF NthCell[k - 1] = NULL THEN NULL ELSE next[NthCell[k - 1]]]
  <2>1. walk = [k \in 0 .. Cardinality(Cells) |->
               IF k = 0 THEN first
               ELSE IF walk[k - 1] = NULL THEN NULL ELSE next[walk[k - 1]]]
    BY <1>1, <1>5
  <2>2. NthCell = [k \in 0 .. Cardinality(Cells) |->
               IF k = 0 THEN first
               ELSE IF NthCell[k - 1] = NULL THEN NULL ELSE next[NthCell[k - 1]]]
    BY <2>1, Zenon DEF NthCell
  <2> QED
    BY <2>2, <1>1
<1> DEFINE reached == {k \in Nat : k <= card => NthCell[k] = walk[k]}
<1>7. 0 \in reached
  BY <1>3, <1>5, <1>6
<1>8. ASSUME NEW k \in Nat, k \in reached PROVE k + 1 \in reached
  BY <1>3, <1>5, <1>6, <1>8
<1> HIDE DEF reached
<1>9. Nat \subseteq reached
  BY <1>7, <1>8, Induct
<1>10. \A k \in 0 .. card : NthCell[k] = walk[k]
  BY <1>3, <1>9 DEF reached
<1>11. 0 .. n \subseteq 0 .. card /\ DOMAIN NthCell = 0 .. card
  BY <1>2, <1>3, <1>6
<1>12. \A k \in 0 .. n - 1 : NthCell[k] = at[gone + k + 1]
  BY <1>2, <1>3, <1>4, <1>10
<1>13. NthCell[n] = NULL
  BY <1>2, <1>3, <1>4, <1>10
<1> QED
  BY <1>1, <1>2, <1>11, <1>12, <1>13

(* Whenever the lock is free, and when queue_print_stats of the semaphore  *)
(* program looks, the list is what was added and not yet taken.            *)
THEOREM ListIsWhatWasAdded == Spec => []ListIsContents
PROOF
<1>1. Inv => ListIsContents
  <2> SUFFICES ASSUME Inv, Lock!Free \/ \E t \in Threads : pc[t] = "printing"
               PROVE  LET n == Len(sent) - Len(delivered)
                      IN  /\ count = n
                          /\ add_count - get_count = n
                          /\ \A k \in 0 .. n - 1 :
                               /\ NthCell[k] \in live
                               /\ val[NthCell[k]] = sent[Len(delivered) + k + 1]
                          /\ NthCell[n] = NULL
                          /\ n > 0 => last = NthCell[n - 1]
    BY DEF ListIsContents
  <2>1. PICK at : ListInv(at)
    BY DEF Inv
  <2>2. PICK p \in {"monitor", "printing"} : Coherent(at, p)
    BY <2>1 DEF ListInv, Lock!Free, Inv, Exclusion, Inside
  <2>3. Removed(p) = Len(delivered) /\ Size = Len(sent) - Len(delivered)
    BY DEF Removed, Size, Inv, Typed, Data
  <2>4. count = Size /\ add_count - get_count = Size
    BY <2>2 DEF Coherent, Counted
  <2>5. /\ Size \in Nat
        /\ \A k \in 0 .. Size - 1 : NthCell[k] = at[Len(delivered) + k + 1]
        /\ NthCell[Size] = NULL
    <3>1. PICK n, gone :
            /\ gone = Removed(p) /\ n = Len(sent) - gone
            /\ n \in Nat /\ gone \in Nat /\ Len(sent) = gone + n
            /\ 0 .. n \subseteq DOMAIN NthCell
            /\ \A k \in 0 .. n - 1 : NthCell[k] = at[gone + k + 1]
            /\ NthCell[n] = NULL
      <4>1. Typed /\ Linked(at, p)
        BY <2>2 DEF Inv, Coherent
      <4> QED
        BY <4>1, WalkMeetsList
    <3>2. n = Size /\ gone = Len(delivered)
      BY <2>3, <3>1
    <3> QED
      BY <3>1, <3>2
  <2>6. Len(delivered) \in Nat /\ Len(sent) \in Nat
    BY DEF Inv, Typed, Data
  <2>7. \A k \in 0 .. Size - 1 : Len(delivered) + k + 1 \in Len(delivered) + 1 .. Len(sent)
    BY <2>3, <2>5, <2>6
  <2>8. \A k \in 0 .. Size - 1 :
          NthCell[k] \in live /\ val[NthCell[k]] = sent[Len(delivered) + k + 1]
    BY <2>2, <2>3, <2>5, <2>7 DEF Coherent, Linked
  <2>9. Size > 0 => last = NthCell[Size - 1]
    <3>1. Size > 0 => Size - 1 \in 0 .. Size - 1 /\ Len(delivered) + (Size - 1) + 1 = Len(sent)
      BY <2>3, <2>5, <2>6
    <3>2. Size > 0 => last = at[Len(sent)]
      BY <2>2, <2>3, <2>6 DEF Coherent, Linked
    <3> QED
      BY <3>1, <3>2, <2>5
  <2> QED
    BY <2>3, <2>4, <2>5, <2>8, <2>9
<1> QED
  BY <1>1, Invariant, PTL

(* spin frees the node of a failed queue_add, and the programs of task2_4  *)
(* allocate it only after the test for room: they lose no node.            *)
THEOREM NothingLeaks == Spec => []NoLeakElsewhere
PROOF
<1>1. Inv => NoLeakElsewhere
  <2> SUFFICES ASSUME Inv, program \in {"spin", "my_mutex", "my_spinlock"},
                      NEW c \in live
               PROVE  \/ c \in Chain
                      \/ \E w \in Writers :
                           new[w] = c /\ pc[w] \notin {"alloc", "added", "stop"}
                      \/ \E r \in Readers : tmp[r] = c /\ pc[r] # "lockGet"
    BY DEF NoLeakElsewhere, NoLeak
  <2>1. PICK at : ListInv(at)
    BY DEF Inv
  <2>2. PICK p : Coherent(at, p)
    BY <2>1 DEF ListInv, Inv, Exclusion
  <2>3. CASE c \in OnList(at, p)
    <3>1. PICK n, gone :
            /\ gone = Removed(p) /\ n = Len(sent) - gone
            /\ n \in Nat /\ gone \in Nat /\ Len(sent) = gone + n
            /\ 0 .. n \subseteq DOMAIN NthCell
            /\ \A k \in 0 .. n - 1 : NthCell[k] = at[gone + k + 1]
            /\ NthCell[n] = NULL
      <4>1. Typed /\ Linked(at, p)
        BY <2>2 DEF Inv, Coherent
      <4> QED
        BY <4>1, WalkMeetsList
    <3>2. PICK k \in Removed(p) + 1 .. Len(sent) : c = at[k]
      BY <2>3 DEF OnList
    <3>3. PICK j : j = k - gone - 1
      OBVIOUS
    <3>4. j \in 0 .. n - 1 /\ j \in 0 .. n /\ gone + j + 1 = k
      <4>1. k \in Int /\ gone + 1 <= k /\ k <= gone + n
        BY <3>2, <3>1
      <4>2. n \in Nat /\ gone \in Nat
        BY <3>1
      <4>3. j \in Int /\ 0 <= j /\ j <= n - 1 /\ gone + j + 1 = k
        BY <4>1, <4>2, <3>3
      <4> QED
        BY <4>2, <4>3
    <3>6. NthCell[j] = c /\ j \in DOMAIN NthCell
      BY <3>2, <3>1, <3>4
    <3>5. c # NULL
      BY QueueAssumption DEF Inv, Typed, Data
    <3> QED
      BY <3>6, <3>5 DEF Chain
  <2>4. CASE \E w \in Writers : Unlinked(w) /\ new[w] = c
    BY <2>4 DEF Unlinked
  <2>5. CASE \E r \in Readers : Taken(r) /\ tmp[r] = c
    BY <2>5 DEF Taken
  <2> QED
    BY <2>2, <2>3, <2>4, <2>5 DEF Coherent, Accounted
<1> QED
  BY <1>1, Invariant, PTL

-----------------------------------------------------------------------------
(* What a step does to the values, and to the two loops that pass them on. *)
(* Appended: queue_add has linked the value in but not returned; ReadOut:  *)
(* queue_get has read the value but reader() has not looked at it.         *)
Appended == {"moveLast", "loadInc", "storeInc", "countAdd", "unlockAdd", "added"}
ReadOut == {"loadNext", "storeFirst", "freeTmp", "loadDec", "storeDec", "countGet",
            "unlockGet", "taken"}

(* at most t moves *)
Moves(t) == \A u \in Threads \ {t} : pc'[u] = pc[u]

Elsewhere ==
  /\ UNCHANGED <<sent, delivered, client, got>>
  /\ \A w \in Writers : /\ pc'[w] \in Appended <=> pc[w] \in Appended
                        /\ pc'[w] = "stop" <=> pc[w] = "stop"
  /\ \A r \in Readers : pc'[r] \in ReadOut <=> pc[r] \in ReadOut

Puts(w) ==
  /\ Size < MaxCount
  /\ sent' = Append(sent, i[w])
  /\ UNCHANGED <<delivered, client, got>>
  /\ pc[w] \in {"setFirst", "linkNext"} /\ pc'[w] \in Appended /\ Moves(w)

Takes(r) ==
  /\ Size > 0
  /\ delivered' = Append(delivered, sent[Len(delivered) + 1])
  /\ got' = [got EXCEPT ![r] = sent[Len(delivered) + 1]]
  /\ UNCHANGED <<sent, client>>
  /\ pc[r] = "readVal" /\ pc'[r] \in ReadOut /\ Moves(r)

Counts(w) ==
  /\ i' = [i EXCEPT ![w] = @ + 1]
  /\ UNCHANGED <<sent, delivered, expected, mismatch, got>>
  /\ pc[w] = "added" /\ pc'[w] \notin Appended /\ Moves(w)
  /\ pc'[w] # "stop" => i'[w] < MaxVal

Compares(r) ==
  /\ mismatch' = (mismatch \/ expected[r] # got[r])
  /\ expected' = [expected EXCEPT ![r] = got[r] + 1]
  /\ UNCHANGED <<sent, delivered, i, got>>
  /\ pc[r] = "taken" /\ pc'[r] \notin ReadOut /\ Moves(r)

(* Most steps touch neither the values nor the loops. *)
LEMMA GoesElsewhere ==
  ASSUME Labels, NEW t \in Threads, NEW l, Goto(t, l),
         UNCHANGED <<sent, delivered, client, got>>,
         t \in Writers => /\ pc[t] \in Appended <=> l \in Appended
                          /\ pc[t] # "stop" /\ l # "stop",
         t \in Readers => (pc[t] \in ReadOut <=> l \in ReadOut)
  PROVE  Elsewhere
PROOF
  BY DEF Labels, Goto, Elsewhere, Threads, Callers

(* A step of a writer links a value in, counts it, or neither. *)
LEMMA WriterEffects ==
  ASSUME Inv, NEW w \in Writers, Writer(w)
  PROVE  Elsewhere \/ Puts(w) \/ Counts(w)
PROOF
<1> USE DEF client
<1>1. Labels /\ w \in Threads /\ w \notin Readers
  BY QueueAssumption DEF Inv, Typed, Threads, Callers
<1>2. ASSUME NEW l \in {"lockAdd", "testFirst"}, AllocNew(w, l) PROVE Elsewhere
  <2>1. CASE Goto(w, l)
    <3>1. pc[w] = "alloc" /\ UNCHANGED <<sent, delivered, client, got>>
      BY <1>2 DEF AllocNew, At, history
    <3> QED
      BY <2>1, <3>1, <1>1, GoesElsewhere DEF Appended
  <2>2. CASE UNCHANGED pc
    BY <1>2, <2>2 DEF AllocNew, history, Elsewhere
  <2> QED
    BY <1>2, <2>1, <2>2 DEF AllocNew
<1>3. ASSUME \/ AssertNotOver(w, "testFull") \/ TestFull(w, "unlockFull", "testFirst")
             \/ TestFull(w, "unlockFull", "alloc")
      PROVE  Elsewhere
  <2>1. CASE UNCHANGED pc
    BY <1>3, <2>1 DEF AssertNotOver, TestFull, history, locals, Elsewhere
  <2>2. CASE \E l \in {"testFull", "unlockFull", "testFirst", "alloc"} : Goto(w, l)
    <3>1. /\ pc[w] \in {"assertAdd", "testFull"}
          /\ UNCHANGED <<sent, delivered, client, got>>
      BY <1>3 DEF AssertNotOver, TestFull, At, history, locals
    <3> QED
      BY <2>2, <3>1, <1>1, GoesElsewhere DEF Appended
  <2> QED
    BY <1>3, <2>1, <2>2 DEF AssertNotOver, TestFull
<1>4. ASSUME TestFirst(w) \/ LoadInc(w) \/ StoreInc(w) \/ CountAdd(w, "unlockAdd")
      PROVE  Elsewhere
  <2>1. PICK l \in {"setFirst", "linkNext", "storeInc", "countAdd", "unlockAdd"} :
          /\ Goto(w, l) /\ (pc[w] \in Appended <=> l \in Appended) /\ pc[w] # "stop"
          /\ UNCHANGED <<sent, delivered, client, got>>
    BY <1>4 DEF TestFirst, LoadInc, StoreInc, CountAdd, At, history, locals, Appended
  <2> QED
    BY <2>1, <1>1, GoesElsewhere
<1>5. ASSUME MoveLast(w) PROVE Elsewhere
  <2>1. CASE UNCHANGED pc
    BY <1>5, <2>1 DEF MoveLast, Deref, history, locals, Elsewhere
  <2>2. CASE Goto(w, "loadInc")
    <3>1. pc[w] = "moveLast" /\ UNCHANGED <<sent, delivered, client, got>>
      BY <1>5 DEF MoveLast, Deref, At, history, locals
    <3> QED
      BY <2>2, <3>1, <1>1, GoesElsewhere DEF Appended
  <2> QED
    BY <1>5, <2>1, <2>2 DEF MoveLast, Deref
<1>6. ASSUME SetFirst(w) \/ LinkNext(w) PROVE Elsewhere \/ Puts(w)
  <2>1. CASE UNCHANGED <<shared, heap, pc, locals, client, history>>
    BY <2>1 DEF history, locals, Elsewhere
  <2>2. CASE \E l \in {"loadInc", "moveLast"} :
               /\ Goto(w, l) /\ sent' = Append(sent, i[w])
               /\ UNCHANGED <<delivered, client, got>>
    <3>1. pc[w] \in {"setFirst", "linkNext"} /\ pc[w] \in Inside
      BY <1>6 DEF SetFirst, LinkNext, At, Inside, AddLabels
    <3>2. Size < MaxCount
      BY <3>1, <1>1 DEF Inv, Exclusion, ListInv, Task
    <3> QED
      BY <2>2, <3>1, <3>2, <1>1 DEF Puts, Appended, Moves, Labels, Goto
  <2> QED
    BY <1>6, <2>1, <2>2 DEF SetFirst, LinkNext, Deref, locals
<1>7. ASSUME NEW k \in {"lockAdd"}, NEW l \in {"assertAdd"}, Acquire(w, k, l)
      PROVE  Elsewhere
  <2>1. pc[w] = k /\ Goto(w, l) /\ UNCHANGED <<sent, delivered, client, got>>
    BY <1>7 DEF Acquire, At, history, locals
  <2> QED
    BY <2>1, <1>1, GoesElsewhere DEF Appended
<1>8. ASSUME NEW k, NEW l, Release(w, k, l),
             \/ k = "unlockFull" /\ l \in {"alloc", "freeNew", "lockAdd"}
             \/ k = "unlockAdd" /\ l = "added"
      PROVE  Elsewhere
  <2>1. pc[w] = k /\ Goto(w, l) /\ UNCHANGED <<sent, delivered, client, got>>
    BY <1>8 DEF Release, At, history, locals
  <2> QED
    BY <2>1, <1>1, <1>8, GoesElsewhere DEF Appended
<1>9. ASSUME FreeNew(w) PROVE Elsewhere
  <2>1. pc[w] = "freeNew" /\ Goto(w, "alloc") /\ UNCHANGED <<sent, delivered, client, got>>
    BY <1>9 DEF FreeNew, At, history, locals
  <2> QED
    BY <2>1, <1>1, GoesElsewhere DEF Appended
<1>10. ASSUME AddReturned(w, AddStart) PROVE Counts(w)
  <2>1. PICK l \in {AddStart, "stop"} :
          /\ Goto(w, l) /\ pc[w] = "added" /\ i' = [i EXCEPT ![w] = @ + 1]
          /\ UNCHANGED <<sent, delivered, expected, mismatch, got>>
          /\ l # "stop" => i'[w] < MaxVal
    BY <1>10 DEF AddReturned, At, history, locals
  <2>2. l \notin Appended
    BY <2>1 DEF AddStart, Appended
  <2> QED
    BY <2>1, <2>2, <1>1 DEF Counts, Moves, Labels, Goto
<1>11. ASSUME LinkNew(w) PROVE Elsewhere \/ Puts(w)
  BY <1>11, <1>4, <1>5, <1>6 DEF LinkNew
<1>12. ASSUME NEW to \in {"alloc", "freeNew"}, LockedAdd(w, to)
       PROVE  Elsewhere \/ Puts(w)
  BY <1>12, <1>2, <1>3, <1>4, <1>7, <1>8, <1>11 DEF LockedAdd, Unlocked
<1>13. ASSUME GuardedAdd(w) PROVE Elsewhere \/ Puts(w)
  BY <1>13, <1>2, <1>3, <1>4, <1>7, <1>8, <1>11 DEF GuardedAdd, Unlocked
<1> QED
  BY <1>9, <1>10, <1>12, <1>13 DEF Writer, MutexAdd, SemAdd, SpinAdd, MyMutexWriter,
     MySpinlockWriter, Unlocked

(* A step of a reader reads a value, compares it, or neither. *)
LEMMA ReaderEffects ==
  ASSUME Inv, NEW r \in Readers, Reader(r)
  PROVE  Elsewhere \/ Takes(r) \/ Compares(r)
PROOF
<1> USE DEF client
<1>1. Labels /\ r \in Threads /\ r \notin Writers
  BY QueueAssumption DEF Inv, Typed, Threads, Callers
<1>2. ASSUME \/ AssertNotUnder(r, "testEmpty")
             \/ TestEmpty(r, "unlockEmpty", "readFirst")
      PROVE  Elsewhere
  <2>1. CASE UNCHANGED pc
    BY <1>2, <2>1 DEF AssertNotUnder, TestEmpty, history, locals, Elsewhere
  <2>2. CASE \E l \in {"testEmpty", "unlockEmpty", "readFirst"} : Goto(r, l)
    <3>1. /\ pc[r] \in {"assertGet", "testEmpty"}
          /\ UNCHANGED <<sent, delivered, client, got>>
      BY <1>2 DEF AssertNotUnder, TestEmpty, At, history, locals
    <3> QED
      BY <2>2, <3>1, <1>1, GoesElsewhere DEF ReadOut
  <2> QED
    BY <1>2, <2>1, <2>2 DEF AssertNotUnder, TestEmpty
<1>3. ASSUME \/ ReadFirst(r) \/ LoadDec(r) \/ StoreDec(r) \/ CountGet(r, "unlockGet")
             \/ StoreFirst(r, "loadDec") \/ StoreFirst(r, "freeTmp")
      PROVE  Elsewhere
  <2>1. PICK l \in {"readVal", "storeDec", "countGet", "unlockGet", "loadDec", "freeTmp"} :
          /\ Goto(r, l) /\ (pc[r] \in ReadOut <=> l \in ReadOut)
          /\ UNCHANGED <<sent, delivered, client, got>>
    BY <1>3 DEF ReadFirst, LoadDec, StoreDec, CountGet, StoreFirst, At, history, locals,
       ReadOut
  <2> QED
    BY <2>1, <1>1, GoesElsewhere
<1>4. ASSUME LoadNext(r) \/ FreeTmp(r, "taken") \/ FreeTmp(r, "loadDec") PROVE Elsewhere
  <2>1. CASE UNCHANGED pc
    BY <1>4, <2>1 DEF LoadNext, FreeTmp, Deref, history, locals, Elsewhere
  <2>2. CASE \E l \in {"storeFirst", "taken", "loadDec"} : Goto(r, l)
    <3>1. pc[r] \in {"loadNext", "freeTmp"} /\ UNCHANGED <<sent, delivered, client, got>>
      BY <1>4 DEF LoadNext, FreeTmp, Deref, At, history, locals
    <3> QED
      BY <2>2, <3>1, <1>1, GoesElsewhere DEF ReadOut
  <2> QED
    BY <1>4, <2>1, <2>2 DEF LoadNext, FreeTmp, Deref
<1>5. ASSUME Unlocked(ReadVal(r)) PROVE Elsewhere \/ Takes(r)
  <2>1. CASE UNCHANGED <<shared, heap, pc, locals, client, history>>
    BY <2>1 DEF history, locals, Elsewhere
  <2>2. CASE Goto(r, "loadNext") /\ UNCHANGED <<sent, client>>
    <3>1. pc[r] = "readVal"
      BY <1>5 DEF Unlocked, ReadVal, At
    <3>2. /\ Size > 0
          /\ delivered' = Append(delivered, sent[Len(delivered) + 1])
          /\ got' = [got EXCEPT ![r] = sent[Len(delivered) + 1]]
      BY <1>5, ValueRead DEF Unlocked, Inv
    <3> QED
      BY <2>2, <3>1, <3>2, <1>1 DEF Takes, ReadOut, Moves, Labels, Goto
  <2> QED
    BY <1>5, <2>1, <2>2 DEF Unlocked, ReadVal, Deref
<1>6. ASSUME Acquire(r, "lockGet", "assertGet") PROVE Elsewhere
  <2>1. /\ pc[r] = "lockGet" /\ Goto(r, "assertGet")
        /\ UNCHANGED <<sent, delivered, client, got>>
    BY <1>6 DEF Acquire, At, history, locals
  <2> QED
    BY <2>1, <1>1, GoesElsewhere DEF ReadOut
<1>7. ASSUME NEW k, NEW l, Release(r, k, l),
             \/ k = "unlockEmpty" /\ l = "lockGet"
             \/ k = "unlockGet" /\ l \in {"freeTmp", "taken"}
      PROVE  Elsewhere
  <2>1. pc[r] = k /\ Goto(r, l) /\ UNCHANGED <<sent, delivered, client, got>>
    BY <1>7 DEF Release, At, history, locals
  <2> QED
    BY <2>1, <1>1, <1>7, GoesElsewhere DEF ReadOut
<1>8. ASSUME GetReturned(r, GetStart) PROVE Compares(r)
  <2>1. /\ Goto(r, "lockGet") /\ pc[r] = "taken"
        /\ mismatch' = (mismatch \/ expected[r] # got[r])
        /\ expected' = [expected EXCEPT ![r] = got[r] + 1]
        /\ UNCHANGED <<sent, delivered, i, got>>
    BY <1>8 DEF GetReturned, GetStart, At, history, locals
  <2> QED
    BY <2>1, <1>1 DEF Compares, ReadOut, Moves, Labels, Goto
<1>9. ASSUME Unlocked(TakeFirst(r)) PROVE Elsewhere \/ Takes(r)
  BY <1>9, <1>3, <1>4, <1>5 DEF TakeFirst, Unlocked
<1>10. ASSUME LockedGet(r) PROVE Elsewhere \/ Takes(r)
  BY <1>10, <1>2, <1>3, <1>4, <1>6, <1>7, <1>9 DEF LockedGet, Unlocked
<1>11. ASSUME GuardedGet(r) PROVE Elsewhere \/ Takes(r)
  BY <1>11, <1>2, <1>3, <1>4, <1>6, <1>7, <1>9 DEF GuardedGet, Unlocked
<1> QED
  BY <1>8, <1>10, <1>11 DEF Reader, MutexGet, SemGet, SpinGet, MyMutexReader,
     MySpinlockReader, Unlocked

(* So does every step of the program. *)
LEMMA Effects ==
  ASSUME Inv, [Next]_vars
  PROVE  \/ Elsewhere
         \/ \E w \in Writers : Puts(w) \/ Counts(w)
         \/ \E r \in Readers : Takes(r) \/ Compares(r)
PROOF
<1>1. CASE PrintStats
  <2>1. PICK l \in {"printing", "monitor"} :
          Goto(Monitor, l) /\ UNCHANGED <<sent, delivered, client, got>>
    BY <1>1 DEF PrintStats, Acquire, Release, history, locals
  <2> QED
    BY <2>1, GoesElsewhere, LockedAssumption DEF Inv, Typed, Threads, Callers
<1>2. CASE Dead \/ UNCHANGED vars
  BY <1>2 DEF Dead, vars, queueVars, locals, history, Elsewhere
<1> QED
  BY <1>1, <1>2, WriterEffects, ReaderEffects DEF Next


(* The next number of a writer that goes on stays within the bound. *)
InRange == \A w \in Writers : pc[w] # "stop" => i[w] <= MaxVal

(* writer() does not go on past the bound. *)
LEMMA RangeStep == Inv /\ InRange /\ [Next]_vars => InRange'
PROOF
<1> SUFFICES ASSUME Inv, InRange, [Next]_vars PROVE InRange'
  OBVIOUS
<1> USE DEF Inv, Typed, Data, InRange, client
<1>1. CASE Elsewhere
  BY <1>1 DEF Elsewhere
<1>2. ASSUME NEW w \in Writers, Puts(w) PROVE InRange'
  BY <1>2 DEF Puts, Moves, Threads, Callers
<1>3. ASSUME NEW w \in Writers, Counts(w) PROVE InRange'
  <2>1. /\ i'[w] \in Nat /\ MaxVal \in Nat
        /\ \A v \in Writers \ {w} : i'[v] = i[v] /\ pc'[v] = pc[v]
    BY <1>3, QueueAssumption DEF Counts, Moves, Threads, Callers
  <2>2. pc'[w] # "stop" => i'[w] <= MaxVal
    <3>1. pc'[w] # "stop" => i'[w] < MaxVal
      BY <1>3 DEF Counts
    <3> QED
      BY <2>1, <3>1
  <2> QED
    BY <2>1, <2>2
<1>4. ASSUME NEW r \in Readers, Takes(r) \/ Compares(r) PROVE InRange'
  BY <1>4, QueueAssumption DEF Takes, Compares, Moves, Threads, Callers
<1> QED
  BY <1>1, <1>2, <1>3, <1>4, Effects

(* Each of the five programs implements the bounded FIFO, for any number   *)
(* of readers and writers, any limit and any number of cells: values enter *)
(* only below max_count and leave in the order in which they entered.      *)
THEOREM FifoRefined == Spec => ImplementsFifo
PROOF
<1>1. Init => Fifo!Init
  BY DEF Init, QueueInit, Fifo!Init
<1>2. Init => InRange
  BY QueueAssumption DEF Init, QueueInit, InRange
<1>3. ASSUME Inv, InRange, [Next]_vars
      PROVE  [Fifo!Next]_<<sent, delivered>>
  <2> USE DEF Fifo!Next, Fifo!Put, Fifo!Get, Fifo!Inside, Size
  <2>1. CASE Elsewhere
    BY <2>1 DEF Elsewhere
  <2>2. ASSUME NEW w \in Writers, Puts(w) PROVE Fifo!Put
    <3>1. i[w] \in 0 .. MaxVal
      BY <1>3, <2>2, QueueAssumption DEF Puts, InRange, Inv, Typed, Data
    <3> QED
      BY <2>2, <3>1 DEF Puts
  <2>3. ASSUME NEW w \in Writers, Counts(w) PROVE UNCHANGED <<sent, delivered>>
    BY <2>3 DEF Counts
  <2>4. ASSUME NEW r \in Readers, Takes(r) PROVE Fifo!Get
    BY <2>4 DEF Takes
  <2>5. ASSUME NEW r \in Readers, Compares(r) PROVE UNCHANGED <<sent, delivered>>
    BY <2>5 DEF Compares
  <2> QED
    BY <1>3, <2>1, <2>2, <2>3, <2>4, <2>5, Effects
<1> QED
  BY <1>1, <1>2, <1>3, RangeStep, Invariant, PTL DEF Spec, ImplementsFifo, Fifo!Spec

-----------------------------------------------------------------------------
(* queue-threads.c creates one thread of each kind. *)
OneEach ==
  /\ \A q, r \in Readers : q = r
  /\ \A v, w \in Writers : v = w

(* The writer numbers its values from 0, and the reader counts with it. *)
Numbered ==
  /\ \A k \in 1 .. Len(sent) : sent[k] = k - 1
  /\ \A w \in Writers :
       i[w] = IF pc[w] \in Appended THEN Len(sent) - 1 ELSE Len(sent)
  /\ expected \in [Readers -> Int]
  /\ \A r \in Readers :
       /\ expected[r] = IF pc[r] \in ReadOut THEN Len(delivered) - 1 ELSE Len(delivered)
       /\ pc[r] \in ReadOut => got[r] = Len(delivered) - 1
  /\ ~mismatch

(* One writer and one reader keep in step whatever the other does. *)
LEMMA NumberedStep ==
  ASSUME OneEach, Inv, Numbered, [Next]_vars
  PROVE  Numbered'
PROOF
<1> USE DEF client
<1>1. /\ sent \in Seq(Nat) /\ delivered \in Seq(Nat)
      /\ i \in [Writers -> Nat] /\ got \in [Readers -> Int]
      /\ Readers \cap Writers = {} /\ Size \in Nat
  <2>1. Size \in Nat
    <3>1. PICK at, p : Coherent(at, p)
      BY DEF Inv, ListInv, Exclusion
    <3> QED
      BY <3>1, QueueAssumption DEF Coherent, Counted
  <2> QED
    BY <2>1, QueueAssumption DEF Inv, Typed, Data
<1>2. CASE Elsewhere
  BY <1>2 DEF Elsewhere, Numbered
<1>3. ASSUME NEW w \in Writers, Puts(w) PROVE Numbered'
  <2>1. /\ i[w] = Len(sent) /\ sent' = Append(sent, Len(sent))
        /\ UNCHANGED <<delivered, i, expected, mismatch, got>>
        /\ pc'[w] \in Appended /\ \A r \in Readers : pc'[r] = pc[r]
        /\ \A v \in Writers : v = w
    BY <1>1, <1>3, OneEach DEF Puts, Numbered, Appended, Moves, OneEach, Threads, Callers
  <2>2. /\ Len(sent') = Len(sent) + 1 /\ Len(sent) \in Nat
        /\ \A k \in 1 .. Len(sent') : sent'[k] = IF k = Len(sent) + 1 THEN Len(sent) ELSE sent[k]
    BY <1>1, <2>1
  <2>3. \A k \in 1 .. Len(sent') : sent'[k] = k - 1
    BY <2>2 DEF Numbered
  <2> QED
    BY <2>1, <2>2, <2>3 DEF Numbered
<1>4. ASSUME NEW w \in Writers, Counts(w) PROVE Numbered'
  <2>1. /\ pc[w] \in Appended /\ pc'[w] \notin Appended /\ i'[w] = i[w] + 1
        /\ UNCHANGED <<sent, delivered, expected, mismatch, got>>
        /\ \A r \in Readers : pc'[r] = pc[r]
        /\ \A v \in Writers : v = w
    BY <1>1, <1>4, OneEach DEF Counts, Appended, Moves, OneEach, Threads, Callers
  <2>2. Len(sent) \in Nat
    BY <1>1
  <2> QED
    BY <2>1, <2>2 DEF Numbered
<1>5. ASSUME NEW r \in Readers, Takes(r) PROVE Numbered'
  <2>1. /\ delivered' = Append(delivered, sent[Len(delivered) + 1])
        /\ got'[r] = sent[Len(delivered) + 1]
        /\ UNCHANGED <<sent, i, expected, mismatch>>
        /\ pc[r] \notin ReadOut /\ pc'[r] \in ReadOut
        /\ \A w \in Writers : pc'[w] = pc[w]
        /\ \A q \in Readers : q = r
    BY <1>1, <1>5, OneEach DEF Takes, ReadOut, Moves, OneEach, Threads, Callers
  <2>2. Len(delivered) \in Nat /\ Len(sent) \in Nat /\ Len(delivered) + 1 \in 1 .. Len(sent)
    BY <1>1, <1>5 DEF Takes, Size
  <2>3. sent[Len(delivered) + 1] = Len(delivered)
    BY <2>2 DEF Numbered
  <2>4. Len(delivered') = Len(delivered) + 1
    BY <1>1, <2>1, <2>3
  <2> QED
    BY <2>1, <2>2, <2>3, <2>4 DEF Numbered
<1>6. ASSUME NEW r \in Readers, Compares(r) PROVE Numbered'
  <2>1. /\ pc[r] \in ReadOut /\ pc'[r] \notin ReadOut
        /\ mismatch' = (mismatch \/ expected[r] # got[r])
        /\ expected' = [expected EXCEPT ![r] = got[r] + 1]
        /\ UNCHANGED <<sent, delivered, i, got>>
        /\ \A w \in Writers : pc'[w] = pc[w]
        /\ \A q \in Readers : q = r
    BY <1>1, <1>6, OneEach DEF Compares, ReadOut, Moves, OneEach, Threads, Callers
  <2>2. Len(delivered) \in Nat /\ expected[r] = got[r] /\ got[r] = Len(delivered) - 1
    BY <1>1, <2>1 DEF Numbered
  <2>3. expected' \in [Readers -> Int] /\ expected'[r] = Len(delivered)
    BY <1>1, <2>1, <2>2 DEF Numbered
  <2>4. ~mismatch'
    BY <2>1, <2>2 DEF Numbered
  <2>5. \A q \in Readers : expected'[q] = Len(delivered) /\ pc'[q] \notin ReadOut
    BY <2>1, <2>3
  <2> QED
    BY <2>1, <2>3, <2>4, <2>5 DEF Numbered
<1> QED
  BY <1>2, <1>3, <1>4, <1>5, <1>6, Effects

(* The transfer check of reader() and the asserts of queue_add and         *)
(* queue_get always hold, and no freed or NULL node is touched: the        *)
(* transfer check for one writer and one reader, as the programs have.     *)
THEOREM TransferIsSound ==
  ASSUME OneEach
  PROVE  Spec => []TransferSound
PROOF
<1>1. Init => Numbered
  <2> SUFFICES ASSUME Init PROVE Numbered
    OBVIOUS
  <2>1. /\ sent = <<>> /\ delivered = <<>> /\ ~mismatch
        /\ i = [w \in Writers |-> 0] /\ expected = [r \in Readers |-> 0]
    BY DEF Init, QueueInit
  <2>2. Len(sent) = 0 /\ Len(delivered) = 0
    BY <2>1
  <2>3. /\ \A w \in Writers : pc[w] \notin Appended
        /\ \A r \in Readers : pc[r] \notin ReadOut
    BY QueueAssumption DEF Init, AddStart, GetStart, Appended, ReadOut, Threads, Callers
  <2>4. \A k \in 1 .. Len(sent) : FALSE
    BY <2>2
  <2> QED
    BY <2>1, <2>2, <2>3, <2>4 DEF Numbered
<1>2. Inv /\ Numbered /\ [Next]_vars => Numbered'
  BY OneEach, NumberedStep
<1>3. Inv /\ Numbered => TransferSound
  BY DEF Inv, Typed, Data, Numbered, TransferSound, NoTransferError, AssertsHold, NoBadAccess
<1> QED
  BY <1>1, <1>2, <1>3, Invariant, PTL DEF Spec
=============================================================================
