-------------------------------- MODULE Queue --------------------------------
(***************************************************************************)
(* The linked-list queue of src/sem2/lab2 (queue.c) at the granularity of  *)
(* its loads and stores, and the reader and writer loops of queue-threads. *)
(* The programs differ only in what they put around these steps: nothing   *)
(* (QueueUnsync), a lock (QueueLocked), or a lock and condition variables  *)
(* (QueueCond).  A step therefore takes the label of the statement that    *)
(* follows it in the program at hand.                                      *)
(*                                                                         *)
(* Dereferencing NULL or a freed node, and a failing assert, are undefined *)
(* or fatal: they set fault, after which no step is taken.                 *)
(*                                                                         *)
(* add_attempts and get_attempts only feed the printed statistics and the  *)
(* choice of when to usleep, and are left out.                             *)
(***************************************************************************)
EXTENDS Integers, Sequences, FiniteSets

CONSTANTS
  Readers, Writers,
  Cells,      \* the heap cells malloc may return for a qnode_t
  NULL,
  MaxCount,   \* q->max_count
  MaxVal      \* bound: a writer adds the values 0 .. MaxVal - 1

ASSUME QueueAssumption ==
  /\ IsFiniteSet(Cells) /\ NULL \notin Cells
  /\ MaxCount \in Nat \ {0}
  /\ MaxVal \in Nat
  /\ Readers \intersect Writers = {}

Callers == Readers \union Writers

VARIABLES
  first, last, count,         \* the fields of queue_t
  add_count, get_count,       \* its statistics
  val, next,                  \* the fields of each qnode_t
  live,                       \* the cells malloc has given out
  pc,
  new,                        \* queue_add's new, per writer
  tmp, got, nxt,              \* queue_get's tmp, *val and first->next
  reg,                        \* the loaded operand of count++ / count--
  i,                          \* the writer's next value
  expected,                   \* the reader's expected value
  mismatch,                   \* the reader has printed its ERROR line
  fault,
  sent, delivered             \* history: values linked in and read out

shared == <<first, last, count, add_count, get_count>>
heap == <<val, next, live>>
locals == <<new, tmp, got, nxt, reg>>
client == <<i, expected, mismatch>>
history == <<sent, delivered>>
queueVars == <<shared, heap, pc, locals, client, fault, history>>

Ptr == Cells \union {NULL}

Faults == {"none", "assert", "null", "freed", "oom"}

(* queue_init, and the initial locals of reader() and writer() *)
QueueInit ==
  /\ first = NULL /\ last = NULL /\ count = 0
  /\ add_count = 0 /\ get_count = 0
  /\ val = [c \in Cells |-> 0]
  /\ next = [c \in Cells |-> NULL]
  /\ live = {}
  /\ new = [w \in Writers |-> NULL]
  /\ tmp = [r \in Readers |-> NULL]
  /\ got = [r \in Readers |-> -1]
  /\ nxt = [r \in Readers |-> NULL]
  /\ reg = [t \in Callers |-> 0]
  /\ i = [w \in Writers |-> 0]
  /\ expected = [r \in Readers |-> 0]
  /\ mismatch = FALSE
  /\ fault = "none"
  /\ sent = <<>> /\ delivered = <<>>

At(t, label) == fault = "none" /\ pc[t] = label
Goto(t, label) == pc' = [pc EXCEPT ![t] = label]

(* A dereference of p: do the access, or stop in the fault it causes. *)
Deref(p, access) ==
  \/ /\ p \in live
     /\ access
     /\ UNCHANGED fault
  \/ /\ p \notin live
     /\ fault' = IF p = NULL THEN "null" ELSE "freed"
     /\ UNCHANGED <<shared, heap, pc, locals, client, history>>

-----------------------------------------------------------------------------
(* queue_add *)

(* malloc, new->val = val, new->next = NULL; abort() without memory *)
AllocNew(w, to) ==
  /\ At(w, "alloc")
  /\ \/ \E c \in Cells \ live :
          /\ live' = live \union {c}
          /\ val' = [val EXCEPT ![c] = i[w]]
          /\ next' = [next EXCEPT ![c] = NULL]
          /\ new' = [new EXCEPT ![w] = c]
          /\ Goto(w, to)
          /\ UNCHANGED fault
     \/ /\ live = Cells
        /\ fault' = "oom"
        /\ UNCHANGED <<heap, new, pc>>
  /\ UNCHANGED <<shared, tmp, got, nxt, reg, client, history>>

(* assert(q->count <= q->max_count) *)
AssertNotOver(w, to) ==
  /\ At(w, "assertAdd")
  /\ IF count <= MaxCount
     THEN Goto(w, to) /\ UNCHANGED fault
     ELSE fault' = "assert" /\ UNCHANGED pc
  /\ UNCHANGED <<shared, heap, locals, client, history>>

(* Mutant: the limit is tested one value too late. *)
TestFullOffByOne(w, full, room) ==
  /\ At(w, "testFull")
  /\ Goto(w, IF count > MaxCount THEN full ELSE room)
  /\ UNCHANGED <<shared, heap, locals, client, fault, history>>

(* if (q->count == q->max_count) *)
TestFull(w, full, room) ==
  /\ At(w, "testFull")
  /\ Goto(w, IF count = MaxCount THEN full ELSE room)
  /\ UNCHANGED <<shared, heap, locals, client, fault, history>>

(* if (!q->first) *)
TestFirst(w) ==
  /\ At(w, "testFirst")
  /\ Goto(w, IF first = NULL THEN "setFirst" ELSE "linkNext")
  /\ UNCHANGED <<shared, heap, locals, client, fault, history>>

(* q->first = q->last = new; no reader ever looks at last *)
SetFirst(w) ==
  /\ At(w, "setFirst")
  /\ first' = new[w]
  /\ last' = new[w]
  /\ sent' = Append(sent, i[w])
  /\ Goto(w, "loadInc")
  /\ UNCHANGED <<count, add_count, get_count, heap, locals, client, fault,
                 delivered>>

(* q->last->next = new *)
LinkNext(w) ==
  /\ At(w, "linkNext")
  /\ Deref(last,
       /\ next' = [next EXCEPT ![last] = new[w]]
       /\ sent' = Append(sent, i[w])
       /\ Goto(w, "moveLast")
       /\ UNCHANGED <<shared, val, live, locals, client, delivered>>)

(* Mutant: last stays behind. *)
MoveLastForgotten(w) ==
  /\ At(w, "moveLast")
  /\ Goto(w, "loadInc")
  /\ UNCHANGED <<shared, heap, locals, client, fault, history>>

(* q->last = q->last->next *)
MoveLast(w) ==
  /\ At(w, "moveLast")
  /\ Deref(last,
       /\ last' = next[last]
       /\ Goto(w, "loadInc")
       /\ UNCHANGED <<first, count, add_count, get_count, heap, locals,
                      client, history>>)

(* q->count++, as a load and a store *)
LoadInc(w) ==
  /\ At(w, "loadInc")
  /\ reg' = [reg EXCEPT ![w] = count]
  /\ Goto(w, "storeInc")
  /\ UNCHANGED <<shared, heap, new, tmp, got, nxt, client, fault, history>>

StoreInc(w) ==
  /\ At(w, "storeInc")
  /\ count' = reg[w] + 1
  /\ Goto(w, "countAdd")
  /\ UNCHANGED <<first, last, add_count, get_count, heap, locals, client,
                 fault, history>>

(* q->add_count++, which only writers write *)
CountAdd(w, to) ==
  /\ At(w, "countAdd")
  /\ add_count' = add_count + 1
  /\ Goto(w, to)
  /\ UNCHANGED <<first, last, count, get_count, heap, locals, client, fault,
                 history>>

(* the middle of queue_add, the same in every program *)
LinkNew(w) ==
  \/ TestFirst(w) \/ SetFirst(w) \/ LinkNext(w) \/ MoveLast(w) \/ LoadInc(w)
  \/ StoreInc(w)

(* writer(): if (!ok) continue; i++ *)
AddReturned(w, again) ==
  /\ At(w, "added")
  /\ i' = [i EXCEPT ![w] = @ + 1]
  /\ Goto(w, IF i'[w] < MaxVal THEN again ELSE "stop")
  /\ UNCHANGED <<shared, heap, locals, expected, mismatch, fault, history>>

-----------------------------------------------------------------------------
(* queue_get *)

(* assert(q->count >= 0) *)
AssertNotUnder(r, to) ==
  /\ At(r, "assertGet")
  /\ IF count >= 0
     THEN Goto(r, to) /\ UNCHANGED fault
     ELSE fault' = "assert" /\ UNCHANGED pc
  /\ UNCHANGED <<shared, heap, locals, client, history>>

(* if (q->count == 0) *)
TestEmpty(r, empty, some) ==
  /\ At(r, "testEmpty")
  /\ Goto(r, IF count = 0 THEN empty ELSE some)
  /\ UNCHANGED <<shared, heap, locals, client, fault, history>>

(* tmp = q->first *)
ReadFirst(r) ==
  /\ At(r, "readFirst")
  /\ tmp' = [tmp EXCEPT ![r] = first]
  /\ Goto(r, "readVal")
  /\ UNCHANGED <<shared, heap, new, got, nxt, reg, client, fault, history>>

(* *val = tmp->val *)
ReadVal(r) ==
  /\ At(r, "readVal")
  /\ Deref(tmp[r],
       /\ got' = [got EXCEPT ![r] = val[tmp[r]]]
       /\ delivered' = Append(delivered, val[tmp[r]])
       /\ Goto(r, "loadNext")
       /\ UNCHANGED <<shared, heap, new, tmp, nxt, reg, client, sent>>)

(* q->first = q->first->next, as the load of next and the store of first *)
LoadNext(r) ==
  /\ At(r, "loadNext")
  /\ Deref(first,
       /\ nxt' = [nxt EXCEPT ![r] = next[first]]
       /\ Goto(r, "storeFirst")
       /\ UNCHANGED <<shared, heap, new, tmp, got, reg, client, history>>)

StoreFirst(r, to) ==
  /\ At(r, "storeFirst")
  /\ first' = nxt[r]
  /\ Goto(r, to)
  /\ UNCHANGED <<last, count, add_count, get_count, heap, locals, client,
                 fault, history>>

(* q->count-- *)
LoadDec(r) ==
  /\ At(r, "loadDec")
  /\ reg' = [reg EXCEPT ![r] = count]
  /\ Goto(r, "storeDec")
  /\ UNCHANGED <<shared, heap, new, tmp, got, nxt, client, fault, history>>

StoreDec(r) ==
  /\ At(r, "storeDec")
  /\ count' = reg[r] - 1
  /\ Goto(r, "countGet")
  /\ UNCHANGED <<first, last, add_count, get_count, heap, locals, client,
                 fault, history>>

(* q->get_count++, which only readers write *)
CountGet(r, to) ==
  /\ At(r, "countGet")
  /\ get_count' = get_count + 1
  /\ Goto(r, to)
  /\ UNCHANGED <<first, last, count, add_count, heap, locals, client, fault,
                 history>>

(* free(tmp) *)
FreeTmp(r, to) ==
  /\ At(r, "freeTmp")
  /\ Deref(tmp[r],
       /\ live' = live \ {tmp[r]}
       /\ Goto(r, to)
       /\ UNCHANGED <<shared, val, next, locals, client, history>>)

(* the middle of queue_get, the same in every program *)
TakeFirst(r) ==
  ReadFirst(r) \/ ReadVal(r) \/ LoadNext(r) \/ LoadDec(r) \/ StoreDec(r)

(* reader(): compare with expected and print the ERROR line *)
GetReturned(r, again) ==
  /\ At(r, "taken")
  /\ mismatch' = (mismatch \/ expected[r] # got[r])
  /\ expected' = [expected EXCEPT ![r] = got[r] + 1]
  /\ Goto(r, again)
  /\ UNCHANGED <<shared, heap, locals, i, fault, history>>

-----------------------------------------------------------------------------
QueueTypeOK ==
  /\ first \in Ptr /\ last \in Ptr
  /\ count \in Int /\ add_count \in Nat /\ get_count \in Nat
  /\ val \in [Cells -> Nat]
  /\ next \in [Cells -> Ptr]
  /\ live \in SUBSET Cells
  /\ new \in [Writers -> Ptr]
  /\ tmp \in [Readers -> Ptr]
  /\ got \in [Readers -> Int]
  /\ nxt \in [Readers -> Ptr]
  /\ reg \in [Callers -> Int]
  /\ i \in [Writers -> Nat]
  /\ expected \in [Readers -> Int]
  /\ mismatch \in BOOLEAN
  /\ fault \in Faults
  /\ sent \in Seq(Nat) /\ delivered \in Seq(Nat)

(* The transfer check that every reader() makes on every value it takes:   *)
(* "ERROR: get value is %d but expected - %d" is never printed.            *)
NoTransferError == ~mismatch

(* The asserts of queue_add and queue_get never fire. *)
AssertsHold == fault # "assert"

(* No NULL or freed node is dereferenced and nothing is freed twice. *)
NoBadAccess == fault \notin {"null", "freed"}

(* All three: nothing the program itself tests, and nothing that would end *)
(* it, ever goes wrong.                                                    *)
TransferSound == NoTransferError /\ AssertsHold /\ NoBadAccess
=============================================================================
