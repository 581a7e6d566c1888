# Verification of Operating_systems_NSU

TLA+ models, TLC runs and TLAPS proofs for the programs of the two operating
systems courses in `src/`. The repository is a collection of C programs, one
or more per task. The project models those that have a protocol or a data
structure of their own: from the second semester the caching proxy, the two
home-made locks, the queue in its six versions, the list with a lock per node
and the two thread libraries; from the first the heap, the reverser, the
system-call tracer and the two TCP echo servers.

`PROJECT.json` is the machine-readable side: components, runs, mutants, the
map from definitions to source lines, findings, hazards and theorems.

## 1. Inventory

### A. Caching HTTP proxy (`sem2/lab3/task3_3`)

* State: the cache `Map` (a linked list of `Cache` entries keyed by URL,
  guarded by `cache->mutex`); for every entry a `List` of response nodes with a
  mutex, a condition variable and a `complete` flag; an rwlock per node; a
  semaphore of `MAX_THREADS` slots; the locals of each `client_handler`.
* Operations: `start_proxy_server` accepts, takes a slot and spawns;
  `client_handler` reads the request, looks the URL up, and either streams the
  entry it found or creates one, connects upstream, follows redirects, stores
  headers and body as nodes while sending them to its own client, completes the
  list, and keeps or removes the entry.
* Hard: lookup and creation race; streaming clients use an entry after the map
  mutex is released; readers run ahead of the fetching thread; every network
  call may fail and each failure has its own path; slots must come back on all
  of them.
* Correct if: one entry per URL; a streaming client receives the whole response
  and each part once; nobody touches a freed entry; nobody sleeps for ever; what
  stays in the cache is a whole response; slots are neither lost nor doubled.

### B. Futex mutex and spinlock (`sem2/lab2/task2_4`)

* State: `lock`, `owner`, `recursion`, `type`, and the kernel's wait queue; for
  the spinlock one word.
* Operations: `my_mutex_lock`, `my_mutex_unlock` (normal, error-checking and
  recursive), `my_spinlock_lock`, `my_spinlock_unlock`.
* Hard: `owner` is read and written without atomics; there is a window between
  the failed exchange and `FUTEX_WAIT`; one wake-up per release.
* Correct if: at most one holder; the relock test is exact; no lost wake-up; a
  free mutex is handed on.

### C. The queue (`sem2/lab2/task2_1`, `task2_2/*`, used again by `task2_4`)

* State: `first`, `last`, `count`, `max_count`, the statistics, the nodes.
* Operations: `queue_init`, `queue_add`, `queue_get`, `queue_print_stats`,
  `queue_destroy`; a reader, a writer and a monitor thread.
* Versions: no synchronisation (`task2_1`, `task2_2/d`); one lock inside the
  operations (`mutex`, `spinloc`, `semafors`); one lock around them
  (`task2_4`); two condition variables (`conditionalVarible`).
* Correct if: values arrive in order, exactly once; the asserts on `count` hold;
  no dangling node is touched; no node is lost; blocked threads are woken.

### D. List with a lock per node (`sem2/lab2/task2_3/{mutex,rwlock,spinloc}`)

* State: the `next` fields, a lock per node, `stop_flag`, the statistics.
* Operations: three counting threads walk hand over hand, three swapping threads
  exchange neighbours under three locks, a monitor prints, `main` stops them all
  and destroys the list.
* Hard: locks are taken in list order while that order changes; a swapper steps
  to `prev->next` without a lock.
* Correct if: the list stays a permutation of its nodes, a pass meets every node
  once, nothing deadlocks, all threads stop.

### E. Clone threads (`sem2/lab1/task1_6`)

* State: the descriptor (`joinable`, `is_finished`, `retval`), which lies on the
  thread's own stack; the list of detached threads, `cleanup_thread_started`, a
  mutex and a condition variable.
* Operations: `my_thread_create`, `my_thread_join`, `my_thread_detach`, the
  thread itself (`thread_func`) and the cleaner, started by the first detach.
* Hard: whoever unmaps the stack takes the descriptor and the running thread's
  ground away; the cleaner's start races with other detaches; mmap and clone fail.
* Correct if: no stack is unmapped under a routine; join returns what the routine
  returned; every detached thread that was listed is reclaimed.

### F. User-level threads (`sem2/lab1/task1_7`)

* State: a ring of nodes with a `ucontext` each, `mgr->cur`, `mgr->count`.
* Operations: `u_thread_create`, `u_thread_usleep`, `u_thread_scheduler`, the end
  of `u_thread_startup`, the loop of `main`.
* Hard: the scheduler unlinks nodes while it walks the ring, from whichever
  thread called it; `uc_link` returns to `main` while `mgr->cur` names another.
* Correct if: the ring stays one, nothing runs on an unmapped stack or in a
  foreign context, sleeps are not cut short, all threads finish.

### G. Heap (`sem1/lab4/task4_3`)

* State: a list of blocks in one mapping. Operations: `myMalloc` (first fit with
  split), `myFree`, `mergeBlocks`.
* Correct if: the blocks tile the mapping, grants do not overlap, and a request
  is refused only if no gap holds it.

### H. Select echo server (`sem1/lab7/task7_3`)

* State: `clients[]` with a send buffer each, the sets of a round.
* Operations: `select`, `addClient`, `handleMessage`, `flushClientBuffer`,
  `deleteClient`, in one loop over blocking sockets.
* Hard: clients that send ahead, stop reading, shut down, reset or are one too
  many, in any order and between any two calls of a round.
* Correct if: slots and open connections agree, what comes back is a prefix of
  what was sent (a client one too many gets the notice alone), and all of it comes
  back to a client that reads.

### I. Forking echo server (`sem1/lab7/task7_1`)

* State: main's variables and descriptors, a child per client with its inherited
  descriptors and buffer, a pending SIGCHLD.
* Operations: accept, fork (which may fail), close; `sigchldHandler`;
  `handleClient` in the child.
* Hard: several SIGCHLDs are one; the handler interrupts main anywhere;
  a connection lives as long as any process holds its descriptor.
* Correct if: no zombie is forgotten, no descriptor is kept, everything sent has
  come back when the connection ends.

### J. Reverser (`sem1/lab3/task3_1`)

* State: the file system, the recursion of `reverseFiles`, the loop of
  `copyContent`. Operations: the walk, the creation of directories and files, the
  copy in chunks from the end; each call may fail.
* Correct if: the source is untouched and the target is its mirror.

### K. System-call tracer (`sem1/lab2/task2_3`)

* State: the stops of the child, the status the parent saw, its turn.
* Hard: signals stop the child too, and it may die between two ptrace calls.
* Correct if: a line says ENTER or EXIT according to what the child did.

### L. Not modelled

UDP echo (`task7_2`), the file manager (`sem1/lab3/task3_2`), and the
demonstrations of both semesters: see section 5.

## 2. Modules

    AbstractLock <-- implements -- MyMutex, MySpinlock
         | instance
         v
    Queue <-- extends -- QueueUnsync, QueueLocked, QueueCond -- implement --> BoundedFifo

    ListLocks     ProxyCache     MyThread     UThread     ReverseTree     Tracer

    BlockList <-- extends -- MyHeap -- implements --> Allocator
    EchoNet   <-- extends -- SelectServer, ForkServer -- implement --> Echo

    MCSem1 = BlockList, MyHeap, ReverseTree, Tracer, SelectServer, ForkServer
    MCSem2 = Queue, QueueUnsync, MySpinlock, MyThread, UThread

| module | models |
| --- | --- |
| `AbstractLock` | what a lock promises: `depth[t]` acquisitions per thread, at most one thread with any |
| `MyMutex` | `my_mutex.c`, one action per access of a shared field or futex call |
| `MySpinlock` | `my_spinlock.c`, with the weak exchange that may fail for no reason |
| `BoundedFifo` | what a queue promises: order, no loss, no duplicate, at most `MaxCount` inside |
| `Queue` | the statements of `queue_add` and `queue_get` as actions, at the level of loads and stores, with a heap of cells, so that the variants can be put together from them |
| `QueueUnsync` | `task2_1` and `task2_2/d` |
| `QueueLocked` | five programs over one `AbstractLock`: `mutex`, `spin`, `sem`, `my_mutex`, `my_spinlock`, and the monitor of `semafors`, the only one that locks |
| `QueueCond` | `conditionalVarible`, with spurious wake-ups |
| `ListLocks` | the three programs of `task2_3` |
| `ProxyCache` | `task3_3` of the second semester |
| `MyThread` | `my_thread.c`: owners, threads and the cleaner |
| `UThread` | `u_thread.c` and the loop of its `main.c` |
| `Allocator` | what malloc and free promise |
| `BlockList`, `MyHeap` | `my_heap.c`: the blocks, and the operations on them |
| `Echo` | what an echo server promises: what comes back to a client is a prefix of what it sent, or a notice alone if it is refused |
| `EchoNet` | the clients of both TCP servers and the connections as the socket calls show them |
| `SelectServer`, `ForkServer` | `thrid_server.c`, `tcp_server.c` |
| `ReverseTree` | `reverse.c` |
| `Tracer` | `third.c` |
| `MCSem1`, `MCSem2` | several programs that share nothing in one run: `program` is chosen at the start, and the others keep their initial states |
| `MCQueueLocked`, `MCProxyCache` | symmetry sets for TLC |
| `*_proofs` | theorems |

### Correspondence

* **MyMutex.** `pc[t]` is the statement a thread is about to execute; `lock`,
  `owner`, `recursion` and `type` are the fields; `futexQ` is the kernel's queue.
  `lock` is 1 when free, as in the code. The relock test is two steps
  (`TestLock`, `TestOwner`), the release four (`ClearOwner`, `ClearRecursion`,
  `StoreLock`, `FutexWake`). Clients are arbitrary: any thread may call lock or
  unlock whenever it is in neither, also without owning the mutex. `depth` counts
  successful acquisitions and is the refinement mapping to `AbstractLock`.
* **Queue.** `Cells` are the addresses `malloc` may return; `live` is the set of
  allocated ones. A dereference of `NULL` or of a freed cell sets `fault` and the
  process stops; running out of cells is the `abort()` after a failed `malloc`.
  `count++` is a load into a register and a store;
  `add_count++` and `get_count++`, each written by one side only, are one step
  after it. `sent` and `delivered` are
  history: the values linked in and read out. The `*_attempts` counters, which no
  decision depends on, are left out.
* **QueueLocked / QueueCond.** Only synchronisation is added: which lock, taken
  where, and what happens to the new node if the queue is full. The pthread
  primitives are external and modelled by their contract.
* **ListLocks.** Node `0` is `l->start`, `next` is the field, `held[t]` the locks
  of a thread. The three stores of a swap are three steps. Counting threads may
  share a node only in `rwlock`. A read of a field under a lock that the thread
  already holds is merged with the step that took the lock. Strings, counts and
  statistics are data that no decision about locks depends on.
* **ProxyCache.** An entry is named after the handler that created it; node `k`
  is the `k`-th of its list, `cur = 0` is `NULL`. Sections of a list mutex are
  single steps; the map mutex and the node rwlocks are state since they are held
  across steps. Requests and responses are reduced to what `client_handler`
  branches on: a URL, and a status that is cacheable (`ok`), not cacheable
  (`other`), a redirect, or missing (`none`). Every network call may fail if its
  name is in `Failures`. A handler that goes on with a closed descriptor after
  `request_send` has failed finds no data on it; that the number might have been
  reused by another thread is not modelled.
* **MyThread.** `call[t]` is the statement of the code that created `t`, `pc[t]`
  that of `t` itself, `cleaner` that of `cleanup_thread_func`. Every access of a
  descriptor goes through `Touch`: if the stack is unmapped, `fault` says who was
  caught. A section under `cleanup_mutex` is one step. `my_thread_join` is a
  polling loop: `FUTEX_WAIT` expects 1 while the word is always 0, so it returns
  with EAGAIN at once.
* **UThread.** One kernel thread, so a step is what runs between two switches;
  only the scheduler is finer, one step per round of its loop. `ctx[n]` says whose
  execution `n->u_ctx` resumes, which is how `swapcontext` from a finished node is
  followed. Time is whether `sleep_until_us` has passed, read once per call.
* **BlockList, MyHeap.** Addresses are offsets from `heapPtr`, units are bytes,
  `Header` is `sizeof(block)`. A round of either loop is a step. Requests are any
  of `Sizes`; a caller frees a pointer once.
* **EchoNet.** `sent`, `taken`, `got`, `unread` count the bytes of a connection;
  `Window` is what a client's host takes before the client reads; byte `k` is the
  number `k`. `recv` returns data, then a pending error, then the end. A client may
  reset also before it is accepted. `got` is what has reached the client's host;
  that a host throws unread input away when a reset arrives is not modelled.
* **SelectServer.** `Select` computes both sets, `Accept` is the rest up to the
  loop, `Read` and `Flush` are its two halves, and a round of the loop in
  `flushClientBuffer` is a step that can only be taken when the client has room:
  the socket is blocking. The second `send` after a reset raises SIGPIPE. `Refuse`
  is the end of `addClient` with a full table: the 17 bytes of "Server is full.\n",
  kept as one byte 0 that no client sends, go out at once, since nothing was sent
  on that connection before, and the connection is closed. The refinement of `Echo`
  maps its `refused` to the connections in that state.
* **ForkServer.** `parentFds` and `childFds` are the open client sockets; `Release`
  closes a connection with its last descriptor. `Signal` may come between any two
  steps of main.
* **ReverseTree.** A path is a sequence of names, a name a sequence of letters.
  `stack` holds the activations of `reverseFiles`; `readdir` may or may not return
  what was added meanwhile, and may fail, which ends the directory as if it were
  read to its end. `broken` remembers that some call has failed.
* **Tracer.** The kernel side (`StopFor`, `Signal`, `Kill`) is external; `Wait`,
  `Resume` and `Report` are the statements of the loop, and `label` pairs the last
  line with the stop it was printed for.

## 3. Runs

| run | instance | shows |
| --- | --- | --- |
| `mutex` | 3 threads, nesting 2, all types | exact bookkeeping (`OwnerRecordsHolder`) and self-deadlock test, no lost wake-up, refinement of `AbstractLock`, and under fairness `HandOff` |
| `sem2` | 2 clone threads; 3 user threads with 2 naps; 4 threads on the spinlock; 1 reader and 1 writer without synchronisation, room for 2, 4 values | `StackOutlivesRoutine`, `JoinReturnsResult`, `Reclaimed`; `ThreadsIntact`, `SleepsWhole`, `AllFinish`; the spinlock implements `AbstractLock`; the asserts on `count` never fire although every update of it races |
| `sem1` | heap of 10 bytes, header 2, requests of 0, 1, 2, 4, 9; three trees, chunks of 2; 3 calls and 2 signals; 2 clients for 1 slot with 3 bytes each; 2 forked children with 2 bytes each | `Tiles` and refinement of `Allocator`; `CopyIsMirror`; `LinesMatch`; both servers keep no descriptor (`DescriptorsKept`) and refine `Echo`; `Echoed` for the first, `EchoedWhole` and `NoZombieForgotten` for the second |
| `queue_locked` | the queue for each of the five programs | `TransferSound` (order, asserts, no bad access), list = contents and statistics = what was transferred when unlocked, also while the monitor prints, no leak in three programs, refinement of `BoundedFifo` |
| `queue_leak` | `mutex` and `sem` | **violated**: the node of a failed `queue_add` is lost |
| `queue_cond` | 1 reader, 2 writers, room for 1, 3 values each, 2 spurious wake-ups | nobody sleeps on a true condition, refinement, every value arrives |
| `list` | 2 counting, 2 swapping threads, lengths 0, 1, 3, three programs | the list stays whole, the recheck under three locks is redundant, a pass meets each node once, all threads stop |
| `proxy_any` | 3 clients for 2 slots, 2 URLs, all replies and failures | one entry per URL, balanced slots, no lost broadcast, streams and kept entries are whole, nothing is freed that may stay |
| `proxy_live` | 3 clients, 3 slots, 1 URL | a client asleep on an empty list is woken |
| `proxy_stream_once` | 2 clients, 1 URL, no failures | **violated**: a client that catches up is sent the response from the start again |
| `proxy_freed_entry` | 2 clients, uncacheable response | **violated**: the entry is freed under the streaming client |
| `proxy_failed_fetch` | 2 clients, connect may fail | **violated**: an empty entry stays as "fully loaded" |

The programs in `sem1` and `sem2` share no variable and no step, so a run over
their disjoint union checks each of them exactly as a run of its own would.

**Bounds.** Two competitors suffice for a race between two roles; a third is
there where one more matters: a thread that barges between a release and the
woken sleeper (`mutex`), a second sleeper (`proxy_live`), a connection that waits
for a slot (`proxy_any`), a node before and one behind the unlinked one (user
threads). The queues use a capacity below the number of values so that full and
empty alternate. Three list nodes are the fewest on which two swaps overlap
without being equal; 0 and 1 are the early exits. One body chunk after the
headers gives lists of length two, enough for a reader to be behind, at and
ahead of the writer. Two clone threads give one detach that starts the cleaner
and one that finds it started. Ten bytes hold up to five blocks, so three free
neighbours can meet; the sizes hit a remainder of exactly a header, nothing, and
more than there is. Files of five, two and three bytes against chunks of two give
several chunks, the special size, and a short chunk. Three calls with two signals
show both parities and the return to the first. One slot for two clients gives
the refusal; three bytes against a send buffer of two the overflow; a window of
one a client that does not read. Two children give two SIGCHLDs in one.
`MaxDepth`, `MaxVal`, `MaxSpurious`, `MaxChunks`, `Lengths`, `Cells`, `Naps`,
`MaxCalls`, `MaxSignals` and `MaxSend` are the named bounds; `MaxCount`,
`MaxThreads`, `MaxRedirects`, `HeapSize`, `BufSize`, `MAX`, `ReadSize`, `SendSize`
and `BUFFER_SIZE` exist in the code with other values.

**Fairness.** Weak fairness of each thread's steps: a thread that can run is
eventually scheduled. Nothing is assumed about who gets a lock. `HandOff` needs
no more, since it only says that the mutex is taken by somebody. `AllDelivered`
holds because the work is finite and spurious wake-ups are bounded; in it an
allocation that fails ends the process. `Terminates` also assumes that `main`
returns from `sleep`. `SleeperWakes` assumes that upstream servers and clients
answer or hang up: the proxy sets no timeout, so with a server that is silent for
ever the readers of that URL do wait for ever. `Reclaimed` assumes that clone
threads and the cleaner are scheduled and that routines return, not that owners
ever join. `AllFinish` assumes that the one kernel thread runs and that the clock
passes every `sleep_until_us`. `Echoed` assumes that the server's process runs
and that clients read what has arrived; nothing makes them connect, send or close.
All clients' reads together are one fair action: a client sends, and therefore
reads, boundedly often, so each of them is served.

**What the violations say.**

* `queue_leak`: `mutex/queue.c` and `semafors/queue.c` allocate before the test
  for room and return 0 without `free`; `spinloc/queue.c` frees.
* `proxy_stream_once`: after its last available node a reader sets
  `current = next = NULL`; `list_wait_for_data` cannot tell this from "nothing
  read yet" and returns the first node. `StreamedWhole` still holds: what the
  client gets ends with a whole response.
* `proxy_freed_entry`: `map_remove` frees an entry that others are streaming.
  `FreedOnlyUncacheable` bounds the damage: it takes a response that may not be
  cached.
* `proxy_failed_fetch`: a failed connect or request leaves `need_to_cache` at 1;
  the entry stays, complete and empty. `WholeUnlessFailed` says what remains true.
  The same happens after a redirect to a response that may not be cached, since
  `map_remove` is then called with the new URL.

That the unsynchronised queue delivers wrong values is what its task sets out to
show; `TransferSound` is therefore checked for the synchronised ones only.

**What the properties exclude because it happens.** These are facts about the
code that no doc, comment or test contradicts, so no run reports them; the
properties are stated with the exception, and the runs contain it.

* Clone threads: after `is_finished = 1` a thread still makes two system calls on
  a stack that join or the cleaner may already have unmapped (`fault = "tail"`);
  the owner of a detached thread who asks again reads an unmapped descriptor
  (`"handle"`); a failed start of the cleaner leaves `cleanup_thread_started` at 1,
  and nothing is reclaimed from then on. Join never sleeps.
* User threads: after an unlinked node, `continue` steps over its successor; a
  round may end with everybody asleep, and `u_thread_usleep` then returns early.
* Reverser: a file of exactly two bytes is copied empty (`FSEEK_ERROR` is 2); an
  existing target is not refused; with a palindromic name the source is its own
  target and is overwritten; a failed copy is not reported.
* Tracer: each signal takes a line and shifts the turn of ENTER and EXIT by one,
  and is discarded; a child killed by a signal ends the loop only through the
  failing `PTRACE_GETREGSET`.
* Select server: a client that shuts down its sending side is deleted before the
  rest is flushed; a full send buffer drops the client; the second write after a
  reset kills the server; a client that does not read stalls all others.

Each property of a passing run has a mutant: a small change of one modelled
statement under which TLC finds that property violated.

## 4. Proofs

Every invariant and every action property that a passing run checks, and every
refinement, is also a theorem. All are for arbitrary constants under the
modules' named assumptions, which TLC evaluates in the runs: `MutexAssumption`,
`ProxyAssumption` (finitely many handlers), `QueueAssumption` (finitely many
cells, a positive limit, a thread reads or writes), `LockedAssumption`,
`CondAssumption`, `ListAssumption`, `HeapAssumption`, `ForkAssumption`,
`SelectAssumption` and `ReverserAssumption`. Two theorems need more and say so:
the asserts of the unsynchronised queue and `TransferSound` are about one reader
and one writer (`OneEach`), which is what `queue-threads.c` creates.

* **`MyMutex_proofs`** (any threads, any depth): `TypeCorrect`, `Exclusive`,
  `OwnerIsHolder`, `SelfDeadlockExact`, `WakeupsKept`, `Refinement`. The inductive
  invariant `IInv` adds to types, exclusion and `NoLostWakeup` a `ThreadInv`: which
  statements only a holder or only a non-holder executes, at which of them the
  holder is not (yet, or any more) recorded in `owner`, and that `recursion` equals
  the depth elsewhere. It is needed because exclusion depends on `unlock`'s owner
  check, which depends on `owner` being exact, which depends on the order of the
  stores in `unlock`.
* **`MCSem2_proofs`**, four programs, each for its own module's specification, and
  `FourPrograms`, which carries the theorems over to the run.
  * Spinlock: `SpinExclusive`, `ConstIsConst`, `SpinRefinement`, from: a thread in
    its critical section or about to unlock implies that the word is locked.
  * Unsynchronised queue: `AssertsNeverFire`. `CountInv` bounds `count` and both
    registers together: between its test and its store each side can be off by
    one only.
  * Clone threads: `StacksOutlive`, `JoinIsExact`. `DescriptorInv` says what an
    owner, its thread and the cleaner know of one descriptor; the list of the
    cleaner holds only threads that were detached, and those have no owner who
    joins (`Detached`), so whoever unmaps is alone and has seen `is_finished`.
  * User-level threads: `RingAndStacks`, `SleepsToTheEnd`. That there is one ring
    is stated without recursion: no nonempty set of linked nodes that `next` does
    not leave is without the main thread (`OneRing`). `Walked` is the set of nodes
    the scheduler has passed: since main is always due, a walk that returns to
    where it began without unlinking anything has met a node it may take.
* **`QueueLocked_proofs`** (any readers, writers, limit and finite heap, five
  programs): `ListIsWhatWasAdded`, `NothingLeaks`, `FifoRefined`, `TransferIsSound`.
  `Inv` says that there is a sequence `at` with the node of the k-th value ever
  sent, such that the nodes of the values inside are allocated, distinct and
  chained from `first` to `last`. While a thread is inside the lock, list, `count`
  and statistics are out of step by amounts that its label determines (`Removed`,
  `Linked`, `Counted`); `Private` are the nodes that are allocated and not on the
  list, each in one thread's hands. The walk that the property makes from `first`
  is then compared with `at` by induction over its length.
* **`QueueCond_proofs`** (any readers, writers, limit, heap and spurious
  wake-ups): `SignalsKept`, `CountWithinLimit`, `FifoRefined`, `NothingDangles`.
  `IInv` adds to types and exclusion what a thread's test of `count` has
  established until it is used, and that the condition of a sleeping thread can be
  true only while the thread that made it true is still on its way to the
  broadcast. `Sound` adds the list, as above; a sleeping writer holds a private
  node, which is why it must appear there. The steps that neither move a node nor
  a value are treated at once: the list looks the same from both labels (`Alike`).
* **`ListLocks_proofs`** (any threads and lengths, all three programs):
  `RecheckNeverFails`, `EachOnce`, `StaysPermutation`. Only swapping threads write
  `next`, each only in nodes it has locked, and no two of them hold the same lock
  (`Apart`), so what one has read under its locks stays true until it writes
  itself (`Stable`). `OrderInv` adds the order of the nodes as it will be once the
  swaps that have begun are through (`pos`, and `at`, its inverse): every `next`
  agrees with it except in the nodes of a swap that it has still to write
  (`HalfDone`), and those are locked. A counting thread has seen exactly the nodes
  up to the one it has locked; a swap cannot move a node past it, since it would
  need that lock.
* **`ProxyCache_proofs`** (any clients, URLs, slots, replies, failures):
  `OneEntryPerURL`, `BroadcastsKept`, `Balanced`, `StreamsEnd`, `CachedWhole`,
  `FreedLast`. `Inv` adds who holds the map mutex during a lookup (and that no
  entry has the key while `map_add` is due), that linked and streamed entries were
  created by a handler that has fetched or is fetching, and that a handler leaves
  only after it completed its list. `Balanced` counts: each step of a handler
  either leaves `Active` and `sem` alone or moves one from the first to the second.
  `WholeInv` follows one list from `map_init` to the end: what it holds at each
  statement of its handler (`Fresh`, `Stored`), that it does not grow once complete
  (`Final`), where a reader is on it (`Reads`), and what may still be linked or has
  been freed when the handler has left (`Filled`, `Freed`).
* **`MyHeap_proofs`** (any heap, header and requests): `TilesAlways`, `NoOverlap`,
  `Refinement`. The inductive invariant is types, `Tiles`, and `CursorOnList`: the
  cursor of the running loop is a block, which a merge never unlinks. `SplitStep`
  and `MergeStep` compare each pair of blocks before and after. That a refusal is
  honest needs two more facts: between calls no two neighbours are both free
  (`Neighbours`), so a gap is one block, and the blocks that the search has passed
  do not fit (`Searched`).
* **`MCSem1_proofs`**, four programs and the glue to the run, which for the two
  servers has to be made by hand since they share the clients (`MCInv`);
  `ThreePrograms` does it for the others.
  * Fork server (any clients, bytes, buffer and window): `ZombiesRemembered`,
    `DescriptorsOwned`, `EchoedToTheEnd`. `IInv` adds `Held` (which process has
    which socket open, step by step of main) and `Whole` (a byte that was taken is
    back or in the child's buffer; a child that is leaving without an error has
    taken all). `EchoedWhole` alone is not inductive: that a closed connection was
    echoed depends on the child having read the end, and that on only the child of
    the client holding its descriptor. `Ordered` says that the buffer continues
    what has come back.
  * Select server: `SlotsHoldConnections`. `SelOwned` relates slots, open
    connections and the local `sock` of the loop; `Buffered` says that the bytes
    from `sendOffset` on continue what has come back. `memcpy` appends at
    `sendLength` and not behind `sendOffset`; that is right because `sendOffset` is
    0 except while one call of `flushClientBuffer` runs, and that call comes back
    only when all is sent or the client is gone. A refused client has got nothing
    before its notice because nothing was taken from it (`AcceptEchoes`).
  * Both: `NothingLeaks` and `ServersEcho` for the specification of the run.
  * Tracer (any number of calls and signals): `LinesAlternate`. Which statement of
    its loop the parent executes is fixed by the parity of the child's stops
    (`Turn`).
  * Reverser (any names, contents, depth and chunk size): `Mirrors` starts from any
    file system that satisfies `Fresh`: the root is a directory in it, and the
    directories on the way to a file below the root exist. `RInv` says: the source
    tree is unchanged, each activation's target is the mirror of its source, the
    copy in progress has the reversed tail of its source, and if no call has failed
    each file is mirrored, being copied, or in an entry that some activation has
    yet to return. That a copy never hits the source tree, nor another file's
    copy, is a fact about reversed names (`MirrorOutside`, `MirrorInjective`); it
    fails for a root with a palindromic name, which `CopyIsMirror` excludes.
    `TreesAreFresh` shows that the run's trees are such file systems, and
    `MirroredCopies` states the result for the run.

A fact that holds by induction over data is proved without induction where it
can be (`OneRing`, `Walked`, `at`, `pos`); where the property itself walks a list
by recursion, the recursive function is unfolded step by step under an induction
over the naturals that is written out as well-foundedness (`Least`, `Induct`).

Only model-checked: the liveness properties `HandOff`, `Reclaimed`, `AllFinish`,
`Echoed`, `AllDelivered`, `Terminates` and `SleeperWakes`; the provers have no
rule for fairness or ENABLED.

## 5. Not modelled, and why

* In the modelled components: `queue_destroy` and the lifetime of the queue's
  monitor (cancelled, not joined, before the queue is freed; only
  `queue-example.c` does it); the printing threads that do not lock; the text of
  HTTP messages, DNS and socket options; the reuse of an unmapped stack by a later
  `mmap` and the fields `id` and `tid` of clone threads, which nothing reads; a
  failed `u_thread_create`, after which its `main` uses a handle that was never
  set; names longer than a path buffer and files that change under the reverser; a
  failing `accept`, `select` or set-up of the listening socket.
* UDP echo (`sem1/lab7/task7_2`): one datagram in, one out, no state.
* File manager (`sem1/lab3/task3_2`): one system call per command.
* The demonstrations (`sem1/lab2/task2_1`, `lab3/task3_3`, `lab4/task4_1`,
  `task4_2`, `lab5`, `sem2/lab1/task1_1`-`task1_5`): each prints what one call
  does, and has no protocol between its threads or processes. `task1_5/a.c` adds
  SIGINT, not SIGQUIT, to the set its third thread waits for (line 37).

What would add most from here: a wider model rather than further proofs, namely
the lifetime of the queue's monitor around `queue_destroy` and the reuse of an
unmapped stack by a later `mmap`.
