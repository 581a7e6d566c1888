------------------------------ MODULE ProxyCache ------------------------------
(***************************************************************************)
(* The caching HTTP proxy of src/sem2/lab3/task3_3: the accepting thread   *)
(* of start_proxy_server, one client_handler thread per connection, the    *)
(* cache Map with its mutex, and for each Cache entry the List of response *)
(* nodes with its mutex, condition variable, complete flag and one rwlock  *)
(* per node.                                                               *)
(*                                                                         *)
(* A handler creates at most one entry, so an entry is named after the     *)
(* handler that created it.  The nodes of a list are only ever appended:   *)
(* node k is its k-th, cur = 0 is the NULL pointer, and node k has a next  *)
(* iff k < nodes.  What a section guarded by a list mutex does is one      *)
(* step; the rwlocks and the map mutex, which are held across steps, are   *)
(* state.  Touching an entry that map_remove has freed is undefined: it    *)
(* sets fault and the process takes no further step.                       *)
(*                                                                         *)
(* Sockets, the upstream servers and the clients are external: what they   *)
(* may do is given by Replies and Failures.                                *)
(***************************************************************************)
EXTENDS Naturals, FiniteSets

CONSTANTS
  Handlers,      \* one client connection, and its thread, each
  URLs,
  None,
  MaxThreads,    \* MAX_THREADS
  MaxRedirects,  \* MAX_REDIRECTS
  MaxChunks,     \* bound: body chunks per response
  Replies,       \* what an upstream may answer
  Failures       \* what may go wrong

AllReplies == {"ok", "other", "redirect", "none"}
AllFailures == {"connect", "request", "client", "spawn", "badRequest"}

ASSUME ProxyAssumption ==
  /\ IsFiniteSet(Handlers)
  /\ None \notin Handlers
  /\ None \notin URLs
  /\ MaxThreads \in Nat \ {0}
  /\ MaxRedirects \in Nat \ {0}
  /\ MaxChunks \in Nat
  /\ Replies \subseteq AllReplies
  /\ Failures \subseteq AllFailures

VARIABLES
  srv,        \* where start_proxy_server's loop is
  accepted,   \* the connection it has accepted
  sem,
  pc,
  loc,        \* the locals of each client_handler
  mapMutex,   \* the holder of cache->mutex
  map,        \* the entries linked into the Map
  cache,      \* the Cache objects and their Lists
  seen,       \* history: what each client has been sent
  fault

vars == <<srv, accepted, sem, pc, loc, mapMutex, map, cache, seen, fault>>

server == <<srv, accepted, sem>>

PCs == {"idle", "header", "lockMap", "find", "add",
        "readFirst", "wait", "asleep", "rdlock", "send", "check",
        "connect", "request", "status", "sendHead", "addHead", "wrlockHead",
        "redirect", "body", "addBody", "wrlockBody", "unlockPrev", "sendBody",
        "unlockLast", "complete", "keep", "remove", "done"}

Outcomes == {"none", "refused", "dropped", "streamed", "filled"}

(* start_proxy_server before its loop: map_init, sem_init *)
Init ==
  /\ srv = "accept" /\ accepted = None
  /\ sem = MaxThreads
  /\ pc = [h \in Handlers |-> "idle"]
  /\ loc = [h \in Handlers |->
              [path |-> None, entry |-> None, cur |-> 0, prev |-> 0,
               sock |-> "none", keep |-> TRUE, alive |-> TRUE,
               redirects |-> 0, chunks |-> 0]]
  /\ mapMutex = None
  /\ map = {}
  /\ cache = [e \in Handlers |->
                [key |-> None, nodes |-> 0, complete |-> FALSE,
                 freed |-> FALSE, wlocked |-> {}]]
  /\ seen = [h \in Handlers |->
               [pass |-> 0, again |-> FALSE, outcome |-> "none"]]
  /\ fault = FALSE

At(h, label) == ~fault /\ pc[h] = label
Goto(h, label) == pc' = [pc EXCEPT ![h] = label]

(* request_destroy, close, free(args), sem_post(sem), return *)
Leave(h, how) ==
  /\ Goto(h, "done")
  /\ sem' = sem + 1
  /\ seen' = [seen EXCEPT ![h].outcome = how]

(* An access to entry e: do it, or stop if e has been freed. *)
Access(e, act) ==
  \/ ~cache[e].freed /\ act /\ UNCHANGED fault
  \/ /\ cache[e].freed
     /\ fault' = TRUE
     /\ UNCHANGED <<server, pc, loc, mapMutex, map, cache, seen>>

(* pthread_cond_broadcast(&list->cond): the readers asleep on e look again *)
Broadcast(h, e, to) ==
  pc' = [u \in Handlers |->
           IF u = h THEN to
           ELSE IF pc[u] = "asleep" /\ loc[u].entry = e THEN "wait"
           ELSE pc[u]]

-----------------------------------------------------------------------------
(* start_proxy_server *)

Accept(h) ==
  /\ ~fault /\ srv = "accept"
  /\ pc[h] = "idle" /\ accepted # h
  /\ srv' = "semWait"
  /\ accepted' = h
  /\ UNCHANGED <<sem, pc, loc, mapMutex, map, cache, seen, fault>>

SemWait ==
  /\ ~fault /\ srv = "semWait"
  /\ sem > 0
  /\ sem' = sem - 1
  /\ srv' = "spawn"
  /\ UNCHANGED <<accepted, pc, loc, mapMutex, map, cache, seen, fault>>

Spawn ==
  /\ ~fault /\ srv = "spawn"
  /\ Goto(accepted, "header")
  /\ srv' = "accept" /\ accepted' = None
  /\ UNCHANGED <<sem, loc, mapMutex, map, cache, seen, fault>>

(* malloc or pthread_create fails: close, sem_post *)
SpawnFails ==
  /\ ~fault /\ srv = "spawn"
  /\ "spawn" \in Failures
  /\ Leave(accepted, "refused")
  /\ srv' = "accept" /\ accepted' = None
  /\ UNCHANGED <<loc, mapMutex, map, cache, fault>>

-----------------------------------------------------------------------------
(* client_handler: the request and the lookup *)

(* Mutant: the 405 path returns without sem_post *)
BadRequestNoPost(h) ==
  /\ At(h, "header")
  /\ "badRequest" \in Failures
  /\ Goto(h, "done")
  /\ seen' = [seen EXCEPT ![h].outcome = "refused"]
  /\ UNCHANGED <<server, loc, mapMutex, map, cache, fault>>

(* a GET with a URL *)
ReadHeader(h) ==
  /\ At(h, "header")
  /\ \E u \in URLs : loc' = [loc EXCEPT ![h].path = u]
  /\ Goto(h, "lockMap")
  /\ UNCHANGED <<server, mapMutex, map, cache, seen, fault>>

(* no request, no URL, or a method other than GET (405) *)
BadRequest(h) ==
  /\ At(h, "header")
  /\ "badRequest" \in Failures
  /\ Leave(h, "refused")
  /\ UNCHANGED <<srv, accepted, loc, mapMutex, map, cache, fault>>

(* Mutant: the lookup does not take cache->mutex *)
LockMapAnyway(h) ==
  /\ At(h, "lockMap")
  /\ Goto(h, "find")
  /\ UNCHANGED <<server, loc, mapMutex, map, cache, seen, fault>>

LockMap(h) ==
  /\ At(h, "lockMap")
  /\ mapMutex = None
  /\ mapMutex' = h
  /\ Goto(h, "find")
  /\ UNCHANGED <<server, loc, map, cache, seen, fault>>

(* map_find_by_url; a hit unlocks the map and streams *)
Find(h) ==
  /\ At(h, "find")
  /\ \/ \E e \in map :
          /\ cache[e].key = loc[h].path
          /\ loc' = [loc EXCEPT ![h].entry = e]
          /\ mapMutex' = None
          /\ Goto(h, "readFirst")
     \/ /\ \A e \in map : cache[e].key # loc[h].path
        /\ Goto(h, "add")
        /\ UNCHANGED <<loc, mapMutex>>
  /\ UNCHANGED <<server, map, cache, seen, fault>>

(* map_add, and the unlock after it *)
AddEntry(h) ==
  /\ At(h, "add")
  /\ map' = map \union {h}
  /\ cache' = [cache EXCEPT ![h].key = loc[h].path]
  /\ loc' = [loc EXCEPT ![h].entry = h]
  /\ mapMutex' = None
  /\ Goto(h, "connect")
  /\ UNCHANGED <<server, seen, fault>>

-----------------------------------------------------------------------------
(* client_handler on a hit: streaming from the list *)

(* the top of the loop: current == NULL waits, anything else is read *)
StreamTop(cur) == IF cur = 0 THEN "wait" ELSE "rdlock"

FirstNode(e) == IF cache[e].nodes = 0 THEN 0 ELSE 1

(* current = cache_node->response->first, without a lock *)
ReadFirst(h) ==
  /\ At(h, "readFirst")
  /\ LET e == loc[h].entry
     IN  Access(e,
           /\ loc' = [loc EXCEPT ![h].cur = FirstNode(e)]
           /\ Goto(h, StreamTop(FirstNode(e)))
           /\ UNCHANGED <<server, mapMutex, map, cache, seen>>)

(* list_wait_for_data: *current is NULL whenever it is called, so what it  *)
(* waits for and returns is the first node                                 *)
WaitForData(h) ==
  /\ At(h, "wait")
  /\ LET e == loc[h].entry
     IN  Access(e,
           /\ \/ /\ cache[e].nodes > 0
                 /\ loc' = [loc EXCEPT ![h].cur = 1]
                 /\ Goto(h, "rdlock")
                 /\ UNCHANGED <<sem, seen>>
              \/ /\ cache[e].nodes = 0 /\ cache[e].complete
                 /\ Leave(h, "streamed")
                 /\ UNCHANGED loc
              \/ /\ cache[e].nodes = 0 /\ ~cache[e].complete
                 /\ Goto(h, "asleep")
                 /\ UNCHANGED <<sem, seen, loc>>
           /\ UNCHANGED <<srv, accepted, mapMutex, map, cache>>)

SpuriousWakeup(h) ==
  /\ At(h, "asleep")
  /\ Goto(h, "wait")
  /\ UNCHANGED <<server, loc, mapMutex, map, cache, seen, fault>>

(* pthread_rwlock_rdlock(&current->sync) *)
RdLock(h) ==
  /\ At(h, "rdlock")
  /\ LET e == loc[h].entry
     IN  /\ cache[e].freed \/ loc[h].cur \notin cache[e].wlocked
         /\ Access(e,
              /\ Goto(h, "send")
              /\ UNCHANGED <<server, loc, mapMutex, map, cache, seen>>)

(* Mutant: stop as soon as the list is complete, whatever comes next *)
CheckCompleteOnly(h) ==
  /\ At(h, "check")
  /\ LET e == loc[h].entry
         next == IF loc[h].cur < cache[e].nodes THEN loc[h].cur + 1 ELSE 0
     IN  Access(e,
           /\ \/ /\ cache[e].complete
                 /\ Leave(h, "streamed")
                 /\ UNCHANGED loc
              \/ /\ ~cache[e].complete
                 /\ loc' = [loc EXCEPT ![h].cur = next]
                 /\ Goto(h, StreamTop(next))
                 /\ UNCHANGED <<sem, seen>>
           /\ UNCHANGED <<srv, accepted, mapMutex, map, cache>>)

(* send to the client and unlock *)
Send(h) ==
  /\ At(h, "send")
  /\ Access(loc[h].entry,
       /\ seen' = [seen EXCEPT
                     ![h].pass = CASE loc[h].cur = @ + 1 -> @ + 1
                                    [] loc[h].cur = 1 -> 1
                                    [] OTHER -> 0,
                     ![h].again = @ \/ loc[h].cur <= seen[h].pass]
       /\ Goto(h, "check")
       /\ UNCHANGED <<server, loc, mapMutex, map, cache>>)

(* send returns -1: unlock, clean up, leave *)
SendFails(h) ==
  /\ At(h, "send")
  /\ "client" \in Failures
  /\ Access(loc[h].entry,
       /\ Leave(h, "dropped")
       /\ UNCHANGED <<srv, accepted, loc, mapMutex, map, cache>>)

(* read complete and next under the list mutex; stop, or go on with next, *)
(* which is NULL for a reader that has caught up with the writer          *)
CheckNext(h) ==
  /\ At(h, "check")
  /\ LET e == loc[h].entry
         next == IF loc[h].cur < cache[e].nodes THEN loc[h].cur + 1 ELSE 0
     IN  Access(e,
           /\ \/ /\ next = 0 /\ cache[e].complete
                 /\ Leave(h, "streamed")
                 /\ UNCHANGED loc
              \/ /\ ~(next = 0 /\ cache[e].complete)
                 /\ loc' = [loc EXCEPT ![h].cur = next]
                 /\ Goto(h, StreamTop(next))
                 /\ UNCHANGED <<sem, seen>>
           /\ UNCHANGED <<srv, accepted, mapMutex, map, cache>>)

-----------------------------------------------------------------------------
(* client_handler on a miss: fetching into the list *)

Connect(h) ==
  /\ At(h, "connect")
  /\ loc' = [loc EXCEPT ![h].sock = "open"]
  /\ Goto(h, "request")
  /\ UNCHANGED <<server, mapMutex, map, cache, seen, fault>>

(* no usable socket; complete = 1 and broadcast, under the map mutex and   *)
(* the list mutex                                                          *)
MarkComplete(h, to) ==
  /\ mapMutex = None
  /\ Access(h,
       /\ cache' = [cache EXCEPT ![h].complete = TRUE]
       /\ loc' = [loc EXCEPT ![h].sock = "none"]
       /\ Broadcast(h, h, to)
       /\ UNCHANGED <<server, mapMutex, map, seen>>)

(* http_connect returns -1: the handler marks the list and goes on *)
ConnectFails(h) ==
  /\ At(h, "connect")
  /\ "connect" \in Failures
  /\ MarkComplete(h, "request")

SendRequest(h) ==
  /\ At(h, "request")
  /\ loc[h].sock = "open"
  /\ Goto(h, "status")
  /\ UNCHANGED <<server, loc, mapMutex, map, cache, seen, fault>>

(* request_send returns -1, always so without a socket: the handler closes *)
(* the socket, marks the list and goes on with the closed descriptor       *)
SendRequestFails(h) ==
  /\ At(h, "request")
  /\ loc[h].sock = "none" \/ "request" \in Failures
  /\ MarkComplete(h, "status")

(* read_line returns <= 0: no status line, on to the (empty) body *)
NoStatus(h) ==
  /\ At(h, "status")
  /\ loc[h].sock = "none" \/ "none" \in Replies
  /\ loc' = [loc EXCEPT ![h].sock = "none"]
  /\ Goto(h, "body")
  /\ UNCHANGED <<server, mapMutex, map, cache, seen, fault>>

(* the status line decides need_to_cache; the headers are read *)
ReadStatus(h) ==
  /\ At(h, "status")
  /\ loc[h].sock = "open"
  /\ \E status \in Replies \ {"none"} :
       /\ loc' = [loc EXCEPT ![h].keep = (status = "ok")]
       /\ Goto(h, IF status = "redirect" THEN "redirect" ELSE "sendHead")
  /\ UNCHANGED <<server, mapMutex, map, cache, seen, fault>>

(* a redirect without Location: on to the body *)
NoLocation(h) ==
  /\ At(h, "redirect")
  /\ Goto(h, "body")
  /\ UNCHANGED <<server, loc, mapMutex, map, cache, seen, fault>>

(* close, update_request_from_location (an http URL replaces search_path,  *)
(* anything else leaves it), connect and request again                     *)
FollowRedirect(h) ==
  /\ At(h, "redirect")
  /\ \E u \in URLs :
       loc' = [loc EXCEPT ![h].path = u, ![h].redirects = @ + 1]
  /\ Goto(h, IF loc'[h].redirects < MaxRedirects THEN "status" ELSE "body")
  /\ UNCHANGED <<server, mapMutex, map, cache, seen, fault>>

(* the redirect's http_connect returns -1 *)
RedirectFails(h) ==
  /\ At(h, "redirect")
  /\ "connect" \in Failures
  /\ \E u \in URLs :
       loc' = [loc EXCEPT ![h].path = u, ![h].sock = "none"]
  /\ Goto(h, "body")
  /\ UNCHANGED <<server, mapMutex, map, cache, seen, fault>>

(* send to the handler's own client: a failure is remembered *)
SendOwn(h, at, to) ==
  /\ At(h, at)
  /\ \E ok \in {TRUE} \union (IF "client" \in Failures THEN {FALSE} ELSE {}) :
       loc' = [loc EXCEPT ![h].alive = @ /\ ok]
  /\ Goto(h, to)
  /\ UNCHANGED <<server, mapMutex, map, cache, seen, fault>>

(* Mutant: a handler whose client is gone does not cache the headers *)
SendHeadAliveOnly(h) ==
  SendOwn(h, "sendHead",
          IF loc[h].keep /\ loc'[h].alive THEN "addHead" ELSE "body")

SendHead(h) == SendOwn(h, "sendHead", IF loc[h].keep THEN "addHead" ELSE "body")

(* list_add: append under the list mutex and broadcast *)
ListAdd(h, to) ==
  Access(h,
    /\ cache' = [cache EXCEPT ![h].nodes = @ + 1]
    /\ loc' = [loc EXCEPT ![h].prev = loc[h].cur, ![h].cur = cache[h].nodes + 1]
    /\ Broadcast(h, h, to)
    /\ UNCHANGED <<server, mapMutex, map, seen>>)

AddHead(h) == At(h, "addHead") /\ ListAdd(h, "wrlockHead")

(* pthread_rwlock_wrlock(&current->sync): after the insertion, so that a   *)
(* reader may hold the node already                                        *)
WrLock(h, at, to) ==
  /\ At(h, at)
  /\ \/ cache[h].freed
     \/ \A r \in Handlers :
          ~(pc[r] = "send" /\ loc[r].entry = h /\ loc[r].cur = loc[h].cur)
  /\ Access(h,
       /\ cache' = [cache EXCEPT ![h].wlocked = @ \union {loc[h].cur}]
       /\ Goto(h, to)
       /\ UNCHANGED <<server, loc, mapMutex, map, seen>>)

WrLockHead(h) == WrLock(h, "wrlockHead", "body")
WrLockBody(h) == WrLock(h, "wrlockBody", "unlockPrev")

(* read_body > 0 *)
ReadChunk(h) ==
  /\ At(h, "body")
  /\ loc[h].sock = "open"
  /\ loc[h].chunks < MaxChunks
  /\ loc' = [loc EXCEPT ![h].chunks = @ + 1]
  /\ Goto(h, IF loc[h].keep THEN "addBody" ELSE "sendBody")
  /\ UNCHANGED <<server, mapMutex, map, cache, seen, fault>>

AddBody(h) == At(h, "addBody") /\ ListAdd(h, "wrlockBody")

Unlock(h, node, at, to) ==
  /\ At(h, at)
  /\ \/ /\ node = 0
        /\ Goto(h, to)
        /\ UNCHANGED <<cache, fault>>
     \/ /\ node # 0
        /\ Access(h,
             /\ cache' = [cache EXCEPT ![h].wlocked = @ \ {node}]
             /\ Goto(h, to))
  /\ UNCHANGED <<server, loc, mapMutex, map, seen>>

UnlockPrev(h) == Unlock(h, loc[h].prev, "unlockPrev", "sendBody")

SendBody(h) == SendOwn(h, "sendBody", "body")

(* read_body <= 0: the end of the response, or of the connection *)
EndOfBody(h) ==
  /\ At(h, "body")
  /\ Goto(h, "unlockLast")
  /\ UNCHANGED <<server, loc, mapMutex, map, cache, seen, fault>>

UnlockLast(h) == Unlock(h, loc[h].cur, "unlockLast", "complete")

(* Mutant: complete = 1 without pthread_cond_broadcast *)
CompleteSilently(h) ==
  /\ At(h, "complete")
  /\ Access(h,
       /\ cache' = [cache EXCEPT ![h].complete = TRUE]
       /\ Goto(h, IF loc[h].keep THEN "keep" ELSE "remove")
       /\ UNCHANGED <<server, loc, mapMutex, map, seen>>)

(* Mutant: need_to_cache is not looked at, the entry is always removed *)
CompleteRemove(h) ==
  /\ At(h, "complete")
  /\ Access(h,
       /\ cache' = [cache EXCEPT ![h].complete = TRUE]
       /\ Broadcast(h, h, "remove")
       /\ UNCHANGED <<server, loc, mapMutex, map, seen>>)

(* close(target_socket); complete = 1 and broadcast under the list mutex *)
Complete(h) ==
  /\ At(h, "complete")
  /\ Access(h,
       /\ cache' = [cache EXCEPT ![h].complete = TRUE]
       /\ Broadcast(h, h, IF loc[h].keep THEN "keep" ELSE "remove")
       /\ UNCHANGED <<server, loc, mapMutex, map, seen>>)

(* need_to_cache: the entry stays; "Cache fully loaded" *)
KeepEntry(h) ==
  /\ At(h, "keep")
  /\ Leave(h, "filled")
  /\ UNCHANGED <<srv, accepted, loc, mapMutex, map, cache, fault>>

(* map_remove(cache, request->search_path): unlink and free *)
RemoveEntry(h) ==
  /\ At(h, "remove")
  /\ mapMutex = None
  /\ LET found == {e \in map : cache[e].key = loc[h].path}
     IN  /\ map' = map \ found
         /\ cache' = [e \in Handlers |->
                        IF e \in found THEN [cache[e] EXCEPT !.freed = TRUE]
                                       ELSE cache[e]]
  /\ Leave(h, "filled")
  /\ UNCHANGED <<srv, accepted, loc, mapMutex, fault>>

-----------------------------------------------------------------------------
Server == SemWait \/ Spawn \/ SpawnFails

Lookup(h) ==
  ReadHeader(h) \/ BadRequest(h) \/ LockMap(h) \/ Find(h) \/ AddEntry(h)

Stream(h) ==
  \/ ReadFirst(h) \/ WaitForData(h) \/ RdLock(h) \/ Send(h) \/ SendFails(h)
  \/ CheckNext(h)

Fetch(h) ==
  \/ Connect(h) \/ ConnectFails(h) \/ SendRequest(h) \/ SendRequestFails(h)
  \/ NoStatus(h) \/ ReadStatus(h)
  \/ NoLocation(h) \/ FollowRedirect(h) \/ RedirectFails(h)
  \/ SendHead(h) \/ AddHead(h) \/ WrLockHead(h)
  \/ ReadChunk(h) \/ AddBody(h) \/ WrLockBody(h) \/ UnlockPrev(h) \/ SendBody(h)
  \/ EndOfBody(h) \/ UnlockLast(h) \/ Complete(h) \/ KeepEntry(h)
  \/ RemoveEntry(h)

Handler(h) == Lookup(h) \/ Stream(h) \/ Fetch(h)

(* every client has come and gone, or the process has died *)
Finished ==
  /\ fault \/ \A h \in Handlers : pc[h] = "done"
  /\ UNCHANGED vars

Next ==
  \/ \E h \in Handlers : Accept(h) \/ Handler(h) \/ SpuriousWakeup(h)
  \/ Server
  \/ Finished

Spec == Init /\ [][Next]_vars

(* Every thread that can run does, and the upstreams and clients it waits  *)
(* for answer or hang up.                                                  *)
FairSpec == Spec /\ \A h \in Handlers : WF_vars(Handler(h))

-----------------------------------------------------------------------------
TypeOK ==
  /\ srv \in {"accept", "semWait", "spawn"}
  /\ accepted \in Handlers \union {None}
  /\ sem \in 0 .. MaxThreads
  /\ pc \in [Handlers -> PCs]
  /\ loc \in [Handlers ->
       [path : URLs \union {None}, entry : Handlers \union {None},
        cur : Nat, prev : Nat, sock : {"none", "open"},
        keep : BOOLEAN, alive : BOOLEAN,
        redirects : 0 .. MaxRedirects, chunks : 0 .. MaxChunks]]
  /\ mapMutex \in Handlers \union {None}
  /\ map \in SUBSET Handlers
  /\ cache \in [Handlers ->
       [key : URLs \union {None}, nodes : Nat, complete : BOOLEAN,
        freed : BOOLEAN, wlocked : SUBSET Nat]]
  /\ seen \in [Handlers ->
       [pass : Nat, again : BOOLEAN, outcome : Outcomes]]
  /\ fault \in BOOLEAN

Active == {h \in Handlers : pc[h] \notin {"idle", "done"}}

(* The map holds at most one entry per URL, however requests for the same  *)
(* URL interleave: find and add are one section of cache->mutex.           *)
UniqueKeys ==
  \A e, f \in map : cache[e].key = cache[f].key => e = f

(* Every way out of client_handler and of the accept loop gives the        *)
(* semaphore back exactly once: free slots and threads add up to           *)
(* MAX_THREADS.                                                            *)
SemBalanced ==
  sem + Cardinality(Active) + (IF srv = "spawn" THEN 1 ELSE 0) = MaxThreads

(* No reader sleeps on a list that already has a node or is complete, and  *)
(* none sleeps on a list whose fetching handler has left.                  *)
NoLostBroadcast ==
  \A h \in Handlers : pc[h] = "asleep" =>
    LET e == loc[h].entry
    IN  /\ cache[e].nodes = 0 /\ ~cache[e].complete
        /\ pc[e] # "done"

(* A client that was streamed to the end has been sent every node of the   *)
(* complete list, the last pass over it from the first node to the last.   *)
StreamedWhole ==
  \A h \in Handlers : seen[h].outcome = "streamed" =>
    LET e == loc[h].entry
    IN  cache[e].complete /\ seen[h].pass = cache[e].nodes

(* A streaming client is sent each node once: a reader that has caught up  *)
(* waits for new data.                                                     *)
StreamedOnce == \A h \in Handlers : ~seen[h].again

(* No thread touches an entry after map_remove has freed it. *)
NoUseAfterFree == ~fault

(* An entry that its handler leaves in the map holds a whole response, at  *)
(* least its headers.                                                      *)
CachedIsLoaded ==
  \A e \in map : pc[e] = "done" => cache[e].complete /\ cache[e].nodes > 0

(* Whatever upstreams and clients do, an entry its handler leaves in the   *)
(* map holds the headers and every body chunk that was read, even if the   *)
(* handler's own client hung up on the way; the exceptions are a fetch     *)
(* that failed and a response that may not be cached, fetched through a    *)
(* redirect that changed the key.                                          *)
WholeUnlessFailed ==
  \A e \in map : pc[e] = "done" =>
    /\ cache[e].complete
    /\ loc[e].sock = "open" /\ (loc[e].keep \/ loc[e].path = cache[e].key)
         => cache[e].nodes = loc[e].chunks + 1

(* An entry is freed only by a handler that ended with a response that may *)
(* not be cached and asked for the entry's URL last.                       *)
FreedOnlyUncacheable ==
  \A e \in Handlers : cache[e].freed =>
    \E h \in Handlers : /\ pc[h] = "done" /\ ~loc[h].keep
                        /\ loc[h].path = cache[e].key

(* Readers asleep on an empty list are woken: the fetching handler adds a  *)
(* node or completes the list on every path, failures included.            *)
SleeperWakes ==
  \A h \in Handlers : (pc[h] = "asleep") ~> (pc[h] # "asleep" \/ fault)
=============================================================================
