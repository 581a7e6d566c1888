-------------------------- MODULE ProxyCache_proofs --------------------------
(***************************************************************************)
(* Proofs about the caching proxy, for any finite number of connections,   *)
(* any set of URLs, every upstream answer and every failure.               *)
(***************************************************************************)
EXTENDS ProxyCache, FiniteSetTheorems, TLAPS

(* The functions and records are the ones Init makes, as far as the        *)
(* argument looks into them.                                               *)
Shape ==
  /\ pc \in [Handlers -> PCs]
  /\ DOMAIN loc = Handlers
  /\ \A h \in Handlers : {"path", "entry"} \subseteq DOMAIN loc[h]
  /\ DOMAIN cache = Handlers
  /\ \A e \in Handlers : {"key", "nodes", "complete"} \subseteq DOMAIN cache[e]
  /\ map \in SUBSET Handlers

(* A connection is accepted before its thread exists. *)
AcceptedIdle ==
  srv # "accept" => accepted \in Handlers /\ pc[accepted] = "idle"

Early == {"idle", "header", "lockMap", "find", "add"}
Streaming == {"readFirst", "wait", "asleep", "rdlock", "send", "check"}
Fetching == PCs \ (Early \union Streaming \union {"done"})

(* From the lookup to map_add a handler holds cache->mutex, and between    *)
(* the two no entry for its URL appears.                                   *)
LookupLocked ==
  \A h \in Handlers :
    /\ pc[h] \in {"find", "add"} => mapMutex = h
    /\ pc[h] = "add" => \A e \in map : cache[e].key # loc[h].path

(* e belongs to a handler that fetches, or that has completed it and left. *)
Owned(e) ==
  \/ pc[e] \in Fetching
  \/ pc[e] = "done" /\ cache[e].complete

(* What is linked into the map, or streamed from, has such an owner. *)
LinkedOwned == \A e \in map : Owned(e)

StreamsOwned ==
  \A h \in Handlers : pc[h] \in Streaming =>
    loc[h].entry \in Handlers /\ Owned(loc[h].entry)

(* A fetching handler decides on its entry after it has completed the list. *)
CompletesFirst ==
  \A e \in Handlers : pc[e] \in {"keep", "remove"} => cache[e].complete

Inv ==
  /\ Shape
  /\ AcceptedIdle
  /\ LookupLocked
  /\ LinkedOwned
  /\ StreamsOwned
  /\ CompletesFirst
  /\ UniqueKeys
  /\ NoLostBroadcast

-----------------------------------------------------------------------------
(* The invariant is kept by the accepting thread. *)
LEMMA ServerStep ==
  ASSUME Inv, (\E h \in Handlers : Accept(h)) \/ Server
  PROVE  Inv'
<1> USE DEF Inv, Shape, AcceptedIdle, LookupLocked, Owned, LinkedOwned,
    StreamsOwned, CompletesFirst, UniqueKeys, NoLostBroadcast,
    server, PCs, Early, Streaming, Fetching
<1>1. CASE \E h \in Handlers : Accept(h)
  BY <1>1 DEF Accept
<1>2. CASE SemWait
  BY <1>2 DEF SemWait
<1>3. CASE Spawn
  BY <1>3 DEF Spawn, Goto
<1>4. CASE SpawnFails
  BY <1>4 DEF SpawnFails, Leave, Goto
<1> QED BY <1>1, <1>2, <1>3, <1>4 DEF Server

(* The invariant is kept by the request and the lookup. *)
LEMMA LookupStep ==
  ASSUME Inv, NEW h \in Handlers, Lookup(h)
  PROVE  Inv'
<1> USE DEF Inv, Shape, AcceptedIdle, LookupLocked, Owned, LinkedOwned,
    StreamsOwned, CompletesFirst, UniqueKeys, NoLostBroadcast,
    server, PCs, Early, Streaming, Fetching
<1>1. CASE ReadHeader(h)
  BY <1>1 DEF ReadHeader, At, Goto
<1>2. CASE BadRequest(h)
  BY <1>2 DEF BadRequest, At, Leave, Goto
<1>3. CASE LockMap(h)
  BY <1>3, ProxyAssumption DEF LockMap, At, Goto
<1>4. CASE Find(h)
  BY <1>4 DEF Find, At, Goto
<1>5. CASE AddEntry(h)
  BY <1>5 DEF AddEntry, At, Goto
<1> QED BY <1>1, <1>2, <1>3, <1>4, <1>5 DEF Lookup

(* The invariant is kept by streaming from the cache. *)
LEMMA StreamStep ==
  ASSUME Inv, NEW h \in Handlers, Stream(h) \/ SpuriousWakeup(h)
  PROVE  Inv'
<1> USE DEF Inv, Shape, AcceptedIdle, LookupLocked, Owned, LinkedOwned,
    StreamsOwned, CompletesFirst, UniqueKeys, NoLostBroadcast,
    server, PCs, Early, Streaming, Fetching
<1>1. CASE ReadFirst(h)
  BY <1>1 DEF ReadFirst, At, Goto, Access, StreamTop, FirstNode
<1>2. CASE WaitForData(h)
  BY <1>2 DEF WaitForData, At, Goto, Access, Leave
<1>3. CASE RdLock(h)
  BY <1>3 DEF RdLock, At, Goto, Access
<1>4. CASE Send(h)
  BY <1>4 DEF Send, At, Goto, Access
<1>5. CASE SendFails(h)
  BY <1>5 DEF SendFails, At, Goto, Access, Leave
<1>6. CASE CheckNext(h)
  BY <1>6 DEF CheckNext, At, Goto, Access, Leave, StreamTop
<1>7. CASE SpuriousWakeup(h)
  BY <1>7 DEF SpuriousWakeup, At, Goto
<1> QED BY <1>1, <1>2, <1>3, <1>4, <1>5, <1>6, <1>7 DEF Stream

(* The invariant is kept by fetching into the cache. *)
LEMMA FetchStep ==
  ASSUME Inv, NEW h \in Handlers, Fetch(h)
  PROVE  Inv'
<1> USE DEF Inv, Shape, AcceptedIdle, LookupLocked, Owned, LinkedOwned,
    StreamsOwned, CompletesFirst, UniqueKeys, NoLostBroadcast,
    server, PCs, Early, Streaming, Fetching
<1>1. CASE Connect(h)
  BY <1>1 DEF Connect, At, Goto
<1>2. CASE ConnectFails(h)
  BY <1>2 DEF ConnectFails, At, MarkComplete, Access, Broadcast
<1>3. CASE SendRequest(h)
  BY <1>3 DEF SendRequest, At, Goto
<1>4. CASE SendRequestFails(h)
  BY <1>4 DEF SendRequestFails, At, MarkComplete, Access, Broadcast
<1>5. CASE NoStatus(h)
  BY <1>5 DEF NoStatus, At, Goto
<1>6. CASE ReadStatus(h)
  BY <1>6 DEF ReadStatus, At, Goto
<1>7. CASE NoLocation(h)
  BY <1>7 DEF NoLocation, At, Goto
<1>8. CASE FollowRedirect(h)
  BY <1>8 DEF FollowRedirect, At, Goto
<1>9. CASE RedirectFails(h)
  BY <1>9 DEF RedirectFails, At, Goto
<1>10. CASE SendHead(h)
  BY <1>10 DEF SendHead, SendOwn, At, Goto
<1>11. CASE AddHead(h)
  BY <1>11 DEF AddHead, ListAdd, Access, Broadcast, At
<1>12. CASE WrLockHead(h)
  BY <1>12 DEF WrLockHead, WrLock, Access, At, Goto
<1>13. CASE ReadChunk(h)
  BY <1>13 DEF ReadChunk, At, Goto
<1>14. CASE AddBody(h)
  BY <1>14 DEF AddBody, ListAdd, Access, Broadcast, At
<1>15. CASE WrLockBody(h)
  BY <1>15 DEF WrLockBody, WrLock, Access, At, Goto
<1>16. CASE UnlockPrev(h)
  BY <1>16 DEF UnlockPrev, Unlock, Access, At, Goto
<1>17. CASE SendBody(h)
  BY <1>17 DEF SendBody, SendOwn, At, Goto
<1>18. CASE EndOfBody(h)
  BY <1>18 DEF EndOfBody, At, Goto
<1>19. CASE UnlockLast(h)
  BY <1>19 DEF UnlockLast, Unlock, Access, At, Goto
<1>20. CASE Complete(h)
  BY <1>20 DEF Complete, Access, Broadcast, At
<1>21. CASE KeepEntry(h)
  BY <1>21 DEF KeepEntry, Leave, At, Goto
<1>22. CASE RemoveEntry(h)
  BY <1>22 DEF RemoveEntry, Leave, At, Goto
<1> QED BY <1>1, <1>2, <1>3, <1>4, <1>5, <1>6, <1>7, <1>8, <1>9, <1>10, <1>11, <1>12, <1>13, <1>14, <1>15, <1>16, <1>17, <1>18, <1>19, <1>20, <1>21, <1>22 DEF Fetch

(* Inv is an inductive invariant of the proxy. *)
THEOREM Invariant == Spec => []Inv
<1> USE DEF Inv, Shape, AcceptedIdle, LookupLocked, Owned, LinkedOwned,
    StreamsOwned, CompletesFirst, UniqueKeys, NoLostBroadcast,
    Early, Streaming, Fetching
<1>1. Init => Inv
  BY DEF Init, PCs
<1>2. Inv /\ [Next]_vars => Inv'
  <2> SUFFICES ASSUME Inv, [Next]_vars PROVE Inv'
    OBVIOUS
  <2>1. CASE \E h \in Handlers : Handler(h) \/ SpuriousWakeup(h)
    BY <2>1, LookupStep, StreamStep, FetchStep DEF Handler
  <2>2. CASE (\E h \in Handlers : Accept(h)) \/ Server
    BY <2>2, ServerStep
  <2>3. CASE UNCHANGED vars
    BY <2>3 DEF vars
  <2> QED BY <2>1, <2>2, <2>3 DEF Next, Finished
<1> QED BY <1>1, <1>2, PTL DEF Spec

(* UniqueKeys: however lookups, insertions and removals interleave, the    *)
(* cache map of client_handler never holds two entries for one URL.        *)
THEOREM OneEntryPerURL == Spec => []UniqueKeys
<1>1. Inv => UniqueKeys
  BY DEF Inv
<1> QED BY <1>1, Invariant, PTL

(* NoLostBroadcast: list_wait_for_data never sleeps on a list that has     *)
(* data, is complete, or has lost the handler that would complete it,      *)
(* whatever fails on the way.                                              *)
THEOREM BroadcastsKept == Spec => []NoLostBroadcast
<1>1. Inv => NoLostBroadcast
  BY DEF Inv
<1> QED BY <1>1, Invariant, PTL

-----------------------------------------------------------------------------
(* A step of a handler keeps its slot of the semaphore, or leaves with one *)
(* sem_post.                                                               *)
Stays == srv' = srv /\ sem' = sem /\ Active' = Active
Leaves(h) ==
  /\ srv' = srv /\ sem' = sem + 1
  /\ h \in Active /\ Active' = Active \ {h}

LEMMA HandlerSlot ==
  ASSUME pc \in [Handlers -> PCs], NEW h \in Handlers,
         Handler(h) \/ SpuriousWakeup(h)
  PROVE  Stays \/ Leaves(h)
<1> USE DEF Active, Stays, Leaves, server
<1>1. CASE ReadHeader(h)
  BY <1>1 DEF ReadHeader, At, Goto
<1>2. CASE BadRequest(h)
  BY <1>2 DEF BadRequest, At, Leave, Goto
<1>3. CASE LockMap(h)
  BY <1>3 DEF LockMap, At, Goto
<1>4. CASE Find(h)
  BY <1>4 DEF Find, At, Goto
<1>5. CASE AddEntry(h)
  BY <1>5 DEF AddEntry, At, Goto
<1>6. CASE ReadFirst(h)
  BY <1>6 DEF ReadFirst, At, Goto, Access, StreamTop, FirstNode
<1>7. CASE WaitForData(h)
  BY <1>7 DEF WaitForData, At, Goto, Access, Leave
<1>8. CASE RdLock(h)
  BY <1>8 DEF RdLock, At, Goto, Access
<1>9. CASE Send(h)
  BY <1>9 DEF Send, At, Goto, Access
<1>10. CASE SendFails(h)
  BY <1>10 DEF SendFails, At, Goto, Access, Leave
<1>11. CASE CheckNext(h)
  BY <1>11 DEF CheckNext, At, Goto, Access, Leave, StreamTop
<1>12. CASE SpuriousWakeup(h)
  BY <1>12 DEF SpuriousWakeup, At, Goto
<1>13. CASE Connect(h)
  BY <1>13 DEF Connect, At, Goto
<1>14. CASE ConnectFails(h)
  BY <1>14 DEF ConnectFails, At, MarkComplete, Access, Broadcast
<1>15. CASE SendRequest(h)
  BY <1>15 DEF SendRequest, At, Goto
<1>16. CASE SendRequestFails(h)
  BY <1>16 DEF SendRequestFails, At, MarkComplete, Access, Broadcast
<1>17. CASE NoStatus(h)
  BY <1>17 DEF NoStatus, At, Goto
<1>18. CASE ReadStatus(h)
  BY <1>18 DEF ReadStatus, At, Goto
<1>19. CASE NoLocation(h)
  BY <1>19 DEF NoLocation, At, Goto
<1>20. CASE FollowRedirect(h)
  BY <1>20 DEF FollowRedirect, At, Goto
<1>21. CASE RedirectFails(h)
  BY <1>21 DEF RedirectFails, At, Goto
<1>22. CASE SendHead(h)
  BY <1>22 DEF SendHead, SendOwn, At, Goto
<1>23. CASE AddHead(h)
  BY <1>23 DEF AddHead, ListAdd, Access, Broadcast, At
<1>24. CASE WrLockHead(h)
  BY <1>24 DEF WrLockHead, WrLock, Access, At, Goto
<1>25. CASE ReadChunk(h)
  BY <1>25 DEF ReadChunk, At, Goto
<1>26. CASE AddBody(h)
  BY <1>26 DEF AddBody, ListAdd, Access, Broadcast, At
<1>27. CASE WrLockBody(h)
  BY <1>27 DEF WrLockBody, WrLock, Access, At, Goto
<1>28. CASE UnlockPrev(h)
  BY <1>28 DEF UnlockPrev, Unlock, Access, At, Goto
<1>29. CASE SendBody(h)
  BY <1>29 DEF SendBody, SendOwn, At, Goto
<1>30. CASE EndOfBody(h)
  BY <1>30 DEF EndOfBody, At, Goto
<1>31. CASE UnlockLast(h)
  BY <1>31 DEF UnlockLast, Unlock, Access, At, Goto
<1>32. CASE Complete(h)
  BY <1>32 DEF Complete, Access, Broadcast, At
<1>33. CASE KeepEntry(h)
  BY <1>33 DEF KeepEntry, Leave, At, Goto
<1>34. CASE RemoveEntry(h)
  BY <1>34 DEF RemoveEntry, Leave, At, Goto
<1> QED BY <1>1, <1>2, <1>3, <1>4, <1>5, <1>6, <1>7, <1>8, <1>9, <1>10, <1>11,
    <1>12, <1>13, <1>14, <1>15, <1>16, <1>17, <1>18, <1>19, <1>20, <1>21,
    <1>22, <1>23, <1>24, <1>25, <1>26, <1>27, <1>28, <1>29, <1>30, <1>31,
    <1>32, <1>33, <1>34 DEF Handler, Lookup, Stream, Fetch

SemInv == sem \in Nat /\ SemBalanced

(* The count is kept by every step. *)
LEMMA SemStep ==
  ASSUME Inv, SemInv, [Next]_vars
  PROVE  SemInv'
<1>0. /\ pc \in [Handlers -> PCs]
      /\ IsFiniteSet(Active) /\ Cardinality(Active) \in Nat
  <2>1. IsFiniteSet(Active)
    BY ProxyAssumption, FS_Subset DEF Active
  <2> QED BY <2>1, FS_CardinalityType DEF Inv, Shape
<1> USE DEF SemInv, SemBalanced
<1>1. CASE \E h \in Handlers : Handler(h) \/ SpuriousWakeup(h)
  <2> PICK h \in Handlers : Handler(h) \/ SpuriousWakeup(h)
    BY <1>1
  <2>1. CASE Stays
    BY <2>1 DEF Stays
  <2>2. CASE Leaves(h)
    <3>1. Cardinality(Active') = Cardinality(Active) - 1
      BY <1>0, <2>2, FS_RemoveElement DEF Leaves
    <3> QED BY <1>0, <2>2, <3>1 DEF Leaves
  <2> QED BY <1>0, <2>1, <2>2, HandlerSlot
<1>2. CASE \E h \in Handlers : Accept(h)
  <2>1. Active' = Active
    BY <1>2 DEF Accept, Active
  <2> QED BY <1>2, <2>1 DEF Accept
<1>3. CASE SemWait
  <2>1. Active' = Active
    BY <1>3 DEF SemWait, Active
  <2> QED BY <1>0, <1>3, <2>1 DEF SemWait
<1>4. CASE Spawn
  <2>1. accepted \notin Active /\ Active' = Active \union {accepted}
    BY <1>0, <1>4 DEF Spawn, Goto, Active, Inv, AcceptedIdle
  <2>2. Cardinality(Active') = Cardinality(Active) + 1
    BY <1>0, <2>1, FS_AddElement
  <2> QED BY <1>0, <1>4, <2>2 DEF Spawn
<1>5. CASE SpawnFails
  <2>1. Active' = Active
    BY <1>0, <1>5 DEF SpawnFails, Leave, Goto, Active, Inv, AcceptedIdle
  <2> QED BY <1>0, <1>5, <2>1 DEF SpawnFails, Leave
<1>6. CASE UNCHANGED vars
  BY <1>6 DEF vars, Active
<1> QED BY <1>1, <1>2, <1>3, <1>4, <1>5, <1>6 DEF Next, Finished, Server

(* SemBalanced: no path of client_handler or start_proxy_server, error     *)
(* paths included, loses or doubles a slot of the semaphore.               *)
THEOREM Balanced == Spec => []SemBalanced
<1>1. Init => SemInv
  <2>1. Init => Active = {}
    BY DEF Init, Active
  <2>2. Init => Cardinality(Active) = 0
    BY <2>1, FS_EmptySet
  <2>3. Init => sem = MaxThreads /\ srv # "spawn"
    BY DEF Init
  <2> QED BY <2>2, <2>3, ProxyAssumption DEF SemInv, SemBalanced
<1>2. Inv /\ SemInv /\ [Next]_vars => SemInv'
  BY SemStep
<1>3. SemInv => SemBalanced
  BY DEF SemInv
<1> QED BY <1>1, <1>2, <1>3, Invariant, PTL DEF Spec
-----------------------------------------------------------------------------
(* The second half of the argument: what a list holds at each statement of *)
(* the handler that fills it, and where its readers are.                   *)

Fields ==
  /\ \A h \in Handlers :
       /\ {"path", "entry", "cur", "sock", "keep", "chunks"} \subseteq DOMAIN loc[h]
       /\ loc[h].cur \in Nat /\ loc[h].chunks \in Nat
       /\ loc[h].entry \in Handlers \union {None}
  /\ \A e \in Handlers :
       /\ {"key", "nodes", "complete", "freed"} \subseteq DOMAIN cache[e]
       /\ cache[e].nodes \in Nat
  /\ DOMAIN seen = Handlers
  /\ \A h \in Handlers :
       /\ {"pass", "outcome"} \subseteq DOMAIN seen[h]
       /\ seen[h].pass \in Nat

(* An entry is as map_init left it until its handler adds it. *)
Fresh(e) ==
  pc[e] \in Early \union Streaming =>
    cache[e].nodes = 0 /\ ~cache[e].complete /\ loc[e].chunks = 0

(* need_to_cache at the statements that depend on it. *)
Verdict(e) ==
  /\ pc[e] \in {"redirect", "remove"} => ~loc[e].keep
  /\ pc[e] \in {"addHead", "wrlockHead", "addBody", "wrlockBody", "unlockPrev",
                "keep"} => loc[e].keep

(* The list holds the headers and the chunks read, from the first addition *)
(* to the end, if the response may be cached and the connection lived.     *)
BeforeHead == {"connect", "request", "status", "redirect", "sendHead", "addHead"}
Stored(e) ==
  /\ pc[e] \in BeforeHead => cache[e].nodes = 0 /\ loc[e].chunks = 0
  /\ pc[e] = "wrlockHead" => cache[e].nodes = 1 /\ loc[e].chunks = 0
  /\ pc[e] = "addBody" => cache[e].nodes = loc[e].chunks
  /\ \/ pc[e] \in {"wrlockBody", "unlockPrev", "sendBody", "body", "unlockLast",
                   "complete", "keep"}
     \/ pc[e] = "done" /\ seen[e].outcome = "filled"
     => (loc[e].keep /\ loc[e].sock = "open" => cache[e].nodes = loc[e].chunks + 1)

(* A completed list does not grow: its handler is past the last addition,  *)
(* or has no connection to read a body from.                               *)
Final(e) ==
  cache[e].complete =>
    \/ pc[e] \in {"keep", "remove", "done"}
    \/ /\ pc[e] \in {"request", "status", "body", "unlockLast", "complete"}
       /\ loc[e].sock = "none"

(* A reader goes from node to node, and again from the first when it has   *)
(* caught up with the writer.                                              *)
Reads(h) ==
  LET length == cache[loc[h].entry].nodes
  IN  /\ pc[h] \in Early \union {"readFirst"} => seen[h].pass = 0
      /\ pc[h] \in Streaming => seen[h].pass = 0 \/ length > 0
      /\ pc[h] \in {"rdlock", "send"} =>
           loc[h].cur \in 1 .. length /\ loc[h].cur \in {1, seen[h].pass + 1}
      /\ pc[h] = "check" => loc[h].cur = seen[h].pass /\ loc[h].cur \in 1 .. length
      /\ seen[h].outcome = "streamed" =>
           /\ pc[h] = "done" /\ loc[h].entry \in Handlers
           /\ cache[loc[h].entry].complete /\ seen[h].pass = length

(* What is still linked when its handler has left was meant to stay. *)
Filled(e) ==
  e \in map /\ pc[e] = "done" =>
    /\ cache[e].complete /\ seen[e].outcome = "filled"
    /\ loc[e].keep \/ loc[e].path # cache[e].key

Freed(e) ==
  cache[e].freed =>
    /\ Owned(e)
    /\ \E h \in Handlers : /\ pc[h] = "done" /\ ~loc[h].keep
                           /\ loc[h].path = cache[e].key

WholeInv ==
  /\ Fields
  /\ \A e \in Handlers : Fresh(e) /\ Verdict(e) /\ Stored(e) /\ Final(e)
  /\ \A h \in Handlers : Reads(h)
  /\ \A e \in Handlers : Filled(e) /\ Freed(e)

LEMMA WholeServer ==
  ASSUME Inv, WholeInv, (\E h \in Handlers : Accept(h)) \/ Server
  PROVE  WholeInv'
<1> USE DEF Inv, Shape, AcceptedIdle, WholeInv, Fields, Fresh, Verdict, BeforeHead,
    Stored, Final, Reads, Filled, Freed, Owned, LinkedOwned,
    server, PCs, Early, Streaming, Fetching
<1>1. CASE \E h \in Handlers : Accept(h)
  BY <1>1 DEF Accept
<1>2. CASE SemWait
  BY <1>2 DEF SemWait
<1>3. CASE Spawn
  BY <1>3 DEF Spawn, Goto
<1>4. CASE SpawnFails
  <2>1. Fields'
    BY <1>4 DEF SpawnFails, Leave, Goto
  <2>2. \A e \in Handlers : Fresh(e)' /\ Verdict(e)'
    BY <1>4 DEF SpawnFails, Leave, Goto
  <2>3. \A e \in Handlers : Stored(e)'
    BY <1>4 DEF SpawnFails, Leave, Goto
  <2>4. \A e \in Handlers : Final(e)'
    BY <1>4 DEF SpawnFails, Leave, Goto
  <2>5. \A u \in Handlers : Reads(u)'
    BY <1>4 DEF SpawnFails, Leave, Goto
  <2>6. \A e \in Handlers : Filled(e)'
    BY <1>4 DEF SpawnFails, Leave, Goto
  <2>7. \A e \in Handlers : Freed(e)'
    BY <1>4 DEF SpawnFails, Leave, Goto
  <2> QED BY <2>1, <2>2, <2>3, <2>4, <2>5, <2>6, <2>7 DEF WholeInv
<1> QED BY <1>1, <1>2, <1>3, <1>4 DEF Server

LEMMA WholeLookup ==
  ASSUME Inv, WholeInv, NEW h \in Handlers, Lookup(h)
  PROVE  WholeInv'
<1> USE DEF Inv, Shape, AcceptedIdle, WholeInv, Fields, Fresh, Verdict, BeforeHead,
    Stored, Final, Reads, Filled, Freed, Owned, LinkedOwned, StreamsOwned,
    CompletesFirst,
    server, PCs, Early, Streaming, Fetching
<1>1. CASE ReadHeader(h)
  BY <1>1 DEF ReadHeader, At, Goto
<1>2. CASE BadRequest(h)
  BY <1>2 DEF BadRequest, At, Leave, Goto
<1>3. CASE LockMap(h)
  BY <1>3, ProxyAssumption DEF LockMap, At, Goto
<1>4. CASE Find(h)
  BY <1>4 DEF Find, At, Goto
<1>5. CASE AddEntry(h)
  BY <1>5 DEF AddEntry, At, Goto
<1> QED BY <1>1, <1>2, <1>3, <1>4, <1>5 DEF Lookup

LEMMA WholeStream ==
  ASSUME Inv, WholeInv, NEW h \in Handlers, Stream(h) \/ SpuriousWakeup(h)
  PROVE  WholeInv'
<1> USE DEF Inv, Shape, AcceptedIdle, WholeInv, Fields, Fresh, Verdict, BeforeHead,
    Stored, Final, Reads, Filled, Freed, Owned, LinkedOwned, StreamsOwned,
    CompletesFirst,
    server, PCs, Early, Streaming, Fetching
<1>1. CASE ReadFirst(h)
  BY <1>1 DEF ReadFirst, At, Goto, Access, StreamTop, FirstNode
<1>2. CASE WaitForData(h)
  BY <1>2 DEF WaitForData, At, Goto, Access, Leave
<1>3. CASE RdLock(h)
  BY <1>3 DEF RdLock, At, Goto, Access
<1>4. CASE Send(h)
  BY <1>4 DEF Send, At, Goto, Access
<1>5. CASE SendFails(h)
  BY <1>5 DEF SendFails, At, Goto, Access, Leave
<1>6. CASE CheckNext(h)
  <2>1. Fields'
    BY <1>6 DEF CheckNext, At, Goto, Access, Leave, StreamTop
  <2>2. \A e \in Handlers : Fresh(e)' /\ Verdict(e)'
    BY <1>6 DEF CheckNext, At, Goto, Access, Leave, StreamTop
  <2>3. \A e \in Handlers : Stored(e)'
    BY <1>6 DEF CheckNext, At, Goto, Access, Leave, StreamTop
  <2>4. \A e \in Handlers : Final(e)'
    BY <1>6 DEF CheckNext, At, Goto, Access, Leave, StreamTop
  <2>5. \A u \in Handlers : Reads(u)'
    BY <1>6 DEF CheckNext, At, Goto, Access, Leave, StreamTop
  <2>6. \A e \in Handlers : Filled(e)'
    BY <1>6 DEF CheckNext, At, Goto, Access, Leave, StreamTop
  <2>7. \A e \in Handlers : Freed(e)'
    BY <1>6 DEF CheckNext, At, Goto, Access, Leave, StreamTop
  <2> QED BY <2>1, <2>2, <2>3, <2>4, <2>5, <2>6, <2>7 DEF WholeInv
<1>7. CASE SpuriousWakeup(h)
  BY <1>7 DEF SpuriousWakeup, At, Goto
<1> QED BY <1>1, <1>2, <1>3, <1>4, <1>5, <1>6, <1>7 DEF Stream

LEMMA WholeFetch ==
  ASSUME Inv, WholeInv, NEW h \in Handlers, Fetch(h)
  PROVE  WholeInv'
<1> USE DEF Inv, Shape, AcceptedIdle, WholeInv, Fields, Fresh, Verdict, BeforeHead,
    Stored, Final, Reads, Filled, Freed, Owned, LinkedOwned, StreamsOwned,
    CompletesFirst,
    server, PCs, Early, Streaming, Fetching
<1>1. CASE Connect(h)
  BY <1>1 DEF Connect, At, Goto
<1>2. CASE ConnectFails(h)
  <2>1. Fields'
    BY <1>2 DEF ConnectFails, At, MarkComplete, Access, Broadcast
  <2>2. \A e \in Handlers : Fresh(e)' /\ Verdict(e)'
    BY <1>2 DEF ConnectFails, At, MarkComplete, Access, Broadcast
  <2>3. \A e \in Handlers : Stored(e)'
    BY <1>2 DEF ConnectFails, At, MarkComplete, Access, Broadcast
  <2>4. \A e \in Handlers : Final(e)'
    BY <1>2 DEF ConnectFails, At, MarkComplete, Access, Broadcast
  <2>5. \A u \in Handlers : Reads(u)'
    BY <1>2 DEF ConnectFails, At, MarkComplete, Access, Broadcast
  <2>6. \A e \in Handlers : Filled(e)'
    BY <1>2 DEF ConnectFails, At, MarkComplete, Access, Broadcast
  <2>7. \A e \in Handlers : Freed(e)'
    BY <1>2 DEF ConnectFails, At, MarkComplete, Access, Broadcast
  <2> QED BY <2>1, <2>2, <2>3, <2>4, <2>5, <2>6, <2>7 DEF WholeInv
<1>3. CASE SendRequest(h)
  BY <1>3 DEF SendRequest, At, Goto
<1>4. CASE SendRequestFails(h)
  <2>1. Fields'
    BY <1>4 DEF SendRequestFails, At, MarkComplete, Access, Broadcast
  <2>2. \A e \in Handlers : Fresh(e)' /\ Verdict(e)'
    BY <1>4 DEF SendRequestFails, At, MarkComplete, Access, Broadcast
  <2>3. \A e \in Handlers : Stored(e)'
    BY <1>4 DEF SendRequestFails, At, MarkComplete, Access, Broadcast
  <2>4. \A e \in Handlers : Final(e)'
    BY <1>4 DEF SendRequestFails, At, MarkComplete, Access, Broadcast
  <2>5. \A u \in Handlers : Reads(u)'
    BY <1>4 DEF SendRequestFails, At, MarkComplete, Access, Broadcast
  <2>6. \A e \in Handlers : Filled(e)'
    BY <1>4 DEF SendRequestFails, At, MarkComplete, Access, Broadcast
  <2>7. \A e \in Handlers : Freed(e)'
    BY <1>4 DEF SendRequestFails, At, MarkComplete, Access, Broadcast
  <2> QED BY <2>1, <2>2, <2>3, <2>4, <2>5, <2>6, <2>7 DEF WholeInv
<1>5. CASE NoStatus(h)
  BY <1>5 DEF NoStatus, At, Goto
<1>6. CASE ReadStatus(h)
  <2>0. PICK status \in Replies \ {"none"} :
          /\ loc' = [loc EXCEPT ![h].keep = (status = "ok")]
          /\ Goto(h, IF status = "redirect" THEN "redirect" ELSE "sendHead")
    BY <1>6 DEF ReadStatus
  <2>1. Fields'
    <3>1. DOMAIN loc' = DOMAIN loc
      BY <2>0
    <3>2. \A u \in Handlers : /\ DOMAIN loc'[u] = DOMAIN loc[u]
                              /\ loc'[u].cur = loc[u].cur
                              /\ loc'[u].chunks = loc[u].chunks
                              /\ loc'[u].entry = loc[u].entry
      BY <2>0
    <3> QED BY <1>6, <3>1, <3>2 DEF ReadStatus
  <2>2. \A e \in Handlers : Fresh(e)' /\ Verdict(e)'
    <3>1. loc'[h].keep = (status = "ok")
      BY <2>0
    <3>2. /\ pc'[h] = "redirect" => ~(status = "ok")
          /\ pc'[h] \in {"redirect", "sendHead"}
      BY <2>0 DEF Goto
    <3>3. pc'[h] = "redirect" => ~loc'[h].keep
      BY <3>1, <3>2, Zenon
    <3>4. Fresh(h)' /\ Verdict(h)'
      BY <3>2, <3>3
    <3>5. \A e \in Handlers \ {h} : Fresh(e)' /\ Verdict(e)'
      BY <1>6 DEF ReadStatus, At, Goto
    <3> QED BY <3>4, <3>5
  <2>3. \A e \in Handlers : Stored(e)'
    BY <1>6 DEF ReadStatus, At, Goto
  <2>4. \A e \in Handlers : Final(e)'
    BY <1>6 DEF ReadStatus, At, Goto
  <2>5. \A u \in Handlers : Reads(u)'
    BY <1>6 DEF ReadStatus, At, Goto
  <2>6. \A e \in Handlers : Filled(e)'
    BY <1>6 DEF ReadStatus, At, Goto
  <2>7. \A e \in Handlers : Freed(e)'
    BY <1>6 DEF ReadStatus, At, Goto
  <2> QED BY <2>1, <2>2, <2>3, <2>4, <2>5, <2>6, <2>7 DEF WholeInv
<1>7. CASE NoLocation(h)
  BY <1>7 DEF NoLocation, At, Goto
<1>8. CASE FollowRedirect(h)
  BY <1>8 DEF FollowRedirect, At, Goto
<1>9. CASE RedirectFails(h)
  BY <1>9 DEF RedirectFails, At, Goto
<1>10. CASE SendHead(h)
  BY <1>10 DEF SendHead, SendOwn, At, Goto
<1>11. CASE AddHead(h)
  <2>1. Fields'
    BY <1>11 DEF AddHead, ListAdd, Access, Broadcast, At
  <2>2. \A e \in Handlers : Fresh(e)' /\ Verdict(e)'
    BY <1>11 DEF AddHead, ListAdd, Access, Broadcast, At
  <2>3. \A e \in Handlers : Stored(e)'
    BY <1>11 DEF AddHead, ListAdd, Access, Broadcast, At
  <2>4. \A e \in Handlers : Final(e)'
    BY <1>11 DEF AddHead, ListAdd, Access, Broadcast, At
  <2>5. \A u \in Handlers : Reads(u)'
    BY <1>11 DEF AddHead, ListAdd, Access, Broadcast, At
  <2>6. \A e \in Handlers : Filled(e)'
    BY <1>11 DEF AddHead, ListAdd, Access, Broadcast, At
  <2>7. \A e \in Handlers : Freed(e)'
    BY <1>11 DEF AddHead, ListAdd, Access, Broadcast, At
  <2> QED BY <2>1, <2>2, <2>3, <2>4, <2>5, <2>6, <2>7 DEF WholeInv
<1>12. CASE WrLockHead(h)
  BY <1>12 DEF WrLockHead, WrLock, Access, At, Goto
<1>13. CASE ReadChunk(h)
  BY <1>13 DEF ReadChunk, At, Goto
<1>14. CASE AddBody(h)
  <2>1. Fields'
    BY <1>14 DEF AddBody, ListAdd, Access, Broadcast, At
  <2>2. \A e \in Handlers : Fresh(e)' /\ Verdict(e)'
    BY <1>14 DEF AddBody, ListAdd, Access, Broadcast, At
  <2>3. \A e \in Handlers : Stored(e)'
    BY <1>14 DEF AddBody, ListAdd, Access, Broadcast, At
  <2>4. \A e \in Handlers : Final(e)'
    BY <1>14 DEF AddBody, ListAdd, Access, Broadcast, At
  <2>5. \A u \in Handlers : Reads(u)'
    BY <1>14 DEF AddBody, ListAdd, Access, Broadcast, At
  <2>6. \A e \in Handlers : Filled(e)'
    BY <1>14 DEF AddBody, ListAdd, Access, Broadcast, At
  <2>7. \A e \in Handlers : Freed(e)'
    BY <1>14 DEF AddBody, ListAdd, Access, Broadcast, At
  <2> QED BY <2>1, <2>2, <2>3, <2>4, <2>5, <2>6, <2>7 DEF WholeInv
<1>15. CASE WrLockBody(h)
  BY <1>15 DEF WrLockBody, WrLock, Access, At, Goto
<1>16. CASE UnlockPrev(h)
  BY <1>16 DEF UnlockPrev, Unlock, Access, At, Goto
<1>17. CASE SendBody(h)
  BY <1>17 DEF SendBody, SendOwn, At, Goto
<1>18. CASE EndOfBody(h)
  BY <1>18 DEF EndOfBody, At, Goto
<1>19. CASE UnlockLast(h)
  <2>1. Fields'
    BY <1>19 DEF UnlockLast, Unlock, Access, At, Goto
  <2>2. \A e \in Handlers : Fresh(e)' /\ Verdict(e)'
    BY <1>19 DEF UnlockLast, Unlock, Access, At, Goto
  <2>3. \A e \in Handlers : Stored(e)'
    BY <1>19 DEF UnlockLast, Unlock, Access, At, Goto
  <2>4. \A e \in Handlers : Final(e)'
    BY <1>19 DEF UnlockLast, Unlock, Access, At, Goto
  <2>5. \A u \in Handlers : Reads(u)'
    BY <1>19 DEF UnlockLast, Unlock, Access, At, Goto
  <2>6. \A e \in Handlers : Filled(e)'
    BY <1>19 DEF UnlockLast, Unlock, Access, At, Goto
  <2>7. \A e \in Handlers : Freed(e)'
    BY <1>19 DEF UnlockLast, Unlock, Access, At, Goto
  <2> QED BY <2>1, <2>2, <2>3, <2>4, <2>5, <2>6, <2>7 DEF WholeInv
<1>20. CASE Complete(h)
  <2>1. Fields'
    BY <1>20 DEF Complete, Access, Broadcast, At
  <2>2. \A e \in Handlers : Fresh(e)' /\ Verdict(e)'
    BY <1>20 DEF Complete, Access, Broadcast, At
  <2>3. \A e \in Handlers : Stored(e)'
    BY <1>20 DEF Complete, Access, Broadcast, At
  <2>4. \A e \in Handlers : Final(e)'
    BY <1>20 DEF Complete, Access, Broadcast, At
  <2>5. \A u \in Handlers : Reads(u)'
    BY <1>20 DEF Complete, Access, Broadcast, At
  <2>6. \A e \in Handlers : Filled(e)'
    BY <1>20 DEF Complete, Access, Broadcast, At
  <2>7. \A e \in Handlers : Freed(e)'
    BY <1>20 DEF Complete, Access, Broadcast, At
  <2> QED BY <2>1, <2>2, <2>3, <2>4, <2>5, <2>6, <2>7 DEF WholeInv
<1>21. CASE KeepEntry(h)
  <2>1. Fields'
    BY <1>21 DEF KeepEntry, Leave, At, Goto
  <2>2. \A e \in Handlers : Fresh(e)' /\ Verdict(e)'
    BY <1>21 DEF KeepEntry, Leave, At, Goto
  <2>3. \A e \in Handlers : Stored(e)'
    BY <1>21 DEF KeepEntry, Leave, At, Goto
  <2>4. \A e \in Handlers : Final(e)'
    BY <1>21 DEF KeepEntry, Leave, At, Goto
  <2>5. \A u \in Handlers : Reads(u)'
    BY <1>21 DEF KeepEntry, Leave, At, Goto
  <2>6. \A e \in Handlers : Filled(e)'
    BY <1>21 DEF KeepEntry, Leave, At, Goto
  <2>7. \A e \in Handlers : Freed(e)'
    BY <1>21 DEF KeepEntry, Leave, At, Goto
  <2> QED BY <2>1, <2>2, <2>3, <2>4, <2>5, <2>6, <2>7 DEF WholeInv
<1>22. CASE RemoveEntry(h)
  <2>1. Fields'
    BY <1>22 DEF RemoveEntry, Leave, At, Goto
  <2>2. \A e \in Handlers : Fresh(e)' /\ Verdict(e)'
    BY <1>22 DEF RemoveEntry, Leave, At, Goto
  <2>3. \A e \in Handlers : Stored(e)'
    BY <1>22 DEF RemoveEntry, Leave, At, Goto
  <2>4. \A e \in Handlers : Final(e)'
    BY <1>22 DEF RemoveEntry, Leave, At, Goto
  <2>5. \A u \in Handlers : Reads(u)'
    BY <1>22 DEF RemoveEntry, Leave, At, Goto
  <2>6. \A e \in Handlers : Filled(e)'
    BY <1>22 DEF RemoveEntry, Leave, At, Goto
  <2>7. \A e \in Handlers : Freed(e)'
    BY <1>22 DEF RemoveEntry, Leave, At, Goto
  <2> QED BY <2>1, <2>2, <2>3, <2>4, <2>5, <2>6, <2>7 DEF WholeInv
<1> QED BY <1>1, <1>2, <1>3, <1>4, <1>5, <1>6, <1>7, <1>8, <1>9, <1>10, <1>11, <1>12, <1>13, <1>14, <1>15, <1>16, <1>17, <1>18, <1>19, <1>20, <1>21, <1>22, Zenon DEF Fetch

(* The whole invariant, for every behaviour of the proxy. *)
THEOREM WholeInvariant == Spec => []WholeInv
<1>1. Init => WholeInv
  BY DEF Init, WholeInv, Fields, Fresh, Verdict, BeforeHead, Stored, Final, Reads,
     Filled, Freed, Early, Streaming
<1>2. Inv /\ WholeInv /\ [Next]_vars => WholeInv'
  <2> SUFFICES ASSUME Inv, WholeInv, [Next]_vars PROVE WholeInv'
    OBVIOUS
  <2>1. CASE \E h \in Handlers : Handler(h) \/ SpuriousWakeup(h)
    BY <2>1, WholeLookup, WholeStream, WholeFetch DEF Handler
  <2>2. CASE (\E h \in Handlers : Accept(h)) \/ Server
    BY <2>2, WholeServer
  <2>3. CASE UNCHANGED vars
    BY <2>3 DEF vars, WholeInv, Fields, Fresh, Verdict, Stored, Final, Reads,
       Filled, Freed, Owned
  <2> QED BY <2>1, <2>2, <2>3 DEF Next, Finished
<1> QED BY <1>1, <1>2, Invariant, PTL DEF Spec

(* StreamedWhole: the streaming loop of client_handler stops only when the *)
(* list is complete and it has sent every node of it in order, however its *)
(* reads, its waits and the additions of list_add interleave.              *)
THEOREM StreamsEnd == Spec => []StreamedWhole
<1>1. WholeInv => StreamedWhole
  BY DEF WholeInv, Reads, StreamedWhole
<1> QED BY <1>1, WholeInvariant, PTL

(* WholeUnlessFailed: what client_handler leaves in the cache is the whole *)
(* response, whether or not its own client was still there.                *)
THEOREM CachedWhole == Spec => []WholeUnlessFailed
<1>1. Inv /\ WholeInv => WholeUnlessFailed
  BY DEF Inv, Shape, WholeInv, Filled, Stored, WholeUnlessFailed
<1> QED BY <1>1, Invariant, WholeInvariant, PTL

(* FreedOnlyUncacheable: map_remove frees an entry only for a handler      *)
(* whose response may not be cached and that asked for its URL last.       *)
THEOREM FreedLast == Spec => []FreedOnlyUncacheable
<1>1. WholeInv => FreedOnlyUncacheable
  BY DEF WholeInv, Freed, FreedOnlyUncacheable
<1> QED BY <1>1, WholeInvariant, PTL

=============================================================================
