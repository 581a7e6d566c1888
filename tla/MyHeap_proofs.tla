----------------------------- MODULE MyHeap_proofs -----------------------------
(***************************************************************************)
(* The block list of my_heap.c tiles the mapping for every size of the     *)
(* heap and of the header and for every sequence of requests, and the heap *)
(* keeps the promise of an allocator.                                      *)
(***************************************************************************)
EXTENDS MyHeap, WellFoundedInduction, TLAPS

Typed ==
  /\ blocks \subseteq Addresses
  /\ size \in [Addresses -> Nat]
  /\ next \in [Addresses -> Int]
  /\ free \in [Addresses -> BOOLEAN]
  /\ want \in Nat

(* The cursor of either loop is a block or past the last one; a merge      *)
(* never unlinks the block under it.                                       *)
CursorOnList == current \in blocks \union {NULL}

IInv == Typed /\ CursorOnList /\ Tiles

(* What the invariant says of a single block. *)
LEMMA BlockFacts ==
  ASSUME IInv, NEW a \in blocks
  PROVE  /\ a \in Nat /\ a \in Addresses /\ size[a] \in Nat
         /\ Header \in Nat \ {0} /\ HeapSize \in Nat
         /\ a + Header + size[a] <= HeapSize
         /\ next[a] = IF a + Header + size[a] = HeapSize THEN NULL ELSE a + Header + size[a]
         /\ next[a] # NULL => next[a] \in blocks
         /\ \A b \in blocks : a < b => a + Header + size[a] <= b
PROOF
  BY HeapAssumption DEF IInv, Typed, Tiles, Addresses, BlockEnd

(* A split of a free block leaves the list a tiling. *)
LEMMA SplitStep ==
  ASSUME IInv, Split
  PROVE  IInv'
PROOF
<1> DEFINE new == current + Header + want
<1>1. current \in blocks /\ want \in Nat /\ size[current] > want + Header
  BY DEF IInv, Typed, CursorOnList, Split
<1>2. /\ current \in Nat /\ size[current] \in Nat /\ Header \in Nat \ {0}
      /\ HeapSize \in Nat /\ current + Header + size[current] <= HeapSize
      /\ \A b \in blocks : current < b => current + Header + size[current] <= b
  BY <1>1, BlockFacts
<1>3. /\ new \in Nat /\ new <= HeapSize /\ new # current
      /\ current < new /\ new + Header < current + Header + size[current]
  BY <1>1, <1>2
<1>4. new \in Addresses /\ current \in Addresses
  BY <1>2, <1>3, <1>1, BlockFacts DEF Addresses
<1>5. new \notin blocks
  BY <1>2, <1>3
<1>6. /\ blocks' = blocks \union {new}
      /\ size' = [size EXCEPT ![new] = size[current] - want - Header,
                              ![current] = want]
      /\ next' = [next EXCEPT ![new] = next[current], ![current] = new]
      /\ free' = [free EXCEPT ![new] = TRUE, ![current] = FALSE]
      /\ current' = NULL /\ want' = 0
  BY DEF Split, Return
<1>7. size[current] - want - Header \in Nat
  BY <1>1, <1>2
<1> HIDE DEF new
<1>8. Typed'
  <2>1. next[current] \in Int /\ new \in Int
    BY <1>3, <1>4 DEF IInv, Typed
  <2> QED
    BY <1>1, <1>3, <1>4, <1>6, <1>7, <2>1 DEF IInv, Typed
<1>9. /\ size'[new] = size[current] - want - Header
      /\ size'[current] = want
      /\ next'[new] = next[current] /\ next'[current] = new
      /\ \A a \in blocks \ {current} : size'[a] = size[a] /\ next'[a] = next[a]
  BY <1>3, <1>4, <1>5, <1>6 DEF IInv, Typed
<1>10. /\ current + Header + size'[current] = new
       /\ new + Header + size'[new] = current + Header + size[current]
       /\ \A a \in blocks \ {current} :
            a + Header + size'[a] = a + Header + size[a]
  <2>1. new = current + Header + want
    BY DEF new
  <2> QED
    BY <1>1, <1>2, <1>9, <2>1
<1>11. Tiles'
  <2>1. 0 \in blocks'
    BY <1>6 DEF IInv, Tiles
  <2>2. \A a \in blocks' : a + Header + size'[a] <= HeapSize
    BY <1>3, <1>6, <1>10, <1>1, BlockFacts
  <2>3. current + Header + size[current] > new /\ current + Header + size[current] <= HeapSize
    BY <1>2, <1>3
  <2>4. ASSUME NEW a \in blocks'
        PROVE  next'[a] = IF a + Header + size'[a] = HeapSize THEN NULL ELSE a + Header + size'[a]
    <3>1. CASE a = current
      BY <3>1, <1>2, <1>3, <1>9, <1>10, <2>3
    <3>2. CASE a = new
      BY <3>2, <1>1, <1>9, <1>10, BlockFacts
    <3>3. CASE a \in blocks \ {current}
      BY <3>3, <1>9, <1>10, BlockFacts
    <3> QED
      BY <3>1, <3>2, <3>3, <1>6
  <2>5. ASSUME NEW a \in blocks' PROVE next'[a] # NULL => next'[a] \in blocks'
    <3>1. CASE a = current
      BY <3>1, <1>6, <1>9
    <3>2. CASE a = new
      BY <3>2, <1>1, <1>6, <1>9, BlockFacts
    <3>3. CASE a \in blocks \ {current}
      <4>1. next'[a] = next[a]
        BY <3>3, <1>9
      <4>2. next[a] # NULL => next[a] \in blocks
        BY <3>3, BlockFacts
      <4> QED
        BY <4>1, <4>2, <1>6
    <3> QED
      BY <3>1, <3>2, <3>3, <1>6
  <2>6. ASSUME NEW a \in blocks', NEW b \in blocks', a < b
        PROVE  a + Header + size'[a] <= b
    <3>1. CASE a = current /\ b = new
      BY <3>1, <1>3, <1>10
    <3>2. CASE a = current /\ b \in blocks
      BY <3>2, <2>6, <1>10, <1>1, <2>3, <1>2, <1>3, BlockFacts
    <3>3. CASE a = new /\ b \in blocks
      BY <3>3, <2>6, <1>10, <1>1, <1>2, <1>3, BlockFacts
    <3>4. CASE a \in blocks \ {current} /\ b = new
      <4>1. a \in Nat /\ (a < current => a + Header + size[a] <= current)
            /\ (current < a => current + Header + size[current] <= a)
        BY <3>4, <1>1, BlockFacts
      <4>2. a < current
        BY <4>1, <3>4, <2>6, <2>3, <1>2, <1>3
      <4>3. a + Header + size[a] \in Int
        BY <3>4, BlockFacts
      <4> QED
        BY <4>1, <4>2, <4>3, <3>4, <1>2, <1>3, <1>10
    <3>5. CASE a \in blocks \ {current} /\ b \in blocks
      BY <3>5, <2>6, <1>10, BlockFacts
    <3> QED
      <4>1. ~(a = new /\ b = new)
        BY <2>6, <1>3
      <4> QED
        BY <3>1, <3>2, <3>3, <3>4, <3>5, <4>1, <1>1, <1>6
  <2> QED
    BY <2>1, <2>2, <2>4, <2>5, <2>6 DEF Tiles, BlockEnd
<1> QED
  BY <1>6, <1>8, <1>11 DEF IInv, CursorOnList

(* Merging two neighbours leaves the list a tiling. *)
LEMMA MergeStep ==
  ASSUME IInv, Merge
  PROVE  IInv'
PROOF
<1> DEFINE n == next[current]
<1>1. current \in blocks /\ n # NULL
  BY DEF IInv, CursorOnList, Merge
<1>2. n \in blocks /\ n = current + Header + size[current]
  BY <1>1, BlockFacts
<1>3. /\ current \in Nat /\ size[current] \in Nat /\ size[n] \in Nat
      /\ Header \in Nat \ {0} /\ n = current + Header + size[current]
      /\ current \in Addresses /\ n \in Addresses
  BY <1>1, <1>2, BlockFacts
<1>4. n \in Nat /\ current < n
  BY <1>3
<1>5. /\ blocks' = blocks \ {n}
      /\ size' = [size EXCEPT ![current] = size[current] + size[n] + Header,
                              ![n] = 0]
      /\ next' = [next EXCEPT ![current] = next[n], ![n] = NULL]
      /\ free' = [free EXCEPT ![n] = FALSE]
      /\ current' = current /\ want' = want
  BY DEF Merge
<1> HIDE DEF n
<1>6. Typed'
  <2>1. next[n] \in Int /\ NULL \in Int
    BY <1>3 DEF IInv, Typed, NULL
  <2>2. size[current] + size[n] + Header \in Nat
    BY <1>3
  <2>3. size' \in [Addresses -> Nat]
    BY <1>5, <2>2 DEF IInv, Typed
  <2>4. next' \in [Addresses -> Int]
    BY <1>5, <2>1 DEF IInv, Typed
  <2> QED
    BY <1>5, <2>3, <2>4 DEF IInv, Typed
<1>7. /\ size'[current] = size[current] + size[n] + Header
      /\ next'[current] = next[n]
      /\ \A a \in blocks' \ {current} : size'[a] = size[a] /\ next'[a] = next[a]
  BY <1>3, <1>4, <1>5 DEF IInv, Typed
<1>8. /\ current + Header + size'[current] = n + Header + size[n]
      /\ \A a \in blocks' \ {current} : a + Header + size'[a] = a + Header + size[a]
  BY <1>3, <1>7
<1>9. ASSUME NEW a \in blocks' \ {current} PROVE next[a] # n
  <2>1. /\ a \in Nat /\ a # n /\ a + Header + size[a] \in Nat /\ a < a + Header + size[a]
        /\ (a < current => a + Header + size[a] <= current)
        /\ (current < a => n <= a)
        /\ (next[a] = NULL \/ next[a] = a + Header + size[a])
    BY <1>1, <1>2, <1>5, BlockFacts
  <2> QED
    BY <2>1, <1>3, <1>4 DEF NULL
<1>10. Tiles'
  <2>1. 0 \in blocks'
    BY <1>4, <1>3, <1>5 DEF IInv, Tiles
  <2>2. \A a \in blocks' : a + Header + size'[a] <= HeapSize
    BY <1>2, <1>5, <1>8, BlockFacts
  <2>3. ASSUME NEW a \in blocks'
        PROVE  next'[a] = IF a + Header + size'[a] = HeapSize THEN NULL ELSE a + Header + size'[a]
    BY <1>2, <1>5, <1>7, <1>8, BlockFacts
  <2>4. ASSUME NEW a \in blocks' PROVE next'[a] # NULL => next'[a] \in blocks'
    <3>1. next[n] # n
      BY <1>2, <1>3, <1>4, BlockFacts DEF NULL
    <3>2. CASE a = current
      BY <3>1, <3>2, <1>2, <1>5, <1>7, BlockFacts
    <3>3. CASE a \in blocks' \ {current}
      <4>1. next'[a] = next[a] /\ next[a] # n
        BY <3>3, <1>7, <1>9
      <4>2. next[a] # NULL => next[a] \in blocks
        BY <3>3, <1>5, BlockFacts
      <4> QED
        BY <4>1, <4>2, <1>5
    <3> QED
      BY <3>2, <3>3
  <2>5. ASSUME NEW a \in blocks', NEW b \in blocks', a < b
        PROVE  a + Header + size'[a] <= b
    <3>1. CASE a = current
      <4>1. b \in Nat /\ b # n /\ b \in blocks /\ n <= b
        BY <3>1, <2>5, <1>1, <1>2, <1>5, BlockFacts
      <4>2. n + Header + size[n] <= b
        BY <4>1, <1>2, <1>4, BlockFacts
      <4> QED
        BY <3>1, <4>2, <1>8
    <3>2. CASE a # current
      BY <3>2, <2>5, <1>5, <1>8, BlockFacts
    <3> QED
      BY <3>1, <3>2
  <2> QED
    BY <2>1, <2>2, <2>3, <2>4, <2>5 DEF Tiles, BlockEnd
<1> QED
  BY <1>1, <1>4, <1>5, <1>6, <1>10 DEF IInv, CursorOnList

(* Every step of myMalloc, myFree and mergeBlocks preserves the tiling. *)
LEMMA TilesStep ==
  ASSUME IInv, [Next]_vars
  PROVE  IInv'
PROOF
<1> USE DEF IInv, Typed, CursorOnList, Tiles, BlockEnd, Return, fields
<1>0. CASE UNCHANGED vars
  BY <1>0 DEF vars
<1>1. ASSUME NEW n \in Sizes, CallMalloc(n) PROVE IInv'
  BY <1>1, HeapAssumption DEF CallMalloc
<1>2. CASE Split
  BY <1>2, SplitStep
<1>3. CASE TakeWhole
  BY <1>3 DEF TakeWhole
<1>4. CASE TryNextBlock
  BY <1>4 DEF TryNextBlock
<1>5. CASE OutOfMemory
  BY <1>5 DEF OutOfMemory
<1>6. ASSUME NEW p \in InUse, CallFree(p) PROVE IInv'
  BY <1>6 DEF CallFree, InUse
<1>7. CASE Merge
  BY <1>7, MergeStep
<1>8. CASE MergeMovesOn
  BY <1>8 DEF MergeMovesOn
<1>9. CASE MergeEnds
  BY <1>9 DEF MergeEnds
<1> QED
  BY <1>0, <1>1, <1>2, <1>3, <1>4, <1>5, <1>6, <1>7, <1>8, <1>9 DEF Next

(* Between two calls no two neighbours are both free; during a merge only   *)
(* pairs at or after the cursor are.                                       *)
Neighbours ==
  \A a \in blocks : next[a] # NULL /\ free[a] /\ free[next[a]]
                      => pc = "merge" /\ current # NULL /\ current <= a

(* What the search has passed does not fit. *)
Searched ==
  pc = "malloc" =>
    /\ want \in Sizes
    /\ \A a \in blocks : current = NULL \/ a < current
                           => ~(free[a] /\ size[a] >= want)

FInv == IInv /\ Neighbours /\ Searched

(* A block starts after another one only from where that one ends. *)
LEMMA Between ==
  ASSUME IInv, NEW a \in blocks, NEW c \in blocks
  PROVE  /\ next[c] = NULL => a <= c
         /\ next[c] # NULL => c < next[c] /\ (a < next[c] => a <= c)
PROOF
<1>1. /\ c \in Nat /\ a \in Nat /\ size[c] \in Nat /\ Header \in Nat \ {0}
      /\ a + Header <= HeapSize /\ HeapSize \in Nat
      /\ c < a => c + Header + size[c] <= a
      /\ next[c] = IF c + Header + size[c] = HeapSize THEN NULL ELSE c + Header + size[c]
  <2>1. a + Header + size[a] <= HeapSize /\ size[a] \in Nat
    BY BlockFacts
  <2> QED
    BY <2>1, BlockFacts
<1> QED
  BY <1>1 DEF NULL

(* A split leaves the remainder free beside a block that is not: the block *)
(* that was cut had no free neighbour.                                     *)
LEMMA SplitNeighbours ==
  ASSUME FInv, Split
  PROVE  Neighbours'
PROOF
<1> DEFINE new == current + Header + want
<1>1. current \in blocks /\ pc = "malloc" /\ free[current]
  BY DEF FInv, IInv, CursorOnList, Split, Fits
<1>2. /\ blocks' = blocks \union {new}
      /\ next' = [next EXCEPT ![new] = next[current], ![current] = new]
      /\ free' = [free EXCEPT ![new] = TRUE, ![current] = FALSE]
  BY DEF Split
<1>3. new \in Addresses /\ new # current /\ new \notin blocks
  <2>1. /\ current \in Nat /\ size[current] \in Nat /\ Header \in Nat \ {0}
        /\ HeapSize \in Nat /\ current + Header + size[current] <= HeapSize
        /\ \A b \in blocks : current < b => current + Header + size[current] <= b
    BY <1>1, BlockFacts DEF FInv
  <2>2. want \in Nat /\ size[current] > want + Header
    BY DEF FInv, IInv, Typed, Split
  <2> QED
    BY <2>1, <2>2 DEF Addresses
<1> HIDE DEF new
<1>4. next[current] # NULL => next[current] \in blocks /\ ~free[next[current]]
                              /\ next[current] # current
  BY <1>1, Between, BlockFacts DEF FInv, Neighbours
<1>5. /\ ~free'[current] /\ next'[new] = next[current]
      /\ \A a \in blocks \ {current} : next'[a] = next[a] /\ free'[a] = free[a]
  BY <1>1, <1>2, <1>3, BlockFacts DEF FInv, IInv, Typed
<1> SUFFICES ASSUME NEW a \in blocks', next'[a] # NULL, free'[a], free'[next'[a]]
             PROVE  FALSE
  BY DEF Neighbours
<1>6. CASE a = current
  BY <1>5, <1>6
<1>7. CASE a = new
  BY <1>4, <1>5, <1>7
<1>8. CASE a \in blocks \ {current}
  <2>1. next[a] \in blocks /\ next[a] # current /\ free[a] /\ free[next[a]]
    BY <1>5, <1>8, BlockFacts DEF FInv
  <2> QED
    BY <2>1, <1>1, <1>5, <1>8 DEF FInv, Neighbours
<1> QED
  BY <1>2, <1>6, <1>7, <1>8

(* A merge touches no pair before the cursor. *)
LEMMA MergeNeighbours ==
  ASSUME FInv, Merge
  PROVE  Neighbours'
PROOF
<1> DEFINE n == next[current]
<1>1. current \in blocks /\ n \in blocks /\ pc = "merge" /\ current # NULL
  BY BlockFacts DEF FInv, IInv, CursorOnList, Merge
<1>2. /\ blocks' = blocks \ {n}
      /\ next' = [next EXCEPT ![current] = next[n], ![n] = NULL]
      /\ free' = [free EXCEPT ![n] = FALSE]
      /\ current' = current /\ pc' = pc
  BY DEF Merge
<1> HIDE DEF n
<1> SUFFICES ASSUME NEW a \in blocks', next'[a] # NULL, free'[a], free'[next'[a]],
                    ~(current <= a)
             PROVE  FALSE
  BY <1>1, <1>2 DEF Neighbours
<1>3. a \in blocks /\ a # n /\ a # current /\ current \in Nat /\ a \in Nat
  BY <1>1, <1>2, BlockFacts DEF FInv
<1>4. next'[a] = next[a] /\ free'[a] = free[a]
  BY <1>1, <1>2, <1>3, BlockFacts DEF FInv, IInv, Typed
<1>5. next[a] \in blocks
  BY <1>3, <1>4, BlockFacts DEF FInv
<1>6. free'[next[a]] => free[next[a]]
  BY <1>1, <1>2, <1>5, BlockFacts DEF FInv, IInv, Typed
<1> QED
  BY <1>3, <1>4, <1>6 DEF FInv, Neighbours

(* The two facts hold at every step. *)
LEMMA FInvStep ==
  ASSUME FInv, [Next]_vars
  PROVE  FInv'
PROOF
<1>0. IInv /\ Neighbours /\ Searched
  BY DEF FInv
<1>1. IInv'
  BY <1>0, TilesStep
<1>2. CASE UNCHANGED vars
  BY <1>0, <1>1, <1>2 DEF FInv, Neighbours, Searched, vars, fields
<1>3. ASSUME NEW n \in Sizes, CallMalloc(n) PROVE FInv'
  <2>1. Neighbours'
    BY <1>0, <1>3 DEF CallMalloc, Neighbours, fields
  <2>2. ASSUME NEW a \in blocks PROVE ~(a < 0)
    <3>1. a \in Nat
      BY <1>0, BlockFacts
    <3> QED
      BY <3>1
  <2>3. Searched'
    BY <2>2, <1>3 DEF CallMalloc, Searched, fields, NULL
  <2> QED
    BY <1>1, <2>1, <2>3 DEF FInv
<1>4. CASE Split
  BY <1>0, <1>1, <1>4, SplitNeighbours DEF FInv, Searched, Split, Return
<1>5. CASE TakeWhole
  <2>1. \A a \in blocks : free'[a] => free[a]
    BY <1>0, <1>5, BlockFacts DEF TakeWhole, IInv, Typed
  <2>2. \A a \in blocks : next[a] # NULL => next[a] \in blocks
    BY <1>0, BlockFacts
  <2>3. Neighbours'
    BY <1>0, <1>5, <2>1, <2>2 DEF TakeWhole, Neighbours
  <2> QED
    BY <1>1, <1>5, <2>3 DEF FInv, Searched, TakeWhole, Return
<1>6. CASE TryNextBlock
  <2>1. Neighbours'
    BY <1>0, <1>6 DEF TryNextBlock, Neighbours, fields
  <2>2. /\ pc = "malloc" /\ current # NULL /\ ~Fits /\ current' = next[current]
        /\ UNCHANGED <<blocks, size, next, free, want>> /\ current \in blocks
    BY <1>0, <1>6 DEF TryNextBlock, fields, IInv, CursorOnList
  <2>3. ASSUME NEW a \in blocks, next[current] = NULL \/ a < next[current]
        PROVE  ~(free[a] /\ size[a] >= want)
    <3>1. a <= current /\ a \in Nat /\ current \in Nat
      BY <1>0, <2>2, <2>3, Between, BlockFacts
    <3>2. CASE a = current
      BY <2>2, <3>2 DEF Fits
    <3>3. CASE a < current
      BY <1>0, <2>2, <3>3 DEF Searched
    <3> QED
      BY <3>1, <3>2, <3>3
  <2>4. Searched'
    BY <1>0, <2>2, <2>3 DEF Searched
  <2> QED
    BY <1>1, <2>1, <2>4 DEF FInv
<1>7. CASE OutOfMemory
  BY <1>0, <1>1, <1>7 DEF FInv, OutOfMemory, Neighbours, Searched, Return, fields
<1>8. ASSUME NEW p \in InUse, CallFree(p) PROVE FInv'
  <2>1. pc' = "merge" /\ current' = 0 /\ blocks' = blocks
    BY <1>8 DEF CallFree
  <2>2. \A a \in blocks : 0 <= a
    BY <1>0, BlockFacts
  <2> QED
    BY <1>1, <2>1, <2>2 DEF FInv, Neighbours, Searched, NULL
<1>9. CASE Merge
  <2>1. pc' = "merge"
    BY <1>9 DEF Merge
  <2> QED
    BY <1>1, <1>9, <2>1, MergeNeighbours DEF FInv, Searched
<1>10. CASE MergeMovesOn
  <2>1. /\ pc = "merge" /\ pc' = "merge" /\ current # NULL /\ next[current] # NULL
        /\ ~(free[current] /\ free[next[current]])
        /\ current' = next[current] /\ UNCHANGED <<blocks, size, next, free>>
        /\ current \in blocks
    BY <1>0, <1>10 DEF MergeMovesOn, fields, IInv, CursorOnList
  <2>2. ASSUME NEW a \in blocks, next[a] # NULL, free[a], free[next[a]]
        PROVE  next[current] <= a
    <3>1. /\ current <= a /\ a # current /\ a \in Nat /\ current \in Nat
          /\ next[current] \in Nat
      BY <1>0, <2>1, <2>2, BlockFacts DEF Neighbours
    <3>2. a < next[current] => a <= current
      BY <1>0, <2>1, Between
    <3> QED
      BY <3>1, <3>2
  <2>3. Neighbours'
    BY <2>1, <2>2 DEF Neighbours
  <2> QED
    BY <1>1, <2>1, <2>3 DEF FInv, Searched
<1>11. CASE MergeEnds
  <2>1. /\ pc = "merge" /\ pc' = "idle" /\ (current # NULL => next[current] = NULL)
        /\ UNCHANGED <<blocks, size, next, free>>
        /\ current \in blocks \union {NULL}
    BY <1>0, <1>11 DEF MergeEnds, fields, IInv, CursorOnList
  <2>2. ASSUME NEW a \in blocks, next[a] # NULL, free[a], free[next[a]]
        PROVE  FALSE
    <3>1. current \in blocks /\ current <= a /\ next[current] = NULL
      BY <1>0, <2>1, <2>2 DEF Neighbours
    <3>2. a <= current /\ a \in Nat /\ current \in Nat
      BY <1>0, <3>1, Between, BlockFacts
    <3>3. a = current
      BY <3>1, <3>2
    <3> QED
      BY <2>2, <3>1, <3>3
  <2>3. Neighbours'
    BY <2>1, <2>2 DEF Neighbours
  <2> QED
    BY <1>1, <2>1, <2>3 DEF FInv, Searched
<1> QED
  BY <1>2, <1>3, <1>4, <1>5, <1>6, <1>7, <1>8, <1>9, <1>10, <1>11 DEF Next

(* Initially there is one block. *)
LEMMA FInvInit == Init => FInv
PROOF
<1> SUFFICES ASSUME Init PROVE FInv
  OBVIOUS
<1>1. IInv
  BY HeapAssumption DEF Init, IInv, Typed, CursorOnList, Tiles, BlockEnd,
         NULL, Addresses
<1>2. blocks = {0} /\ next[0] = NULL /\ pc = "idle"
  BY HeapAssumption DEF Init, Addresses
<1> QED
  BY <1>1, <1>2 DEF FInv, Neighbours, Searched

(* A pointer in use is the address after the header of a block in use.     *)
LEMMA InUseFacts ==
  ASSUME IInv, NEW q \in InUse
  PROVE  /\ q - Header \in blocks /\ ~free[q - Header]
         /\ q = (q - Header) + Header /\ q \in Nat
PROOF
<1>1. PICK b \in blocks : ~free[b] /\ q = b + Header
  BY DEF InUse
<1>2. b \in Nat /\ Header \in Nat
  BY BlockFacts
<1>3. q - Header = b
  BY <1>1, <1>2
<1> QED
  BY <1>1, <1>2, <1>3

(* What changes neither the blocks in use nor their sizes is no step of    *)
(* the allocator.                                                          *)
LEMMA NoCall ==
  ASSUME IInv, UNCHANGED <<InUse, reply>>,
         \A a \in blocks : ~free[a] => size'[a] = size[a]
  PROVE  UNCHANGED <<[p \in InUse |-> size[p - Header]], reply>>
PROOF
<1>1. \A q \in InUse : size'[q - Header] = size[q - Header]
  BY InUseFacts
<1> QED
  BY <1>1

(* Handing out a part of a free block that starts it is a Malloc.          *)
LEMMA HandOut ==
  ASSUME IInv, current \in blocks, free[current], NEW n \in Sizes, n = want,
         NEW s \in Nat, want <= s, s <= size[current],
         InUse' = InUse \union {current + Header}, size'[current] = s,
         \A a \in blocks \ {current} : size'[a] = size[a],
         reply' = <<want, current + Header>>
  PROVE  Granted!Malloc(n)
PROOF
<1> DEFINE p == current + Header
           T == [q \in InUse |-> size[q - Header]]
<1>1. /\ current \in Nat /\ size[current] \in Nat /\ Header \in Nat \ {0}
      /\ HeapSize \in Nat /\ current + Header + size[current] <= HeapSize
      /\ want \in Nat
  BY BlockFacts, HeapAssumption
<1>2. /\ p \in 0 .. HeapSize /\ s \in want .. HeapSize /\ p - Header = current
      /\ p - Header >= 0 /\ p + s <= HeapSize
  BY <1>1
<1>3. ASSUME NEW q \in InUse
      PROVE  p + s <= q - Header \/ q + size[q - Header] <= p - Header
  <2>1. PICK b \in blocks : b = q - Header /\ q = b + Header /\ ~free[b]
    BY <1>3, InUseFacts
  <2>2. /\ b \in Nat /\ size[b] \in Nat /\ b # current
        /\ b < current => b + Header + size[b] <= current
        /\ current < b => current + Header + size[current] <= b
    BY <2>1, BlockFacts
  <2> QED
    BY <1>1, <1>2, <2>1, <2>2
<1>4. \A q \in InUse : q # p /\ size'[q - Header] = size[q - Header]
  <2>1. \A q \in InUse : q - Header \in blocks \ {current}
    BY InUseFacts
  <2> QED
    BY <2>1, <1>2
<1>5. T' = [q \in InUse \union {p} |-> IF q = p THEN s ELSE T[q]]
  BY <1>2, <1>4
<1>6. Granted!Room(p, s)
  BY <1>2, <1>3 DEF Granted!Room
<1>7. \E r \in n .. HeapSize :
        /\ Granted!Room(p, r)
        /\ T' = [q \in DOMAIN T \union {p} |-> IF q = p THEN r ELSE T[q]]
  BY <1>2, <1>5, <1>6
<1> QED
  BY <1>2, <1>7 DEF Granted!Malloc

(* The block that a request would lie in, for any address the request may  *)
(* get.                                                                    *)
LEMMA Greatest ==
  ASSUME IInv, NEW h \in Nat
  PROVE  \E a \in blocks : a <= h /\ \A b \in blocks : b <= h => b <= a
PROOF
<1> DEFINE T == {k \in Nat : \E b \in blocks : b <= h /\ k = h - b}
<1>1. 0 \in blocks /\ blocks \subseteq Nat
  BY BlockFacts DEF IInv, Tiles
<1>2. h \in T
  BY <1>1
<1>3. \E m \in T : \A k \in T : m <= k
  <2>1. \E x \in T : \A y \in T : ~(<<y, x>> \in OpToRel(<, Nat))
    <3>1. T \subseteq Nat /\ T # {}
      BY <1>2
    <3> HIDE DEF T
    <3> QED
      BY <3>1, NatLessThanWellFounded, WFMin, Zenon
  <2>2. PICK x \in T : \A y \in T : ~(<<y, x>> \in OpToRel(<, Nat))
    BY <2>1, Zenon
  <2>3. \A y \in T : <<y, x>> \in Nat \X Nat
    OBVIOUS
  <2>4. \A y \in T : ~(y < x)
    BY <2>2, <2>3 DEF OpToRel
  <2> QED
    BY <2>4
<1>4. PICK m \in T : \A k \in T : m <= k
  BY <1>3
<1>5. PICK a \in blocks : a <= h /\ m = h - a
  OBVIOUS
<1>6. ASSUME NEW b \in blocks, b <= h PROVE b <= a
  <2>1. h - b \in T
    BY <1>1, <1>6
  <2>2. h - a <= h - b /\ a \in Nat /\ b \in Nat
    BY <1>1, <1>4, <1>5, <2>1
  <2> QED
    BY <2>2
<1> QED
  BY <1>5, <1>6

(* When the search has passed the whole list no place has room for the     *)
(* request: it would lie in a free block, which is too small, or run into  *)
(* the next one, which is in use.                                          *)
LEMMA NoRoom ==
  ASSUME FInv, pc = "malloc", current = NULL, NEW p \in 0 .. HeapSize,
         Granted!Room(p, want)
  PROVE  FALSE
PROOF
<1>0. IInv /\ Header \in Nat \ {0} /\ HeapSize \in Nat /\ want \in Nat
  BY HeapAssumption DEF FInv, IInv, Typed
<1> DEFINE h == p - Header
<1>1. /\ h \in Nat /\ p + want <= HeapSize /\ p = h + Header
      /\ \A b \in blocks : ~free[b] =>
           p + want <= b \/ b + Header + size[b] <= h
  <2>1. /\ p - Header >= 0 /\ p + want <= HeapSize
        /\ \A q \in InUse : p + want <= q - Header \/ q + size[q - Header] <= p - Header
    BY DEF Granted!Room
  <2>2. ASSUME NEW b \in blocks, ~free[b]
        PROVE  p + want <= b \/ b + Header + size[b] <= h
    <3>1. b \in Nat /\ b + Header \in InUse /\ (b + Header) - Header = b
      BY <1>0, <2>2, BlockFacts DEF InUse
    <3>2. p + want <= (b + Header) - Header
            \/ (b + Header) + size[(b + Header) - Header] <= p - Header
      BY <2>1, <3>1
    <3> QED
      BY <3>1, <3>2
  <2> QED
    BY <1>0, <2>1, <2>2
<1> HIDE DEF h
<1>2. PICK a \in blocks : a <= h /\ \A b \in blocks : b <= h => b <= a
  BY <1>0, <1>1, Greatest
<1>3. /\ a \in Nat /\ size[a] \in Nat
      /\ a + Header + size[a] <= HeapSize
      /\ next[a] = IF a + Header + size[a] = HeapSize THEN NULL ELSE a + Header + size[a]
      /\ next[a] # NULL => next[a] \in blocks
  BY <1>0, BlockFacts
<1>4. h < a + Header + size[a]
  <2>1. CASE a + Header + size[a] = HeapSize
    BY <1>0, <1>1, <2>1
  <2>2. CASE a + Header + size[a] # HeapSize
    <3>1. next[a] \in blocks /\ next[a] = a + Header + size[a]
      BY <1>0, <1>3, <2>2 DEF NULL
    <3>2. ~(next[a] <= a) /\ next[a] \in Nat
      BY <1>0, <1>3, <3>1
    <3> QED
      BY <1>1, <1>2, <3>1, <3>2
  <2> QED
    BY <2>1, <2>2
<1>5. free[a]
  <2>1. ~(p + want <= a)
    BY <1>0, <1>1, <1>2, <1>3
  <2>2. ~(a + Header + size[a] <= h)
    BY <1>0, <1>1, <1>3, <1>4
  <2> QED
    BY <1>1, <2>1, <2>2
<1>6. size[a] < want
  <2>1. ~(size[a] >= want)
    BY <1>5 DEF FInv, Searched
  <2> QED
    BY <2>1, <1>0, <1>3
<1>7. a + Header + size[a] < p + want
  BY <1>0, <1>1, <1>2, <1>3, <1>6
<1>8. next[a] \in blocks /\ next[a] = a + Header + size[a]
  BY <1>0, <1>1, <1>3, <1>7 DEF NULL
<1>9. ~free[next[a]]
  <2>1. next[a] # NULL
    BY <1>0, <1>3, <1>8 DEF NULL
  <2> QED
    BY <1>5, <2>1 DEF FInv, Neighbours
<1>10. /\ ~(p + want <= next[a])
       /\ ~(next[a] + Header + size[next[a]] <= h)
  <2>1. next[a] \in Nat /\ size[next[a]] \in Nat
    BY <1>0, <1>8, BlockFacts
  <2> QED
    BY <1>0, <1>1, <1>4, <1>7, <1>8, <2>1
<1> QED
  BY <1>1, <1>8, <1>9, <1>10

(* The tiling holds in every behaviour of the heap. *)
THEOREM TilesAlways == Spec => []Tiles
PROOF
<1>1. Init => IInv
  BY HeapAssumption DEF Init, IInv, Typed, CursorOnList, Tiles, BlockEnd,
         NULL, Addresses
<1>2. IInv /\ [Next]_vars => IInv'
  BY TilesStep
<1>3. IInv => Tiles
  BY DEF IInv
<1> QED
  BY <1>1, <1>2, <1>3, PTL DEF Spec

(* Two blocks in use never share a byte, headers included. *)
THEOREM NoOverlap ==
  Spec => [](\A p, q \in InUse : p < q => p + size[p - Header] <= q - Header)
PROOF
<1>1. IInv => \A p, q \in InUse : p < q => p + size[p - Header] <= q - Header
  <2> SUFFICES ASSUME IInv, NEW a \in blocks, NEW b \in blocks,
                      a + Header < b + Header
               PROVE  (a + Header) + size[(a + Header) - Header]
                        <= (b + Header) - Header
    BY DEF InUse
  <2>1. /\ a \in Nat /\ b \in Nat /\ Header \in Nat /\ size[a] \in Nat
        /\ (a < b => a + Header + size[a] <= b)
    BY BlockFacts
  <2>2. (a + Header) - Header = a /\ (b + Header) - Header = b /\ a < b
    BY <2>1
  <2> QED
    BY <2>1, <2>2
<1>2. Init => IInv
  BY HeapAssumption DEF Init, IInv, Typed, CursorOnList, Tiles, BlockEnd,
         NULL, Addresses
<1>3. IInv /\ [Next]_vars => IInv'
  BY TilesStep
<1> QED
  BY <1>1, <1>2, <1>3, PTL DEF Spec

(* Every step of the heap is one of the allocator or none.                 *)
LEMMA PromiseStep ==
  ASSUME FInv, [Next]_vars
  PROVE  [Granted!Next]_<<[p \in InUse |-> size[p - Header]], reply>>
PROOF
<1> DEFINE T == [p \in InUse |-> size[p - Header]]
<1>0. IInv /\ current \in blocks \union {NULL}
  BY DEF FInv, IInv, CursorOnList
<1>1. ASSUME UNCHANGED <<InUse, reply>>,
             \A a \in blocks : ~free[a] => size'[a] = size[a]
      PROVE  UNCHANGED <<T, reply>>
  BY <1>0, <1>1, NoCall
<1>2. CASE UNCHANGED <<blocks, size, free, reply>>
  BY <1>1, <1>2 DEF InUse
<1>3. CASE Split
  <2> DEFINE new == current + Header + want
  <2>1. /\ pc = "malloc" /\ current \in blocks /\ free[current]
        /\ want \in Sizes /\ want \in Nat /\ size[current] > want + Header
    BY <1>0, <1>3 DEF Split, Fits, FInv, IInv, Typed, Searched
  <2>2. /\ blocks' = blocks \union {new}
        /\ size' = [size EXCEPT ![new] = size[current] - want - Header,
                                ![current] = want]
        /\ free' = [free EXCEPT ![new] = TRUE, ![current] = FALSE]
        /\ reply' = <<want, current + Header>>
    BY <1>3 DEF Split, Return
  <2>3. /\ current \in Nat /\ size[current] \in Nat /\ Header \in Nat \ {0}
        /\ HeapSize \in Nat /\ current + Header + size[current] <= HeapSize
        /\ \A b \in blocks : current < b => current + Header + size[current] <= b
        /\ current \in Addresses
    BY <1>0, <2>1, BlockFacts
  <2>4. /\ new \in Addresses /\ new # current /\ new \notin blocks
        /\ want <= size[current]
    BY <2>1, <2>3 DEF Addresses
  <2> HIDE DEF new
  <2>5. /\ size'[current] = want /\ ~free'[current] /\ free'[new]
        /\ \A a \in blocks \ {current} : size'[a] = size[a] /\ free'[a] = free[a]
    BY <1>0, <2>2, <2>3, <2>4 DEF IInv, Typed
  <2>6. InUse' = InUse \union {current + Header}
    <3>1. {b \in blocks' : ~free'[b]} = {b \in blocks : ~free[b]} \union {current}
      BY <2>1, <2>2, <2>4, <2>5
    <3> QED
      BY <3>1 DEF InUse
  <2>7. want <= want
    BY <2>1
  <2>8. PICK n \in Sizes : n = want
    BY <2>1
  <2>9. Granted!Malloc(n)
    BY <1>0, <2>1, <2>2, <2>4, <2>5, <2>6, <2>7, <2>8, HandOut
  <2>10. Granted!Next
    BY <2>9 DEF Granted!Next
  <2> QED
    BY <2>10
<1>4. CASE TakeWhole
  <2>1. /\ pc = "malloc" /\ current \in blocks /\ free[current]
        /\ want \in Sizes /\ size[current] >= want /\ want \in Nat
        /\ free' = [free EXCEPT ![current] = FALSE]
        /\ reply' = <<want, current + Header>>
        /\ UNCHANGED <<blocks, size>>
    BY <1>0, <1>4 DEF TakeWhole, Fits, Return, FInv, IInv, Typed, Searched
  <2>2. size[current] \in Nat /\ current \in Addresses /\ blocks \subseteq Addresses
    BY <1>0, <2>1, BlockFacts DEF IInv, Typed
  <2>3. ~free'[current] /\ \A a \in blocks \ {current} : free'[a] = free[a]
    BY <1>0, <2>1, <2>2 DEF IInv, Typed
  <2>4. InUse' = InUse \union {current + Header}
    BY <2>1, <2>3 DEF InUse
  <2>5. want <= size[current] /\ size[current] <= size[current]
    BY <2>1, <2>2
  <2>6. PICK n \in Sizes : n = want
    BY <2>1
  <2>7. Granted!Malloc(n)
    BY <1>0, <2>1, <2>2, <2>4, <2>5, <2>6, HandOut
  <2>8. Granted!Next
    BY <2>7 DEF Granted!Next
  <2> QED
    BY <2>8
<1>5. CASE OutOfMemory
  <2>1. /\ pc = "malloc" /\ current = NULL /\ want \in Sizes
        /\ reply' = <<want, NULL>> /\ UNCHANGED <<blocks, size, free>>
    BY <1>5 DEF OutOfMemory, Return, fields, FInv, Searched
  <2>2. \A p \in 0 .. HeapSize : ~Granted!Room(p, want)
    BY <2>1, NoRoom
  <2>3. UNCHANGED T
    BY <2>1 DEF InUse
  <2>4. Granted!Refuse(want)
    BY <2>1, <2>2, <2>3 DEF Granted!Refuse, Granted!NoPointer, NULL
  <2> QED
    BY <2>1, <2>4 DEF Granted!Next
<1>6. ASSUME NEW p \in InUse, CallFree(p) PROVE Granted!Free(p)
  <2> DEFINE b == p - Header
  <2>1. b \in blocks /\ ~free[b] /\ p = b + Header /\ b \in Addresses
    BY <1>0, InUseFacts, BlockFacts
  <2>2. free' = [free EXCEPT ![b] = TRUE] /\ UNCHANGED <<blocks, size, reply>>
    BY <1>6 DEF CallFree
  <2> HIDE DEF b
  <2>3. free'[b] /\ \A a \in blocks \ {b} : free'[a] = free[a]
    BY <1>0, <2>1, <2>2 DEF IInv, Typed
  <2>4. \A a \in blocks : a \in Nat /\ b \in Nat /\ Header \in Nat
    BY <1>0, <2>1, BlockFacts
  <2>5. \A a \in blocks : a # b => a + Header # p
    BY <2>1, <2>4
  <2>6. InUse' = InUse \ {p}
    BY <2>1, <2>2, <2>3, <2>5 DEF InUse
  <2>7. T' = [q \in InUse \ {p} |-> T[q]]
    BY <2>2, <2>6
  <2> QED
    BY <2>2, <2>7 DEF Granted!Free
<1>7. CASE Merge
  <2> DEFINE n == next[current]
  <2>1. /\ current \in blocks /\ n \in blocks /\ free[current] /\ free[n]
        /\ n \in Addresses /\ current \in Addresses
    BY <1>0, <1>7, BlockFacts DEF Merge
  <2>2. /\ blocks' = blocks \ {n}
        /\ size' = [size EXCEPT ![current] = @ + size[n] + Header, ![n] = 0]
        /\ free' = [free EXCEPT ![n] = FALSE] /\ reply' = reply
    BY <1>7 DEF Merge
  <2> HIDE DEF n
  <2>3. /\ \A a \in blocks \ {n} : free'[a] = free[a]
        /\ \A a \in blocks : ~free[a] => size'[a] = size[a]
    BY <1>0, <2>1, <2>2 DEF IInv, Typed
  <2>4. InUse' = InUse
    BY <2>1, <2>2, <2>3 DEF InUse
  <2> QED
    BY <1>1, <2>2, <2>3, <2>4
<1>8. CASE UNCHANGED vars
  BY <1>2, <1>8 DEF vars, fields
<1>9. ASSUME NEW n \in Sizes, CallMalloc(n) PROVE UNCHANGED <<T, reply>>
  BY <1>9 DEF CallMalloc, fields, InUse
<1>10. CASE TryNextBlock \/ MergeMovesOn \/ MergeEnds
  BY <1>2, <1>10 DEF TryNextBlock, MergeMovesOn, MergeEnds, fields
<1>11. ASSUME NEW p \in InUse, CallFree(p) PROVE Granted!Next
  BY <1>6, <1>11 DEF Granted!Next
<1> QED
  BY <1>3, <1>4, <1>5, <1>7, <1>8, <1>9, <1>10, <1>11 DEF Next

(* ImplementsAllocator: the ranges in use never overlap, headers included, *)
(* free gives back exactly the one range it names, and myMalloc answers    *)
(* NULL only when no gap between the ranges in use, wherever the list has  *)
(* put its boundaries, could hold the request and a header.                *)
THEOREM Refinement == Spec => ImplementsAllocator
PROOF
<1>1. Init => Granted!Init
  <2> SUFFICES ASSUME Init PROVE Granted!Init
    OBVIOUS
  <2>0. 0 \in Addresses
    BY HeapAssumption DEF Addresses
  <2>1. blocks = {0} /\ free[0]
    BY <2>0 DEF Init
  <2>2. InUse = {}
    BY <2>1 DEF InUse
  <2>3. reply = <<0, NULL>>
    BY DEF Init
  <2> QED
    BY <2>2, <2>3 DEF Granted!Init, Granted!NoPointer, NULL
<1>2. FInv /\ [Next]_vars => FInv'
  BY FInvStep
<1>3. FInv /\ [Next]_vars
        => [Granted!Next]_<<[p \in InUse |-> size[p - Header]], reply>>
  BY PromiseStep
<1> QED
  BY <1>1, <1>2, <1>3, FInvInit, PTL DEF Spec, ImplementsAllocator, Granted!Spec
=============================================================================
