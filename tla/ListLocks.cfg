SPECIFICATION FairSpec
CONSTANTS
  Counters = {c1, c2}
  Swappers = {s1, s2}
  Lengths = {0, 1, 3}
  NULL = NULL
  Programs = {"mutex", "rwlock", "spin"}
INVARIANTS ListIntact RecheckHolds EachNodeOnce
PROPERTY Terminates
