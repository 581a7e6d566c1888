SPECIFICATION FairSpec
CONSTANTS
  CloneThreads = {c1, c2}
  NoThread = NoThread
  UserThreads = {u1, u2, u3}
  Main = Main
  Naps = 2
  SpinThreads = {s1, s2, s3, s4}
  Readers = {r}
  Writers = {w}
  Cells = {n1, n2, n3}
  NULL = NULL
  MaxCount = 2
  MaxVal = 4
INVARIANTS StackOutlivesRoutine JoinReturnsResult ThreadsIntact AssertsHold
PROPERTIES Reclaimed SleepsWhole AllFinish ImplementsLock
CHECK_DEADLOCK FALSE
