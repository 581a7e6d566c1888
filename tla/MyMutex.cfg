SPECIFICATION FairSpec
CONSTANTS
  Threads = {t1, t2, t3}
  NoOwner = NoOwner
  MaxDepth = 2
INVARIANTS OwnerRecordsHolder SelfDeadlockDetected NoLostWakeup
PROPERTIES ImplementsLock HandOff
