SPECIFICATION FairSpec
CONSTANTS
  Readers = {r1}
  Writers = {w1, w2}
  Cells = {c1, c2, c3}
  NULL = NULL
  MaxCount = 1
  MaxSpurious = 2
  MaxVal = 3
INVARIANT NoMissedSignal
PROPERTIES ImplementsFifo AllDelivered
