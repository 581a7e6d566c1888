SPECIFICATION FairSpec
CONSTANTS
  HeapSize = 10
  Header = 2
  Sizes = {0, 1, 2, 4, 9}
  BufSize = 2
  MaxCalls = 3
  MaxSignals = 2
  Clients = {c1, c2}
  Window = 1
  None = None
  SelectMaxSend = 3
  MAX = 1
  ReadSize = 2
  SendSize = 2
  MaxSend = 2
  BUFFER_SIZE = 2
INVARIANTS Tiles CopyIsMirror LinesMatch DescriptorsKept EchoedWhole NoZombieForgotten
PROPERTIES ImplementsAllocator ImplementsEcho Echoed
CHECK_DEADLOCK FALSE
