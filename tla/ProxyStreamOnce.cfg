SPECIFICATION Spec
CONSTANTS
  Handlers = {h1, h2}
  URLs = {u1}
  None = None
  MaxThreads = 2
  MaxRedirects = 1
  MaxChunks = 1
  Replies = {"ok"}
  Failures = {}
INVARIANT StreamedOnce
