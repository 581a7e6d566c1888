SPECIFICATION Spec
CONSTANTS
  Handlers = {h1, h2, h3}
  URLs = {u1, u2}
  None = None
  MaxThreads = 2
  MaxRedirects = 2
  MaxChunks = 1
  Replies = {"ok", "other", "redirect", "none"}
  Failures = {"connect", "request", "client", "spawn", "badRequest"}
SYMMETRY BothSymmetry
INVARIANTS UniqueKeys SemBalanced NoLostBroadcast StreamedWhole WholeUnlessFailed FreedOnlyUncacheable
