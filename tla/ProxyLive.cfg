SPECIFICATION FairSpec
CONSTANTS
  Handlers = {h1, h2, h3}
  URLs = {u1}
  None = None
  MaxThreads = 3
  MaxRedirects = 1
  MaxChunks = 1
  Replies = {"ok", "other", "redirect", "none"}
  Failures = {"connect", "request", "client"}
PROPERTY SleeperWakes
