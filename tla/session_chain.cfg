\* A chain of three connections: link loss, and teardown over silent links.
CONSTANTS
  t1 = t1
  t2 = t2
  Threads <- OneThread
  Hops = 3
  KeepAlive = TRUE
  Window = 1
  MaxMessages = 0
SPECIFICATION FairSpec
INVARIANT NoSilentKill
INVARIANT ClosedLeavesNothing
INVARIANT DiedIsExplained
PROPERTY TornDown
PROPERTY SilentLinkReported
