\* A deliberate disconnect on a sound link can be reported as Died.
CONSTANTS
  t1 = t1
  t2 = t2
  Threads <- OneThread
  Hops = 1
  KeepAlive = FALSE
  Window = 1
  MaxMessages = 1
SPECIFICATION Spec
INVARIANT DiedMeansLinkLost
