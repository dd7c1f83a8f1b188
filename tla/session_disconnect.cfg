\* A disconnect can wait for ever behind a call or a write.
CONSTANTS
  t1 = t1
  t2 = t2
  Threads <- TwoThreads
  Hops = 1
  KeepAlive = TRUE
  Window = 1
  MaxMessages = 0
SPECIFICATION FairCallersSpec
PROPERTY DisconnectReturns
