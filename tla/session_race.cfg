\* Two caller threads racing on one session; a direct dial.
CONSTANTS
  t1 = t1
  t2 = t2
  Threads <- TwoThreads
  Hops = 1
  KeepAlive = FALSE
  Window = 2
  MaxMessages = 2
SPECIFICATION Spec
INVARIANT TypeOK
INVARIANT CallsOwnTheirHandle
INVARIANT NoHalfClosed
PROPERTY ShellEndsInOrder
PROPERTY Promised
