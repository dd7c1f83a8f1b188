\* Two threads that write, half-close and disconnect, and a reader.
CONSTANTS
  w1 = w1
  w2 = w2
  Threads <- Bridge
  Window = 1
  MaxUp = 2
  MaxEofs = 1
  MaxDown = 2
  MaxEnds = 1
SPECIFICATION FairSpec
INVARIANT TypeOK
INVARIANT UpEndsInOrder
PROPERTY FinReachesReader
PROPERTY Delivered
