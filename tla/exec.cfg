\* A command with up to three chunks of output and two messages to pass over.
CONSTANTS
  MaxOutput = 3
  MaxOther = 2
  Cuts <- FirstChunk
SPECIFICATION FairSpec
INVARIANT TypeOK
INVARIANT CloseMeansComplete
PROPERTY ExecReturns
PROPERTY Delivered
