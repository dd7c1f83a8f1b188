\* Two threads request and cancel while channels arrive and prompts come up.
CONSTANTS
  t1 = t1
  t2 = t2
  Threads <- TwoThreads
  Ports <- OnePort
  MaxAsks = 3
  MaxConns = 2
  MaxPrompts = 2
SPECIFICATION FairSpec
INVARIANT TypeOK
INVARIANT OneAnswerPerCall
PROPERTY AcceptedReachesSink
PROPERTY CallReturns
PROPERTY DispatcherEnds
PROPERTY Delivered
