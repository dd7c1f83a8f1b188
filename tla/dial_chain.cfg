\* Two jump hops and the target; the middle hop authenticates with a key.
CONSTANTS
  k1 = k1
  k2 = k2
  k3 = k3
  rogue = rogue
  NoKey = NoKey
  Hops = 3
  Keys <- AllKeys
  Trusted <- OwnKeys
  KeyAuth <- SecondHop
SPECIFICATION FairSpec
INVARIANT TypeOK
INVARIANT SecretsToTrustedPeers
INVARIANT HoldsItsChain
INVARIANT HopsInTurn
INVARIANT BlamesTheHopInHand
PROPERTY FailureLeavesNothing
