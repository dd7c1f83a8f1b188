\* Every digest and blob of MCKnownHosts, one call each.
CONSTANTS
  Digests <- SomeDigests
  Blobs <- SomeBlobs
  Families <- KeyFamilies
SPECIFICATION Spec
INVARIANT TypeOK
INVARIANT EncodingDecodes
INVARIANT FingerprintUnpadded
INVARIANT PlausibleIsNamed
