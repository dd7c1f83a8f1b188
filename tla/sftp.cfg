\* An upload of four units, resumed over faults, with a save and a download.
CONSTANTS
  Size = 4
  MaxWrite = 2
  MaxRead = 2
  NoteSize = 2
  Leftover = 5
  MaxFaults = 4
SPECIFICATION FairSpec
INVARIANT TypeOK
INVARIANT WriteKeepsItsHandle
INVARIANT SavedWhole
INVARIANT LoadedWhole
PROPERTY Promised
PROPERTY UploadEnds
