\* An incomplete output is returned as a success.
CONSTANTS
  MaxOutput = 1
  MaxOther = 0
  Cuts = {}
SPECIFICATION Spec
INVARIANT OkIsComplete
