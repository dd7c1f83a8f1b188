\* Two prompts of other dials hold both workers, and a call waits for a user.
CONSTANTS
  t1 = t1
  t2 = t2
  Threads <- OneThread
  Ports <- OnePort
  MaxAsks = 1
  MaxConns = 0
  MaxPrompts = 2
SPECIFICATION PatientSpec
PROPERTY PromptBlocksNobody
