SPECIFICATION Spec
CONSTANTS
  Word = 262144
  Base = 3
  LogSizes = {2, 9}
  RunSlots = 2
  Refusals <- MCRefusals
  Errors <- MCErrors
  Outcomes <- MCOutcomes
  Warnings <- MCWarnings
  Pasts <- MCPasts
  Fields <- MCFields
  MaxEvents = 2
  MaxPolls = 2
INVARIANTS
  SaturatedIsTold
