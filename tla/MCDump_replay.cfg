SPECIFICATION Spec
CONSTANTS
  Ctrls <- MCCtrls
  Pages <- MCPages
  MaxRuns = 2
  MaxFaults = 1
INVARIANTS
  ReplayAnswersLikeDrive
PROPERTIES
  ImplementsArchive
