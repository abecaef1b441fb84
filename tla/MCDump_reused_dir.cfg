SPECIFICATION Spec
CONSTANTS
  Ctrls <- OneCtrl
  Pages <- MCPages
  MaxRuns = 2
  MaxFaults = 0
INVARIANTS
  PresentOnlyIfSupported
