SPECIFICATION Spec
CONSTANTS
  d1 = d1
  d2 = d2
  d3 = d3
  Names = {n1}
  Drives = {d1, d2}
  NoDrive = NoDrive
  Scrapes = {s1, s2}
  NumCPU = 2
  PageOrder <- AllPages
  Verdict <- MCVerdict
  ELPE <- MCELPE
  Faults = {"open", "ioctl", "short"}
  MaxFaults = 2
  MaxSwaps = 1
  MidScrapeSwaps = FALSE
SYMMETRY ScrapeSymmetry
INVARIANTS
  TypeOK
  GaugeAccountsForPage
  SuccessTellsFailure
  SupportedGaugeTruthful
  ReadSizeIsOwn
