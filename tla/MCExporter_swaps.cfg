SPECIFICATION Spec
CONSTANTS
  d1 = d1
  d2 = d2
  d3 = d3
  Names = {n1, n2}
  Drives = {d1, d3}
  NoDrive = NoDrive
  Scrapes = {s1, s2}
  NumCPU = 1
  PageOrder <- OneVendor
  Verdict <- MCVerdict
  ELPE <- MCELPE
  Faults = {"ioctl"}
  MaxFaults = 1
  MaxSwaps = 2
  MidScrapeSwaps = TRUE
SYMMETRY ScrapeSymmetry
INVARIANTS
  UnsupportedIsTruthful
  ReaskNeedsOverlap
