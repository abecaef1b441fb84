SPECIFICATION Spec
CONSTANTS
  d1 = d1
  d2 = d2
  d3 = d3
  Names = {n1}
  Drives = {d1}
  NoDrive = NoDrive
  Scrapes = {s1, s2, s3}
  NumCPU = 2
  PageOrder <- OneError
  Verdict <- MCVerdict
  ELPE <- MCELPE
  Faults = {"ioctl", "capability", "sysfs"}
  MaxFaults = 2
  MaxSwaps = 0
  MidScrapeSwaps = FALSE
SYMMETRY ScrapeSymmetry
INVARIANTS
  ExposedCoversFailures
  CountersMonotoneForScraper
  LogBudget
  RecurrenceIsLogged
PROPERTIES
  ImplementsLedger
