SPECIFICATION Spec
CONSTANTS
  Ctrls = {h1}
  Hung = {h1}
  NumCPU = 2
  Commands = 1
  Latency = 2
  Headers <- MCHeaders
  MaxScrape = 5
  DeviceTimeout = 4
  MaxWord = 3
  KernelDefault = 12
INVARIANTS
  CutReadIsATimeout
