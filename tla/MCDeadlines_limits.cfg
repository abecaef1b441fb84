SPECIFICATION FairSpec
CONSTANTS
  Ctrls = {h1, h2, w1, w2}
  Hung = {h1, h2}
  NumCPU = 2
  Commands = 2
  Latency = 3
  Headers <- MCHeaders
  MaxScrape = 5
  DeviceTimeout = 4
  MaxWord = 3
  KernelDefault = 12
INVARIANTS
  TypeOK
  LimitInRange
  PollBounded
  ScrapeBounded
  HungDoesNotSpread
PROPERTIES
  EveryPollEnds
