SPECIFICATION FairSpec
CONSTANTS
  a = a
  b = b
  X = X
  Chars <- MCChars
  Placeholder = X
  Blank = b
  Raws <- MCRaws
  Serials <- MCSerials
  minSerialScanLength = 2
  SerialField <- MCSerialField
  SubnqnField <- MCSubnqnField
INVARIANTS
  TypeOK
  NoSerialLeft
  OnlySerialTouched
PROPERTIES
  ScanEnds
