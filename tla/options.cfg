CONSTANTS
  CommandLines <- MCCommandLines
  FileSizes <- MCFileSizes
  RecordSize = 4
  MemUnit = 16
  FileUnit = 64
  SmallSize = 2
  SmallCount = 16
  BigCount = 64
  IntLimit = 128
  UllModulus = 16384
  Garbage <- MCGarbage
SPECIFICATION Spec
INVARIANTS
  StartsAsAsked
  MemoryKept
  LastMode
  WholeRequest
