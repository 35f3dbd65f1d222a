CONSTANTS
  Hash <- MCHash
  PartOf <- MCPartOf
  Values <- MCValues
  Parts = {0, 1}
  RecordBytes = 2
  BufferBytes = 4
  SplitBytes = 6
  MaxAttempts = 2
  MaxFaults = 2
  total_hash_count = 1
SPECIFICATION Spec
INVARIANTS
  InStep
  OutputComplete
  MeasuresValue
PROPERTIES
  Ends
