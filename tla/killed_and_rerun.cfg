CONSTANTS
  hash_threads = 2
  sort_threads = 2
  write_threads = 1
  max_records = 8
  total_hash_count = 16
  Hash <- MCHash
  Faults = {}
  MaxRuns = 3
  RemovesOutput = TRUE
  OtherRuns <- MCOtherRuns
SPECIFICATION Spec
INVARIANTS
  CompletedOutput
  NoBucketLeft
  OnDisk
  EndsWell
PROPERTIES
  DeletesOnlyMerged
  WritesSortedFile
