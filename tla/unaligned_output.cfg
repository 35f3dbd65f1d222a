CONSTANTS
  hash_threads = 1
  sort_threads = 3
  write_threads = 2
  max_records = 12
  total_hash_count = 12
  Hash <- MCHash
  Faults = {}
  MaxRuns = 1
  RemovesOutput = TRUE
  OtherRuns = {}
SPECIFICATION Spec
INVARIANTS
  OutputSorted
