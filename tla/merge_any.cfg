CONSTANTS
  hash_threads = 1
  sort_threads = 1
  write_threads = 2
  max_records = 8
  total_hash_count = 6
  Hash <- MCHash
  Faults = {}
  FileCounts = {0, 1, 2, 3, 4}
SPECIFICATION Spec
INVARIANTS
  MergedExactly
  MemoryBudget
  Defined
PROPERTIES
  Sorts
