CONSTANTS
  hash_threads = 1
  sort_threads = 1
  write_threads = 2
  max_records = 8
  total_hash_count = 4
  Hash <- MCHash
  Faults = {"malloc", "open", "short"}
  FileCounts = {2, 3, 5}
SPECIFICATION Spec
INVARIANTS
  TypeOK
  MergeOrder
  NoDuplicates
PROPERTIES
  Ends
