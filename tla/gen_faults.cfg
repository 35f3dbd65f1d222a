CONSTANTS
  hash_threads = 4
  sort_threads = 2
  write_threads = 3
  max_records = 6
  total_hash_count = 12
  Hash <- MCHash
  Faults = {"malloc", "open", "short"}
SPECIFICATION Spec
INVARIANTS
  MemorySafe
  BucketsSorted
PROPERTIES
  BucketsFinal
