CONSTANTS
  hash_threads = 5
  sort_threads = 6
  write_threads = 2
  max_records = 12
  total_hash_count = 25
  Hash <- MCHash
  Faults = {}
SPECIFICATION Spec
INVARIANTS
  TypeOK
  RaceFree
  FilledBeforeSort
  StoredOnce
  Numbered
PROPERTIES
  LeavesLoop
