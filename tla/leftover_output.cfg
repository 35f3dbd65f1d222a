CONSTANTS
  Hash <- MCHash
  Options <- MCEven
  Leftovers <- MCLeftovers
  max_records = 4
  total_hash_count = 8
  merge_records = 8
  load_threads = 4
SPECIFICATION Spec
INVARIANTS
  OneSortedFile
