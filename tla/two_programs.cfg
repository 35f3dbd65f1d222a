CONSTANTS
  Hash <- MCHash
  Options <- MCOptions
  Leftovers <- MCLeftovers
  max_records = 4
  total_hash_count = 8
  merge_records = 8
  load_threads = 4
SPECIFICATION Spec
INVARIANTS
  RaceFree
  BucketsSortedIfNested
  HandedOver
  CopiesWholeChunks
  AllRecords
  Defined
PROPERTIES
  Finishes
