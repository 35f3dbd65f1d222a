CONSTANTS
  hash_threads = 1
  sort_threads = 2
  write_threads = 2
  max_records = 4
  total_hash_count = 4
  Hash <- MCHash
  Faults = {"malloc", "open", "short"}
  MaxRuns = 2
  RemovesOutput = TRUE
  OtherRuns = {}
SPECIFICATION Spec
INVARIANTS
  SortedWhateverFails
PROPERTIES
  EveryRunEnds
