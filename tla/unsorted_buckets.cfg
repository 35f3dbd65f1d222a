CONSTANTS
  Hash <- MCHash
  Options <- MCStraddling
  Leftovers <- MCEmptyDirectory
  max_records = 6
  total_hash_count = 6
  merge_records = 12
  load_threads = 4
SPECIFICATION Spec
INVARIANTS
  IndividuallySorted
