--------------------------- MODULE HashgenGlobals ---------------------------
(***************************************************************************)
(* What the phases of hashgen.c share: the options and sizes main computes *)
(* once (hashgen.c:47-53, 504-508), main's own control, and the bucket     *)
(* files in the working directory, through which the generating phase      *)
(* hands its records to the external sort.                                 *)
(*                                                                         *)
(* A record is its nonce: the bytes after it are the BLAKE3 hash of that   *)
(* nonce, here Hash[nonce], a number that compares as memcmp compares the  *)
(* 10 bytes.  Two nonces may have one hash.                                *)
(***************************************************************************)
EXTENDS Integers, Sequences, FiniteSets

CONSTANTS
  hash_threads,       \* option -t
  sort_threads,       \* option -o
  write_threads,      \* option -i
  max_records,        \* (max_mem * 1048576) / 16, option -m
  total_hash_count,   \* file_size_bytes / 16, option -s
  Hash,               \* the BLAKE3 hash of every nonce
  Faults              \* which library calls may fail in this instance

Nonce == 0 .. (total_hash_count - 1)

(* max_records is 65536 times the positive option -m, so it is even.       *)
ASSUME ConfigAssumption ==
  /\ hash_threads \in Nat \ {0}
  /\ sort_threads \in Nat \ {0}
  /\ write_threads \in Nat \ {0}
  /\ max_records \in Nat \ {0} /\ max_records % 2 = 0
  /\ total_hash_count \in Nat

ASSUME HashAssumption == Hash \in [Nonce -> Nat]

(* "malloc": an allocation returns NULL; "open": fopen returns NULL;       *)
(* "short": fwrite stores fewer records than asked.  hashgen.c looks at    *)
(* the result of the first two in some places and of the last in none.     *)
ASSUME FaultsAssumption == Faults \subseteq {"malloc", "open", "short"}

(* for (int j = 0; j < iterations; j++): the remainder is not generated.   *)
iterations == total_hash_count \div max_records

(* compare: sorted as qsort and the merge order records, by hash alone.    *)
SortedByHash(s) == \A m, n \in DOMAIN s : m < n => Hash[s[m]] <= Hash[s[n]]

VARIABLES
  pc,         \* where main is: the name of a phase
  spawned,    \* pthread_create calls made in this phase
  joined,     \* pthread_join calls that returned in this phase
  bucket,     \* bucket_<n>.bin: the existing files and their records
  no_files    \* how many buckets main believes it has written

shared == <<pc, spawned, joined, bucket, no_files>>

(* Variant: a bucket that exists is opened with "ab".                      *)
BucketsWith_Append(b, recs) ==
  [c \in DOMAIN bucket \cup {b} |->
     IF c # b THEN bucket[c]
     ELSE IF b \in DOMAIN bucket THEN bucket[b] \o recs ELSE recs]

(* fopen(.., "wb") followed by a write: bucket b now holds recs.           *)
BucketsWith(b, recs) ==
  [c \in DOMAIN bucket \cup {b} |-> IF c = b THEN recs ELSE bucket[c]]

=============================================================================
