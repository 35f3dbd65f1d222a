----------------------------- MODULE BucketFiles -----------------------------
(***************************************************************************)
(* What the two programs of hw4, new.c and external_sort.c, have in        *)
(* common: the record with its hash, the shape of their main, which        *)
(* creates threads and joins them, and the directory they run in, with the *)
(* bucket files, the only thing one hands to the other.                    *)
(***************************************************************************)
EXTENDS Integers, Sequences, FiniteSets

CONSTANT Hash       \* the BLAKE3 hash of every nonce

VARIABLES
  pc,               \* where main is
  spawned, joined,  \* how far main is in creating and joining threads
  bucket,           \* bucket_<n>.bin: the existing files and their records
  options,          \* the thread counts of new.c; the calls that may fail
  found             \* what was in the directory before: .bucket and .output

(* The map f after x was set to v: one more thread, or a file as fopen and *)
(* fwrite leave it.                                                        *)
With(f, x, v) == [y \in DOMAIN f \cup {x} |-> IF y = x THEN v ELSE f[y]]

(* compare, and the memcmp of the merge *)
SortedByHash(s) == \A m, n \in DOMAIN s : m < n => Hash[s[m]] <= Hash[s[n]]

=============================================================================
