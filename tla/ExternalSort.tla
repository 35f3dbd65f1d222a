---------------------------- MODULE ExternalSort ----------------------------
(***************************************************************************)
(* ExternalSort of hashgen.c (lines 187-339): the buckets are loaded chunk *)
(* by chunk, by short-lived threads, and merged into the output file.      *)
(*                                                                         *)
(* A chunk in memory is not stored a second time: the buckets do not       *)
(* change while they are merged, so records[f] is always the part of       *)
(* bucket f that the last fread returned, the records_per_read records     *)
(* before position read[f].                                                *)
(***************************************************************************)
EXTENDS HashgenGlobals

CONSTANT FileCounts     \* how many buckets the merge may be started with

ASSUME FileCountsAssumption == FileCounts \subseteq Nat

VARIABLES
  batch,      \* j, the loop over batches of loader threads
  loader,     \* the loader thread of every bucket
  inputs,     \* inputs[f]: "uninit", "null" or "open"
  records,    \* records[f]: "uninit", "null" or "live"
  read,       \* how many records of bucket f have been read
  idx,        \* the next record of the chunk of bucket f
  sorted,     \* the output buffer
  out_open,   \* whether output is a stream or NULL
  output      \* the records in the output file

own == <<batch, loader, inputs, records, read, idx, sorted, out_open, output>>
vars == <<shared, own>>

divider == max_records \div 2

(* Variant: the memory is shared only among the buckets loaded at once.    *)
records_per_read_Batch == divider \div write_threads

records_per_read == divider \div no_files

Files == 0 .. (no_files - 1)

(* The two branches at line 247: fewer buckets than write threads are      *)
(* loaded at once, otherwise write_threads at a time, as often as they fit.*)
batch_size == IF no_files < write_threads THEN no_files ELSE write_threads
loops == IF no_files < write_threads THEN 1 ELSE no_files \div write_threads

-----------------------------------------------------------------------------
(* Seen on its own, the merge starts from any distribution of the records  *)
(* over sorted buckets; no file has been written before.                   *)

Before(a, b) == Hash[a] < Hash[b] \/ (Hash[a] = Hash[b] /\ a < b)

InHashOrder(S) ==
  [m \in 1 .. Cardinality(S) |->
     CHOOSE r \in S : Cardinality({q \in S : Before(q, r)}) = m - 1]

StartWith(n) ==
  /\ pc = "ExternalSort" /\ spawned = 0 /\ joined = 0 /\ no_files = n
  /\ \E home \in [Nonce -> Files] :
       bucket = [f \in Files |-> InHashOrder({r \in Nonce : home[r] = f})]

InitOwn ==
  /\ batch = 0 /\ loader = <<>>
  /\ inputs = <<>> /\ records = <<>> /\ read = <<>> /\ idx = <<>>
  /\ sorted = <<>> /\ out_open = FALSE /\ output = <<>>

Init == InitOwn /\ \E n \in FileCounts : StartWith(n)

-----------------------------------------------------------------------------
(* Starting up and loading *)

(* The arrays are allocated, and divider / no_files is computed: with no   *)
(* buckets that is a division by zero.                                     *)
Begin ==
  /\ pc = "ExternalSort"
  /\ \/ "malloc" \in Faults /\ pc' = "failed"
     \/ no_files = 0 /\ pc' = "crashed"
     \/ no_files > 0 /\ pc' = "load"
  /\ batch' = 0
  /\ loader' = [f \in Files |-> "none"]
  /\ inputs' = [f \in Files |-> "uninit"]
  /\ records' = [f \in Files |-> "uninit"]
  /\ read' = [f \in Files |-> 0]
  /\ UNCHANGED <<spawned, joined, bucket, no_files, idx, sorted, out_open, output>>

(* Variant: the batches overlap.                                           *)
file_no_Overlap(i) == batch + i

file_no(i) == write_threads * batch + i

(* Variant: one loader too few is created.                                 *)
MoreLoaders_Fewer == spawned + 1 < batch_size

MoreLoaders == spawned < batch_size

CreateLoader ==
  /\ pc = "load" /\ MoreLoaders
  /\ loader' = [loader EXCEPT ![file_no(spawned)] = "running"]
  /\ spawned' = spawned + 1
  /\ UNCHANGED <<pc, joined, bucket, no_files, batch, inputs, records, read,
                 idx, sorted, out_open, output>>

(* The malloc of the argument is not tested, and main stores into it.      *)
NoArgument ==
  /\ pc = "load" /\ MoreLoaders
  /\ "malloc" \in Faults
  /\ pc' = "crashed"
  /\ UNCHANGED <<spawned, joined, bucket, no_files, own>>

JoinLoader ==
  /\ pc = "load" /\ spawned = batch_size /\ joined < batch_size
  /\ loader[file_no(joined)] = "exited"
  /\ loader' = [loader EXCEPT ![file_no(joined)] = "none"]
  /\ joined' = joined + 1
  /\ UNCHANGED <<pc, spawned, bucket, no_files, batch, inputs, records, read,
                 idx, sorted, out_open, output>>

(* Variant: the last batch is left out.                                    *)
MoreBatches_Fewer == batch + 2 < loops

MoreBatches == batch + 1 < loops

BatchDone ==
  /\ pc = "load" /\ joined = batch_size
  /\ batch' = batch + 1
  /\ spawned' = 0 /\ joined' = 0
  /\ pc' = IF MoreBatches THEN "load" ELSE "open_output"
  /\ UNCHANGED <<bucket, no_files, loader, inputs, records, read,
                 idx, sorted, out_open, output>>

(* idx is cleared, the output is opened for appending, sorted is allocated;*)
(* a NULL idx is written to at once, a NULL output only later.             *)
OpenOutput ==
  /\ pc = "open_output"
  /\ \/ "malloc" \in Faults /\ pc' = "crashed" /\ UNCHANGED out_open
     \/ pc' = "merge" /\ out_open' = TRUE
     \/ "open" \in Faults /\ pc' = "merge" /\ out_open' = FALSE
  /\ idx' = [f \in Files |-> 0]
  /\ sorted' = <<>>
  /\ UNCHANGED <<spawned, joined, bucket, no_files, batch, loader, inputs,
                 records, read, output>>

(* Variants: a chunk that is not full is used, or the last one is not.     *)
Full_Partial(f) == Len(bucket[f]) > read[f]
Full_Strict(f) == Len(bucket[f]) - read[f] > records_per_read

(* fread(.., records_per_read, ..) == records_per_read                     *)
Full(f) == Len(bucket[f]) - read[f] >= records_per_read

Exists(f) == f \in DOMAIN bucket

(* load, for one bucket.  Without a file records[f] is never assigned; a   *)
(* chunk that is not full is given up; exit() ends the whole process.      *)
LoadFile(f) ==
  /\ pc = "load" /\ loader[f] = "running"
  /\ \/ /\ ~Exists(f) \/ "open" \in Faults
        /\ inputs' = [inputs EXCEPT ![f] = "null"]
        /\ UNCHANGED <<pc, records, read>>
     \/ /\ Exists(f) /\ "malloc" \in Faults
        /\ inputs' = [inputs EXCEPT ![f] = "open"]
        /\ pc' = "failed"
        /\ UNCHANGED <<records, read>>
     \/ /\ Exists(f)
        /\ inputs' = [inputs EXCEPT ![f] = "open"]
        /\ \/ /\ Full(f)
              /\ records' = [records EXCEPT ![f] = "live"]
              /\ read' = [read EXCEPT ![f] = records_per_read]
           \/ /\ ~Full(f)
              /\ records' = [records EXCEPT ![f] = "null"]
              /\ UNCHANGED read
        /\ UNCHANGED pc
  /\ loader' = [loader EXCEPT ![f] = "exited"]
  /\ UNCHANGED <<spawned, joined, bucket, no_files, batch, idx, sorted, out_open, output>>

-----------------------------------------------------------------------------
(* The merge *)

Candidates == {f \in Files : records[f] = "live" /\ idx[f] < records_per_read}

(* records[f][idx[f]] *)
Current(f) == bucket[f][read[f] - records_per_read + idx[f] + 1]

(* Variant: the hashes are not compared.                                   *)
small_idx_First == CHOOSE f \in Candidates : \A g \in Candidates : f <= g

(* The first bucket, in the order of the loop over i, with a least hash.   *)
small_idx ==
  CHOOSE f \in Candidates :
    \A g \in Candidates :
      \/ Hash[Current(f)] < Hash[Current(g)]
      \/ Hash[Current(f)] = Hash[Current(g)] /\ f <= g

(* Variant: every flush starts the file anew.                              *)
Flush_Overwrites(recs) == output' = recs

(* fwrite to the output: on a full disk only a part is stored, and nobody  *)
(* notices.                                                                *)
Flush(recs) ==
  \/ output' = output \o recs
  \/ /\ "short" \in Faults
     /\ \E n \in 0 .. (Len(recs) - 1) : output' = output \o SubSeq(recs, 1, n)

(* Variant: the same chunk is merged again.                                *)
Refill_Stale(f) == UNCHANGED <<records, read>>

(* The next chunk of bucket f; one that is not full is given up.           *)
Refill(f) ==
  IF Full(f)
  THEN read' = [read EXCEPT ![f] = @ + records_per_read] /\ UNCHANGED records
  ELSE records' = [records EXCEPT ![f] = "null"] /\ UNCHANGED read

(* One turn of while (1).                                                  *)
MergeStep ==
  LET f == small_idx
      grown == Append(sorted, Current(f))
      full == Len(grown) = divider
  IN
  /\ pc = "merge" /\ Candidates # {}
  /\ IF full /\ ~out_open
     THEN pc' = "crashed" /\ UNCHANGED <<idx, sorted, records, read, output>>
     ELSE /\ IF full THEN Flush(grown) /\ sorted' = <<>>
                     ELSE sorted' = grown /\ UNCHANGED output
          /\ IF idx[f] + 1 = records_per_read
             THEN Refill(f) /\ idx' = [idx EXCEPT ![f] = 0]
             ELSE idx' = [idx EXCEPT ![f] = @ + 1] /\ UNCHANGED <<records, read>>
          /\ UNCHANGED pc
  /\ UNCHANGED <<spawned, joined, bucket, no_files, batch, loader, inputs, out_open>>

(* The test records[i] != NULL reads memory nobody wrote; when it happens  *)
(* not to be NULL, the loop goes on to use it as a pointer.                *)
WildRead ==
  /\ pc = "merge" /\ records_per_read > 0
  /\ \E f \in Files : records[f] = "uninit"
  /\ pc' = "undefined"
  /\ UNCHANGED <<spawned, joined, bucket, no_files, own>>

MergeDone ==
  /\ pc = "merge" /\ Candidates = {}
  /\ pc' = "drain"
  /\ UNCHANGED <<spawned, joined, bucket, no_files, own>>

(* The rest of the buffer is written and every stream closed; closing the  *)
(* remaining inputs touches pointers nobody set when one was never loaded. *)
Drain ==
  /\ pc = "drain"
  /\ \/ /\ out_open
        /\ IF sorted # <<>> THEN Flush(sorted) ELSE UNCHANGED output
        /\ sorted' = <<>>
        /\ out_open' = FALSE
        /\ \/ pc' = "delete_bins"
           \/ pc' = "undefined" /\ \E f \in Files : inputs[f] = "uninit"
     \/ /\ ~out_open
        /\ pc' = "crashed"
        /\ UNCHANGED <<output, sorted, out_open>>
  /\ UNCHANGED <<spawned, joined, bucket, no_files, batch, loader, inputs,
                 records, read, idx>>

Main ==
  \/ Begin \/ CreateLoader \/ NoArgument \/ JoinLoader \/ BatchDone
  \/ OpenOutput \/ MergeStep \/ WildRead \/ MergeDone \/ Drain

Loading == \E f \in DOMAIN loader : LoadFile(f)

Step == Main \/ Loading

Ended == {"delete_bins", "failed", "crashed", "undefined"}

Over == pc \in Ended /\ UNCHANGED vars

Next == Step \/ Over

(* Main and the loader threads are scheduled; library calls return.        *)
Fairness == WF_vars(Main) /\ WF_vars(Loading)

Spec == Init /\ [][Next]_vars /\ Fairness

-----------------------------------------------------------------------------
(* Properties *)

TypeOK ==
  /\ pc \in {"ExternalSort", "load", "open_output", "merge", "drain"} \cup Ended
  /\ spawned \in Nat /\ joined \in Nat /\ no_files \in Nat /\ batch \in Nat
  /\ pc \in {"load", "open_output", "merge", "drain", "delete_bins"} =>
       /\ loader \in [Files -> {"none", "running", "exited"}]
       /\ inputs \in [Files -> {"uninit", "null", "open"}]
       /\ records \in [Files -> {"uninit", "null", "live"}]
       /\ read \in [Files -> Nat]
       /\ \A f \in Files \cap DOMAIN bucket : read[f] <= Len(bucket[f])
  /\ pc \in {"merge", "drain", "delete_bins"} =>
       idx \in [Files -> 0 .. records_per_read]
  /\ sorted \in Seq(Nonce) /\ output \in Seq(Nonce)
  /\ out_open \in BOOLEAN

Image(s) == {s[m] : m \in DOMAIN s}

merged == output \o sorted

BucketsSorted == \A f \in DOMAIN bucket : SortedByHash(bucket[f])

(* From sorted buckets the merge only ever produces sorted output, even    *)
(* when chunks are given up, files cannot be opened or writes are cut      *)
(* short; and nothing still to come from a loaded chunk sorts below it.    *)
MergeOrder ==
  BucketsSorted =>
    /\ SortedByHash(merged)
    /\ pc = "merge" =>
         \A r \in Image(merged) : \A f \in Candidates : Hash[r] <= Hash[Current(f)]

(* No record is taken from a chunk twice, across flushes and refills.      *)
NoDuplicates == \A m, n \in DOMAIN merged : m # n => merged[m] # merged[n]

(* What one fread after the other returns before the first that is short.  *)
WholeChunks(f) ==
  IF records_per_read = 0 THEN 0
  ELSE (Len(bucket[f]) \div records_per_read) * records_per_read

ToMerge ==
  UNION {{bucket[f][m] : m \in 1 .. WholeChunks(f)} :
           f \in {g \in Files : g < loops * batch_size}}

(* When every call succeeds, the merge keeps of every bucket it loads the  *)
(* whole chunks, all of them and nothing else; buckets beyond the last     *)
(* full batch of loader threads do not appear at all.                      *)
MergedExactly == Faults = {} /\ pc = "delete_bins" => Image(output) = ToMerge

(* No bucket is left over by the batches of loader threads.                *)
WholeBatches == loops * batch_size = no_files

(* The chunks in memory and the output buffer together stay within the     *)
(* memory the user granted with -m.                                        *)
MemoryBudget ==
  pc \in {"load", "open_output", "merge", "drain"} =>
    Cardinality({f \in Files : records[f] = "live"}) * records_per_read + divider
      <= max_records

(* No NULL or uninitialised pointer is used, unless there are no buckets,  *)
(* a last batch was left out or a library call failed.                     *)
Defined ==
  pc \in {"crashed", "undefined"} =>
    no_files = 0 \/ ~WholeBatches \/ DOMAIN bucket # Files \/ Faults # {}

(* ExternalSort returns or the process ends: the merge loop does not spin  *)
(* on an empty chunk, and main waits for no loader that cannot exit.       *)
Ends == <>(pc \in Ended)

(* When every call succeeds, ExternalSort writes the sorted file of the    *)
(* whole chunks: each step of the merge appends the least of the records   *)
(* that remain, across chunks and flushes, and it returns when none does.  *)
Sort == INSTANCE SortedFile WITH
          remaining <- ToMerge \ Image(merged),
          outcome <- CASE pc = "delete_bins" -> "success"
                       [] pc \in Ended \ {"delete_bins"} -> "failure"
                       [] OTHER -> "none"

Sorts == Sort!Spec

=============================================================================
