------------------------------ MODULE MergeTool ------------------------------
(***************************************************************************)
(* external_sort.c of hw4: the second of two programs, started by hand     *)
(* with -n and the number of buckets.  It is the ExternalSort of hashgen.c *)
(* before its checks were written: load looks neither at fopen nor at      *)
(* fread, so that a chunk may hold what malloc left in it, and the memory  *)
(* and the number of load threads are fixed in the program.  It appends to *)
(* an output.bin that is there, and removes nothing.                       *)
(***************************************************************************)
EXTENDS BucketFiles

CONSTANTS
  merge_records,    \* (max_mem * 1048576) / 16 for the fixed max_mem of 128
  load_threads      \* 16

ASSUME MergeAssumption ==
  /\ merge_records \in Nat \ {0} /\ merge_records % 2 = 0
  /\ load_threads \in Nat \ {0}

VARIABLES
  number,                 \* the argument of -n
  loop,                   \* j, the batch of load threads
  loading,                \* the load thread of every file
  records,                \* records[f]: "uninit", "null" or "live"
  chunk,                  \* what a live records[f] points to
  read,                   \* how many records of bucket f have been read
  idx,                    \* the next record of the chunk of bucket f
  sorted,                 \* the output buffer
  output_open,            \* whether fopen returned a stream for output.bin
  appended                \* what the program has written to output.bin

mergeOwn ==
  <<number, loop, loading, records, chunk, read, idx, sorted, output_open, appended>>
mergeVars == <<pc, spawned, joined, bucket, options, found, mergeOwn>>

(* The file, behind what it held before: fopen(..., "ab").                 *)
output_bin == found.output \o appended

divider == merge_records \div 2
records_per_read == divider \div number

Files == 0 .. (number - 1)

(* Records that nobody wrote: all bytes zero, or anything else.            *)
Junk == {-1, -2}

(* Zero bytes sort before every hash, and other junk here after it.        *)
HashOf(r) ==
  CASE r = -1 -> -1
    [] r = -2 -> 1 + Hash[CHOOSE n \in DOMAIN Hash : \A l \in DOMAIN Hash : Hash[l] <= Hash[n]]
    [] OTHER  -> Hash[r]

-----------------------------------------------------------------------------
(* Loading *)

MergeInit ==
  /\ number = 0 /\ loop = 0
  /\ loading = <<>> /\ records = <<>> /\ chunk = <<>> /\ read = <<>> /\ idx = <<>>
  /\ sorted = <<>> /\ output_open = FALSE /\ appended = <<>>

(* The program is started for n buckets; none is a division by zero.       *)
StartMerge(n) ==
  /\ number' = n
  /\ pc' = IF n = 0 THEN "crashed" ELSE "load"
  /\ spawned' = 0 /\ joined' = 0 /\ loop' = 0
  /\ loading' = [f \in 0 .. (n - 1) |-> "none"]
  /\ records' = [f \in 0 .. (n - 1) |-> "uninit"]
  /\ chunk' = [f \in 0 .. (n - 1) |-> <<>>]
  /\ read' = [f \in 0 .. (n - 1) |-> 0]
  /\ idx' = [f \in 0 .. (n - 1) |-> 0]
  /\ sorted' = <<>>
  /\ UNCHANGED <<bucket, output_open, appended>>

batch == IF number < load_threads THEN number ELSE load_threads

(* Variant: the last batch is not loaded.                                  *)
batches_Fewer == (number \div batch) - 1

batches == number \div batch

file_no(i) == load_threads * loop + i

CreateLoad ==
  /\ pc = "load" /\ loop < batches /\ spawned < batch
  /\ loading' = [loading EXCEPT ![file_no(spawned)] = "running"]
  /\ spawned' = spawned + 1
  /\ UNCHANGED <<pc, joined, bucket, number, loop, records, chunk, read, idx, sorted,
                 output_open, appended>>

JoinLoad ==
  /\ pc = "load" /\ loop < batches /\ spawned = batch
  /\ loading[file_no(joined)] = "exited"
  /\ \/ joined + 1 < batch /\ joined' = joined + 1 /\ UNCHANGED <<spawned, loop>>
     \/ joined + 1 = batch /\ joined' = 0 /\ spawned' = 0 /\ loop' = loop + 1
  /\ UNCHANGED <<pc, bucket, number, loading, records, chunk, read, idx, sorted,
                 output_open, appended>>

Smaller(a, b) == IF a < b THEN a ELSE b

(* What the next fread of bucket f finds. *)
Next_Records(f) ==
  SubSeq(bucket[f], read[f] + 1, Smaller(Len(bucket[f]), read[f] + records_per_read))

(* A bucket that does not exist or cannot be opened is a NULL stream, which*)
(* fread dereferences.  One that is short leaves the rest of the chunk as  *)
(* malloc returned it.                                                     *)
Load(f) ==
  /\ pc = "load" /\ loading[f] = "running"
  /\ loading' = [loading EXCEPT ![f] = "exited"]
  /\ \/ /\ f \notin DOMAIN bucket \/ "open" \in options.faults
        /\ pc' = "crashed"
        /\ UNCHANGED <<records, chunk, read>>
     \/ /\ f \in DOMAIN bucket
        /\ records' = [records EXCEPT ![f] = "live"]
        /\ read' = [read EXCEPT ![f] = Len(Next_Records(f))]
        /\ \E junk \in [1 .. (records_per_read - Len(Next_Records(f))) -> Junk] :
             chunk' = [chunk EXCEPT ![f] = Next_Records(f) \o junk]
        /\ UNCHANGED pc
  /\ UNCHANGED <<spawned, joined, bucket, number, loop, idx, sorted, output_open, appended>>

MergeCrash == pc' = "crashed" /\ UNCHANGED <<spawned, joined, bucket, mergeOwn>>

(* No result of malloc is looked at: of records, args, idx or sorted at its*)
(* first use, of a chunk by fread or when its first hash is printed.       *)
NoMemory == pc = "load" /\ "malloc" \in options.faults /\ MergeCrash

(* The first hash of every bucket is printed, through records[i]: one that *)
(* was not loaded is a wild pointer.  Then the output is opened.           *)
PrintFirst ==
  /\ pc = "load" /\ loop = batches
  /\ pc' = IF \E f \in Files : records[f] = "uninit" THEN "undefined" ELSE "merge"
  /\ output_open' \in {TRUE} \cup (IF "open" \in options.faults THEN {FALSE} ELSE {})
  /\ UNCHANGED <<spawned, joined, bucket, number, loop, loading, records, chunk, read, idx,
                 sorted, appended>>

-----------------------------------------------------------------------------
(* The merge *)

Candidates == {f \in Files : records[f] = "live" /\ idx[f] < records_per_read}

Current(f) == chunk[f][idx[f] + 1]

(* Variant: the comparison is the wrong way round.                         *)
small_idx_Largest ==
  CHOOSE f \in Candidates : \A g \in Candidates : HashOf(Current(f)) >= HashOf(Current(g))

small_idx ==
  CHOOSE f \in Candidates :
    \A g \in Candidates :
      \/ HashOf(Current(f)) < HashOf(Current(g))
      \/ HashOf(Current(f)) = HashOf(Current(g)) /\ f <= g

(* Variant: the buffer is not emptied by a flush.                          *)
AfterFlush_Kept(recs) == recs

(* memset and sorted_idx = 0 *)
AfterFlush(recs) == <<>>

(* The chunk is used up: refilled, or given up when fread returns less.    *)
RefillChunk(f) ==
  IF Len(Next_Records(f)) = records_per_read
  THEN /\ chunk' = [chunk EXCEPT ![f] = Next_Records(f)]
       /\ read' = [read EXCEPT ![f] = @ + records_per_read]
       /\ UNCHANGED records
  ELSE /\ records' = [records EXCEPT ![f] = "null"]
       /\ read' = [read EXCEPT ![f] = Len(bucket[f])]
       /\ UNCHANGED chunk

MergeRecord ==
  LET f == small_idx
      grown == Append(sorted, Current(f))
  IN
  /\ pc = "merge" /\ Candidates # {}
  /\ \/ /\ Len(grown) = divider /\ output_open
        /\ appended' = appended \o grown /\ sorted' = AfterFlush(grown)
     \/ Len(grown) # divider /\ sorted' = grown /\ UNCHANGED appended
  /\ \/ idx[f] + 1 = records_per_read /\ RefillChunk(f) /\ idx' = [idx EXCEPT ![f] = 0]
     \/ /\ idx[f] + 1 < records_per_read
        /\ idx' = [idx EXCEPT ![f] = @ + 1]
        /\ UNCHANGED <<records, chunk, read>>
  /\ UNCHANGED <<pc, spawned, joined, bucket, number, loop, loading, output_open>>

(* The rest of the buffer, fclose, and the end: the buckets stay.          *)
WriteRest ==
  /\ pc = "merge" /\ Candidates = {} /\ output_open
  /\ appended' = appended \o sorted /\ sorted' = <<>>
  /\ pc' = "merged"
  /\ UNCHANGED <<spawned, joined, bucket, number, loop, loading, records, chunk, read, idx,
                 output_open>>

(* fwrite of a full buffer, or fclose at the latest, of a NULL stream.     *)
NullOutput ==
  /\ pc = "merge" /\ ~output_open
  /\ Candidates = {} \/ Len(sorted) + 1 = divider
  /\ MergeCrash

MergeMain ==
  \/ CreateLoad \/ JoinLoad \/ NoMemory \/ PrintFirst
  \/ MergeRecord \/ WriteRest \/ NullOutput

MergeThread == \E f \in DOMAIN loading : Load(f)

=============================================================================
