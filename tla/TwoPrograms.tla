----------------------------- MODULE TwoPrograms -----------------------------
(***************************************************************************)
(* The way to a sorted file that the README of hw4 describes beside        *)
(* hashgen.c: run new.c, which leaves a number of buckets, then run        *)
(* external_sort -n with the number it has printed.                        *)
(***************************************************************************)
EXTENDS NewGenerate, MergeTool

vars == <<newVars, mergeOwn, found>>

Init == NewInit /\ MergeInit

Generating == NewStep /\ UNCHANGED <<mergeOwn, found>>

StartExternalSort ==
  /\ pc = "reported"
  /\ StartMerge(no_files)
  /\ UNCHANGED <<no_files, newOwn, found>>

Merging == (MergeMain \/ MergeThread) /\ UNCHANGED <<no_files, newOwn, found>>

Ended == {"crashed", "undefined", "merged"}

Over == pc \in Ended /\ UNCHANGED vars

Next == Generating \/ StartExternalSort \/ Merging \/ Over

(* The threads of both programs are scheduled, and the user goes on.       *)
Fairness ==
  /\ WF_vars(NewMain /\ UNCHANGED <<mergeOwn, found>>)
  /\ WF_vars((\E s \in DOMAIN thread : NewThread(s)) /\ UNCHANGED <<mergeOwn, found>>)
  /\ WF_vars(StartExternalSort)
  /\ WF_vars(Merging)

Spec == Init /\ [][Next]_vars /\ Fairness

-----------------------------------------------------------------------------
(* Properties *)

Image(s) == {s[m] : m \in DOMAIN s}

(* Threads of new.c that are alive together share no record of the array   *)
(* and no bucket: what lets their bodies be single steps, too.             *)
RaceFree ==
  \A s, t \in DOMAIN thread :
    s # t /\ thread[s].state # "exited" /\ thread[t].state # "exited" =>
      /\ Touches(s) \cap Touches(t) = {}
      /\ s[1] \in Writers /\ t[1] \in Writers => bucket_no(s) # bucket_no(t)

(* What one writer stores lies inside what one sorting thread sorted.      *)
Nested ==
  IF options.write >= options.sort
  THEN \A w \in 0 .. (options.write - 1) : \E o \in 0 .. (options.sort - 1) :
         Slice(max_records, options.write, w) \subseteq Slice(max_records, options.sort, o)
  ELSE options.sort % options.write = 0 /\ max_records % options.sort = 0

(* "Individually sorted buckets", also of those a failing write left       *)
(* incomplete: the only ones that may not be sorted are an earlier run's,  *)
(* which still are as that run left them.                                  *)
BucketsSortedIfNested ==
  Nested => \A b \in DOMAIN bucket :
              \/ SortedByHash(bucket[b])
              \/ b \in DOMAIN found.bucket /\ bucket[b] = found.bucket[b]

PlacesOf(n) ==
  {p \in UNION {{b} \X DOMAIN bucket[b] : b \in 0 .. (no_files - 1)} : bucket[p[1]][p[2]] = n}

WholeRounds ==
  \/ options.write >= options.sort
  \/ options.sort % options.write = 0 /\ max_records % write_iter = 0

(* The buckets new.c reports exist, and hold each record that it generated *)
(* in exactly one place, whatever an earlier run left in the directory.    *)
HandedOver ==
  pc = "reported" /\ options.faults = {} /\ WholeRounds =>
    /\ 0 .. (no_files - 1) \subseteq DOMAIN bucket
    /\ \A n \in Nonce : Cardinality(PlacesOf(n)) = IF n < iterations * max_records THEN 1 ELSE 0

WholeBatches == number < load_threads \/ number % load_threads = 0

(* Every bucket fills a chunk at least once, so that nothing unwritten is  *)
(* taken for records.                                                      *)
FirstChunksFull == \A f \in Files : f \in DOMAIN bucket /\ Len(bucket[f]) >= records_per_read

InWholeChunks(f) ==
  IF records_per_read = 0 THEN {}
  ELSE {bucket[f][m] : m \in 1 .. ((Len(bucket[f]) \div records_per_read) * records_per_read)}

(* What external_sort appends to output.bin is the whole chunks of its     *)
(* buckets and nothing else, whether the buckets are sorted or not; of     *)
(* sorted ones it appends a sorted sequence.  No record comes twice in it, *)
(* unless the rounds left gaps in the numbers and an earlier run's buckets *)
(* fill them.                                                              *)
CopiesWholeChunks ==
  pc = "merged" /\ FirstChunksFull =>
    /\ Image(appended) = UNION {InWholeChunks(f) : f \in Files}
    /\ options.faults = {} /\ WholeRounds => Cardinality(Image(appended)) = Len(appended)
    /\ (\A f \in Files : SortedByHash(bucket[f])) => SortedByHash(appended)

(* Options with which no division, of records, threads, batches or chunks, *)
(* has a remainder that matters.                                           *)
EvenOptions ==
  /\ options.faults = {} /\ Nested /\ WholeRounds
  /\ iterations > 0 /\ iterations * max_records = total_hash_count
  /\ WholeBatches
  /\ records_per_read > 0 /\ FirstChunksFull
  /\ \A f \in Files : Len(bucket[f]) % records_per_read = 0

(* All the records, each once and in order, are what output.bin holds from *)
(* where it ended before: the whole file, when it was empty or not there.  *)
AllRecords ==
  pc = "merged" /\ EvenOptions =>
    SortedByHash(appended) /\ Image(appended) = Nonce /\ Len(appended) = total_hash_count

(* The programs use a bad pointer, or divide by zero, in no other case     *)
(* than these: malloc fails, there was nothing to generate, a bucket is    *)
(* missing, fopen fails for a bucket or for the output, or the last batch  *)
(* of load threads is one the loop leaves out.                             *)
Defined ==
  pc \in {"crashed", "undefined"} =>
    \/ "malloc" \in options.faults
    \/ /\ pc = "crashed"
       /\ iterations = 0 \/ "open" \in options.faults \/ ~(Files \subseteq DOMAIN bucket)
    \/ pc = "undefined" /\ ~WholeBatches

(* Both programs come to an end, normally or not.                          *)
Finishes == <>(pc \in Ended)

(* "This would result in the creation of n number of individually sorted   *)
(* buckets" (README.md of hw4, line 42), for the options new.c accepts.    *)
IndividuallySorted == \A b \in DOMAIN bucket : SortedByHash(bucket[b])

(* "This should result in a single output file called output.bin which     *)
(* contains all the records in file to test if there are sorted correctly" *)
(* (README.md of hw4, line 42), where new.c wrote all of them to buckets.  *)
OneSortedFile == pc = "merged" /\ EvenOptions => SortedByHash(output_bin)

=============================================================================
