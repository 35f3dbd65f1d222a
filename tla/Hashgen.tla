------------------------------ MODULE Hashgen -------------------------------
(***************************************************************************)
(* hashgen.c as a program: main generates the buckets, merges them, removes*)
(* them and returns, and its process may be killed at any point and        *)
(* started again in the same directory, the way the benchmark scripts run  *)
(* it over and over (run_bench_s.sh, run_bench_b.sh).                      *)
(***************************************************************************)
EXTENDS HashgenGlobals

CONSTANTS
  MaxRuns,        \* bound: how often the program is started
  RemovesOutput,  \* whether the output is removed before another run
  OtherRuns       \* what runs with other options may leave in between

ASSUME RunsAssumption == MaxRuns \in Nat \ {0} /\ RemovesOutput \in BOOLEAN

(* Runs with other numbers of threads over the same records: the buckets   *)
(* they leave, up to which number they have removed buckets, and what they *)
(* add to the output.                                                      *)
ASSUME OtherRunsAssumption ==
  \A r \in OtherRuns :
    /\ r.removed \in Nat /\ r.output \in Seq(Nonce)
    /\ \A b \in DOMAIN r.bucket : b \in Nat /\ r.bucket[b] \in Seq(Nonce)

VARIABLES
  j, k, thread, arg, cursor, hashes, memory,
  batch, loader, inputs, records, read, idx, sorted, out_open, output,
  removed,    \* i, the loop of delete_bins
  runs,       \* how often the program has been started
  foreign     \* the buckets last written by a run with other options

G == INSTANCE Generate
E == INSTANCE ExternalSort WITH FileCounts <- {}

generateVars == <<j, k, thread, arg, cursor, hashes, memory>>
mergeVars == <<batch, loader, inputs, records, read, idx, sorted, out_open, output>>
vars == <<shared, generateVars, mergeVars, removed, runs, foreign>>

Ended == {"exit", "failed", "crashed", "undefined", "killed"}

Init == G!Init /\ E!InitOwn /\ removed = 0 /\ runs = 1 /\ foreign = {}

GenerateMain == G!Main /\ UNCHANGED <<mergeVars, removed, runs, foreign>>

(* A thread that has opened a bucket has emptied it.                       *)
GenerateWorker(s) ==
  /\ G!Worker(s)
  /\ foreign' = IF "writing" \in {thread[s], thread'[s]} THEN foreign \ {G!bucket_no(s)}
                ELSE foreign
  /\ UNCHANGED <<mergeVars, removed, runs>>

Generating == GenerateMain \/ \E s \in G!Slot : GenerateWorker(s)

Merging == E!Step /\ UNCHANGED <<generateVars, removed, runs, foreign>>

(* Variant: the loop stops one bucket early.                               *)
MoreToRemove_Fewer == removed + 1 < no_files

MoreToRemove == removed < no_files

(* delete_bins, one remove() at a time; a bucket that is not there is      *)
(* passed over.                                                            *)
DeleteBin ==
  /\ pc = "delete_bins" /\ MoreToRemove
  /\ bucket' = [b \in DOMAIN bucket \ {removed} |-> bucket[b]]
  /\ removed' = removed + 1
  /\ UNCHANGED <<pc, spawned, joined, no_files, generateVars, mergeVars, runs, foreign>>

Return ==
  /\ pc = "delete_bins" /\ ~MoreToRemove
  /\ pc' = "exit"
  /\ UNCHANGED <<spawned, joined, bucket, no_files, generateVars, mergeVars, removed, runs, foreign>>

(* The process is killed with all its threads.  The files stay as they     *)
(* are, but for a flush that was under way and left part of the buffer in  *)
(* the output file.                                                        *)
Kill ==
  /\ pc \notin Ended /\ runs < MaxRuns
  /\ pc' = "killed"
  /\ \/ UNCHANGED output
     \/ /\ pc \in {"merge", "drain"} /\ out_open
        /\ \E n \in 1 .. Len(sorted) : output' = output \o SubSeq(sorted, 1, n)
  /\ thread' = [s \in G!Slot |-> "none"]
  /\ loader' = <<>>
  /\ UNCHANGED <<spawned, joined, bucket, no_files, removed, runs, foreign,
                 j, k, arg, cursor, hashes, memory, batch, inputs, records, read, idx, sorted, out_open>>

(* The directory after other runs: they remove the buckets up to a number, *)
(* and write theirs over those they find.                                  *)
After(r) ==
  [b \in DOMAIN r.bucket \cup {c \in DOMAIN bucket : c >= r.removed} |->
     IF b \in DOMAIN r.bucket THEN r.bucket[b] ELSE bucket[b]]

(* The next run starts with fresh memory in the directory it finds, at once*)
(* or after runs with other options, as a benchmark script makes them.     *)
RunAgain ==
  /\ pc \in Ended /\ runs < MaxRuns
  /\ runs' = runs + 1
  /\ pc' = "malloc" /\ spawned' = 0 /\ joined' = 0 /\ no_files' = 0
  /\ j' = 0 /\ k' = 0 /\ memory' = "freed"
  /\ thread' = [s \in G!Slot |-> "none"]
  /\ arg' = [s \in G!Slot |-> [x |-> 0, k |-> 0, bucket_start |-> 0]]
  /\ cursor' = [s \in G!Slot |-> 0]
  /\ hashes' = [c \in G!Cell |-> G!Garbage]
  /\ batch' = 0 /\ loader' = <<>>
  /\ inputs' = <<>> /\ records' = <<>> /\ read' = <<>> /\ idx' = <<>>
  /\ sorted' = <<>> /\ out_open' = FALSE
  /\ removed' = 0
  /\ \/ /\ output' = IF RemovesOutput THEN <<>> ELSE output
        /\ UNCHANGED <<bucket, foreign>>
     \/ \E r \in OtherRuns :
          /\ output' = IF RemovesOutput THEN <<>> ELSE output \o r.output
          /\ bucket' = After(r)
          /\ foreign' = DOMAIN r.bucket \cup {b \in foreign : b >= r.removed}

Step == Generating \/ Merging \/ DeleteBin \/ Return

Over == pc \in Ended /\ runs = MaxRuns /\ UNCHANGED vars

Next == Step \/ Kill \/ RunAgain \/ Over

(* Nobody is obliged to kill the program or to start it again.             *)
Fairness ==
  /\ WF_vars(GenerateMain)
  /\ \A s \in G!Slot : WF_vars(GenerateWorker(s))
  /\ WF_vars(E!Main /\ UNCHANGED <<generateVars, removed, runs, foreign>>)
  /\ WF_vars(E!Loading /\ UNCHANGED <<generateVars, removed, runs, foreign>>)
  /\ WF_vars(DeleteBin \/ Return)

Spec == Init /\ [][Next]_vars /\ Fairness

-----------------------------------------------------------------------------
(* Properties *)

(* The options with which no part of the work is cut off by an integer     *)
(* division: whole iterations, slices, batches of loaders and chunks.      *)
(* Powers of two, as in the benchmark scripts, always are.                 *)
BucketCount == iterations * sort_threads
ChunkSize == (max_records \div 2) \div BucketCount

EvenOptions ==
  /\ iterations > 0 /\ iterations * max_records = total_hash_count
  /\ max_records % sort_threads = 0
  /\ write_threads >= sort_threads \/ sort_threads % write_threads = 0
  /\ BucketCount < write_threads \/ BucketCount % write_threads = 0
  /\ ChunkSize > 0
  /\ (max_records \div sort_threads) % ChunkSize = 0

Undisturbed == EvenOptions /\ Faults = {} /\ (RemovesOutput \/ MaxRuns = 1)

Image(s) == {s[m] : m \in DOMAIN s}

(* What the program is for: when it returns, the output holds every record *)
(* exactly once in the order of the hashes, whatever the threads did, and  *)
(* whatever buckets earlier runs left that were killed anywhere, also runs *)
(* with other numbers of threads.                                          *)
CompletedOutput ==
  Undisturbed /\ pc = "exit" =>
    /\ SortedByHash(output)
    /\ Image(output) = Nonce
    /\ Len(output) = total_hash_count

(* A run removes a bucket only when all its records are in the output file.*)
DeletesOnlyMerged ==
  [][Undisturbed /\ pc \notin Ended =>
       \A b \in DOMAIN bucket \ DOMAIN bucket' : Image(bucket[b]) \subseteq Image(output)]_vars

(* From the end of generation on, every record is on disk, in a bucket or  *)
(* in the output, whenever the process is killed.                          *)
OnDisk ==
  Undisturbed /\ pc \in {"ExternalSort", "load", "open_output", "merge",
                         "drain", "delete_bins", "exit"} =>
    Nonce \subseteq Image(output) \cup UNION {Image(bucket[b]) : b \in DOMAIN bucket}

(* A run that returns leaves no bucket with a number it uses, neither its  *)
(* own nor one it found, and none of a run with the same options that was  *)
(* killed before it.  What it leaves are buckets of runs with other options*)
(* that had more of them: delete_bins does not come to their numbers.      *)
NoBucketLeft ==
  Undisturbed /\ pc = "exit" => DOMAIN bucket \subseteq {b \in foreign : b >= no_files}

(* No run ends through a bad pointer or a failed check.                    *)
EndsWell == Undisturbed => pc \notin {"failed", "crashed", "undefined"}

(* Whatever library call fails, a run that returns has written a sorted    *)
(* file without repeated records, if perhaps an incomplete one.  A bucket  *)
(* that cannot be opened for writing is merged as it was found, so that the*)
(* runs before it have to be of the same options when that can happen.     *)
SortedWhateverFails ==
  /\ G!Aligned /\ (RemovesOutput \/ MaxRuns = 1) /\ ("open" \notin Faults \/ OtherRuns = {})
  /\ pc = "exit"
  => /\ SortedByHash(output)
     /\ \A m, n \in DOMAIN output : m # n => output[m] # output[n]

(* Every run comes to an end.                                              *)
EveryRunEnds == [](pc = "malloc" => <>(pc \in Ended))

(* The whole program, killed and started again as it may be, writes the    *)
(* sorted file of all nonces.                                              *)
File == INSTANCE SortedFile WITH
          remaining <- Nonce \ Image(IF pc = "killed" THEN output ELSE E!merged),
          merged <- IF pc = "killed" THEN output ELSE E!merged,
          outcome <- CASE pc = "exit" -> "success"
                       [] pc \in Ended \ {"exit"} -> "failure"
                       [] OTHER -> "none"

WritesSortedFile == File!Spec

(* "sorted and written to a single output file" (hashgen.c:222), for the   *)
(* options the program accepts.                                            *)
OutputSorted == pc = "exit" => SortedByHash(output)

=============================================================================
