----------------------------- MODULE NewGenerate -----------------------------
(***************************************************************************)
(* new.c of hw4: the first of two programs.  It hashes and sorts as        *)
(* hashgen.c does, but it cuts the array among the write threads whatever  *)
(* the number of sorting threads, and it ends with the buckets on disk and *)
(* their number on the terminal.                                           *)
(*                                                                         *)
(* The body of a thread is one step, two for a writer.  RaceFree is what   *)
(* makes that enough: threads that are alive together share no record.     *)
(***************************************************************************)
EXTENDS BucketFiles, Slices

CONSTANTS
  Options,            \* thread counts, and the calls that may fail with them
  max_records,        \* (max_mem * 1048576) / 16
  total_hash_count,   \* HASH_COUNT_SMALL or HASH_COUNT_BIG
  Leftovers           \* what the directory may hold before: see found

Nonce == 0 .. (total_hash_count - 1)

ASSUME NewAssumption ==
  /\ Options \subseteq [hash : Nat \ {0}, sort : Nat \ {0}, write : Nat \ {0},
                      faults : SUBSET {"malloc", "open", "short"}]
  /\ max_records \in Nat \ {0} /\ max_records % 2 = 0
  /\ total_hash_count \in Nat
  /\ Hash \in [Nonce -> Nat]
  /\ \A d \in Leftovers :
       d.output \in Seq(Nonce) /\ \A b \in DOMAIN d.bucket : d.bucket[b] \in Seq(Nonce)

iterations == total_hash_count \div max_records

VARIABLES
  no_files,               \* how many buckets main believes it has written
  j, k,                   \* main's loops over iterations and rounds
  thread,                 \* the threads created and not joined
  hashes, memory          \* the array, and whether malloc returned it

newOwn == <<options, j, k, thread, hashes, memory>>
newVars == <<pc, spawned, joined, bucket, no_files, newOwn>>

ThreadCount(r) ==
  CASE r = "hashing" -> options.hash
    [] r = "sorting" -> options.sort
    [] OTHER         -> options.write

write_iter == options.sort \div options.write
write_segment == max_records \div write_iter

Cell == 0 .. (max_records - 1)

(* Variant: every round starts at the beginning of the array.              *)
Offset_Whole(s) == 0

Offset(s) == IF s[1] = "writing_sort" THEN thread[s].k * write_segment ELSE 0

SegmentSize(r) == IF r = "writing_sort" THEN write_segment ELSE max_records

(* The part of the array a thread works on, from its index and argument.   *)
start_index(s) == Offset(s) + SliceStart(SegmentSize(s[1]), ThreadCount(s[1]), s[2])
end_index(s) == Offset(s) + SliceEnd(SegmentSize(s[1]), ThreadCount(s[1]), s[2])

Touches(s) == start_index(s) .. (end_index(s) - 1)

bucket_no(s) ==
  thread[s].bucket_start + s[2]
    + (IF s[1] = "writing_sort" THEN options.write * thread[s].k ELSE 0)

-----------------------------------------------------------------------------
(* main *)

NewInit ==
  /\ options \in Options
  /\ pc = "malloc" /\ spawned = 0 /\ joined = 0
  /\ found \in Leftovers /\ bucket = found.bucket /\ no_files = 0
  /\ j = 0 /\ k = 0
  /\ thread = <<>>
  /\ hashes = <<>> /\ memory = "freed"

Malloc ==
  /\ pc = "malloc" /\ j < iterations
  /\ \/ memory' = "live"
     \/ "malloc" \in options.faults /\ memory' = "null"
  /\ hashes' = [c \in Cell |-> -1]
  /\ pc' = "hashing"
  /\ UNCHANGED <<spawned, joined, bucket, no_files, options, j, k, thread>>

(* "Number of sub files created", and the end of the program.              *)
Report ==
  /\ pc = "malloc" /\ j >= iterations
  /\ pc' = "reported"
  /\ UNCHANGED <<spawned, joined, bucket, no_files, newOwn>>

Role == {"hashing", "sorting", "writing_write", "writing_sort"}

CreateThread ==
  /\ pc \in Role /\ spawned < ThreadCount(pc)
  /\ thread' = With(thread, <<pc, spawned>>, [state |-> "running", x |-> j, k |-> k,
                                              bucket_start |-> no_files])
  /\ spawned' = spawned + 1
  /\ UNCHANGED <<pc, joined, bucket, no_files, options, j, k, hashes, memory>>

NewCrash ==
  /\ pc' = "crashed"
  /\ thread' = <<>>
  /\ UNCHANGED <<spawned, joined, bucket, no_files, options, j, k, hashes, memory>>

NoThreadArgument ==
  /\ pc \in Role \ {"sorting"} /\ spawned < ThreadCount(pc)
  /\ "malloc" \in options.faults
  /\ NewCrash

JoinThread ==
  LET s == <<pc, joined>> IN
  /\ pc \in Role /\ spawned = ThreadCount(pc) /\ joined < ThreadCount(pc)
  /\ thread[s].state = "exited"
  /\ thread' = [t \in DOMAIN thread \ {s} |-> thread[t]]
  /\ joined' = joined + 1
  /\ UNCHANGED <<pc, spawned, bucket, no_files, options, j, k, hashes, memory>>

(* Variant: the loop that joins the threads of a phase was left out.       *)
PhaseOver_Unjoined(r) == pc = r /\ spawned = ThreadCount(r)

PhaseOver(r) == pc = r /\ joined = ThreadCount(r)

Goto(phase) ==
  pc' = phase /\ spawned' = 0 /\ joined' = 0 /\ UNCHANGED <<bucket, options, thread, hashes>>

HashingOver == PhaseOver("hashing") /\ Goto("sorting") /\ UNCHANGED <<no_files, j, k, memory>>

SortingOver ==
  /\ PhaseOver("sorting")
  /\ Goto(IF options.write >= options.sort THEN "writing_write" ELSE "writing_sort")
  /\ k' = 0
  /\ UNCHANGED <<no_files, j, memory>>

(* Variant: no_files += sort_threads in both branches, as in hashgen.c.    *)
Added_Sorters(r) == options.sort

(* One bucket for every writer, or rounds that make up sort_threads.       *)
Added(r) == IF r = "writing_write" THEN options.write ELSE options.sort

(* free(hashes), on to the next iteration. *)
NextIteration(r) ==
  /\ Goto("malloc")
  /\ no_files' = no_files + Added(r)
  /\ memory' = "freed" /\ j' = j + 1

WritingOver == PhaseOver("writing_write") /\ NextIteration("writing_write") /\ UNCHANGED k

(* Variant: k is not counted up.                                           *)
NextRound_Stuck == k

NextRound == k + 1

RoundOver ==
  /\ PhaseOver("writing_sort")
  /\ k' = NextRound
  /\ \/ NextRound < write_iter /\ Goto("writing_sort") /\ UNCHANGED <<no_files, j, memory>>
     \/ NextRound >= write_iter /\ NextIteration("writing_sort")

-----------------------------------------------------------------------------
(* The threads *)

Runs(s, roles) == s \in DOMAIN thread /\ s[1] \in roles /\ thread[s].state = "running"

Becomes(s, state) == thread' = [thread EXCEPT ![s].state = state]

UnchangedMain == UNCHANGED <<pc, spawned, joined, no_files, options, j, k, memory>>

Stored(c, s) == thread[s].x * max_records + c

HashSlice(s) ==
  /\ Runs(s, {"hashing"}) /\ (memory = "live" \/ Touches(s) = {})
  /\ hashes' = [c \in Cell |-> IF c \in Touches(s) THEN Stored(c, s) ELSE hashes[c]]
  /\ Becomes(s, "exited")
  /\ UnchangedMain /\ UNCHANGED bucket

HashNull(s) ==
  /\ Runs(s, {"hashing"}) /\ memory = "null" /\ Touches(s) # {}
  /\ NewCrash

(* Variant: the records are compared by their nonces.                      *)
compare_Nonce(a, b) == a - b

compare(a, b) == Hash[a] - Hash[b]

Rearrangements(S) == {p \in [S -> S] : \A c, d \in S : c # d => p[c] # p[d]}

SortSlice(s) ==
  /\ Runs(s, {"sorting"})
  /\ \E p \in Rearrangements(Touches(s)) :
       /\ \A c, d \in Touches(s) : c < d => compare(hashes[p[c]], hashes[p[d]]) <= 0
       /\ hashes' = [c \in Cell |-> IF c \in Touches(s) THEN hashes[p[c]] ELSE hashes[c]]
  /\ Becomes(s, "exited")
  /\ UnchangedMain /\ UNCHANGED bucket

Writers == {"writing_write", "writing_sort"}

OpenFile(s) ==
  /\ Runs(s, Writers)
  /\ \/ bucket' = With(bucket, bucket_no(s), <<>>) /\ Becomes(s, "writing")
     \/ "open" \in options.faults /\ Becomes(s, "exited") /\ UNCHANGED bucket
  /\ UnchangedMain /\ UNCHANGED hashes

(* The records of a slice, in the order of the array.                      *)
Records(s) ==
  [n \in 1 .. (end_index(s) - start_index(s)) |-> hashes[start_index(s) + n - 1]]

WriteFile(s) ==
  /\ s \in DOMAIN thread /\ thread[s].state = "writing"
  /\ \/ bucket' = With(bucket, bucket_no(s), Records(s))
     \/ /\ "short" \in options.faults
        /\ \E n \in 0 .. (Len(Records(s)) - 1) :
             bucket' = With(bucket, bucket_no(s), SubSeq(Records(s), 1, n))
  /\ Becomes(s, "exited")
  /\ UnchangedMain /\ UNCHANGED hashes

NewThread(s) == HashSlice(s) \/ HashNull(s) \/ SortSlice(s) \/ OpenFile(s) \/ WriteFile(s)

NewMain ==
  \/ Malloc \/ Report \/ CreateThread \/ NoThreadArgument \/ JoinThread
  \/ HashingOver \/ SortingOver \/ WritingOver \/ RoundOver

NewStep == NewMain \/ \E s \in DOMAIN thread : NewThread(s)

=============================================================================
