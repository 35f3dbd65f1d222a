------------------------------ MODULE Generate ------------------------------
(***************************************************************************)
(* The generating phase of hashgen.c: main's loop over j (hashgen.c:512-   *)
(* 574) and the functions its threads run, hashing, sorting, writing_write *)
(* and writing_sort.  All of them work on one array, hashes, that main     *)
(* allocates and frees in every iteration.                                 *)
(***************************************************************************)
EXTENDS HashgenGlobals, Slices

VARIABLES
  j,          \* main's iteration
  k,          \* main's round of writing_sort
  thread,     \* the state of every thread main can create
  arg,        \* what main put into the thread's argument when creating it
  cursor,     \* the loop variable i of a hashing thread
  hashes,     \* the shared array
  memory      \* what hashes points to: "freed", "null" or "live"

own == <<j, k, thread, arg, cursor, hashes, memory>>
vars == <<shared, own>>

Role == {"hashing", "sorting", "writing_write", "writing_sort"}

(* Variant: all writers share the array, as in hw4's new.c.                *)
ThreadCount_Writers(r) ==
  CASE r = "hashing" -> hash_threads
    [] r = "sorting" -> sort_threads
    [] OTHER         -> write_threads

(* One thread array per role; both kinds of writers use one, of which      *)
(* writing_write fills the first sort_threads places.                      *)
ThreadCount(r) ==
  CASE r = "hashing"       -> hash_threads
    [] r = "sorting"       -> sort_threads
    [] r = "writing_write" -> sort_threads
    [] r = "writing_sort"  -> write_threads

Slot == UNION {{r} \X (0 .. (ThreadCount(r) - 1)) : r \in Role}

Argument == [x : Nat, k : Nat, bucket_start : Nat]

Cell == 0 .. (max_records - 1)

(* What malloc leaves in the array; no record has this value.              *)
Garbage == -1

write_iter == sort_threads \div write_threads
write_segment == max_records \div write_iter

-----------------------------------------------------------------------------
(* Which part of the array a thread works on, and which bucket it writes.   *)

SegmentSize(r) == IF r = "writing_sort" THEN write_segment ELSE max_records

(* Variant: every round starts at the beginning of the array.              *)
SegmentStart_Reset(s) == 0

SegmentStart(s) ==
  IF s[1] = "writing_sort" THEN arg[s].k * write_segment ELSE 0

start_index(s) ==
  SegmentStart(s) + SliceStart(SegmentSize(s[1]), ThreadCount(s[1]), s[2])

end_index(s) ==
  SegmentStart(s) + SliceEnd(SegmentSize(s[1]), ThreadCount(s[1]), s[2])

Touches(s) == start_index(s) .. (end_index(s) - 1)

(* Variant: the number ignores earlier iterations.                         *)
bucket_no_Restart(s) ==
  (IF s[1] = "writing_sort" THEN write_threads * arg[s].k ELSE 0) + s[2]

bucket_no(s) ==
  LET round == IF s[1] = "writing_sort" THEN write_threads * arg[s].k ELSE 0
  IN  arg[s].bucket_start + round + s[2]

-----------------------------------------------------------------------------
(* main *)

Init ==
  /\ pc = "malloc" /\ spawned = 0 /\ joined = 0
  /\ bucket = <<>> /\ no_files = 0
  /\ j = 0 /\ k = 0
  /\ thread = [s \in Slot |-> "none"]
  /\ arg = [s \in Slot |-> [x |-> 0, k |-> 0, bucket_start |-> 0]]
  /\ cursor = [s \in Slot |-> 0]
  /\ hashes = [c \in Cell |-> Garbage]
  /\ memory = "freed"

(* The head of the loop.  The result of malloc is not tested.              *)
Malloc ==
  /\ pc = "malloc" /\ j < iterations
  /\ \/ memory' = "live"
     \/ "malloc" \in Faults /\ memory' = "null"
  /\ hashes' = [c \in Cell |-> Garbage]
  /\ pc' = "hashing"
  /\ UNCHANGED <<spawned, joined, bucket, no_files, j, k, thread, arg, cursor>>

LeaveLoop ==
  /\ pc = "malloc" /\ j >= iterations
  /\ pc' = "ExternalSort"
  /\ UNCHANGED <<spawned, joined, bucket, no_files, own>>

(* Variant: one thread too few is created.                                 *)
MoreToCreate_Fewer == spawned + 1 < ThreadCount(pc)

MoreToCreate == spawned < ThreadCount(pc)

(* One turn of the loop that creates the threads of this phase.            *)
Create ==
  LET s == <<pc, spawned>> IN
  /\ pc \in Role /\ MoreToCreate
  /\ thread' = [thread EXCEPT ![s] = "running"]
  /\ arg' = [arg EXCEPT ![s] = [x |-> j, k |-> k, bucket_start |-> no_files]]
  /\ cursor' = [cursor EXCEPT ![s] = SliceStart(max_records, hash_threads, s[2])]
  /\ spawned' = spawned + 1
  /\ UNCHANGED <<pc, joined, bucket, no_files, j, k, hashes, memory>>

(* A store through a NULL pointer ends the process with all its threads.   *)
Crash ==
  /\ pc' = "crashed"
  /\ thread' = [t \in Slot |-> "none"]
  /\ UNCHANGED <<spawned, joined, bucket, no_files, j, k, arg, cursor, hashes, memory>>

(* The malloc of a thread's argument is not tested either, and main stores *)
(* into it; only sorting threads get their index without a malloc.         *)
NoArgument ==
  /\ pc \in Role \ {"sorting"} /\ MoreToCreate
  /\ "malloc" \in Faults
  /\ Crash

(* pthread_join returns only when the thread it names has exited.          *)
Join ==
  LET s == <<pc, joined>> IN
  /\ pc \in Role /\ spawned = ThreadCount(pc) /\ joined < ThreadCount(pc)
  /\ thread[s] = "exited"
  /\ thread' = [thread EXCEPT ![s] = "none"]
  /\ joined' = joined + 1
  /\ UNCHANGED <<pc, spawned, bucket, no_files, j, k, arg, cursor, hashes, memory>>

(* Variant: the threads are created but not joined.                        *)
AllJoined_NotAwaited(r) == pc = r /\ spawned = ThreadCount(r)

AllJoined(r) == pc = r /\ joined = ThreadCount(r)

HashingDone ==
  /\ AllJoined("hashing")
  /\ pc' = "sorting" /\ spawned' = 0 /\ joined' = 0
  /\ UNCHANGED <<bucket, no_files, own>>

SortingDone ==
  /\ AllJoined("sorting")
  /\ pc' = IF write_threads >= sort_threads THEN "writing_write" ELSE "writing_sort"
  /\ spawned' = 0 /\ joined' = 0 /\ k' = 0
  /\ UNCHANGED <<bucket, no_files, j, thread, arg, cursor, hashes, memory>>

(* Variant: no_files += write_threads.                                     *)
BucketsAdded_Writers == write_threads

BucketsAdded == sort_threads

WritingWriteDone ==
  /\ AllJoined("writing_write")
  /\ pc' = "free" /\ spawned' = 0 /\ joined' = 0
  /\ no_files' = no_files + BucketsAdded
  /\ UNCHANGED <<bucket, own>>

(* Variant: k is not counted up.                                           *)
NextRound_Stuck == k

NextRound == k + 1

(* for (int k = 0; k < write_iter; k++), then no_files += sort_threads.     *)
WritingSortDone ==
  /\ AllJoined("writing_sort")
  /\ spawned' = 0 /\ joined' = 0
  /\ k' = NextRound
  /\ \/ NextRound < write_iter /\ UNCHANGED <<pc, no_files>>
     \/ NextRound >= write_iter /\ pc' = "free" /\ no_files' = no_files + BucketsAdded
  /\ UNCHANGED <<bucket, j, thread, arg, cursor, hashes, memory>>

Free ==
  /\ pc = "free"
  /\ memory' = "freed"
  /\ j' = j + 1
  /\ pc' = "malloc"
  /\ UNCHANGED <<spawned, joined, bucket, no_files, k, thread, arg, cursor, hashes>>

Main ==
  \/ Malloc \/ LeaveLoop \/ Create \/ NoArgument \/ Join
  \/ HashingDone \/ SortingDone \/ WritingWriteDone \/ WritingSortDone
  \/ Free

-----------------------------------------------------------------------------
(* The threads *)

Running(s, r) == s[1] = r /\ thread[s] = "running"

Exit(s) == thread' = [thread EXCEPT ![s] = "exited"]

(* Variant: iterations are counted from one.                               *)
HashedNonce_FromOne(s) == (arg[s].x + 1) * max_records + cursor[s]

HashedNonce(s) == arg[s].x * max_records + cursor[s]

(* One turn of hashing's loop: the nonce and its hash go into hashes[i].   *)
HashRecord(s) ==
  /\ Running(s, "hashing") /\ cursor[s] < end_index(s) /\ memory # "null"
  /\ hashes' = [hashes EXCEPT ![cursor[s]] = HashedNonce(s)]
  /\ cursor' = [cursor EXCEPT ![s] = @ + 1]
  /\ UNCHANGED <<shared, j, k, thread, arg, memory>>

HashReturn(s) ==
  /\ Running(s, "hashing") /\ cursor[s] >= end_index(s)
  /\ Exit(s)
  /\ UNCHANGED <<shared, j, k, arg, cursor, hashes, memory>>

(* The first store into a hashes that malloc did not return.               *)
NullStore(s) ==
  /\ Running(s, "hashing") /\ cursor[s] < end_index(s) /\ memory = "null"
  /\ Crash

(* qsort leaves some rearrangement of the slice that is sorted by hash;    *)
(* records of one hash may end up in either order.                         *)
Rearrangements(S) == {p \in [S -> S] : \A m, n \in S : m # n => p[m] # p[n]}

QSort(s) ==
  /\ Running(s, "sorting")
  /\ \E p \in Rearrangements(Touches(s)) :
       LET moved == [c \in Touches(s) |-> hashes[p[c]]] IN
       /\ SortedByHash(moved)
       /\ hashes' = [c \in Cell |-> IF c \in Touches(s) THEN moved[c] ELSE hashes[c]]
  /\ Exit(s)
  /\ UNCHANGED <<shared, j, k, arg, cursor, memory>>

Writer(s) == s[1] \in {"writing_write", "writing_sort"}

(* fopen(filename, "wb") creates the bucket or empties it; when it fails   *)
(* the thread returns and main is not told.                                *)
OpenBucket(s) ==
  /\ Writer(s) /\ thread[s] = "running"
  /\ \/ bucket' = BucketsWith(bucket_no(s), <<>>)
        /\ thread' = [thread EXCEPT ![s] = "writing"]
     \/ "open" \in Faults /\ Exit(s) /\ UNCHANGED bucket
  /\ UNCHANGED <<pc, spawned, joined, no_files, j, k, arg, cursor, hashes, memory>>

SliceRecords(s) ==
  [n \in 1 .. (end_index(s) - start_index(s)) |-> hashes[start_index(s) + n - 1]]

(* fwrite and fclose; nobody looks at how many records were stored.        *)
WriteBucket(s) ==
  /\ Writer(s) /\ thread[s] = "writing"
  /\ \/ bucket' = BucketsWith(bucket_no(s), SliceRecords(s))
     \/ /\ "short" \in Faults
        /\ \E n \in 0 .. (Len(SliceRecords(s)) - 1) :
             bucket' = BucketsWith(bucket_no(s), SubSeq(SliceRecords(s), 1, n))
  /\ Exit(s)
  /\ UNCHANGED <<pc, spawned, joined, no_files, j, k, arg, cursor, hashes, memory>>

Worker(s) ==
  \/ HashRecord(s) \/ HashReturn(s) \/ NullStore(s)
  \/ QSort(s)
  \/ OpenBucket(s) \/ WriteBucket(s)

Step == Main \/ \E s \in Slot : Worker(s)

(* Seen on its own, the phase is over when main goes on to ExternalSort.    *)
Over == pc \in {"ExternalSort", "crashed"} /\ UNCHANGED vars

Next == Step \/ Over

(* The kernel schedules every thread that can run; pthread_join and the    *)
(* C library calls return.                                                 *)
Fairness == WF_vars(Main) /\ \A s \in Slot : WF_vars(Worker(s))

Spec == Init /\ [][Next]_vars /\ Fairness

-----------------------------------------------------------------------------
(* Properties *)

TypeOK ==
  /\ pc \in Role \cup {"malloc", "free", "ExternalSort", "crashed"}
  /\ spawned \in Nat /\ joined \in Nat /\ no_files \in Nat
  /\ j \in Nat /\ k \in Nat
  /\ thread \in [Slot -> {"none", "running", "writing", "exited"}]
  /\ arg \in [Slot -> Argument]
  /\ cursor \in [Slot -> Nat]
  /\ hashes \in [Cell -> Nonce \cup {Garbage}]
  /\ memory \in {"freed", "null", "live"}
  /\ \A b \in DOMAIN bucket : b \in Nat /\ bucket[b] \in Seq(Nonce \cup {Garbage})

Busy(s) == thread[s] \in {"running", "writing"}

(* Threads that run at the same time never touch the same record of the    *)
(* array, whatever their roles, and never write the same bucket file: the  *)
(* program takes no lock, so this is all that keeps it free of data races. *)
RaceFree ==
  \A s, t \in Slot : s # t /\ Busy(s) /\ Busy(t) =>
    /\ Touches(s) \cap Touches(t) = {}
    /\ Writer(s) /\ Writer(t) => bucket_no(s) # bucket_no(t)

(* No thread works on memory that main has freed, nor beyond the array.    *)
MemorySafe ==
  \A s \in Slot : Busy(s) => memory # "freed" /\ Touches(s) \subseteq Cell

(* When the first sorting thread starts, the hashing threads have produced *)
(* between them every nonce of this iteration; neither sorting nor writing *)
(* loses or repeats one.                                                   *)
FilledBeforeSort ==
  pc \in {"sorting", "writing_write", "writing_sort", "free"} =>
    {hashes[c] : c \in Cell} = (j * max_records) .. (j * max_records + max_records - 1)

(* The options for which what one writer stores lies inside what one       *)
(* sorting thread sorted.                                                  *)
Aligned ==
  \/ write_threads >= sort_threads
  \/ sort_threads % write_threads = 0 /\ max_records % sort_threads = 0

(* "Individually sorted buckets": what the merge of ExternalSort relies on,*)
(* also for a bucket a failing write left incomplete.                      *)
BucketsSorted == Aligned => \A b \in DOMAIN bucket : SortedByHash(bucket[b])

(* The options for which the rounds of writing_sort reach the whole array. *)
NoRemainder ==
  write_threads >= sort_threads \/ max_records % write_iter = 0

PlacesOf(n) ==
  {p \in UNION {{b} \X DOMAIN bucket[b] : b \in DOMAIN bucket} : bucket[p[1]][p[2]] = n}

(* No nonce is ever stored twice, by two threads, two rounds or two        *)
(* iterations, and once an iteration is over each of its nonces is in      *)
(* exactly one place of one bucket, unless a file could not be written.    *)
StoredOnce ==
  /\ \A n \in Nonce : Cardinality(PlacesOf(n)) <= 1
  /\ Faults \subseteq {"malloc"} /\ NoRemainder =>
       \A n \in Nonce : n < j * max_records => PlacesOf(n) # {}

(* The buckets are numbered 0 .. no_files - 1 when the external sort takes *)
(* over: it opens exactly these, and delete_bins removes exactly these.    *)
Numbered ==
  /\ pc = "ExternalSort"
  /\ "open" \notin Faults
  /\ write_threads >= sort_threads \/ sort_threads % write_threads = 0
  => DOMAIN bucket = 0 .. (no_files - 1)

(* A bucket that was closed is never touched again: later rounds and later *)
(* iterations use numbers of their own, so "wb" never empties one.         *)
BucketsFinal ==
  [][\A b \in DOMAIN bucket :
       \/ b \in DOMAIN bucket' /\ bucket'[b] = bucket[b]
       \/ \E s \in Slot : Writer(s) /\ thread[s] = "writing" /\ bucket_no(s) = b]_vars

(* Every iteration ends: main never waits for a thread that cannot exit.   *)
LeavesLoop == <>(pc = "ExternalSort")

=============================================================================
