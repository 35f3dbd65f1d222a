---------------------------- MODULE HashgenProofs ----------------------------
(***************************************************************************)
(* What the program guarantees as a whole, killed at any point and started *)
(* again in the directory it left: the results of its two phases, each     *)
(* proved on its own, meet in the bucket files.                            *)
(***************************************************************************)
EXTENDS Hashgen, FiniteSetTheorems, FunctionTheorems, SequenceTheorems, TLAPS

(* The buckets of runs with the options of this one; those of other runs   *)
(* are emptied before anything is written to them.                         *)
ours == [b \in DOMAIN bucket \ foreign |-> bucket[b]]

(* What is proved of the generating phase.                                 *)
GP == INSTANCE RecordProofs WITH bucket <- ours

(* The merge finds an empty bucket where a file could not be created: it   *)
(* may fail to open it all the same.                                       *)
here == [f \in E!Files |-> IF f \in DOMAIN bucket THEN bucket[f] ELSE <<>>]

EP == INSTANCE MergeProofs WITH bucket <- here, FileCounts <- {}

-----------------------------------------------------------------------------
(* The actions of the phases, in the program and on their own *)

LEMMA SameGenerate ==
  /\ G!Slot = GP!Slot /\ G!Cell = GP!Cell /\ G!Role = GP!Role /\ G!Garbage = GP!Garbage
  /\ G!iterations = GP!iterations /\ iterations = GP!iterations
  /\ G!write_iter = GP!write_iter /\ G!write_segment = GP!write_segment
  /\ \A r : G!ThreadCount(r) = GP!ThreadCount(r)
  /\ \A m, t, n : /\ G!SliceStart(m, t, n) = GP!SliceStart(m, t, n)
                  /\ G!SliceEnd(m, t, n) = GP!SliceEnd(m, t, n)
  /\ Nonce = GP!Nonce
<1>1. \A r : G!ThreadCount(r) = GP!ThreadCount(r)
  BY DEF G!ThreadCount, GP!ThreadCount
<1>2. \A r, n : {r} \X (0 .. (G!ThreadCount(r) - 1)) = {r} \X (0 .. (GP!ThreadCount(r) - 1))
  BY <1>1
<1>3. G!Slot = GP!Slot
  BY <1>1 DEF G!Slot, GP!Slot, G!Role, GP!Role
<1>4. G!write_iter = GP!write_iter /\ G!write_segment = GP!write_segment
  BY DEF G!write_iter, GP!write_iter, G!write_segment, GP!write_segment
<1>5. \A m, t, n : /\ G!SliceStart(m, t, n) = GP!SliceStart(m, t, n)
                   /\ G!SliceEnd(m, t, n) = GP!SliceEnd(m, t, n)
  BY DEF G!SliceStart, GP!SliceStart, G!SliceEnd, GP!SliceEnd, G!PerThread, GP!PerThread
<1> QED
  BY <1>1, <1>3, <1>4, <1>5
     DEF G!Cell, GP!Cell, G!Role, GP!Role, G!Garbage, GP!Garbage, G!iterations, GP!iterations,
         iterations, Nonce, GP!Nonce

LEMMA SameSlices ==
  /\ \A s : G!start_index(s) = GP!start_index(s) /\ G!end_index(s) = GP!end_index(s)
  /\ \A s : G!Touches(s) = GP!Touches(s) /\ G!bucket_no(s) = GP!bucket_no(s)
  /\ \A s : G!SliceRecords(s) = GP!SliceRecords(s)
  /\ \A s : G!SortedByHash(s) = GP!SortedByHash(s)
<1>1. \A s : G!SegmentSize(s[1]) = GP!SegmentSize(s[1]) /\ G!SegmentStart(s) = GP!SegmentStart(s)
  BY SameGenerate DEF G!SegmentSize, GP!SegmentSize, G!SegmentStart, GP!SegmentStart
<1>2. \A s : G!start_index(s) = GP!start_index(s) /\ G!end_index(s) = GP!end_index(s)
  BY <1>1, SameGenerate DEF G!start_index, GP!start_index, G!end_index, GP!end_index
<1>3. \A s : G!Touches(s) = GP!Touches(s)
  BY <1>2 DEF G!Touches, GP!Touches
<1>4. \A s : G!bucket_no(s) = GP!bucket_no(s)
  BY DEF G!bucket_no, GP!bucket_no
<1>5. \A s : G!SliceRecords(s) = GP!SliceRecords(s)
  BY <1>2 DEF G!SliceRecords, GP!SliceRecords
<1>6. \A s : G!SortedByHash(s) = GP!SortedByHash(s)
  BY DEF G!SortedByHash, GP!SortedByHash
<1> QED
  BY <1>2, <1>3, <1>4, <1>5, <1>6

LEMMA OursKept ==
  ASSUME bucket' = bucket, foreign' = foreign
  PROVE  ours' = ours
  BY DEF ours

(* A bucket that is written becomes one of ours.                           *)
LEMMA OursWritten ==
  ASSUME NEW b, NEW recs, bucket' = G!BucketsWith(b, recs), foreign' = foreign \ {b}
  PROVE  ours' = GP!BucketsWith(b, recs)
<1>1. DOMAIN bucket' = DOMAIN bucket \cup {b} /\ DOMAIN ours = DOMAIN bucket \ foreign
  BY DEF G!BucketsWith, ours
<1>2. DOMAIN bucket' \ foreign' = DOMAIN ours \cup {b}
  BY <1>1
<1>3. \A c \in DOMAIN ours \cup {b} : bucket'[c] = IF c = b THEN recs ELSE ours[c]
  BY <1>1 DEF G!BucketsWith, ours
<1>4. ours' = [c \in DOMAIN ours \cup {b} |-> bucket'[c]]
  BY <1>2 DEF ours
<1> QED
  BY <1>3, <1>4 DEF GP!BucketsWith

LEMMA MainKeepsBuckets == G!Main => bucket' = bucket
  BY DEF G!Main, G!Malloc, G!LeaveLoop, G!Create, G!NoArgument, G!Crash, G!Join,
     G!HashingDone, G!SortingDone, G!WritingWriteDone, G!WritingSortDone, G!Free

LEMMA GeneratingMain == GenerateMain => GP!Main
<1> SUFFICES ASSUME GenerateMain PROVE GP!Main
  OBVIOUS
<1>0. G!Main /\ ours' = ours
  BY MainKeepsBuckets, OursKept DEF GenerateMain
<1> USE SameGenerate, <1>0
<1>1. G!Malloc => GP!Malloc
  BY DEF G!Malloc, GP!Malloc
<1>2. G!LeaveLoop => GP!LeaveLoop
  BY DEF G!LeaveLoop, GP!LeaveLoop, G!own, GP!own
<1>3. G!Create => GP!Create
  BY DEF G!Create, GP!Create, G!MoreToCreate, GP!MoreToCreate
<1>4. G!NoArgument => GP!NoArgument
  BY DEF G!NoArgument, GP!NoArgument, G!MoreToCreate, GP!MoreToCreate, G!Crash, GP!Crash
<1>5. G!Join => GP!Join
  BY DEF G!Join, GP!Join
<1>6. G!HashingDone => GP!HashingDone
  BY DEF G!HashingDone, GP!HashingDone, G!AllJoined, GP!AllJoined, G!own, GP!own
<1>7. G!SortingDone => GP!SortingDone
  BY DEF G!SortingDone, GP!SortingDone, G!AllJoined, GP!AllJoined
<1>8. G!WritingWriteDone => GP!WritingWriteDone
  BY DEF G!WritingWriteDone, GP!WritingWriteDone, G!AllJoined, GP!AllJoined, G!BucketsAdded,
         GP!BucketsAdded, G!own, GP!own
<1>9. G!WritingSortDone => GP!WritingSortDone
  BY DEF G!WritingSortDone, GP!WritingSortDone, G!AllJoined, GP!AllJoined, G!BucketsAdded,
         GP!BucketsAdded, G!NextRound, GP!NextRound
<1>10. G!Free => GP!Free
  BY DEF G!Free, GP!Free
<1> QED
  BY <1>1, <1>2, <1>3, <1>4, <1>5, <1>6, <1>7, <1>8, <1>9, <1>10 DEF G!Main, GP!Main

LEMMA GeneratingWorker ==
  ASSUME NEW s \in G!Slot, GenerateWorker(s), DOMAIN thread = G!Slot
  PROVE  s \in GP!Slot /\ GP!Worker(s)
<1>0. /\ G!Worker(s)
      /\ "writing" \notin {thread[s], thread'[s]} => foreign' = foreign
      /\ "writing" \in {thread[s], thread'[s]} => foreign' = foreign \ {G!bucket_no(s)}
  BY DEF GenerateWorker
<1>a. ASSUME G!HashRecord(s) \/ G!HashReturn(s) \/ G!NullStore(s) \/ G!QSort(s) PROVE ours' = ours
  <2>1. bucket' = bucket /\ "writing" \notin {thread[s], thread'[s]}
    BY <1>a DEF G!HashRecord, G!HashReturn, G!NullStore, G!QSort, G!Running, G!Exit, G!Crash,
       G!shared
  <2> QED
    BY <1>0, <2>1, OursKept
<1> USE SameGenerate, SameSlices
<1>1. G!HashRecord(s) => GP!HashRecord(s)
  BY <1>a DEF G!HashRecord, GP!HashRecord, G!Running, GP!Running, G!HashedNonce, GP!HashedNonce,
         G!shared, GP!shared
<1>2. G!HashReturn(s) => GP!HashReturn(s)
  BY <1>a DEF G!HashReturn, GP!HashReturn, G!Running, GP!Running, G!Exit, GP!Exit, G!shared, GP!shared
<1>3. G!NullStore(s) => GP!NullStore(s)
  BY <1>a DEF G!NullStore, GP!NullStore, G!Running, GP!Running, G!Crash, GP!Crash
<1>4. ASSUME G!QSort(s) PROVE GP!QSort(s)
  <2>1. PICK p \in G!Rearrangements(G!Touches(s)) :
          /\ G!SortedByHash([c \in G!Touches(s) |-> hashes[p[c]]])
          /\ hashes' = [c \in G!Cell |->
               IF c \in G!Touches(s) THEN [d \in G!Touches(s) |-> hashes[p[d]]][c] ELSE hashes[c]]
    BY <1>4 DEF G!QSort
  <2>2. p \in GP!Rearrangements(GP!Touches(s))
    BY <2>1 DEF G!Rearrangements, GP!Rearrangements
  <2>3. /\ GP!SortedByHash([c \in GP!Touches(s) |-> hashes[p[c]]])
        /\ hashes' = [c \in GP!Cell |->
             IF c \in GP!Touches(s) THEN [d \in GP!Touches(s) |-> hashes[p[d]]][c] ELSE hashes[c]]
    BY <2>1
  <2>4. /\ GP!Running(s, "sorting") /\ GP!Exit(s)
        /\ UNCHANGED <<GP!shared, j, k, arg, cursor, memory>>
    BY <1>4, <1>a DEF G!QSort, G!Running, GP!Running, G!Exit, GP!Exit, G!shared, GP!shared
  <2> QED
    BY <2>2, <2>3, <2>4 DEF GP!QSort
<1>5. ASSUME G!OpenBucket(s) PROVE GP!OpenBucket(s)
  <2>1. CASE thread' = [thread EXCEPT ![s] = "writing"] /\ bucket' = G!BucketsWith(G!bucket_no(s), <<>>)
    <3>1. ours' = GP!BucketsWith(GP!bucket_no(s), <<>>)
      BY <1>0, <2>1, OursWritten
    <3> QED
      BY <1>5, <2>1, <3>1 DEF G!OpenBucket, GP!OpenBucket, G!Writer, GP!Writer
  <2>2. CASE "open" \in Faults /\ G!Exit(s) /\ bucket' = bucket
    <3>1. "writing" \notin {thread[s], thread'[s]}
      BY <1>5, <2>2 DEF G!OpenBucket, G!Exit
    <3>2. ours' = ours
      BY <1>0, <2>2, <3>1, OursKept
    <3> QED
      BY <1>5, <2>2, <3>2 DEF G!OpenBucket, GP!OpenBucket, G!Writer, GP!Writer, G!Exit, GP!Exit
  <2> QED
    BY <1>5, <2>1, <2>2 DEF G!OpenBucket
<1>6. ASSUME G!WriteBucket(s) PROVE GP!WriteBucket(s)
  <2>1. thread[s] = "writing" /\ GP!Writer(s) /\ GP!Exit(s)
        /\ UNCHANGED <<pc, spawned, joined, no_files, j, k, arg, cursor, hashes, memory>>
    BY <1>6 DEF G!WriteBucket, G!Writer, GP!Writer, G!Exit, GP!Exit
  <2>2. foreign' = foreign \ {G!bucket_no(s)}
    BY <1>0, <2>1
  <2>3. CASE bucket' = G!BucketsWith(G!bucket_no(s), G!SliceRecords(s))
    <3>1. ours' = GP!BucketsWith(GP!bucket_no(s), GP!SliceRecords(s))
      BY <2>2, <2>3, OursWritten
    <3> QED
      BY <2>1, <3>1 DEF GP!WriteBucket
  <2>4. ASSUME "short" \in Faults, NEW n \in 0 .. (Len(G!SliceRecords(s)) - 1),
               bucket' = G!BucketsWith(G!bucket_no(s), SubSeq(G!SliceRecords(s), 1, n))
        PROVE  GP!WriteBucket(s)
    <3>1. ours' = GP!BucketsWith(GP!bucket_no(s), SubSeq(GP!SliceRecords(s), 1, n))
      BY <2>2, <2>4, OursWritten
    <3>2. n \in 0 .. (Len(GP!SliceRecords(s)) - 1)
      OBVIOUS
    <3> QED
      BY <2>1, <2>4, <3>1, <3>2 DEF GP!WriteBucket
  <2> QED
    BY <1>6, <2>3, <2>4 DEF G!WriteBucket
<1> QED
  BY <1>0, <1>1, <1>2, <1>3, <1>4, <1>5, <1>6 DEF G!Worker, GP!Worker

LEMMA GeneratingStep ==
  ASSUME Generating, DOMAIN thread = G!Slot
  PROVE  G!Step /\ GP!Step
<1>1. CASE GenerateMain
  BY <1>1, GeneratingMain DEF GenerateMain, G!Step, GP!Step
<1>2. CASE \E s \in G!Slot : GenerateWorker(s)
  <2>1. PICK s \in G!Slot : GenerateWorker(s)
    BY <1>2
  <2>2. G!Worker(s) /\ s \in GP!Slot /\ GP!Worker(s)
    BY <2>1, GeneratingWorker DEF GenerateWorker
  <2> QED
    BY <2>2 DEF G!Step, GP!Step
<1> QED
  BY <1>1, <1>2 DEF Generating

(* A bucket is either ours after a step of the phase or as it was.         *)
LEMMA GeneratedFiles ==
  ASSUME Generating, DOMAIN thread = G!Slot
  PROVE  /\ foreign' \subseteq foreign
         /\ \A b \in DOMAIN bucket' :
              b \in DOMAIN ours' \/ (b \in DOMAIN bucket /\ bucket'[b] = bucket[b])
<1>1. foreign' \subseteq foreign
  BY DEF Generating, GenerateMain, GenerateWorker
<1>2. DOMAIN ours' = DOMAIN bucket' \ foreign'
  BY DEF ours
<1>3. CASE bucket' = bucket
  BY <1>1, <1>3
<1>4. ASSUME NEW s \in G!Slot, GenerateWorker(s), bucket' # bucket, NEW b \in DOMAIN bucket'
      PROVE  b \in DOMAIN ours' \/ (b \in DOMAIN bucket /\ bucket'[b] = bucket[b])
  <2>1. /\ thread[s] = "writing" \/ thread'[s] = "writing"
        /\ \E recs : bucket' = G!BucketsWith(G!bucket_no(s), recs)
    BY <1>4 DEF GenerateWorker, G!Worker, G!HashRecord, G!HashReturn, G!NullStore, G!Crash,
       G!QSort, G!OpenBucket, G!WriteBucket, G!shared
  <2>2. G!bucket_no(s) \notin foreign'
    BY <1>4, <2>1 DEF GenerateWorker
  <2>3. b # G!bucket_no(s) => b \in DOMAIN bucket /\ bucket'[b] = bucket[b]
    BY <1>4, <2>1 DEF G!BucketsWith
  <2> QED
    BY <1>2, <1>4, <2>2, <2>3
<1>5. CASE GenerateMain
  BY <1>3, <1>5, MainKeepsBuckets DEF GenerateMain
<1>6. CASE \E s \in G!Slot : GenerateWorker(s)
  BY <1>1, <1>3, <1>4, <1>6
<1> QED
  BY <1>1, <1>5, <1>6 DEF Generating

LEMMA SameMerge ==
  /\ E!Files = EP!Files /\ E!divider = EP!divider /\ E!records_per_read = EP!records_per_read
  /\ E!batch_size = EP!batch_size /\ E!loops = EP!loops /\ E!Candidates = EP!Candidates
  /\ E!MoreLoaders = EP!MoreLoaders /\ E!MoreBatches = EP!MoreBatches
  /\ \A i : E!file_no(i) = EP!file_no(i)
<1>1. E!Files = EP!Files /\ E!divider = EP!divider
  BY DEF E!Files, EP!Files, E!divider, EP!divider
<1>2. E!records_per_read = EP!records_per_read
  BY <1>1 DEF E!records_per_read, EP!records_per_read
<1>3. E!batch_size = EP!batch_size /\ E!loops = EP!loops
  BY DEF E!batch_size, EP!batch_size, E!loops, EP!loops
<1>4. E!Candidates = EP!Candidates
  BY <1>1, <1>2 DEF E!Candidates, EP!Candidates
<1>5. E!MoreLoaders = EP!MoreLoaders /\ E!MoreBatches = EP!MoreBatches
  BY <1>3 DEF E!MoreLoaders, EP!MoreLoaders, E!MoreBatches, EP!MoreBatches
<1>6. \A i : E!file_no(i) = EP!file_no(i)
  BY DEF E!file_no, EP!file_no
<1> QED
  BY <1>1, <1>2, <1>3, <1>4, <1>5, <1>6

(* What the merge reads of a bucket that exists.                           *)
LEMMA SameBucket ==
  ASSUME NEW f \in E!Files, f \in DOMAIN bucket
  PROVE  /\ here[f] = bucket[f] /\ E!Current(f) = EP!Current(f)
         /\ (E!Full(f) <=> EP!Full(f))
<1>1. here[f] = bucket[f]
  BY DEF here
<1>2. E!Current(f) = EP!Current(f)
  BY <1>1, SameMerge DEF E!Current, EP!Current
<1>3. E!Full(f) <=> EP!Full(f)
  BY <1>1, SameMerge DEF E!Full, EP!Full
<1> QED
  BY <1>1, <1>2, <1>3

LEMMA HereKept ==
  ASSUME bucket' = bucket, no_files' = no_files
  PROVE  here' = here
<1>1. E!Files' = E!Files
  BY DEF E!Files
<1> QED
  BY <1>1 DEF here

(* A chunk in memory comes from a bucket that exists.                      *)
LEMMA CandidateExists ==
  ASSUME EP!IInv, pc = "merge", NEW f \in E!Candidates
  PROVE  f \in E!Files /\ f \in DOMAIN bucket
<1>1. f \in EP!Candidates
  BY SameMerge
<1>2. /\ f \in EP!Files /\ EP!records_per_read \in Nat \ {0}
      /\ read[f] \in Nat /\ EP!records_per_read <= read[f] /\ read[f] <= Len(here[f])
      /\ Len(here[f]) \in Nat
  BY <1>1, ConfigAssumption, HashAssumption, FaultsAssumption, EP!CurrentTyped
     DEF EP!Nonce, Nonce
<1>3. Len(here[f]) # 0
  BY <1>2
<1>4. f \in E!Files
  BY <1>2, SameMerge
<1>5. f \notin DOMAIN bucket => here[f] = <<>>
  BY <1>4 DEF here
<1>6. Len(<<>>) = 0
  OBVIOUS
<1> QED
  BY <1>3, <1>4, <1>5, <1>6

LEMMA SameChoice ==
  ASSUME EP!IInv, pc = "merge", E!Candidates # {}
  PROVE  /\ E!small_idx = EP!small_idx /\ E!small_idx \in E!Candidates
         /\ E!Current(E!small_idx) = EP!Current(EP!small_idx)
<1> DEFINE Less(e) == \A g \in E!Candidates :
             \/ Hash[E!Current(e)] < Hash[E!Current(g)]
             \/ Hash[E!Current(e)] = Hash[E!Current(g)] /\ e <= g
           f == EP!small_idx
<1>1. EP!Candidates # {}
  BY SameMerge
<1>2. /\ f \in EP!Candidates
      /\ \A g \in EP!Candidates :
           \/ Hash[EP!Current(f)] < Hash[EP!Current(g)]
           \/ Hash[EP!Current(f)] = Hash[EP!Current(g)] /\ f <= g
      /\ \A g \in EP!Candidates : g \in Nat /\ EP!Current(g) \in Nonce
  <2>1. \A g \in EP!Candidates : g \in Nat /\ EP!Current(g) \in Nonce
    BY ConfigAssumption, HashAssumption, FaultsAssumption, EP!CurrentTyped DEF EP!Nonce, Nonce
  <2>2. /\ f \in EP!Candidates
        /\ \A g \in EP!Candidates :
             \/ Hash[EP!Current(f)] < Hash[EP!Current(g)]
             \/ Hash[EP!Current(f)] = Hash[EP!Current(g)] /\ f <= g
    BY <1>1, ConfigAssumption, HashAssumption, FaultsAssumption, EP!SmallIdx DEF EP!Nonce, Nonce
  <2> QED
    BY <2>1, <2>2
<1> HIDE DEF f
<1>3. \A g \in E!Candidates : /\ g \in Nat /\ E!Current(g) = EP!Current(g)
                              /\ Hash[E!Current(g)] \in Nat
  BY <1>2, SameMerge, SameBucket, CandidateExists, HashAssumption
<1>4. f \in E!Candidates /\ Less(f)
  BY <1>2, <1>3, SameMerge
<1>5. E!small_idx = CHOOSE e \in E!Candidates : Less(e)
  BY DEF E!small_idx
<1>6. E!small_idx \in E!Candidates /\ Less(E!small_idx)
  <2> HIDE DEF Less
  <2> QED
    BY <1>4, <1>5
<1>7. ASSUME NEW e \in E!Candidates, Less(e) PROVE e = f
  <2>1. \/ Hash[E!Current(e)] < Hash[E!Current(f)]
        \/ Hash[E!Current(e)] = Hash[E!Current(f)] /\ e <= f
    BY <1>4, <1>7
  <2>2. \/ Hash[E!Current(f)] < Hash[E!Current(e)]
        \/ Hash[E!Current(f)] = Hash[E!Current(e)] /\ f <= e
    BY <1>4, <1>7
  <2>3. e \in Nat /\ f \in Nat /\ Hash[E!Current(e)] \in Nat /\ Hash[E!Current(f)] \in Nat
    BY <1>3, <1>4
  <2> QED
    BY <2>1, <2>2, <2>3
<1>8. E!small_idx = f
  <2> HIDE DEF Less
  <2> QED
    BY <1>6, <1>7
<1> QED
  BY <1>3, <1>4, <1>8 DEF f

(* A bucket is only missing when one could not be created.                 *)
Missing == \A f \in E!Files : f \notin DOMAIN bucket => "open" \in Faults

LEMMA MergingMerge == EP!IInv /\ E!MergeStep => EP!MergeStep
<1> SUFFICES ASSUME EP!IInv, E!MergeStep PROVE EP!MergeStep
  OBVIOUS
<1>1. pc = "merge" /\ E!Candidates # {} /\ UNCHANGED <<bucket, no_files>>
  BY DEF E!MergeStep
<1>2. /\ E!small_idx = EP!small_idx /\ E!Current(E!small_idx) = EP!Current(EP!small_idx)
      /\ E!small_idx \in E!Files /\ E!small_idx \in DOMAIN bucket
  BY <1>1, SameChoice, CandidateExists
<1>3. here' = here
  BY <1>1, HereKept
<1>4. E!Refill(E!small_idx) => EP!Refill(EP!small_idx)
  BY <1>2, SameMerge, SameBucket DEF E!Refill, EP!Refill
<1>5. \A recs : E!Flush(recs) => EP!Flush(recs)
  BY DEF E!Flush, EP!Flush
<1> QED
  BY <1>1, <1>2, <1>3, <1>4, <1>5, SameMerge DEF E!MergeStep, EP!MergeStep

LEMMA MergingLoad ==
  ASSUME EP!IInv, Missing, NEW f \in DOMAIN loader, E!LoadFile(f)
  PROVE  EP!LoadFile(f)
<1>1. pc = "load" /\ loader[f] = "running" /\ UNCHANGED <<bucket, no_files>>
  BY DEF E!LoadFile
<1>2. f \in EP!Files /\ f \in E!Files
  BY <1>1, SameMerge DEF EP!IInv, EP!Started, EP!LoaderInv
<1>3. here' = here
  BY <1>1, HereKept
<1>4. EP!Exists(f)
  BY <1>2 DEF EP!Exists, here
<1>5. E!Exists(f) <=> f \in DOMAIN bucket
  BY DEF E!Exists
<1>6. f \in DOMAIN bucket => (E!Full(f) <=> EP!Full(f))
  BY <1>2, SameBucket
<1>7. f \notin DOMAIN bucket => "open" \in Faults
  BY <1>2 DEF Missing
<1> QED
  BY <1>1, <1>3, <1>4, <1>5, <1>6, <1>7, SameMerge DEF E!LoadFile, EP!LoadFile

LEMMA MergingStep == EP!IInv /\ Missing /\ E!Step => EP!Next
<1> SUFFICES ASSUME EP!IInv, Missing, E!Step PROVE EP!Next
  OBVIOUS
<1> USE SameMerge
<1>1. CASE E!Begin
  <2>1. here' = here
    BY <1>1, HereKept DEF E!Begin
  <2>2. EP!Begin
    BY <1>1, <2>1 DEF E!Begin, EP!Begin
  <2> QED
    BY <2>2 DEF EP!Next, EP!Step, EP!Main
<1>2. CASE E!CreateLoader \/ E!NoArgument \/ E!JoinLoader \/ E!BatchDone
  <2>1. here' = here
    BY <1>2, HereKept DEF E!CreateLoader, E!NoArgument, E!JoinLoader, E!BatchDone
  <2>2. E!CreateLoader => EP!CreateLoader
    BY <2>1 DEF E!CreateLoader, EP!CreateLoader
  <2>3. E!NoArgument => EP!NoArgument
    BY <2>1 DEF E!NoArgument, EP!NoArgument, E!own, EP!own
  <2>4. E!JoinLoader => EP!JoinLoader
    BY <2>1 DEF E!JoinLoader, EP!JoinLoader
  <2>5. E!BatchDone => EP!BatchDone
    BY <2>1 DEF E!BatchDone, EP!BatchDone
  <2> QED
    BY <1>2, <2>2, <2>3, <2>4, <2>5 DEF EP!Next, EP!Step, EP!Main
<1>3. CASE E!OpenOutput \/ E!WildRead \/ E!MergeDone \/ E!Drain
  <2>1. here' = here
    BY <1>3, HereKept DEF E!OpenOutput, E!WildRead, E!MergeDone, E!Drain
  <2>2. E!OpenOutput => EP!OpenOutput
    BY <2>1 DEF E!OpenOutput, EP!OpenOutput
  <2>3. E!WildRead => EP!WildRead
    BY <2>1 DEF E!WildRead, EP!WildRead, E!own, EP!own
  <2>4. E!MergeDone => EP!MergeDone
    BY <2>1 DEF E!MergeDone, EP!MergeDone, E!own, EP!own
  <2>5. E!Drain => EP!Drain
    BY <2>1 DEF E!Drain, EP!Drain, E!Flush, EP!Flush
  <2> QED
    BY <1>3, <2>2, <2>3, <2>4, <2>5 DEF EP!Next, EP!Step, EP!Main
<1>4. CASE E!MergeStep
  BY <1>4, MergingMerge DEF EP!Next, EP!Step, EP!Main
<1>5. CASE E!Loading
  BY <1>5, MergingLoad DEF E!Loading, EP!Loading, EP!Next, EP!Step
<1> QED
  BY <1>1, <1>2, <1>3, <1>4, <1>5 DEF E!Step, E!Main

-----------------------------------------------------------------------------
(* The invariant of the program *)

Generation == {"malloc", "free"} \cup GP!Role
Merge == {"load", "open_output", "merge", "drain"}

(* The output of a run is not appended to that of an earlier one, and every*)
(* bucket it merges is written by a run with its options.                  *)
Clean == (RemovesOutput \/ MaxRuns = 1) /\ ("open" \notin Faults \/ OtherRuns = {})

BucketFile == 0 .. (BucketCount - 1)

ProcessInv ==
  /\ pc \in Generation \cup {"ExternalSort"} \cup Merge \cup {"delete_bins"} \cup Ended
  /\ runs \in Nat \ {0} /\ removed \in Nat
  /\ output \in Seq(Nonce) /\ sorted \in Seq(Nonce)
  /\ pc \notin Generation => \A s \in GP!Slot : thread[s] = "none"
  /\ Faults = {} => memory # "null"

(* Whichever of the runs with these options wrote them, our files hold     *)
(* sorted records, none twice.                                             *)
OursInv == GP!KnownInv /\ GP!BucketsSorted

DirectoryInv ==
  /\ OursInv
  /\ \A b \in DOMAIN bucket : b \in Nat /\ bucket[b] \in Seq(Nonce)
  /\ OtherRuns = {} => foreign = {}

(* The generating phase has written every bucket it could open.            *)
AllWritten == \A b \in BucketFile : GP!Complete(ours, b)

GenerationInv ==
  pc \in Generation \cup {"ExternalSort"} =>
    /\ GP!IInv /\ GP!FillInv /\ GP!SortInv /\ GP!DirectoryInv
    /\ batch = 0 /\ sorted = <<>> /\ out_open = FALSE /\ output = <<>>
    /\ removed = 0
    /\ pc = "ExternalSort" => spawned = 0 /\ joined = 0

MergeInv ==
  pc \in {"ExternalSort"} \cup Merge =>
    /\ EP!IInv /\ EP!OnceInv /\ EP!MergeOrder
    /\ no_files = BucketCount /\ removed = 0
    /\ AllWritten

(* What is written stays in order while the buckets are removed.           *)
WrittenInv ==
  pc \in {"delete_bins", "exit"} =>
    /\ sorted = <<>> /\ SortedByHash(output) /\ GP!NoneTwice(output)
    /\ no_files = BucketCount
    /\ Undisturbed => Image(output) = Nonce
    /\ \A b \in DOMAIN bucket : removed <= b
    /\ pc = "exit" => BucketCount <= removed

ProgramInv ==
  /\ ProcessInv /\ DirectoryInv /\ GenerationInv /\ MergeInv /\ WrittenInv
  /\ Undisturbed => pc \notin {"failed", "crashed", "undefined"}

(* The inductive invariant: for the options with which a bucket is a       *)
(* sorted slice.                                                           *)
PInv == G!Aligned /\ Clean => ProgramInv

-----------------------------------------------------------------------------
(* What is known of the phases *)

LEMMA SameAligned == (G!Aligned <=> GP!Aligned) /\ BucketCount = GP!iterations * sort_threads
  BY SameGenerate DEF G!Aligned, GP!Aligned, BucketCount

LEMMA BucketCountTyped == BucketCount \in Nat
<1>1. total_hash_count \in Nat /\ max_records \in Nat \ {0} /\ sort_threads \in Nat \ {0}
  BY ConfigAssumption
<1>2. iterations \in Nat
  BY <1>1 DEF iterations
<1> QED
  BY <1>1, <1>2 DEF BucketCount

LEMMA KnownBuckets ==
  ASSUME GP!KnownInv
  PROVE  /\ \A b \in DOMAIN ours : b \in BucketFile /\ b \in Nat /\ ours[b] \in Seq(Nonce)
         /\ \A b, c \in DOMAIN ours : \A m \in DOMAIN ours[b], n \in DOMAIN ours[c] :
              ours[b][m] = ours[c][n] => b = c /\ m = n
<1>1. /\ \A b \in DOMAIN ours :
           /\ b \in 0 .. (GP!iterations * sort_threads - 1)
           /\ ours[b] \in Seq(Nonce)
      /\ \A b, c \in DOMAIN ours : \A m \in DOMAIN ours[b], n \in DOMAIN ours[c] :
           ours[b][m] = ours[c][n] => b = c /\ m = n
  BY ConfigAssumption, HashAssumption, FaultsAssumption, GP!KnownPlaces DEF GP!Nonce, Nonce
<1>2. \A b \in BucketFile : b \in Nat
  BY BucketCountTyped DEF BucketFile
<1> QED
  BY <1>1, <1>2, SameAligned DEF BucketFile

OursTyped == \A b \in DOMAIN ours : b \in Nat /\ ours[b] \in Seq(Nonce)

LEMMA OursAreTyped == GP!KnownInv => OursTyped
  BY KnownBuckets DEF OursTyped

LEMMA OursAmongBuckets ==
  /\ DOMAIN ours = DOMAIN bucket \ foreign
  /\ \A b \in DOMAIN ours : ours[b] = bucket[b]
  BY DEF ours

LEMMA GenerationNext ==
  ASSUME GP!IInv, GP!FillInv, GP!SortInv, GP!DirectoryInv, [GP!Next]_(GP!vars)
  PROVE  GP!IInv' /\ GP!FillInv' /\ GP!SortInv' /\ GP!DirectoryInv'
<1>1. GP!IInv'
  BY ConfigAssumption, HashAssumption, FaultsAssumption, GP!NextIInv DEF GP!Nonce, Nonce
<1>2. GP!FillInv'
  BY ConfigAssumption, HashAssumption, FaultsAssumption, GP!NextFillInv DEF GP!Nonce, Nonce
<1>3. GP!SortInv'
  BY ConfigAssumption, HashAssumption, FaultsAssumption, GP!NextSortInv DEF GP!Nonce, Nonce
<1>4. GP!DirectoryInv'
  BY ConfigAssumption, HashAssumption, FaultsAssumption, GP!NextDirectory DEF GP!Nonce, Nonce
<1> QED
  BY <1>1, <1>2, <1>3, <1>4

LEMMA GenerationKnown ==
  ASSUME GP!IInv, GP!FillInv, GP!DirectoryInv, GP!Aligned, GP!KnownInv, [GP!Next]_(GP!vars)
  PROVE  GP!KnownInv'
  BY ConfigAssumption, HashAssumption, FaultsAssumption, GP!NextKnown DEF GP!Nonce, Nonce

LEMMA MergeNext ==
  ASSUME EP!IInv, EP!OnceInv, EP!MergeOrder, [EP!Next]_(EP!vars)
  PROVE  EP!IInv' /\ EP!OnceInv' /\ EP!MergeOrder'
<1>1. EP!IInv'
  BY ConfigAssumption, HashAssumption, FaultsAssumption, EP!NextIInv DEF EP!Nonce, Nonce
<1>2. EP!OnceInv'
  BY ConfigAssumption, HashAssumption, FaultsAssumption, EP!NextOnceInv DEF EP!Nonce, Nonce
<1>3. EP!MergeOrder'
  BY ConfigAssumption, HashAssumption, FaultsAssumption, EP!NextMergeOrder DEF EP!Nonce, Nonce
<1> QED
  BY <1>1, <1>2, <1>3

(* Of our files some go, or none, and the others stay as they are.         *)
LEMMA OursRestricted ==
  ASSUME OursInv, \A b \in DOMAIN ours' : b \in DOMAIN ours /\ ours'[b] = ours[b]
  PROVE  OursInv'
<1>1. GP!KnownInv'
  <2> SUFFICES ASSUME NEW b \in DOMAIN ours' PROVE GP!Known(b)'
    BY DEF GP!KnownInv
  <2>1. GP!Known(b) /\ ours'[b] = ours[b]
    BY DEF OursInv, GP!KnownInv
  <2> QED
    BY <2>1 DEF GP!Known, GP!NoneTwice, GP!Home, GP!SortSlice
<1>2. GP!BucketsSorted'
  <2> SUFFICES ASSUME GP!Aligned, NEW b \in DOMAIN ours' PROVE GP!SortedByHash(ours'[b])
    BY DEF GP!BucketsSorted, GP!Aligned, GP!SortedByHash
  <2>1. ours'[b] = ours[b] /\ GP!SortedByHash(ours[b])
    BY DEF OursInv, GP!BucketsSorted
  <2> QED
    BY <2>1
<1> QED
  BY <1>1, <1>2 DEF OursInv

(* The files stay as they are.                                             *)
LEMMA DirectoryKept ==
  ASSUME DirectoryInv, bucket' = bucket, foreign' = foreign
  PROVE  DirectoryInv'
<1>1. OursInv'
  BY OursKept, OursRestricted DEF DirectoryInv
<1> QED
  BY <1>1 DEF DirectoryInv

LEMMA WrittenKept ==
  ASSUME bucket' = bucket, foreign' = foreign, AllWritten
  PROVE  AllWritten'
<1>1. ours' = ours
  BY OursKept
<1>2. BucketFile' = BucketFile
  BY DEF BucketFile, BucketCount, iterations
<1>3. ASSUME NEW b \in BucketFile PROVE GP!Complete(ours, b)'
  <2>1. GP!Complete(ours, b)
    BY DEF AllWritten
  <2> QED
    BY <1>1, <2>1 DEF GP!Complete, GP!Whole, GP!Home, GP!SortSlice
<1> QED
  BY <1>2, <1>3 DEF AllWritten

(* A run begins in the directory of the runs before it.                    *)
LEMMA RunBegins ==
  ASSUME GP!Started, DirectoryInv
  PROVE  GP!IInv /\ GP!FillInv /\ GP!SortInv /\ GP!DirectoryInv
<1>1. \A b \in DOMAIN ours : b \in Nat /\ ours[b] \in Seq(Nonce)
  BY KnownBuckets DEF DirectoryInv, OursInv
<1>2. \A b \in DOMAIN ours : b \in Nat /\ ours[b] \in Seq(GP!Nonce \cup {GP!Garbage})
  <2>1. GP!Nonce = Nonce
    BY SameGenerate
  <2> HIDE DEF GP!Garbage
  <2> QED
    BY <1>1, <2>1
<1>3. GP!IInv /\ GP!FillInv /\ GP!DirectoryInv
  BY <1>2, ConfigAssumption, HashAssumption, FaultsAssumption, GP!StartedInv DEF GP!Nonce, Nonce
<1>4. GP!SortInv
  BY ConfigAssumption, HashAssumption, FaultsAssumption, GP!StartedSorts
     DEF DirectoryInv, OursInv, GP!Nonce, Nonce
<1> QED
  BY <1>3, <1>4

LEMMA EvenFacts ==
  ASSUME Undisturbed
  PROVE  /\ G!Aligned /\ Clean /\ Faults = {}
         /\ GP!iterations * max_records = total_hash_count
         /\ BucketCount > 0
  BY SameGenerate, ConfigAssumption
     DEF Undisturbed, EvenOptions, G!Aligned, Clean, BucketCount, iterations, GP!iterations

-----------------------------------------------------------------------------
(* Main goes on to merge *)

(* A bucket the merge opens is ours: another would have been emptied, and  *)
(* where one may fail to be, there is no other.                            *)
LEMMA MergesOurs ==
  ASSUME Clean, DirectoryInv, AllWritten, NEW b \in BucketFile
  PROVE  /\ b \in DOMAIN bucket <=> b \in DOMAIN ours
         /\ b \in DOMAIN bucket => ours[b] = bucket[b]
<1>1. "open" \notin Faults => b \in DOMAIN ours
  BY DEF AllWritten, GP!Complete
<1>2. "open" \in Faults => foreign = {}
  BY DEF Clean, DirectoryInv
<1> QED
  BY <1>1, <1>2, OursAmongBuckets

LEMMA HereTyped ==
  ASSUME Clean, DirectoryInv, AllWritten, no_files = BucketCount
  PROVE  /\ DOMAIN here = EP!Files /\ EP!Files = BucketFile
         /\ \A f \in EP!Files : here[f] \in Seq(Nonce) /\ Len(here[f]) \in Nat
         /\ \A f \in EP!Files : f \notin DOMAIN ours => here[f] = <<>>
         /\ \A f \in EP!Files : f \in DOMAIN ours => f \in DOMAIN bucket /\ here[f] = ours[f]
<1>1. EP!Files = BucketFile /\ E!Files = EP!Files
  BY SameMerge DEF EP!Files, BucketFile
<1>2. /\ \A f \in EP!Files : f \notin DOMAIN bucket => here[f] = <<>>
      /\ \A f \in EP!Files : f \in DOMAIN bucket => here[f] = bucket[f]
      /\ DOMAIN here = EP!Files
  BY <1>1 DEF here
<1>3. \A f \in EP!Files : here[f] \in Seq(Nonce)
  BY <1>2, EmptySeq DEF DirectoryInv
<1>4. \A f \in EP!Files : Len(here[f]) \in Nat
  BY <1>3, LenProperties
<1>5. \A f \in EP!Files : /\ f \in DOMAIN bucket <=> f \in DOMAIN ours
                          /\ f \in DOMAIN bucket => ours[f] = bucket[f]
  BY <1>1, MergesOurs
<1> QED
  BY <1>1, <1>2, <1>3, <1>4, <1>5

LEMMA HereApart ==
  ASSUME Clean, DirectoryInv, AllWritten, no_files = BucketCount
  PROVE  EP!Distinct
<1> SUFFICES ASSUME NEW f \in EP!Files, NEW g \in EP!Files,
                    NEW m \in 1 .. Len(here[f]), NEW n \in 1 .. Len(here[g]),
                    here[f][m] = here[g][n]
             PROVE  f = g /\ m = n
  BY DEF EP!Distinct
<1>1. Len(<<>>) = 0 /\ Len(here[f]) # 0 /\ Len(here[g]) # 0
  BY HereTyped
<1>2. /\ f \in DOMAIN ours /\ here[f] = ours[f]
      /\ g \in DOMAIN ours /\ here[g] = ours[g]
  BY <1>1, HereTyped
<1>3. m \in DOMAIN ours[f] /\ n \in DOMAIN ours[g]
  BY <1>2, KnownBuckets, LenProperties DEF DirectoryInv, OursInv
<1> QED
  BY <1>2, <1>3, KnownBuckets DEF DirectoryInv, OursInv

LEMMA HereSorted ==
  ASSUME Clean, DirectoryInv, AllWritten, G!Aligned, no_files = BucketCount
  PROVE  EP!BucketsSorted
<1> SUFFICES ASSUME NEW f \in EP!Files PROVE EP!SortedByHash(here[f])
  BY HereTyped DEF EP!BucketsSorted
<1>1. CASE f \in DOMAIN ours
  <2>1. GP!SortedByHash(ours[f])
    BY <1>1, SameAligned DEF DirectoryInv, OursInv, GP!BucketsSorted
  <2> QED
    BY <1>1, <2>1, HereTyped DEF GP!SortedByHash, EP!SortedByHash
<1>2. CASE f \notin DOMAIN ours
  <2>1. here[f] = <<>>
    BY <1>2, HereTyped
  <2> QED
    BY <2>1 DEF EP!SortedByHash
<1> QED
  BY <1>1, <1>2

LEMMA HandOver ==
  ASSUME G!Aligned, Clean, DirectoryInv, GenerationInv, pc = "ExternalSort"
  PROVE  MergeInv
<1>1. /\ GP!IInv /\ GP!DirectoryInv
      /\ batch = 0 /\ sorted = <<>> /\ out_open = FALSE /\ output = <<>> /\ removed = 0
  BY DEF GenerationInv
<1>2. no_files = BucketCount /\ AllWritten
  <2>1. /\ no_files = GP!iterations * sort_threads
        /\ \A b \in 0 .. (no_files - 1) : GP!Complete(ours, b)
    BY <1>1, SameAligned, ConfigAssumption, HashAssumption, FaultsAssumption, GP!DirectoryDone
       DEF GP!Nonce, Nonce
  <2> QED
    BY <2>1, SameAligned DEF AllWritten, BucketFile
<1>3. spawned = 0 /\ joined = 0
  BY DEF GenerationInv
<1>4. EP!IInv
  <2>1. EP!Buckets
    BY <1>2, HereTyped, BucketCountTyped DEF EP!Buckets, EP!Nonce, Nonce
  <2>2. EP!ControlInv
    BY <1>1, <1>3, EmptySeq DEF EP!ControlInv, EP!Started
  <2> QED
    BY <2>1, <2>2 DEF EP!IInv, EP!Started
<1>5. EP!merged = <<>>
  <2>1. <<>> \o <<>> = <<>>
    BY EmptySeq, ConcatEmptySeq
  <2> QED
    BY <1>1, <2>1 DEF EP!merged
<1>6. EP!OnceInv
  BY <1>2, <1>5, HereApart DEF EP!OnceInv, EP!FirstInv, EP!OnlyOnce, EP!Merging2
<1>7. EP!MergeOrder
  BY <1>5 DEF EP!MergeOrder, EP!SortedByHash
<1> QED
  BY <1>1, <1>2, <1>4, <1>6, <1>7 DEF MergeInv, Merge

-----------------------------------------------------------------------------
(* All nonces reach the merge, and from there the output *)

LEMMA WholeProduct ==
  ASSUME NEW n \in Nat, NEW c \in Nat \ {0}, n % c = 0
  PROVE  (n \div c) * c = n
  OBVIOUS

(* The loader threads reach every bucket and every chunk is full.          *)
LEMMA EvenMerge ==
  ASSUME Undisturbed, no_files = BucketCount
  PROVE  /\ EP!loops * EP!batch_size = no_files
         /\ EP!records_per_read = ChunkSize /\ ChunkSize \in Nat \ {0}
<1>1. /\ BucketCount \in Nat \ {0} /\ write_threads \in Nat \ {0} /\ max_records \in Nat
  BY BucketCountTyped, EvenFacts, ConfigAssumption
<1>2. EP!loops * EP!batch_size = no_files
  <2>1. CASE no_files < write_threads
    BY <1>1, <2>1 DEF EP!loops, EP!batch_size
  <2>2. CASE ~(no_files < write_threads)
    <3>1. BucketCount % write_threads = 0
      BY <2>2 DEF Undisturbed, EvenOptions
    <3>2. (BucketCount \div write_threads) * write_threads = BucketCount
      BY <1>1, <3>1, WholeProduct
    <3> QED
      BY <2>2, <3>2 DEF EP!loops, EP!batch_size
  <2> QED
    BY <2>1, <2>2
<1>3. EP!records_per_read = ChunkSize
  BY DEF EP!records_per_read, EP!divider, ChunkSize
<1>4. ChunkSize \in Nat \ {0}
  <2>1. ChunkSize > 0
    BY DEF Undisturbed, EvenOptions
  <2>2. max_records \div 2 \in Nat
    BY <1>1
  <2>3. ChunkSize \in Int
    BY <1>1, <2>2 DEF ChunkSize
  <2> QED
    BY <2>1, <2>3
<1> QED
  BY <1>2, <1>3, <1>4

LEMMA AllToMerge ==
  ASSUME Undisturbed, DirectoryInv, AllWritten, no_files = BucketCount
  PROVE  /\ DOMAIN here = EP!Files
         /\ \A f \in EP!Files : f \in DOMAIN ours /\ here[f] = ours[f]
         /\ EP!ToMerge = Nonce
<1> USE EvenFacts
<1>1. /\ Faults = {} /\ GP!iterations * max_records = total_hash_count
      /\ max_records % sort_threads = 0
  BY EvenFacts DEF Undisturbed, EvenOptions
<1>2. ASSUME NEW f \in EP!Files
      PROVE  /\ f \in DOMAIN ours /\ here[f] = ours[f]
             /\ Len(here[f]) = max_records \div sort_threads
             /\ EP!WholeChunks(f) = Len(here[f]) /\ f < EP!loops * EP!batch_size
             /\ DOMAIN here[f] = 1 .. Len(here[f])
  <2>1. GP!Complete(ours, f) /\ f \in BucketFile
    BY HereTyped DEF AllWritten
  <2>2. f \in DOMAIN ours /\ Len(ours[f]) = max_records \div sort_threads
    BY <1>1, <2>1, ConfigAssumption, HashAssumption, FaultsAssumption, GP!EvenBucket
       DEF GP!Nonce, Nonce
  <2>3. here[f] = ours[f] /\ Len(here[f]) \in Nat /\ here[f] \in Seq(Nonce)
    BY <2>2, HereTyped
  <2>4. /\ EP!records_per_read = ChunkSize /\ ChunkSize \in Nat \ {0}
        /\ (max_records \div sort_threads) % ChunkSize = 0
        /\ EP!loops * EP!batch_size = no_files
    BY EvenMerge DEF Undisturbed, EvenOptions
  <2>5. EP!WholeChunks(f) = (Len(here[f]) \div ChunkSize) * ChunkSize
    BY <2>4 DEF EP!WholeChunks
  <2>6. (Len(here[f]) \div ChunkSize) * ChunkSize = Len(here[f])
    BY <2>2, <2>3, <2>4, WholeProduct
  <2>7. f < no_files
    BY <2>1, BucketCountTyped DEF BucketFile
  <2> QED
    BY <2>2, <2>3, <2>4, <2>5, <2>6, <2>7, LenProperties
<1>3. ASSUME NEW v \in EP!ToMerge PROVE v \in Nonce
  <2>1. PICK f \in {g \in EP!Files : g < EP!loops * EP!batch_size} :
          \E m \in 1 .. EP!WholeChunks(f) : v = here[f][m]
    BY <1>3 DEF EP!ToMerge
  <2>2. PICK m \in 1 .. Len(here[f]) : v = here[f][m]
    BY <1>2, <2>1
  <2>3. here[f] \in Seq(Nonce)
    BY HereTyped
  <2> QED
    BY <2>2, <2>3, ElementOfSeq
<1>4. ASSUME NEW v \in Nonce PROVE v \in EP!ToMerge
  <2>1. \A b \in 0 .. (GP!iterations * sort_threads - 1) : GP!Complete(ours, b)
    BY SameAligned DEF AllWritten, BucketFile
  <2>2. \E b \in 0 .. (GP!iterations * sort_threads - 1) :
           b \in DOMAIN ours /\ \E m \in DOMAIN ours[b] : ours[b][m] = v
    <3>1. v \in GP!Nonce
      BY SameGenerate
    <3> QED
      BY <1>1, <2>1, <3>1, ConfigAssumption, HashAssumption, FaultsAssumption, GP!AllThere
         DEF GP!Nonce, Nonce
  <2>3. PICK b \in EP!Files : \E m \in DOMAIN ours[b] : ours[b][m] = v
    BY <2>2, SameAligned, HereTyped DEF BucketFile
  <2>4. PICK m \in DOMAIN ours[b] : ours[b][m] = v
    BY <2>3
  <2>5. m \in 1 .. EP!WholeChunks(b) /\ v = here[b][m]
    BY <1>2, <2>4
  <2> QED
    BY <1>2, <2>5 DEF EP!ToMerge
<1> QED
  BY <1>2, <1>3, <1>4, HereTyped

(* What ExternalSort leaves when it returns.                               *)
LEMMA MergeReturns ==
  ASSUME G!Aligned, Clean, DirectoryInv, AllWritten, no_files = BucketCount, pc = "delete_bins",
         EP!IInv, EP!OnceInv, EP!MergeOrder
  PROVE  /\ sorted = <<>> /\ SortedByHash(output) /\ GP!NoneTwice(output)
         /\ Undisturbed => Image(output) = Nonce
<1>1. sorted = <<>>
  BY DEF EP!IInv, EP!ControlInv
<1>2. EP!merged = output
  <2>1. output \in Seq(EP!Nonce)
    BY DEF EP!IInv, EP!ControlInv
  <2> QED
    BY <1>1, <2>1, ConcatEmptySeq DEF EP!merged
<1>3. SortedByHash(output)
  <2>1. EP!SortedByHash(output)
    BY <1>2, HereSorted DEF EP!MergeOrder
  <2> QED
    BY <2>1 DEF EP!SortedByHash, SortedByHash
<1>4. GP!NoneTwice(output)
  BY <1>2 DEF EP!OnceInv, EP!OnlyOnce, GP!NoneTwice
<1>5. ASSUME Undisturbed PROVE Image(output) = Nonce
  <2>1. EP!MergedExactly
    BY ConfigAssumption, HashAssumption, FaultsAssumption, EP!ExactFromOnceInv DEF EP!Nonce, Nonce
  <2>2. EP!Image(output) = EP!ToMerge
    BY <1>5, <2>1, EvenFacts DEF EP!MergedExactly
  <2>3. EP!ToMerge = Nonce
    BY <1>5, AllToMerge
  <2> QED
    BY <2>2, <2>3 DEF EP!Image, Image
<1> QED
  BY <1>1, <1>3, <1>4, <1>5

-----------------------------------------------------------------------------
(* The steps of the phases *)

(* When main of the generating phase can move, and where to.               *)
LEMMA GenerationPhases ==
  ASSUME ProcessInv, GenerationInv, G!Step
  PROVE  /\ pc \in Generation /\ pc' \in Generation \cup {"ExternalSort", "crashed"}
         /\ pc' = "ExternalSort" => spawned' = 0 /\ joined' = 0
         /\ Faults = {} => memory' # "null" /\ pc' # "crashed"
<1>1. CASE G!Main
  <2>1. pc \in Generation
    BY <1>1 DEF G!Main, G!Malloc, G!LeaveLoop, G!Create, G!NoArgument, G!Join, G!HashingDone,
       G!SortingDone, G!WritingWriteDone, G!WritingSortDone, G!Free, G!AllJoined, G!Role,
       Generation, GP!Role
  <2>2. pc = "malloc" => spawned = 0 /\ joined = 0
    BY DEF GenerationInv, Generation, GP!IInv, GP!MainInv
  <2>3. /\ pc' \in Generation \cup {"ExternalSort", "crashed"}
        /\ pc' = "ExternalSort" => spawned' = 0 /\ joined' = 0
    <3>1. CASE G!Malloc \/ G!Create \/ G!Join \/ G!HashingDone \/ G!SortingDone
      BY <2>1, <3>1 DEF G!Malloc, G!Create, G!Join, G!HashingDone, G!SortingDone,
         Generation, GP!Role
    <3>2. CASE G!LeaveLoop
      BY <2>2, <3>2 DEF G!LeaveLoop
    <3>3. CASE G!NoArgument
      BY <3>3 DEF G!NoArgument, G!Crash
    <3>4. CASE G!WritingWriteDone \/ G!WritingSortDone \/ G!Free
      BY <2>1, <3>4 DEF G!WritingWriteDone, G!WritingSortDone, G!Free, Generation, GP!Role
    <3> QED
      BY <1>1, <3>1, <3>2, <3>3, <3>4 DEF G!Main
  <2>4. ASSUME Faults = {} PROVE memory' # "null" /\ pc' # "crashed"
    <3>1. memory # "null"
      BY <2>4 DEF ProcessInv
    <3> QED
      BY <1>1, <2>4, <3>1 DEF G!Main, G!Malloc, G!LeaveLoop, G!Create, G!NoArgument, G!Join,
         G!HashingDone, G!SortingDone, G!WritingWriteDone, G!WritingSortDone, G!Free, G!own,
         G!AllJoined, G!Role
  <2> QED
    BY <2>1, <2>3, <2>4
<1>2. ASSUME NEW s \in G!Slot, G!Worker(s)
      PROVE  /\ pc \in Generation /\ (pc' = pc \/ pc' = "crashed")
             /\ Faults = {} => memory' # "null" /\ pc' # "crashed"
  <2>1. thread[s] # "none"
    BY <1>2 DEF G!Worker, G!HashRecord, G!HashReturn, G!NullStore, G!QSort, G!OpenBucket,
       G!WriteBucket, G!Running
  <2>2. s \in GP!Slot
    BY SameGenerate
  <2>3. pc \in Generation
    BY <2>1, <2>2 DEF ProcessInv
  <2>4. pc' = pc \/ pc' = "crashed"
    BY <1>2 DEF G!Worker, G!HashRecord, G!HashReturn, G!NullStore, G!QSort, G!OpenBucket,
       G!WriteBucket, G!Crash, G!shared
  <2>5. ASSUME Faults = {} PROVE memory' # "null" /\ pc' # "crashed"
    <3>1. memory # "null"
      BY <2>5 DEF ProcessInv
    <3>2. pc # "crashed"
      BY <2>3 DEF Generation, GP!Role
    <3> QED
      BY <1>2, <3>1, <3>2 DEF G!Worker, G!HashRecord, G!HashReturn, G!NullStore, G!QSort,
         G!OpenBucket, G!WriteBucket, G!shared
  <2> QED
    BY <2>3, <2>4, <2>5
<1>3. "crashed" \notin Generation /\ "ExternalSort" \notin Generation
  BY DEF Generation, GP!Role
<1>4. CASE \E s \in G!Slot : G!Worker(s)
  <2>1. PICK s \in G!Slot : G!Worker(s)
    BY <1>4
  <2>2. /\ pc \in Generation /\ (pc' = pc \/ pc' = "crashed")
        /\ Faults = {} => memory' # "null" /\ pc' # "crashed"
    BY <1>2, <2>1
  <2> QED
    BY <1>3, <2>2
<1> QED
  BY <1>1, <1>4 DEF G!Step

LEMMA GeneratingProgram ==
  ASSUME G!Aligned, Clean, ProgramInv, Generating
  PROVE  ProgramInv'
<1>0. G!Step
  BY DEF Generating, GenerateMain, GenerateWorker, G!Step
<1>1. /\ ProcessInv /\ GenerationInv /\ DirectoryInv /\ G!Step
      /\ UNCHANGED <<batch, sorted, out_open, output, removed, runs>>
  BY <1>0 DEF ProgramInv, Generating, GenerateMain, GenerateWorker, mergeVars
<1>2. /\ pc \in Generation /\ pc' \in Generation \cup {"ExternalSort", "crashed"}
      /\ pc' = "ExternalSort" => spawned' = 0 /\ joined' = 0
      /\ Faults = {} => memory' # "null" /\ pc' # "crashed"
  BY <1>1, GenerationPhases
<1>t. DOMAIN thread = G!Slot
  <2>1. thread \in [GP!Slot -> {"none", "running", "writing", "exited"}]
    BY <1>1, <1>2 DEF GenerationInv, GP!IInv, GP!TypeOK
  <2> QED
    BY <2>1, SameGenerate
<1>3. GP!Next
  BY <1>1, <1>t, GeneratingStep DEF GP!Next
<1>4. /\ GP!IInv /\ GP!FillInv /\ GP!SortInv /\ GP!DirectoryInv
      /\ batch = 0 /\ sorted = <<>> /\ out_open = FALSE /\ output = <<>> /\ removed = 0
  BY <1>1, <1>2 DEF GenerationInv
<1>5. GP!IInv' /\ GP!FillInv' /\ GP!SortInv' /\ GP!DirectoryInv'
  BY <1>3, <1>4, GenerationNext
<1>6. DirectoryInv'
  <2>1. GP!KnownInv'
    BY <1>1, <1>3, <1>4, SameAligned, GenerationKnown DEF DirectoryInv, OursInv
  <2>2. GP!BucketsSorted'
    BY <1>5 DEF GP!SortInv
  <2>3. OursTyped'
    <3>1. GP!KnownInv => OursTyped
      BY OursAreTyped
    <3>2. (GP!KnownInv => OursTyped)'
      BY <3>1, OursAreTyped, PTL
    <3> QED
      BY <2>1, <3>2
  <2>4. \A b \in DOMAIN ours' : b \in Nat /\ ours'[b] \in Seq(Nonce) /\ ours'[b] = bucket'[b]
    BY <2>3 DEF OursTyped, ours
  <2>5. \A b \in DOMAIN bucket' : b \in Nat /\ bucket'[b] \in Seq(Nonce)
    BY <1>1, <1>t, <2>4, GeneratedFiles DEF DirectoryInv
  <2>6. OtherRuns = {} => foreign' = {}
    BY <1>1, <1>t, GeneratedFiles DEF DirectoryInv
  <2> QED
    BY <2>1, <2>2, <2>5, <2>6 DEF DirectoryInv, OursInv
<1>7. GenerationInv'
  BY <1>1, <1>2, <1>4, <1>5 DEF GenerationInv
<1>8. pc' \notin Generation => \A s \in GP!Slot : thread'[s] = "none"
  <2> SUFFICES ASSUME pc' \notin Generation, NEW s \in GP!Slot, thread'[s] # "none"
               PROVE  FALSE
    OBVIOUS
  <2>1. pc' = s[1]
    BY <1>5 DEF GP!IInv, GP!ThreadInv
  <2>2. s[1] \in GP!Role
    BY DEF GP!Slot
  <2> QED
    BY <2>1, <2>2 DEF Generation
<1>9. ProcessInv'
  <2>1. /\ runs' \in Nat \ {0} /\ removed' \in Nat
        /\ output' \in Seq(Nonce) /\ sorted' \in Seq(Nonce)
    BY <1>1 DEF ProcessInv
  <2>2. pc' \in Generation \cup {"ExternalSort"} \cup Merge \cup {"delete_bins"} \cup Ended
    BY <1>2 DEF Ended
  <2>3. Generation' = Generation /\ GP!Slot' = GP!Slot
    BY DEF Generation, GP!Slot, GP!ThreadCount
  <2> HIDE DEF Generation
  <2> QED
    BY <1>2, <1>8, <2>1, <2>2, <2>3 DEF ProcessInv
<1>10. MergeInv'
  <2>1. pc' \notin Merge
    BY <1>2 DEF Generation, GP!Role, Merge
  <2>2. G!Aligned /\ Clean /\ DirectoryInv /\ GenerationInv /\ pc = "ExternalSort" => MergeInv
    BY HandOver
  <2>3. (G!Aligned /\ Clean /\ DirectoryInv /\ GenerationInv /\ pc = "ExternalSort" => MergeInv)'
    BY <2>2, HandOver, PTL
  <2>4. G!Aligned' /\ Clean'
    BY DEF G!Aligned, Clean
  <2> QED
    BY <1>6, <1>7, <2>1, <2>3, <2>4 DEF MergeInv
<1>11. pc' \notin {"delete_bins", "exit", "failed", "undefined"}
  BY <1>2 DEF Generation, GP!Role
<1>12. Undisturbed' => pc' # "crashed"
  BY <1>2, EvenFacts DEF Undisturbed, EvenOptions, BucketCount, ChunkSize
<1> QED
  BY <1>6, <1>7, <1>9, <1>10, <1>11, <1>12 DEF ProgramInv, WrittenInv

(* Where main goes while it merges, and what it leaves alone.              *)
LEMMA MergePhases ==
  ASSUME E!Step
  PROVE  /\ pc \in {"ExternalSort"} \cup Merge
         /\ pc' \in Merge \cup {"delete_bins", "failed", "crashed", "undefined"}
         /\ bucket' = bucket /\ no_files' = no_files
         /\ pc' = "failed" => "malloc" \in Faults
<1>1. CASE E!Begin \/ E!CreateLoader \/ E!NoArgument \/ E!JoinLoader \/ E!BatchDone
  BY <1>1 DEF E!Begin, E!CreateLoader, E!NoArgument, E!JoinLoader, E!BatchDone, Merge
<1>2. CASE E!OpenOutput \/ E!MergeStep \/ E!WildRead \/ E!MergeDone \/ E!Drain
  BY <1>2 DEF E!OpenOutput, E!MergeStep, E!WildRead, E!MergeDone, E!Drain, Merge
<1>3. CASE E!Loading
  BY <1>3 DEF E!Loading, E!LoadFile, Merge
<1> QED
  BY <1>1, <1>2, <1>3 DEF E!Step, E!Main

LEMMA MergingNext ==
  ASSUME G!Aligned, ProgramInv, Merging
  PROVE  /\ EP!Next /\ EP!IInv /\ EP!OnceInv /\ EP!MergeOrder
         /\ EP!IInv' /\ EP!OnceInv' /\ EP!MergeOrder'
<1>1. E!Step /\ pc \in {"ExternalSort"} \cup Merge
  BY MergePhases DEF Merging
<1>2. EP!IInv /\ EP!OnceInv /\ EP!MergeOrder /\ no_files = BucketCount
  BY <1>1 DEF ProgramInv, MergeInv
<1>3. Missing
  <2> SUFFICES ASSUME NEW f \in E!Files, f \notin DOMAIN bucket PROVE "open" \in Faults
    BY DEF Missing
  <2>1. f \in BucketFile
    BY <1>2 DEF E!Files, BucketFile
  <2>2. GP!Complete(ours, f)
    BY <1>1, <2>1 DEF ProgramInv, MergeInv, AllWritten
  <2> QED
    BY <2>2, OursAmongBuckets DEF GP!Complete
<1>4. EP!Next
  BY <1>1, <1>2, <1>3, MergingStep
<1> QED
  BY <1>2, <1>4, MergeNext

(* Nothing fails in a merge of even buckets with no failing call.          *)
LEMMA MergingDefined ==
  ASSUME ProgramInv, Merging, Undisturbed
  PROVE  pc' \notin {"failed", "crashed", "undefined"}
<1>1. /\ pc \in {"ExternalSort"} \cup Merge /\ G!Aligned /\ Faults = {}
      /\ bucket' = bucket /\ no_files' = no_files
      /\ pc' # "failed"
  BY MergePhases, EvenFacts DEF Merging
<1>2. EP!Next /\ EP!IInv
  BY <1>1, MergingNext
<1>3. EP!Defined
  BY <1>1 DEF EP!Defined, Merge
<1>4. EP!Defined'
  BY <1>2, <1>3, ConfigAssumption, HashAssumption, FaultsAssumption, EP!NextDefined
     DEF EP!Nonce, Nonce
<1>5. no_files = BucketCount /\ no_files > 0 /\ DirectoryInv /\ AllWritten
  BY <1>1, EvenFacts DEF ProgramInv, MergeInv
<1>6. EP!WholeBatches
  BY <1>5, EvenMerge DEF EP!WholeBatches
<1>7. EP!WholeBatches' /\ (DOMAIN here)' = EP!Files' /\ no_files' # 0
  <2>1. here' = here
    BY <1>1, HereKept
  <2>2. DOMAIN here = EP!Files
    BY <1>5, HereTyped, EvenFacts
  <2>3. EP!Files' = EP!Files
    BY <1>1 DEF EP!Files
  <2>4. EP!WholeBatches'
    BY <1>1, <1>6 DEF EP!WholeBatches, EP!loops, EP!batch_size
  <2>5. no_files \in Nat
    BY <1>5, BucketCountTyped
  <2> QED
    BY <1>1, <1>5, <2>1, <2>2, <2>3, <2>4, <2>5
<1> QED
  BY <1>1, <1>4, <1>7 DEF EP!Defined

LEMMA MergingProgram ==
  ASSUME G!Aligned, Clean, ProgramInv, Merging
  PROVE  ProgramInv'
<1>1. /\ pc \in {"ExternalSort"} \cup Merge
      /\ pc' \in Merge \cup {"delete_bins", "failed", "crashed", "undefined"}
      /\ bucket' = bucket /\ no_files' = no_files
      /\ UNCHANGED <<thread, memory, removed, runs, foreign>>
  BY MergePhases DEF Merging, generateVars
<1>2. EP!IInv' /\ EP!OnceInv' /\ EP!MergeOrder'
  BY MergingNext
<1>3. no_files' = BucketCount /\ removed' = 0 /\ AllWritten'
  <2>1. no_files = BucketCount /\ removed = 0 /\ AllWritten
    BY <1>1 DEF ProgramInv, MergeInv
  <2> QED
    BY <1>1, <2>1, WrittenKept
<1>4. DirectoryInv'
  BY <1>1, DirectoryKept DEF ProgramInv
<1>5. MergeInv'
  BY <1>2, <1>3 DEF MergeInv, BucketFile, BucketCount, iterations
<1>6. pc' \notin Generation \cup {"ExternalSort", "exit"}
  BY <1>1 DEF Merge, Generation, GP!Role
<1>7. GenerationInv'
  BY <1>6 DEF GenerationInv, Generation, GP!Role
<1>8. ProcessInv'
  <2>1. /\ runs' \in Nat \ {0} /\ removed' \in Nat
        /\ \A s \in GP!Slot : thread'[s] = "none"
        /\ Faults = {} => memory' # "null"
    <3>1. pc \notin Generation
      BY <1>1 DEF Merge, Generation, GP!Role
    <3> QED
      BY <1>1, <3>1 DEF ProgramInv, ProcessInv
  <2>2. output' \in Seq(Nonce) /\ sorted' \in Seq(Nonce)
    BY <1>2 DEF EP!IInv, EP!ControlInv, EP!Nonce, Nonce
  <2>3. pc' \in Generation \cup {"ExternalSort"} \cup Merge \cup {"delete_bins"} \cup Ended
    BY <1>1 DEF Ended
  <2>4. Generation' = Generation /\ GP!Slot' = GP!Slot
    BY DEF Generation, GP!Slot, GP!ThreadCount
  <2> HIDE DEF Generation
  <2> QED
    BY <2>1, <2>2, <2>3, <2>4 DEF ProcessInv
<1>9. WrittenInv'
  <2>1. G!Aligned /\ Clean /\ DirectoryInv /\ AllWritten /\ no_files = BucketCount
        /\ pc = "delete_bins" /\ EP!IInv /\ EP!OnceInv /\ EP!MergeOrder
        => /\ sorted = <<>> /\ SortedByHash(output) /\ GP!NoneTwice(output)
           /\ Undisturbed => Image(output) = Nonce
    BY MergeReturns
  <2>2. (G!Aligned /\ Clean /\ DirectoryInv /\ AllWritten /\ no_files = BucketCount
         /\ pc = "delete_bins" /\ EP!IInv /\ EP!OnceInv /\ EP!MergeOrder
         => /\ sorted = <<>> /\ SortedByHash(output) /\ GP!NoneTwice(output)
            /\ Undisturbed => Image(output) = Nonce)'
    BY <2>1, MergeReturns, PTL
  <2>3. G!Aligned' /\ Clean' /\ BucketCount' = BucketCount /\ BucketFile' = BucketFile
    BY DEF G!Aligned, Clean, BucketCount, BucketFile, iterations
  <2>4. ASSUME pc' = "delete_bins"
        PROVE  (sorted = <<>> /\ SortedByHash(output) /\ GP!NoneTwice(output)
                /\ (Undisturbed => Image(output) = Nonce))'
    BY <1>2, <1>3, <1>4, <2>2, <2>3, <2>4
  <2>5. \A b \in DOMAIN bucket' : removed' <= b
    <3>1. \A b \in DOMAIN bucket : b \in Nat
      BY DEF ProgramInv, DirectoryInv
    <3> QED
      BY <1>1, <1>3, <3>1
  <2> QED
    BY <1>3, <1>6, <2>3, <2>4, <2>5 DEF WrittenInv
<1>10. Undisturbed' => pc' \notin {"failed", "crashed", "undefined"}
  BY MergingDefined DEF Undisturbed, EvenOptions, BucketCount, ChunkSize, iterations
<1> QED
  BY <1>4, <1>5, <1>7, <1>8, <1>9, <1>10 DEF ProgramInv

-----------------------------------------------------------------------------
(* Removing the buckets, and the end of a run *)

LEMMA KeptByRemoving ==
  ASSUME DirectoryInv, NEW c, bucket' = [b \in DOMAIN bucket \ {c} |-> bucket[b]],
         foreign' = foreign
  PROVE  DirectoryInv'
<1>1. \A b \in DOMAIN bucket' : b \in DOMAIN bucket /\ bucket'[b] = bucket[b]
  OBVIOUS
<1>2. \A b \in DOMAIN ours' : b \in DOMAIN ours /\ ours'[b] = ours[b]
  BY <1>1 DEF ours
<1>3. OursInv'
  BY <1>2, OursRestricted DEF DirectoryInv
<1> QED
  BY <1>1, <1>3 DEF DirectoryInv

(* A step of main's end, or none: no phase is involved.                    *)
LEMMA OutsidePhases ==
  ASSUME ProgramInv, pc' \in {"delete_bins"} \cup Ended, pc \notin Generation,
         UNCHANGED <<thread, memory, runs>>, removed' \in Nat,
         output' \in Seq(Nonce), sorted' \in Seq(Nonce)
  PROVE  ProcessInv' /\ GenerationInv' /\ MergeInv'
<1>1. pc' \notin Generation \cup {"ExternalSort"} \cup Merge
  BY DEF Generation, GP!Role, Merge, Ended
<1>2. Generation' = Generation /\ GP!Slot' = GP!Slot
  BY DEF Generation, GP!Slot, GP!ThreadCount
<1>3. ProcessInv'
  <2>1. ProcessInv
    BY DEF ProgramInv
  <2> HIDE DEF Generation, Ended
  <2> QED
    BY <1>2, <2>1 DEF ProcessInv
<1>4. GenerationInv'
  BY <1>1, <1>2 DEF GenerationInv
<1>5. MergeInv'
  BY <1>1 DEF MergeInv
<1> QED
  BY <1>3, <1>4, <1>5

LEMMA DeleteBinProgram ==
  ASSUME ProgramInv, DeleteBin
  PROVE  ProgramInv'
<1>1. /\ pc = "delete_bins" /\ pc' = pc /\ removed < no_files
      /\ bucket' = [b \in DOMAIN bucket \ {removed} |-> bucket[b]]
      /\ removed' = removed + 1
      /\ UNCHANGED <<no_files, thread, memory, sorted, output, runs, foreign>>
  BY DEF DeleteBin, MoreToRemove, generateVars, mergeVars
<1>2. /\ ProcessInv /\ DirectoryInv /\ WrittenInv
      /\ removed \in Nat /\ output \in Seq(Nonce) /\ sorted \in Seq(Nonce)
  BY DEF ProgramInv, ProcessInv
<1>3. DirectoryInv'
  BY <1>1, <1>2, KeptByRemoving
<1>4. ProcessInv' /\ GenerationInv' /\ MergeInv'
  BY <1>1, <1>2, OutsidePhases DEF Generation, GP!Role
<1>5. WrittenInv'
  <2>1. \A b \in DOMAIN bucket : b \in Nat
    BY <1>2 DEF DirectoryInv
  <2>2. \A b \in DOMAIN bucket' : removed' <= b
    BY <1>1, <1>2, <2>1 DEF WrittenInv
  <2>3. /\ sorted = <<>> /\ SortedByHash(output) /\ GP!NoneTwice(output)
        /\ no_files = BucketCount
        /\ Undisturbed => Image(output) = Nonce
    BY <1>1, <1>2 DEF WrittenInv
  <2>4. /\ sorted' = <<>> /\ SortedByHash(output') /\ GP!NoneTwice(output')
        /\ no_files' = BucketCount' /\ (Undisturbed => Image(output') = Nonce)
    BY <1>1, <2>3 DEF BucketCount, iterations
  <2> QED
    BY <1>1, <2>2, <2>4
       DEF WrittenInv, SortedByHash, GP!NoneTwice, Image, Undisturbed, EvenOptions, BucketCount,
           ChunkSize, iterations
<1>6. pc' \notin {"failed", "crashed", "undefined"}
  BY <1>1
<1> QED
  BY <1>3, <1>4, <1>5, <1>6 DEF ProgramInv

LEMMA ReturnProgram ==
  ASSUME ProgramInv, Return
  PROVE  ProgramInv'
<1>1. /\ pc = "delete_bins" /\ pc' = "exit" /\ ~(removed < no_files)
      /\ UNCHANGED <<bucket, no_files, thread, memory, sorted, output, removed, runs, foreign>>
  BY DEF Return, MoreToRemove, generateVars, mergeVars
<1>2. /\ ProcessInv /\ DirectoryInv /\ WrittenInv
      /\ removed \in Nat /\ output \in Seq(Nonce) /\ sorted \in Seq(Nonce)
  BY DEF ProgramInv, ProcessInv
<1>3. DirectoryInv'
  BY <1>1, <1>2, DirectoryKept
<1>4. ProcessInv' /\ GenerationInv' /\ MergeInv'
  BY <1>1, <1>2, OutsidePhases DEF Generation, GP!Role, Ended
<1>5. WrittenInv'
  <2>1. /\ sorted = <<>> /\ SortedByHash(output) /\ GP!NoneTwice(output)
        /\ no_files = BucketCount
        /\ Undisturbed => Image(output) = Nonce
        /\ \A b \in DOMAIN bucket : removed <= b
    BY <1>1, <1>2 DEF WrittenInv
  <2>2. BucketCount <= removed
    BY <1>1, <1>2, <2>1, BucketCountTyped
  <2> QED
    BY <1>1, <2>1, <2>2
       DEF WrittenInv, SortedByHash, GP!NoneTwice, Image, Undisturbed, EvenOptions, BucketCount,
           ChunkSize, iterations
<1>6. pc' \notin {"failed", "crashed", "undefined"}
  BY <1>1
<1> QED
  BY <1>3, <1>4, <1>5, <1>6 DEF ProgramInv

LEMMA KillProgram ==
  ASSUME ProgramInv, Kill
  PROVE  ProgramInv'
<1>1. /\ pc' = "killed" /\ UNCHANGED <<bucket, memory, sorted, removed, runs, foreign>>
      /\ thread' = [s \in G!Slot |-> "none"]
  BY DEF Kill
<1>2. /\ ProcessInv /\ DirectoryInv
      /\ output \in Seq(Nonce) /\ sorted \in Seq(Nonce)
  BY DEF ProgramInv, ProcessInv
<1>3. output' \in Seq(Nonce)
  <2>1. ASSUME NEW n \in 1 .. Len(sorted), output' = output \o SubSeq(sorted, 1, n)
        PROVE  output' \in Seq(Nonce)
    <3>1. SubSeq(sorted, 1, n) \in Seq(Nonce)
      BY <1>2
    <3> QED
      BY <1>2, <2>1, <3>1, ConcatProperties
  <2> QED
    BY <1>2, <2>1 DEF Kill
<1>4. ProcessInv'
  <2>1. \A s \in GP!Slot : thread'[s] = "none"
    BY <1>1, SameGenerate
  <2>2. Generation' = Generation /\ GP!Slot' = GP!Slot /\ "killed" \in Ended
    BY DEF Generation, GP!Slot, GP!ThreadCount, Ended
  <2> HIDE DEF Generation, Ended
  <2> QED
    BY <1>1, <1>2, <1>3, <2>1, <2>2 DEF ProcessInv
<1>5. GenerationInv' /\ MergeInv' /\ WrittenInv'
  BY <1>1 DEF GenerationInv, MergeInv, WrittenInv, Generation, GP!Role, Merge
<1>6. DirectoryInv'
  BY <1>1, <1>2, DirectoryKept
<1> QED
  BY <1>1, <1>4, <1>5, <1>6 DEF ProgramInv

LEMMA CleanRun ==
  ASSUME Clean, ProgramInv, RunAgain
  PROVE  output' = <<>>
<1>1. runs \in Nat \ {0} /\ runs < MaxRuns
  BY DEF ProgramInv, ProcessInv, RunAgain
<1>2. RemovesOutput
  BY <1>1 DEF Clean
<1> QED
  BY <1>2 DEF RunAgain

(* What other runs leave takes the place of ours, or removes some of them. *)
LEMMA OthersLeave ==
  ASSUME DirectoryInv, RunAgain
  PROVE  DirectoryInv'
<1>1. CASE UNCHANGED <<bucket, foreign>>
  BY <1>1, DirectoryKept
<1>2. ASSUME NEW r \in OtherRuns, bucket' = After(r),
             foreign' = DOMAIN r.bucket \cup {b \in foreign : b >= r.removed}
      PROVE  DirectoryInv'
  <2>1. /\ \A b \in DOMAIN r.bucket : b \in Nat /\ r.bucket[b] \in Seq(Nonce)
    BY OtherRunsAssumption
  <2>2. /\ DOMAIN bucket' = DOMAIN r.bucket \cup {c \in DOMAIN bucket : c >= r.removed}
        /\ \A b \in DOMAIN bucket' :
             bucket'[b] = IF b \in DOMAIN r.bucket THEN r.bucket[b] ELSE bucket[b]
    BY <1>2 DEF After
  <2>3. \A b \in DOMAIN bucket' : b \in Nat /\ bucket'[b] \in Seq(Nonce)
    BY <2>1, <2>2 DEF DirectoryInv
  <2>4. DOMAIN ours' = DOMAIN bucket' \ foreign' /\ \A b \in DOMAIN ours' : ours'[b] = bucket'[b]
    BY DEF ours
  <2>5. \A b \in DOMAIN ours' : b \in DOMAIN ours /\ ours'[b] = ours[b]
    BY <1>2, <2>2, <2>4, OursAmongBuckets
  <2>6. OursInv'
    BY <2>5, OursRestricted DEF DirectoryInv
  <2> QED
    BY <2>3, <2>6 DEF DirectoryInv
<1> QED
  BY <1>1, <1>2 DEF RunAgain

LEMMA RunAgainProgram ==
  ASSUME Clean, ProgramInv, RunAgain
  PROVE  ProgramInv'
<1>1. /\ pc' = "malloc" /\ spawned' = 0 /\ joined' = 0 /\ no_files' = 0
      /\ j' = 0 /\ k' = 0 /\ memory' = "freed"
      /\ thread' = [s \in G!Slot |-> "none"]
      /\ arg' = [s \in G!Slot |-> [x |-> 0, k |-> 0, bucket_start |-> 0]]
      /\ cursor' = [s \in G!Slot |-> 0]
      /\ hashes' = [c \in G!Cell |-> G!Garbage]
      /\ batch' = 0 /\ sorted' = <<>> /\ out_open' = FALSE /\ removed' = 0
      /\ runs' = runs + 1
  BY DEF RunAgain
<1>2. output' = <<>>
  BY CleanRun
<1>3. runs \in Nat \ {0} /\ DirectoryInv
  BY DEF ProgramInv, ProcessInv
<1>4. DirectoryInv'
  BY <1>3, OthersLeave
<1>5. GP!Started'
  BY <1>1, SameGenerate DEF GP!Started
<1>6. GP!IInv' /\ GP!FillInv' /\ GP!SortInv' /\ GP!DirectoryInv'
  <2>1. GP!Started /\ DirectoryInv
        => GP!IInv /\ GP!FillInv /\ GP!SortInv /\ GP!DirectoryInv
    BY RunBegins
  <2>2. (GP!Started /\ DirectoryInv
         => GP!IInv /\ GP!FillInv /\ GP!SortInv /\ GP!DirectoryInv)'
    BY <2>1, RunBegins, PTL
  <2> QED
    BY <1>4, <1>5, <2>2
<1>7. GenerationInv'
  BY <1>1, <1>2, <1>6 DEF GenerationInv
<1>8. ProcessInv'
  <2>1. pc' \in Generation' /\ runs' \in Nat \ {0}
    BY <1>1, <1>3 DEF Generation
  <2>2. <<>> \in Seq(Nonce)
    BY EmptySeq
  <2> HIDE DEF Generation
  <2> QED
    BY <1>1, <1>2, <2>1, <2>2 DEF ProcessInv
<1>9. MergeInv' /\ WrittenInv'
  BY <1>1 DEF MergeInv, WrittenInv, Merge
<1> QED
  BY <1>1, <1>4, <1>7, <1>8, <1>9 DEF ProgramInv

LEMMA StutterProgram ==
  ASSUME G!Aligned, ProgramInv, UNCHANGED vars
  PROVE  ProgramInv'
<1>1. /\ UNCHANGED <<pc, spawned, joined, bucket, no_files, j, k, thread, arg, cursor, hashes,
                     memory, batch, loader, inputs, records, read, idx, sorted, out_open,
                     output, removed, runs, foreign>>
  BY DEF vars, shared, generateVars, mergeVars
<1>2. UNCHANGED GP!vars /\ here' = here
  BY <1>1, HereKept, OursKept DEF GP!vars, GP!shared, GP!own
<1>3. UNCHANGED EP!vars
  BY <1>1, <1>2 DEF EP!vars, EP!shared, EP!own
<1>4. DirectoryInv'
  BY <1>1, DirectoryKept DEF ProgramInv
<1>5. Generation' = Generation /\ GP!Slot' = GP!Slot
  BY DEF Generation, GP!Slot, GP!ThreadCount
<1>6. GenerationInv'
  <2>1. ASSUME pc \in Generation \cup {"ExternalSort"}
        PROVE  GP!IInv' /\ GP!FillInv' /\ GP!SortInv' /\ GP!DirectoryInv'
    BY <1>2, <2>1, GenerationNext DEF ProgramInv, GenerationInv
  <2> HIDE DEF Generation
  <2> QED
    BY <1>1, <1>5, <2>1 DEF ProgramInv, GenerationInv
<1>7. MergeInv'
  <2>1. ASSUME pc \in {"ExternalSort"} \cup Merge
        PROVE  EP!IInv' /\ EP!OnceInv' /\ EP!MergeOrder' /\ AllWritten'
    BY <1>1, <1>3, <2>1, MergeNext, WrittenKept DEF ProgramInv, MergeInv
  <2>2. BucketCount' = BucketCount /\ BucketFile' = BucketFile
    BY DEF BucketCount, BucketFile, iterations
  <2> QED
    BY <1>1, <2>1, <2>2 DEF ProgramInv, MergeInv
<1>8. ProcessInv'
  <2> HIDE DEF Generation
  <2> QED
    BY <1>1, <1>5 DEF ProgramInv, ProcessInv
<1>9. WrittenInv'
  BY <1>1 DEF ProgramInv, WrittenInv, SortedByHash, GP!NoneTwice, Image, Undisturbed,
     EvenOptions, BucketCount, ChunkSize, iterations
<1>10. Undisturbed' => pc' \notin {"failed", "crashed", "undefined"}
  BY <1>1 DEF ProgramInv, Undisturbed, EvenOptions, BucketCount, ChunkSize, iterations
<1> QED
  BY <1>4, <1>6, <1>7, <1>8, <1>9, <1>10 DEF ProgramInv

-----------------------------------------------------------------------------
(* The invariant is inductive *)

LEMMA InitPInv == Init => PInv
<1> SUFFICES ASSUME Init PROVE ProgramInv
  BY DEF PInv
<1>1. /\ G!Init /\ pc = "malloc" /\ bucket = <<>> /\ spawned = 0 /\ joined = 0 /\ no_files = 0
      /\ batch = 0 /\ sorted = <<>> /\ out_open = FALSE /\ output = <<>>
      /\ removed = 0 /\ runs = 1 /\ memory = "freed" /\ foreign = {}
  BY DEF Init, G!Init, E!InitOwn
<1>2. GP!Started
  BY <1>1, SameGenerate DEF G!Init, GP!Started
<1>3. DirectoryInv
  <2>1. DOMAIN bucket = {} /\ DOMAIN ours = {}
    BY <1>1 DEF ours
  <2> QED
    BY <1>1, <2>1 DEF DirectoryInv, OursInv, GP!KnownInv, GP!BucketsSorted
<1>4. GP!IInv /\ GP!FillInv /\ GP!SortInv /\ GP!DirectoryInv
  BY <1>2, <1>3, RunBegins
<1>5. GenerationInv
  BY <1>1, <1>4 DEF GenerationInv
<1>6. ProcessInv
  BY <1>1, EmptySeq DEF ProcessInv, Generation
<1>7. MergeInv /\ WrittenInv
  BY <1>1 DEF MergeInv, WrittenInv, Merge
<1> QED
  BY <1>1, <1>3, <1>5, <1>6, <1>7 DEF ProgramInv

LEMMA NextPInv == PInv /\ [Next]_vars => PInv'
<1> SUFFICES ASSUME PInv, [Next]_vars, G!Aligned, Clean PROVE ProgramInv'
  BY DEF PInv, Clean, G!Aligned
<1>1. ProgramInv
  BY DEF PInv
<1>2. CASE Generating
  BY <1>1, <1>2, GeneratingProgram
<1>3. CASE Merging
  BY <1>1, <1>3, MergingProgram
<1>4. CASE DeleteBin \/ Return
  BY <1>1, <1>4, DeleteBinProgram, ReturnProgram
<1>5. CASE Kill
  BY <1>1, <1>5, KillProgram
<1>6. CASE RunAgain
  BY <1>1, <1>6, RunAgainProgram
<1>7. CASE Over \/ UNCHANGED vars
  BY <1>1, <1>7, StutterProgram DEF Over
<1> QED
  BY <1>2, <1>3, <1>4, <1>5, <1>6, <1>7 DEF Next, Step

LEMMA PInvAlways == Spec => []PInv
  BY InitPInv, NextPInv, PTL DEF Spec

LEMMA ProgramAlways ==
  ASSUME Undisturbed
  PROVE  Spec => []ProgramInv
<1>1. PInv => ProgramInv
  BY EvenFacts DEF PInv
<1> QED
  BY <1>1, PInvAlways, PTL

-----------------------------------------------------------------------------
(* What the program guarantees *)

(* Whatever library call fails and wherever earlier runs were killed, a    *)
(* run that returns has written a sorted file without repeated records.    *)
THEOREM SortsWhateverFails == Spec => []SortedWhateverFails
<1>1. PInv => SortedWhateverFails
  BY DEF PInv, Clean, ProgramInv, WrittenInv, SortedWhateverFails, GP!NoneTwice
<1> QED
  BY <1>1, PInvAlways, PTL

LEMMA LenOfAll ==
  ASSUME NEW s \in Seq(Nonce), GP!NoneTwice(s), Image(s) = Nonce
  PROVE  Len(s) = total_hash_count
<1>1. /\ DOMAIN s = 1 .. Len(s) /\ Len(s) \in Nat /\ s \in [1 .. Len(s) -> Nonce]
  BY LenProperties
<1>2. s \in Injection(1 .. Len(s), Nonce)
  BY <1>1, Fun_IsInj DEF GP!NoneTwice
<1>3. s \in Surjection(1 .. Len(s), Nonce)
  <2>1. \A v \in Nonce : \E m \in 1 .. Len(s) : s[m] = v
    BY <1>1 DEF Image
  <2> QED
    BY <1>1, <2>1, Fun_IsSurj
<1>4. /\ total_hash_count \in Nat
      /\ IsFiniteSet(Nonce) /\ Cardinality(Nonce) = total_hash_count
      /\ Cardinality(1 .. Len(s)) = Len(s)
  <2>1. total_hash_count \in Nat
    BY ConfigAssumption
  <2>2. IsFiniteSet(Nonce) /\ Cardinality(Nonce) = total_hash_count
    BY <2>1, FS_Interval DEF Nonce
  <2>3. Cardinality(1 .. Len(s)) = Len(s)
    BY <1>1, FS_Interval
  <2> QED
    BY <2>1, <2>2, <2>3
<1>5. Cardinality(1 .. Len(s)) = Cardinality(Nonce)
  BY <1>2, <1>3, <1>4, FS_Injection
<1> QED
  BY <1>4, <1>5

(* What the program is for: with options that leave no remainder and no    *)
(* failing call, the output of a run that returns holds every record       *)
(* exactly once in the order of the hashes, whatever the threads did and   *)
(* wherever earlier runs in the same directory were killed.                *)
THEOREM ProgramCompletes == Spec => []CompletedOutput
<1>1. ASSUME Undisturbed PROVE ProgramInv => CompletedOutput
  <2> SUFFICES ASSUME ProgramInv, pc = "exit"
               PROVE  /\ SortedByHash(output) /\ Image(output) = Nonce
                      /\ Len(output) = total_hash_count
    BY DEF CompletedOutput
  <2>1. /\ SortedByHash(output) /\ GP!NoneTwice(output) /\ Image(output) = Nonce
        /\ output \in Seq(Nonce)
    BY <1>1 DEF ProgramInv, WrittenInv, ProcessInv
  <2> QED
    BY <2>1, LenOfAll
<1>2. CASE Undisturbed
  BY <1>1, <1>2, ProgramAlways, PTL
<1>3. CASE ~Undisturbed
  <2>1. CompletedOutput
    BY <1>3 DEF CompletedOutput
  <2> QED
    BY <2>1, PTL
<1> QED
  BY <1>2, <1>3

(* From the end of generation on no record is lost, whenever the process   *)
(* is killed: it is in a bucket or in the output.                          *)
THEOREM RecordsOnDisk == Spec => []OnDisk
<1>1. ASSUME Undisturbed PROVE ProgramInv => OnDisk
  <2> SUFFICES ASSUME ProgramInv,
                      pc \in {"ExternalSort"} \cup Merge \cup {"delete_bins", "exit"},
                      NEW v \in Nonce
               PROVE  v \in Image(output) \cup UNION {Image(bucket[b]) : b \in DOMAIN bucket}
    BY DEF OnDisk, Merge
  <2>1. CASE pc \in {"ExternalSort"} \cup Merge
    <3>1. \A b \in 0 .. (GP!iterations * sort_threads - 1) : GP!Complete(ours, b)
      BY <2>1, SameAligned DEF ProgramInv, MergeInv, AllWritten, BucketFile
    <3>2. v \in GP!Nonce /\ Faults = {} /\ GP!iterations * max_records = total_hash_count
      BY <1>1, SameGenerate, EvenFacts
    <3>3. \E b \in 0 .. (GP!iterations * sort_threads - 1) :
            b \in DOMAIN ours /\ \E m \in DOMAIN ours[b] : ours[b][m] = v
      BY <3>1, <3>2, ConfigAssumption, HashAssumption, FaultsAssumption, GP!AllThere
         DEF GP!Nonce, Nonce
    <3> QED
      BY <3>3, OursAmongBuckets DEF Image
  <2>2. CASE pc \in {"delete_bins", "exit"}
    BY <1>1, <2>2 DEF ProgramInv, WrittenInv
  <2> QED
    BY <2>1, <2>2
<1>2. CASE Undisturbed
  BY <1>1, <1>2, ProgramAlways, PTL
<1>3. CASE ~Undisturbed
  <2>1. OnDisk
    BY <1>3 DEF OnDisk
  <2> QED
    BY <2>1, PTL
<1> QED
  BY <1>2, <1>3

(* A run that returns leaves no bucket whose number it uses, of whatever   *)
(* run, and beyond those numbers only buckets that runs with other options *)
(* wrote.                                                                  *)
THEOREM RemovesBuckets == Spec => []NoBucketLeft
<1>1. ASSUME Undisturbed PROVE ProgramInv => NoBucketLeft
  <2> SUFFICES ASSUME ProgramInv, pc = "exit", NEW b \in DOMAIN bucket
               PROVE  b \in foreign /\ b >= no_files
    BY DEF NoBucketLeft
  <2>1. /\ removed \in Nat /\ removed <= b /\ BucketCount <= removed /\ no_files = BucketCount
        /\ b \in Nat
    BY DEF ProgramInv, ProcessInv, WrittenInv, DirectoryInv
  <2>2. b >= no_files
    BY <2>1, BucketCountTyped
  <2>3. b \notin BucketFile
    BY <2>1, BucketCountTyped DEF BucketFile
  <2>4. b \notin DOMAIN ours
    BY <2>3, KnownBuckets DEF ProgramInv, DirectoryInv, OursInv
  <2> QED
    BY <2>2, <2>4, OursAmongBuckets
<1>2. CASE Undisturbed
  BY <1>1, <1>2, ProgramAlways, PTL
<1>3. CASE ~Undisturbed
  <2>1. NoBucketLeft
    BY <1>3 DEF NoBucketLeft
  <2> QED
    BY <2>1, PTL
<1> QED
  BY <1>2, <1>3

(* No run ends through a bad pointer or a failed check.                    *)
THEOREM ProgramEndsWell == Spec => []EndsWell
<1>1. CASE Undisturbed
  <2>1. ProgramInv => EndsWell
    BY <1>1 DEF ProgramInv, EndsWell
  <2> QED
    BY <1>1, <2>1, ProgramAlways, PTL
<1>2. CASE ~Undisturbed
  <2>1. EndsWell
    BY <1>2 DEF EndsWell
  <2> QED
    BY <2>1, PTL
<1> QED
  BY <1>1, <1>2

(* While a run goes on, only delete_bins removes files.                    *)
LEMMA OthersKeepFiles ==
  ASSUME [Next]_vars, ~DeleteBin, pc \notin Ended
  PROVE  DOMAIN bucket \subseteq DOMAIN bucket'
<1>1. CASE Generating
  <2>1. G!Main => bucket' = bucket
    BY MainKeepsBuckets
  <2>2. ASSUME NEW s \in G!Slot, G!Worker(s) PROVE DOMAIN bucket \subseteq DOMAIN bucket'
    BY <2>2 DEF G!Worker, G!HashRecord, G!HashReturn, G!NullStore, G!Crash, G!QSort,
       G!OpenBucket, G!WriteBucket, G!BucketsWith, G!shared
  <2> QED
    BY <1>1, <2>1, <2>2 DEF Generating, GenerateMain, GenerateWorker
<1>2. CASE Merging
  BY <1>2, MergePhases DEF Merging
<1>3. CASE Return \/ Kill \/ Over \/ UNCHANGED vars
  BY <1>3 DEF Return, Kill, Over, vars, shared
<1>4. ~RunAgain
  BY DEF RunAgain
<1> QED
  BY <1>1, <1>2, <1>3, <1>4 DEF Next, Step

(* A run removes a bucket only when all its records are in the output file,*)
(* so that a run killed while it removes them has lost nothing.            *)
THEOREM DeletesMerged == Spec => DeletesOnlyMerged
<1>1. ASSUME PInv, [Next]_vars
      PROVE  [Undisturbed /\ pc \notin Ended =>
                \A b \in DOMAIN bucket \ DOMAIN bucket' :
                               Image(bucket[b]) \subseteq Image(output)]_vars
  <2> SUFFICES ASSUME Undisturbed, pc \notin Ended, NEW b \in DOMAIN bucket \ DOMAIN bucket',
                      NEW v \in Image(bucket[b])
               PROVE  v \in Image(output)
    OBVIOUS
  <2>1. ProgramInv
    BY <1>1, EvenFacts DEF PInv
  <2>2. pc = "delete_bins"
    BY <1>1, OthersKeepFiles DEF DeleteBin
  <2>3. Image(output) = Nonce
    BY <2>1, <2>2 DEF ProgramInv, WrittenInv
  <2>4. bucket[b] \in Seq(Nonce)
    BY <2>1 DEF ProgramInv, DirectoryInv
  <2> QED
    BY <2>3, <2>4, LenProperties, ElementOfSeq DEF Image
<1> QED
  BY <1>1, PInvAlways, PTL DEF Spec, DeletesOnlyMerged

-----------------------------------------------------------------------------
(* The program writes the sorted file *)

(* What the specification of the sorted file sees of the program.          *)
written == IF pc = "killed" THEN output ELSE E!merged
unwritten == Nonce \ Image(written)
verdict ==
  CASE pc = "exit" -> "success"
    [] pc \in Ended \ {"exit"} -> "failure"
    [] OTHER -> "none"

LEMMA WrittenTyped ==
  ASSUME ProgramInv
  PROVE  /\ E!merged = EP!merged /\ E!merged \in Seq(Nonce) /\ written \in Seq(Nonce)
         /\ output \in Seq(Nonce) /\ sorted \in Seq(Nonce)
         /\ sorted = <<>> => E!merged = output
<1>1. output \in Seq(Nonce) /\ sorted \in Seq(Nonce)
  BY DEF ProgramInv, ProcessInv
<1>2. output \o sorted \in Seq(Nonce) /\ (sorted = <<>> => output \o sorted = output)
  BY <1>1, ConcatProperties, ConcatEmptySeq
<1> QED
  BY <1>1, <1>2 DEF E!merged, EP!merged, written

(* While a run goes on, nothing is written twice.                          *)
LEMMA WrittenOnce ==
  ASSUME ProgramInv, pc \notin Ended
  PROVE  written = E!merged /\ GP!NoneTwice(written)
<1>1. written = E!merged
  BY DEF written, Ended
<1>2. CASE pc \in Generation
  <2>1. E!merged = <<>>
    BY <1>2, WrittenTyped DEF ProgramInv, GenerationInv
  <2> QED
    BY <1>1, <2>1 DEF GP!NoneTwice
<1>3. CASE pc \in {"ExternalSort"} \cup Merge
  <2>1. EP!OnlyOnce(EP!merged)
    BY <1>3 DEF ProgramInv, MergeInv, EP!OnceInv
  <2> QED
    BY <1>1, <2>1, WrittenTyped DEF EP!OnlyOnce, GP!NoneTwice
<1>4. CASE pc = "delete_bins"
  BY <1>1, <1>4, WrittenTyped DEF ProgramInv, WrittenInv
<1>5. pc \in Generation \cup {"ExternalSort"} \cup Merge \cup {"delete_bins"}
  BY DEF ProgramInv, ProcessInv
<1> QED
  BY <1>1, <1>2, <1>3, <1>4, <1>5

(* The records that are lost from the end of a sequence without repeats.   *)
LEMMA CutBack ==
  ASSUME NEW s \in Seq(Nonce), GP!NoneTwice(s), NEW n \in 0 .. Len(s)
  PROVE  Nonce \ Image(SubSeq(s, 1, n))
           = (Nonce \ Image(s)) \cup {s[m] : m \in (n + 1) .. Len(s)}
<1> DEFINE t == SubSeq(s, 1, n)
<1>1. /\ t \in Seq(Nonce) /\ Len(t) = n
      /\ \A m \in 1 .. n : m \in 1 .. Len(s) /\ t[m] = s[m]
  BY ConfigAssumption, HashAssumption, FaultsAssumption, EP!PrefixOf DEF EP!Nonce, Nonce
<1> HIDE DEF t
<1>2. /\ DOMAIN t = 1 .. n /\ DOMAIN s = 1 .. Len(s) /\ Len(s) \in Nat
      /\ \A m \in 1 .. Len(s) : s[m] \in Nonce
  BY <1>1, LenProperties, ElementOfSeq
<1>3. ASSUME NEW v \in Nonce, v \notin Image(t), v \in Image(s)
      PROVE  v \in {s[m] : m \in (n + 1) .. Len(s)}
  <2>1. PICK m \in 1 .. Len(s) : v = s[m]
    BY <1>2, <1>3 DEF Image
  <2>2. ~(m <= n)
    BY <1>1, <1>2, <1>3, <2>1 DEF Image
  <2> QED
    BY <1>2, <2>1, <2>2
<1>4. ASSUME NEW v \in Image(t) PROVE v \in Image(s) /\ v \notin {s[m] : m \in (n + 1) .. Len(s)}
  <2>1. PICK m \in 1 .. n : v = t[m]
    BY <1>2, <1>4 DEF Image
  <2>2. m \in 1 .. Len(s) /\ v = s[m]
    BY <1>1, <2>1
  <2>3. \A q \in (n + 1) .. Len(s) : q \in 1 .. Len(s) /\ q # m
    BY <1>2, <2>1
  <2> QED
    BY <1>2, <2>2, <2>3 DEF Image, GP!NoneTwice
<1>5. \A m \in (n + 1) .. Len(s) : s[m] \in Nonce
  BY <1>2
<1>6. Nonce \ Image(t) = (Nonce \ Image(s)) \cup {s[m] : m \in (n + 1) .. Len(s)}
  BY <1>3, <1>4, <1>5
<1> QED
  BY <1>6 DEF t

(* Steps the sorted file does not see.                                     *)
LEMMA Unseen ==
  ASSUME written' = written, verdict' = verdict
  PROVE  UNCHANGED File!vars
<1>1. unwritten' = unwritten
  BY DEF unwritten, Image
<1> QED
  BY <1>1 DEF File!vars, written, unwritten, verdict

LEMMA GeneratingUnseen ==
  ASSUME Undisturbed, ProgramInv, Generating
  PROVE  UNCHANGED File!vars
<1>1. /\ pc \in Generation /\ pc' \in Generation \cup {"ExternalSort"}
      /\ UNCHANGED <<output, sorted>>
  BY GenerationPhases, EvenFacts DEF ProgramInv, Generating, GenerateMain, GenerateWorker, G!Step,
     mergeVars
<1>2. pc \notin Ended /\ pc' \notin Ended
  BY <1>1 DEF Generation, GP!Role, Ended
<1>3. written' = written /\ verdict' = verdict
  BY <1>1, <1>2 DEF written, verdict, E!merged, Ended
<1> QED
  BY <1>3, Unseen

LEMMA MergingSeen ==
  ASSUME Undisturbed, ProgramInv, Merging
  PROVE  File!Emit \/ UNCHANGED File!vars
<1>1. /\ EP!Next /\ EP!IInv /\ EP!OnceInv
      /\ pc \in {"ExternalSort"} \cup Merge /\ pc' \in Merge \cup {"delete_bins"}
      /\ Faults = {} /\ E!Step /\ no_files = BucketCount
  BY MergingNext, MergePhases, MergingDefined, EvenFacts DEF Merging, ProgramInv, MergeInv
<1>2. pc \notin Ended /\ pc' \notin Ended
  BY <1>1 DEF Merge, Ended
<1>3. verdict = "none" /\ verdict' = "none"
  BY <1>2 DEF verdict, Ended
<1>4. /\ written = E!merged /\ written' = E!merged' /\ E!merged = EP!merged
      /\ E!merged' = EP!merged'
  BY <1>2 DEF written, Ended, E!merged, EP!merged
<1>5. CASE EP!MergeStep /\ pc' = "merge"
  <2> DEFINE r == EP!Current(EP!small_idx)
  <2>1. pc = "merge" /\ EP!Candidates # {}
    BY <1>5 DEF EP!MergeStep
  <2>2. EP!BucketsSorted /\ EP!ToMerge = Nonce
    BY <1>1, HereSorted, AllToMerge, EvenFacts DEF ProgramInv, MergeInv
  <2>3. r \in EP!left /\ \A q \in EP!left : Hash[r] <= Hash[q]
    BY <1>1, <2>1, <2>2, ConfigAssumption, HashAssumption, FaultsAssumption, EP!LeastToCome
       DEF EP!Nonce, Nonce
  <2> HIDE DEF r
  <2>4. /\ EP!merged' = Append(EP!merged, r)
        /\ EP!Image(EP!merged') = EP!Image(EP!merged) \cup {r}
    BY <1>1, <1>5, ConfigAssumption, HashAssumption, FaultsAssumption, EP!MergedGrows
       DEF EP!Nonce, Nonce, r
  <2>5. EP!left = unwritten
    BY <1>4, <2>2 DEF EP!left, EP!Image, Image, unwritten
  <2>6. unwritten' = unwritten \ {r}
    BY <1>4, <2>4 DEF unwritten, Image, EP!Image
  <2>7. written' = Append(written, r)
    BY <1>4, <2>4
  <2>8. File!Emit
    BY <1>3, <2>3, <2>5, <2>6, <2>7 DEF File!Emit, written, unwritten, verdict
  <2> QED
    BY <2>8
<1>6. CASE ~(EP!MergeStep /\ pc' = "merge")
  <2>1. EP!merged' = EP!merged
    BY <1>1, <1>6, ConfigAssumption, HashAssumption, FaultsAssumption, EP!MergedShrinks
       DEF EP!Nonce, Nonce
  <2> QED
    BY <1>3, <1>4, <2>1, Unseen
<1> QED
  BY <1>5, <1>6

LEMMA ReturnFinishes ==
  ASSUME Undisturbed, ProgramInv, Return
  PROVE  File!Finish
<1>1. pc = "delete_bins" /\ pc' = "exit" /\ UNCHANGED <<output, sorted>>
  BY DEF Return, mergeVars
<1>2. sorted = <<>> /\ Image(output) = Nonce
  BY <1>1 DEF ProgramInv, WrittenInv
<1>3. written = output /\ written' = written
  BY <1>1, <1>2, WrittenTyped DEF written, E!merged
<1>4. unwritten = {} /\ unwritten' = unwritten
  BY <1>2, <1>3 DEF unwritten, Image
<1>5. verdict = "none" /\ verdict' = "success"
  BY <1>1 DEF verdict, Ended
<1> QED
  BY <1>3, <1>4, <1>5 DEF File!Finish, written, unwritten, verdict

LEMMA KillFails ==
  ASSUME ProgramInv, Kill
  PROVE  File!Fail
<1>1. pc \notin Ended /\ pc' = "killed" /\ sorted' = sorted
  BY DEF Kill
<1>2. /\ written = output \o sorted /\ GP!NoneTwice(written) /\ written \in Seq(Nonce)
      /\ output \in Seq(Nonce) /\ sorted \in Seq(Nonce) /\ Len(sorted) \in Nat
  BY <1>1, WrittenOnce, WrittenTyped, LenProperties DEF E!merged
<1>3. \E n \in 0 .. Len(sorted) : output' = output \o SubSeq(sorted, 1, n)
  <2>1. CASE output' = output
    <3>1. SubSeq(sorted, 1, 0) = <<>>
      BY <1>2
    <3>2. output \o <<>> = output
      BY <1>2, ConcatEmptySeq
    <3>3. output' = output \o SubSeq(sorted, 1, 0)
      BY <2>1, <3>1, <3>2
    <3>4. 0 \in 0 .. Len(sorted)
      BY <1>2
    <3> QED
      BY <3>3, <3>4
  <2>2. CASE \E n \in 1 .. Len(sorted) : output' = output \o SubSeq(sorted, 1, n)
    <3>1. PICK n \in 1 .. Len(sorted) : output' = output \o SubSeq(sorted, 1, n)
      BY <2>2
    <3>2. n \in 0 .. Len(sorted)
      BY <1>2
    <3> QED
      BY <3>1, <3>2
  <2> QED
    BY <2>1, <2>2 DEF Kill
<1>4. PICK n \in 0 .. Len(sorted) : output' = output \o SubSeq(sorted, 1, n)
  BY <1>3
<1>5. \E m \in 0 .. Len(output \o sorted) :
        output \o SubSeq(sorted, 1, n) = SubSeq(output \o sorted, 1, m)
  <2>1. output \in Seq(EP!Nonce) /\ sorted \in Seq(EP!Nonce)
    BY <1>2 DEF EP!Nonce, Nonce
  <2> QED
    BY <2>1, ConfigAssumption, HashAssumption, FaultsAssumption, EP!PrefixOfConcat
       DEF EP!Nonce, Nonce
<1>6. PICK m \in 0 .. Len(written) : written' = SubSeq(written, 1, m)
  BY <1>1, <1>2, <1>4, <1>5 DEF written
<1>7. unwritten' = unwritten \cup {written[q] : q \in (m + 1) .. Len(written)}
  <2>1. Nonce \ Image(SubSeq(written, 1, m))
          = (Nonce \ Image(written)) \cup {written[q] : q \in (m + 1) .. Len(written)}
    BY <1>2, CutBack
  <2>2. unwritten' = Nonce \ Image(SubSeq(written, 1, m))
    BY <1>6 DEF unwritten, Image
  <2> QED
    BY <2>1, <2>2 DEF unwritten
<1>8. verdict = "none" /\ verdict' = "failure"
  BY <1>1 DEF verdict, Ended
<1> QED
  BY <1>6, <1>7, <1>8 DEF File!Fail, written, unwritten, verdict

LEMMA RunAgainRestarts ==
  ASSUME Undisturbed, ProgramInv, RunAgain
  PROVE  File!Restart
<1>1. pc \in Ended /\ pc' = "malloc" /\ sorted' = <<>> /\ output' = <<>>
  BY CleanRun, EvenFacts DEF RunAgain
<1>2. verdict # "none" /\ verdict' = "none"
  BY <1>1 DEF verdict, Ended
<1>3. written' = <<>>
  BY <1>1, EmptySeq, ConcatEmptySeq DEF written, E!merged
<1>4. written \in Seq(Nonce)
  BY WrittenTyped
<1>5. Image(written) = {written[m] : m \in DOMAIN written} /\ Image(written) \subseteq Nonce
  BY <1>4, LenProperties, ElementOfSeq DEF Image
<1>6. unwritten' = unwritten \cup {written[m] : m \in DOMAIN written}
  <2>1. unwritten' = Nonce
    BY <1>3 DEF unwritten, Image
  <2> QED
    BY <1>5, <2>1 DEF unwritten
<1> QED
  BY <1>2, <1>3, <1>6 DEF File!Restart, written, unwritten, verdict

(* With options that leave no remainder and no failing call, every step of *)
(* the program, in whatever phase and of whatever thread, is a step of the *)
(* sorted file or none: records are emitted in order from all buckets,     *)
(* a killed run leaves a prefix of them, and another starts from nothing.  *)
THEOREM ProgramSorts ==
  ASSUME Undisturbed
  PROVE  Spec => File!Init /\ [][File!Next]_(File!vars)
<1>1. Init => File!Init
  <2> SUFFICES ASSUME Init PROVE File!Init
    OBVIOUS
  <2>1. pc = "malloc" /\ output = <<>> /\ sorted = <<>>
    BY DEF Init, G!Init, E!InitOwn
  <2>2. written = <<>> /\ verdict = "none"
    BY <2>1, EmptySeq, ConcatEmptySeq DEF written, E!merged, verdict, Ended
  <2> QED
    BY <2>2 DEF File!Init, written, verdict
<1>2. ProgramInv /\ [Next]_vars => [File!Next]_(File!vars)
  <2> SUFFICES ASSUME ProgramInv, [Next]_vars PROVE File!Next \/ UNCHANGED File!vars
    OBVIOUS
  <2>1. CASE Generating
    BY <2>1, GeneratingUnseen
  <2>2. CASE Merging
    BY <2>2, MergingSeen DEF File!Next
  <2>3. CASE DeleteBin
    <3>1. pc' = pc /\ UNCHANGED <<output, sorted>>
      BY <2>3 DEF DeleteBin, mergeVars
    <3>2. written' = written /\ verdict' = verdict
      BY <3>1 DEF written, verdict, E!merged, Ended
    <3> QED
      BY <3>2, Unseen
  <2>4. CASE Return
    BY <2>4, ReturnFinishes DEF File!Next
  <2>5. CASE Kill
    BY <2>5, KillFails DEF File!Next
  <2>6. CASE RunAgain
    BY <2>6, RunAgainRestarts DEF File!Next
  <2>7. CASE Over \/ UNCHANGED vars
    <3>1. pc' = pc /\ UNCHANGED <<output, sorted>>
      BY <2>7 DEF Over, vars, shared, mergeVars
    <3>2. written' = written /\ verdict' = verdict
      BY <3>1 DEF written, verdict, E!merged, Ended
    <3> QED
      BY <3>2, Unseen
  <2> QED
    BY <2>1, <2>2, <2>3, <2>4, <2>5, <2>6, <2>7 DEF Next, Step
<1> QED
  BY <1>1, <1>2, ProgramAlways, PTL DEF Spec
=============================================================================
