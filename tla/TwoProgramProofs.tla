-------------------------- MODULE TwoProgramProofs --------------------------
(***************************************************************************)
(* What new.c hands over and external_sort.c makes of it, for every number *)
(* of threads, records and buckets.                                        *)
(***************************************************************************)
EXTENDS TwoPrograms, SlicesProofs, FiniteSetTheorems, FunctionTheorems, SequenceTheorems

-----------------------------------------------------------------------------
(* Options *)

LEMMA OptionsTyped ==
  ASSUME options \in Options
  PROVE  /\ options.hash \in Nat \ {0} /\ options.sort \in Nat \ {0}
         /\ options.write \in Nat \ {0}
         /\ max_records \in Nat \ {0} /\ total_hash_count \in Nat
         /\ \A r \in Role : ThreadCount(r) \in Nat \ {0}
<1>1. /\ options.hash \in Nat \ {0} /\ options.sort \in Nat \ {0}
      /\ options.write \in Nat \ {0}
      /\ max_records \in Nat \ {0} /\ total_hash_count \in Nat
  BY NewAssumption
<1> QED
  BY <1>1 DEF ThreadCount

(* The rounds of writing_sort stay inside the array.                       *)
LEMMA SegmentsFit ==
  ASSUME options \in Options, options.write < options.sort
  PROVE  /\ write_iter \in Nat \ {0}
         /\ write_segment \in Nat
         /\ write_iter * write_segment <= max_records
<1>1. /\ options.sort \in Nat \ {0} /\ options.write \in Nat \ {0}
      /\ max_records \in Nat
  BY OptionsTyped
<1>2. write_iter \in Nat \ {0}
  BY <1>1 DEF write_iter
<1>3. write_segment = PerThread(max_records, write_iter)
  BY DEF write_segment, PerThread
<1> QED
  BY <1>1, <1>2, <1>3, DivisionFits

LEMMA IterationsFit ==
  /\ iterations \in Nat
  /\ iterations * max_records <= total_hash_count
<1>1. max_records \in Nat \ {0} /\ total_hash_count \in Nat
  BY NewAssumption
<1>2. iterations = PerThread(total_hash_count, max_records)
  BY DEF iterations, PerThread
<1>3. iterations \in Nat /\ max_records * iterations <= total_hash_count
  BY <1>1, <1>2, DivisionFits
<1> QED
  BY <1>1, <1>3

-----------------------------------------------------------------------------
(* The threads of new.c *)

(* main has created the threads 0 .. spawned - 1 of this phase and taken   *)
(* back 0 .. joined - 1; those in between exist, and no others.            *)
MainInv ==
  /\ options \in Options
  /\ j \in Nat /\ k \in Nat /\ no_files \in Nat
  /\ pc \notin Role => DOMAIN thread = {}
  /\ pc \in Role =>
       /\ spawned \in 0 .. ThreadCount(pc) /\ joined \in 0 .. spawned
       /\ DOMAIN thread = {<<pc, n>> : n \in joined .. (spawned - 1)}
       /\ j < iterations
  /\ pc = "malloc" => spawned = 0 /\ joined = 0
  /\ pc = "writing_write" => options.write >= options.sort
  /\ pc = "writing_sort" => options.write < options.sort /\ k < write_iter
  /\ memory = "null" => "malloc" \in options.faults

Thread ==
  [state : {"running", "writing", "exited"}, x : Nat, k : Nat, bucket_start : Nat]

(* A thread works with main's current j, k and no_files.                   *)
ThreadInv ==
  \A s \in DOMAIN thread :
    /\ thread[s] \in Thread
    /\ thread[s].x = j /\ thread[s].k = k /\ thread[s].bucket_start = no_files
    /\ thread[s].state = "writing" => pc \in Writers

NewInv == MainInv /\ ThreadInv

LEMMA ThreadShape ==
  ASSUME NewInv, NEW s \in DOMAIN thread
  PROVE  /\ pc \in Role /\ s = <<pc, s[2]>> /\ s[1] = pc
         /\ s[2] \in joined .. (spawned - 1) /\ s[2] \in 0 .. (ThreadCount(pc) - 1)
         /\ ThreadCount(pc) \in Nat \ {0} /\ spawned \in Nat /\ joined \in Nat
         /\ thread[s] \in Thread
         /\ thread[s].x = j /\ thread[s].k = k /\ thread[s].bucket_start = no_files
<1>1. pc \in Role
  BY DEF NewInv, MainInv
<1>2. ThreadCount(pc) \in Nat \ {0}
  BY <1>1, OptionsTyped DEF NewInv, MainInv
<1>3. /\ spawned \in 0 .. ThreadCount(pc) /\ joined \in 0 .. spawned
      /\ DOMAIN thread = {<<pc, n>> : n \in joined .. (spawned - 1)}
  BY <1>1 DEF NewInv, MainInv
<1>4. PICK n \in joined .. (spawned - 1) : s = <<pc, n>>
  BY <1>3
<1> QED
  BY <1>1, <1>2, <1>3, <1>4 DEF NewInv, ThreadInv

(* The part of the array of a thread.                                      *)
Base(r) == IF r = "writing_sort" THEN k * write_segment ELSE 0

LEMMA TouchesSlice ==
  ASSUME NewInv, NEW s \in DOMAIN thread
  PROVE  /\ Base(pc) \in Nat /\ SegmentSize(pc) \in Nat /\ Base(pc) + SegmentSize(pc) <= max_records
         /\ start_index(s) = Base(pc) + SliceStart(SegmentSize(pc), ThreadCount(pc), s[2])
         /\ end_index(s) = Base(pc) + SliceEnd(SegmentSize(pc), ThreadCount(pc), s[2])
         /\ start_index(s) \in Nat /\ end_index(s) \in Nat
         /\ start_index(s) <= end_index(s) /\ end_index(s) <= max_records
         /\ Touches(s) \subseteq Cell
<1>1. /\ pc \in Role /\ s[1] = pc /\ s[2] \in 0 .. (ThreadCount(pc) - 1)
      /\ ThreadCount(pc) \in Nat \ {0} /\ thread[s].k = k
  BY ThreadShape
<1>2. /\ options \in Options /\ k \in Nat
      /\ pc = "writing_sort" => options.write < options.sort /\ k < write_iter
  BY DEF NewInv, MainInv
<1>3. max_records \in Nat
  BY <1>2, OptionsTyped
<1>4. /\ start_index(s) = Base(pc) + SliceStart(SegmentSize(pc), ThreadCount(pc), s[2])
      /\ end_index(s) = Base(pc) + SliceEnd(SegmentSize(pc), ThreadCount(pc), s[2])
  BY <1>1 DEF start_index, end_index, Offset, Base
<1>5. Base(pc) \in Nat /\ SegmentSize(pc) \in Nat /\ Base(pc) + SegmentSize(pc) <= max_records
  <2>1. CASE pc = "writing_sort"
    <3>1. /\ write_iter \in Nat /\ write_segment \in Nat
          /\ write_iter * write_segment <= max_records
      BY <1>2, <2>1, SegmentsFit
    <3>2. (k + 1) * write_segment <= write_iter * write_segment
      BY <1>2, <2>1, <3>1, TimesMonotone, k + 1 \in Nat, k + 1 <= write_iter
    <3>3. /\ k * write_segment \in Nat /\ (k + 1) * write_segment = k * write_segment + write_segment
          /\ write_iter * write_segment \in Nat
      BY <1>2, <3>1
    <3>4. k * write_segment + write_segment <= max_records
      BY <1>3, <3>1, <3>2, <3>3
    <3> QED
      BY <2>1, <3>1, <3>3, <3>4 DEF Base, SegmentSize
  <2>2. CASE pc # "writing_sort"
    BY <1>3, <2>2 DEF Base, SegmentSize
  <2> QED
    BY <2>1, <2>2
<1>6. /\ SliceStart(SegmentSize(pc), ThreadCount(pc), s[2]) \in Nat
      /\ SliceEnd(SegmentSize(pc), ThreadCount(pc), s[2]) \in Nat
      /\ SliceStart(SegmentSize(pc), ThreadCount(pc), s[2])
           <= SliceEnd(SegmentSize(pc), ThreadCount(pc), s[2])
      /\ SliceEnd(SegmentSize(pc), ThreadCount(pc), s[2]) <= SegmentSize(pc)
  BY <1>1, <1>5, SliceWithin
<1>7. /\ start_index(s) \in Nat /\ end_index(s) \in Nat
      /\ start_index(s) <= end_index(s) /\ end_index(s) <= max_records
  BY <1>3, <1>4, <1>5, <1>6
<1>8. Touches(s) \subseteq Cell
  BY <1>3, <1>7 DEF Touches, Cell
<1> QED
  BY <1>4, <1>5, <1>7, <1>8

(* An interval that is moved keeps its distance from another.              *)
LEMMA TouchesApart ==
  ASSUME NewInv, NEW s \in DOMAIN thread, NEW t \in DOMAIN thread, s # t
  PROVE  /\ Touches(s) \cap Touches(t) = {}
         /\ bucket_no(s) # bucket_no(t)
<1> DEFINE M == SegmentSize(pc)
           T == ThreadCount(pc)
           b == Base(pc)
<1>1. /\ pc \in Role /\ s = <<pc, s[2]>> /\ t = <<pc, t[2]>> /\ T \in Nat \ {0}
      /\ s[2] \in 0 .. (T - 1) /\ t[2] \in 0 .. (T - 1)
      /\ thread[s].k = k /\ thread[t].k = k
      /\ thread[s].bucket_start = no_files /\ thread[t].bucket_start = no_files
  BY ThreadShape
<1>2. s[2] # t[2] /\ s[1] = t[1] /\ s[2] \in Nat /\ t[2] \in Nat
  BY <1>1
<1>3. bucket_no(s) # bucket_no(t)
  <2>1. no_files \in Nat /\ options.write * k \in Nat
    BY OptionsTyped DEF NewInv, MainInv
  <2> QED
    BY <1>1, <1>2, <2>1 DEF bucket_no
<1>4. /\ b \in Nat /\ M \in Nat
      /\ start_index(s) = b + SliceStart(M, T, s[2]) /\ end_index(s) = b + SliceEnd(M, T, s[2])
      /\ start_index(t) = b + SliceStart(M, T, t[2]) /\ end_index(t) = b + SliceEnd(M, T, t[2])
  BY TouchesSlice
<1> HIDE DEF M, T, b
<1>5. Slice(M, T, s[2]) \cap Slice(M, T, t[2]) = {}
  BY <1>1, <1>2, <1>4, SlicesDisjoint
<1>6. /\ SliceStart(M, T, s[2]) \in Nat /\ SliceEnd(M, T, s[2]) \in Nat
      /\ SliceStart(M, T, t[2]) \in Nat /\ SliceEnd(M, T, t[2]) \in Nat
  BY <1>1, <1>4, SliceWithin
<1>7. ASSUME NEW c \in Touches(s) \cap Touches(t)
      PROVE  FALSE
  <2>1. c \in Int /\ c - b \in Slice(M, T, s[2])
    BY <1>4, <1>6, <1>7 DEF Slice, Touches
  <2>2. c - b \in Slice(M, T, t[2])
    BY <1>4, <1>6, <1>7 DEF Slice, Touches
  <2> QED
    BY <1>5, <2>1, <2>2
<1> QED
  BY <1>3, <1>7

-----------------------------------------------------------------------------
(* The invariant of the threads is inductive *)

(* What happens once new.c has ended does not concern it.                  *)
Later == StartExternalSort \/ Merging \/ Over \/ UNCHANGED vars

LEMMA LaterKeeps ==
  ASSUME Later
  PROVE  /\ UNCHANGED <<bucket, no_files, options, j, k, thread, hashes, memory>>
         /\ \/ pc' = pc /\ UNCHANGED <<spawned, joined>>
            \/ pc \notin Role \cup {"malloc", "crashed"} /\ pc' \notin Role \cup {"malloc"}
<1> USE DEF newOwn, Role
<1>1. CASE StartExternalSort
  BY <1>1 DEF StartExternalSort, StartMerge
<1>2. CASE Merging
  BY <1>2 DEF Merging, MergeMain, MergeThread, CreateLoad, JoinLoad, PrintFirst, MergeRecord,
     WriteRest, Load, NoMemory, NullOutput, MergeCrash
<1>3. CASE Over \/ UNCHANGED vars
  BY <1>3 DEF Over, vars, newVars
<1> QED
  BY <1>1, <1>2, <1>3 DEF Later

LEMMA LaterStep == NewInv /\ Later => NewInv'
<1> SUFFICES ASSUME NewInv, Later PROVE NewInv'
  OBVIOUS
<1>1. /\ UNCHANGED <<bucket, no_files, options, j, k, thread, hashes, memory>>
      /\ \/ pc' = pc /\ UNCHANGED <<spawned, joined>>
         \/ pc \notin Role \cup {"malloc"} /\ pc' \notin Role \cup {"malloc"}
  BY LaterKeeps
<1>2. iterations' = iterations /\ write_iter' = write_iter
  BY <1>1 DEF iterations, write_iter
<1>3. \A r \in Role : ThreadCount(r)' = ThreadCount(r)
  BY <1>1 DEF ThreadCount
<1>4. CASE pc' = pc /\ UNCHANGED <<spawned, joined>>
  BY <1>1, <1>2, <1>3, <1>4 DEF NewInv, MainInv, ThreadInv, ThreadCount
<1>5. CASE pc \notin Role \cup {"malloc"} /\ pc' \notin Role \cup {"malloc"}
  BY <1>1, <1>5 DEF NewInv, MainInv, ThreadInv, Role
<1> QED
  BY <1>1, <1>4, <1>5

LEMMA InitNewInv == Init => NewInv
<1> SUFFICES ASSUME Init PROVE NewInv
  OBVIOUS
<1>1. DOMAIN thread = {} /\ pc = "malloc" /\ memory = "freed"
  BY DEF Init, NewInit
<1> QED
  BY <1>1 DEF Init, NewInit, NewInv, MainInv, ThreadInv, Role

(* At a barrier every thread of the phase has been joined: none exists.    *)
LEMMA BarrierEmpty ==
  ASSUME NewInv, NEW r \in Role, PhaseOver(r)
  PROVE  DOMAIN thread = {} /\ spawned = ThreadCount(r) /\ joined = ThreadCount(r) /\ pc = r
<1>1. /\ pc = r /\ joined = ThreadCount(r) /\ ThreadCount(r) \in Nat
      /\ spawned \in 0 .. ThreadCount(r) /\ joined \in 0 .. spawned
      /\ DOMAIN thread = {<<pc, n>> : n \in joined .. (spawned - 1)}
  BY OptionsTyped DEF NewInv, MainInv, PhaseOver
<1>2. joined .. (spawned - 1) = {}
  BY <1>1
<1> QED
  BY <1>1, <1>2

(* main goes on to another phase, with nobody left of the one before.      *)
LEMMA GotoStep ==
  ASSUME NewInv, DOMAIN thread = {}, NEW p \in Role \cup {"malloc"}, Goto(p),
         j' \in Nat, k' \in Nat, no_files' \in Nat,
         p \in Role => j' < iterations,
         p = "writing_write" => options.write >= options.sort,
         p = "writing_sort" => options.write < options.sort /\ k' < write_iter,
         memory' = "null" => memory = "null"
  PROVE  NewInv'
<1>1. /\ pc' = p /\ spawned' = 0 /\ joined' = 0 /\ UNCHANGED <<bucket, options, thread, hashes>>
  BY DEF Goto
<1>2. DOMAIN thread' = {} /\ iterations' = iterations /\ write_iter' = write_iter
  BY <1>1 DEF iterations, write_iter
<1>3. ThreadInv'
  BY <1>2 DEF ThreadInv
<1>4. MainInv'
  <2>1. ASSUME pc' \in Role
        PROVE  /\ spawned' \in 0 .. ThreadCount(pc)' /\ joined' \in 0 .. spawned'
               /\ DOMAIN thread' = {<<pc', n>> : n \in joined' .. (spawned' - 1)}
    <3>1. ThreadCount(pc)' \in Nat
      <4>1. ThreadCount(pc)' = ThreadCount(p)
        BY <1>1 DEF ThreadCount
      <4> QED
        BY <1>1, <2>1, <4>1, OptionsTyped DEF NewInv, MainInv
    <3>2. joined' .. (spawned' - 1) = {}
      BY <1>1
    <3> QED
      BY <1>1, <1>2, <3>1, <3>2
  <2>2. options \in Options /\ (memory = "null" => "malloc" \in options.faults)
    BY DEF NewInv, MainInv
  <2> QED
    BY <1>1, <1>2, <2>1, <2>2 DEF MainInv, Role
<1> QED
  BY <1>3, <1>4 DEF NewInv

LEMMA MallocStep == NewInv /\ Malloc => NewInv'
<1> SUFFICES ASSUME NewInv, Malloc PROVE NewInv'
  OBVIOUS
<1>1. /\ pc = "malloc" /\ pc' = "hashing" /\ j < iterations /\ spawned = 0 /\ joined = 0
      /\ UNCHANGED <<spawned, joined, no_files, options, j, k, thread>>
      /\ memory' = "null" => "malloc" \in options.faults
  BY DEF Malloc, NewInv, MainInv
<1>2. DOMAIN thread = {}
  BY <1>1 DEF NewInv, MainInv, Role
<1>3. ThreadCount(pc)' \in Nat /\ iterations' = iterations
  BY <1>1, OptionsTyped DEF NewInv, MainInv, Role, ThreadCount, iterations
<1>4. joined' .. (spawned' - 1) = {} /\ spawned' \in 0 .. ThreadCount(pc)' /\ joined' \in 0 .. spawned'
  BY <1>1, <1>3
<1>5. DOMAIN thread' = {<<pc', n>> : n \in joined' .. (spawned' - 1)}
  BY <1>1, <1>2, <1>4
<1>6. MainInv'
  BY <1>1, <1>3, <1>4, <1>5 DEF NewInv, MainInv, Role
<1>7. ThreadInv'
  BY <1>1, <1>2 DEF ThreadInv
<1> QED
  BY <1>6, <1>7 DEF NewInv

LEMMA ReportStep == NewInv /\ Report => NewInv'
<1> SUFFICES ASSUME NewInv, Report PROVE NewInv'
  OBVIOUS
<1>1. /\ pc = "malloc" /\ pc' = "reported" /\ UNCHANGED <<no_files, options, j, k, thread, memory>>
  BY DEF Report, newOwn
<1>2. DOMAIN thread = {}
  BY <1>1 DEF NewInv, MainInv, Role
<1> QED
  BY <1>1, <1>2 DEF NewInv, MainInv, ThreadInv, Role

LEMMA CrashStep == NewInv /\ NewCrash => NewInv'
<1> SUFFICES ASSUME NewInv, NewCrash PROVE NewInv'
  OBVIOUS
<1>1. /\ pc' = "crashed" /\ DOMAIN thread' = {}
      /\ UNCHANGED <<no_files, options, j, k, memory>>
  BY DEF NewCrash
<1> QED
  BY <1>1 DEF NewInv, MainInv, ThreadInv, Role

LEMMA CreateStep == NewInv /\ CreateThread => NewInv'
<1> SUFFICES ASSUME NewInv, CreateThread PROVE NewInv'
  OBVIOUS
<1> DEFINE s == <<pc, spawned>>
           r == [state |-> "running", x |-> j, k |-> k, bucket_start |-> no_files]
<1>1. /\ pc \in Role /\ spawned < ThreadCount(pc) /\ ThreadCount(pc) \in Nat
      /\ spawned \in Nat /\ joined \in 0 .. spawned
      /\ DOMAIN thread = {<<pc, n>> : n \in joined .. (spawned - 1)}
      /\ thread' = With(thread, s, r) /\ spawned' = spawned + 1
      /\ UNCHANGED <<pc, joined, bucket, no_files, options, j, k, hashes, memory>>
  BY OptionsTyped DEF CreateThread, NewInv, MainInv
<1>2. /\ DOMAIN thread' = DOMAIN thread \cup {s} /\ thread'[s] = r
      /\ \A t \in DOMAIN thread : t # s => thread'[t] = thread[t]
  BY <1>1 DEF With
<1>3. ThreadCount(pc)' = ThreadCount(pc) /\ iterations' = iterations /\ write_iter' = write_iter
  BY <1>1 DEF ThreadCount, iterations, write_iter
<1>4. r \in Thread
  BY DEF NewInv, MainInv, Thread
<1>5. MainInv'
  <2>1. joined' .. (spawned' - 1) = (joined .. (spawned - 1)) \cup {spawned}
    BY <1>1
  <2>2. DOMAIN thread' = {<<pc', n>> : n \in joined' .. (spawned' - 1)}
    BY <1>1, <1>2, <2>1
  <2>3. spawned' \in 0 .. ThreadCount(pc)' /\ joined' \in 0 .. spawned'
    BY <1>1, <1>3
  <2> QED
    BY <1>1, <1>3, <2>2, <2>3 DEF NewInv, MainInv, Role
<1>6. ThreadInv'
  <2> SUFFICES ASSUME NEW t \in DOMAIN thread'
               PROVE  /\ thread'[t] \in Thread
                      /\ thread'[t].x = j' /\ thread'[t].k = k'
                      /\ thread'[t].bucket_start = no_files'
                      /\ thread'[t].state = "writing" => pc' \in Writers
    BY DEF ThreadInv
  <2>1. CASE t = s
    BY <1>1, <1>2, <1>4, <2>1
  <2>2. CASE t # s
    BY <1>1, <1>2, <2>2 DEF NewInv, ThreadInv
  <2> QED
    BY <2>1, <2>2
<1> QED
  BY <1>5, <1>6 DEF NewInv

LEMMA JoinStep == NewInv /\ JoinThread => NewInv'
<1> SUFFICES ASSUME NewInv, JoinThread PROVE NewInv'
  OBVIOUS
<1> DEFINE s == <<pc, joined>>
<1>1. /\ pc \in Role /\ spawned = ThreadCount(pc) /\ joined < ThreadCount(pc)
      /\ ThreadCount(pc) \in Nat /\ joined \in Nat
      /\ DOMAIN thread = {<<pc, n>> : n \in joined .. (spawned - 1)}
      /\ thread' = [t \in DOMAIN thread \ {s} |-> thread[t]] /\ joined' = joined + 1
      /\ UNCHANGED <<pc, spawned, bucket, no_files, options, j, k, hashes, memory>>
  BY OptionsTyped DEF JoinThread, NewInv, MainInv
<1>2. ThreadCount(pc)' = ThreadCount(pc) /\ iterations' = iterations /\ write_iter' = write_iter
  BY <1>1 DEF ThreadCount, iterations, write_iter
<1>3. MainInv'
  <2>1. joined' .. (spawned' - 1) = (joined .. (spawned - 1)) \ {joined}
    BY <1>1
  <2>2. DOMAIN thread' = {<<pc', n>> : n \in joined' .. (spawned' - 1)}
    BY <1>1, <2>1
  <2>3. spawned' \in 0 .. ThreadCount(pc)' /\ joined' \in 0 .. spawned'
    BY <1>1, <1>2
  <2> QED
    BY <1>1, <1>2, <2>2, <2>3 DEF NewInv, MainInv, Role
<1>4. ThreadInv'
  BY <1>1 DEF NewInv, ThreadInv
<1> QED
  BY <1>3, <1>4 DEF NewInv

LEMMA HashingOverStep == NewInv /\ HashingOver => NewInv'
<1> SUFFICES ASSUME NewInv, HashingOver PROVE NewInv'
  OBVIOUS
<1>1. DOMAIN thread = {} /\ pc = "hashing"
  BY BarrierEmpty DEF HashingOver, Role
<1>2. j < iterations /\ j \in Nat /\ k \in Nat /\ no_files \in Nat
  BY <1>1 DEF NewInv, MainInv, Role
<1> QED
  BY <1>1, <1>2, GotoStep DEF HashingOver, Role

LEMMA SortingOverStep == NewInv /\ SortingOver => NewInv'
<1> SUFFICES ASSUME NewInv, SortingOver PROVE NewInv'
  OBVIOUS
<1> DEFINE p == IF options.write >= options.sort THEN "writing_write" ELSE "writing_sort"
<1>1. DOMAIN thread = {} /\ pc = "sorting"
  BY BarrierEmpty DEF SortingOver, Role
<1>2. /\ j < iterations /\ j \in Nat /\ no_files \in Nat /\ options \in Options
  BY <1>1 DEF NewInv, MainInv, Role
<1>3. options.sort \in Nat /\ options.write \in Nat
  BY <1>2, OptionsTyped
<1>4. options.write < options.sort => 0 < write_iter
  BY <1>2, SegmentsFit
<1>5. /\ p \in Role \cup {"malloc"}
      /\ p = "writing_write" => options.write >= options.sort
      /\ p = "writing_sort" => options.write < options.sort /\ 0 < write_iter
  BY <1>3, <1>4 DEF Role
<1>6. Goto(p) /\ k' = 0 /\ UNCHANGED <<no_files, j, memory>>
  BY DEF SortingOver
<1> HIDE DEF p
<1> QED
  BY <1>1, <1>2, <1>5, <1>6, GotoStep

LEMMA WritingOverStep == NewInv /\ WritingOver => NewInv'
<1> SUFFICES ASSUME NewInv, WritingOver PROVE NewInv'
  OBVIOUS
<1>1. DOMAIN thread = {} /\ pc = "writing_write"
  BY BarrierEmpty DEF WritingOver, Role
<1>2. j \in Nat /\ k \in Nat /\ no_files \in Nat /\ options \in Options
  BY DEF NewInv, MainInv
<1>3. Added("writing_write") \in Nat
  BY <1>2, OptionsTyped DEF Added
<1> QED
  BY <1>1, <1>2, <1>3, GotoStep DEF WritingOver, NextIteration, Role

LEMMA RoundOverStep == NewInv /\ RoundOver => NewInv'
<1> SUFFICES ASSUME NewInv, RoundOver PROVE NewInv'
  OBVIOUS
<1>1. DOMAIN thread = {} /\ pc = "writing_sort"
  BY BarrierEmpty DEF RoundOver, Role
<1>2. /\ j \in Nat /\ k \in Nat /\ no_files \in Nat /\ options \in Options
      /\ j < iterations /\ options.write < options.sort
  BY <1>1 DEF NewInv, MainInv, Role
<1>3. Added("writing_sort") \in Nat /\ k' = k + 1
  BY <1>2, OptionsTyped DEF Added, RoundOver, NextRound
<1>4. CASE k + 1 < write_iter /\ Goto("writing_sort") /\ UNCHANGED <<no_files, j, memory>>
  BY <1>1, <1>2, <1>3, <1>4, GotoStep DEF Role
<1>5. CASE NextIteration("writing_sort")
  BY <1>1, <1>2, <1>3, <1>5, GotoStep DEF NextIteration, Role
<1> QED
  BY <1>4, <1>5 DEF RoundOver, NextRound

LEMMA ThreadStep ==
  ASSUME NewInv, NEW s \in DOMAIN thread, NEW v \in {"running", "writing", "exited"},
         Becomes(s, v), v = "writing" => pc \in Writers, UnchangedMain
  PROVE  NewInv'
<1>1. /\ thread' = [thread EXCEPT ![s].state = v] /\ DOMAIN thread' = DOMAIN thread
      /\ UNCHANGED <<pc, spawned, joined, no_files, options, j, k, memory>>
  BY DEF Becomes, UnchangedMain
<1>2. ThreadCount(pc)' = ThreadCount(pc) /\ iterations' = iterations /\ write_iter' = write_iter
  BY <1>1 DEF ThreadCount, iterations, write_iter
<1>3. MainInv'
  BY <1>1, <1>2 DEF NewInv, MainInv
<1>4. ASSUME NEW t \in DOMAIN thread'
      PROVE  /\ thread'[t] \in Thread
             /\ thread'[t].x = j' /\ thread'[t].k = k'
             /\ thread'[t].bucket_start = no_files'
             /\ thread'[t].state = "writing" => pc' \in Writers
  <2>1. /\ thread[t] \in Thread /\ thread[t].x = j /\ thread[t].k = k
        /\ thread[t].bucket_start = no_files
        /\ thread[t].state = "writing" => pc \in Writers
    BY <1>1, <1>4 DEF NewInv, ThreadInv
  <2>2. CASE t = s
    <3>1. thread'[t] = [thread[t] EXCEPT !.state = v]
      BY <1>1, <2>2
    <3> QED
      BY <1>1, <2>1, <3>1 DEF Thread
  <2>3. CASE t # s
    <3>1. thread'[t] = thread[t]
      BY <1>1, <1>4, <2>3
    <3> QED
      BY <1>1, <2>1, <3>1
  <2> QED
    BY <2>2, <2>3
<1> QED
  BY <1>3, <1>4 DEF NewInv, ThreadInv

LEMMA NextNewInv == NewInv /\ [Next]_vars => NewInv'
<1> SUFFICES ASSUME NewInv, [Next]_vars PROVE NewInv'
  OBVIOUS
<1>1. CASE NewMain
  BY <1>1, MallocStep, ReportStep, CreateStep, CrashStep, JoinStep, HashingOverStep,
     SortingOverStep, WritingOverStep, RoundOverStep DEF NewMain, NoThreadArgument
<1>2. ASSUME NEW s \in DOMAIN thread, NewThread(s) PROVE NewInv'
  <2>1. s[1] = pc
    BY ThreadShape
  <2>2. CASE HashSlice(s) \/ SortSlice(s) \/ WriteFile(s)
    BY <1>2, <2>2, ThreadStep DEF HashSlice, SortSlice, WriteFile
  <2>3. CASE OpenFile(s)
    BY <1>2, <2>1, <2>3, ThreadStep DEF OpenFile, Runs
  <2>4. CASE HashNull(s)
    BY <2>4, CrashStep DEF HashNull
  <2> QED
    BY <1>2, <2>2, <2>3, <2>4 DEF NewThread
<1>3. CASE Later
  BY <1>3, LaterStep
<1> QED
  BY <1>1, <1>2, <1>3 DEF Next, Generating, NewStep, Later

LEMMA NewInvAlways == Spec => []NewInv
  BY InitNewInv, NextNewInv, PTL DEF Spec

(* Threads of new.c that exist at the same time share no record of the     *)
(* array and no bucket, whatever the options and whatever fails.           *)
THEOREM NewRaceFree == Spec => []RaceFree
<1>1. NewInv => RaceFree
  BY TouchesApart DEF RaceFree
<1> QED
  BY <1>1, NewInvAlways, PTL

-----------------------------------------------------------------------------
(* What the array holds *)

(* Thread n of the phase main is in has been created, and has returned.    *)
Done(n) ==
  /\ n \in 0 .. (spawned - 1)
  /\ <<pc, n>> \in DOMAIN thread => thread[<<pc, n>>].state = "exited"

Iteration == (j * max_records) .. ((j + 1) * max_records - 1)

(* The array holds every nonce of the iteration, each in one cell.         *)
Filled ==
  /\ {hashes[c] : c \in Cell} = Iteration
  /\ \A c, d \in Cell : hashes[c] = hashes[d] => c = d

HashedIn(n) ==
  \A c \in Slice(max_records, options.hash, n) : hashes[c] = j * max_records + c

SortedIn(S) == \A c, d \in S : c < d => Hash[hashes[c]] <= Hash[hashes[d]]

SortPart(n) == Slice(max_records, options.sort, n)

FillInv ==
  /\ j \in 0 .. iterations
  /\ pc = "hashing" => \A n \in 0 .. (options.hash - 1) : Done(n) => HashedIn(n)
  /\ pc \in {"sorting"} \cup Writers => Filled

SortInv ==
  /\ pc = "sorting" => \A n \in 0 .. (options.sort - 1) : Done(n) => SortedIn(SortPart(n))
  /\ pc \in Writers => \A n \in 0 .. (options.sort - 1) : SortedIn(SortPart(n))

LEMMA IterationNonces ==
  ASSUME NewInv, pc \in Role
  PROVE  /\ j \in Nat /\ j < iterations /\ Iteration \subseteq Nonce
         /\ j * max_records \in Nat /\ (j + 1) * max_records = j * max_records + max_records
         /\ max_records \in Nat
<1>1. /\ j \in Nat /\ j < iterations /\ max_records \in Nat \ {0} /\ total_hash_count \in Nat
  BY OptionsTyped DEF NewInv, MainInv
<1>2. iterations \in Nat /\ iterations * max_records <= total_hash_count
  BY IterationsFit
<1>3. (j + 1) * max_records <= iterations * max_records
  BY <1>1, <1>2, TimesMonotone, j + 1 \in Nat, j + 1 <= iterations
<1>4. /\ j * max_records \in Nat /\ (j + 1) * max_records = j * max_records + max_records
      /\ iterations * max_records \in Nat
  BY <1>1, <1>2
<1>5. Iteration \subseteq Nonce
  <2> SUFFICES ASSUME NEW v \in Iteration PROVE v \in Nonce
    OBVIOUS
  <2> QED
    BY <1>1, <1>2, <1>3, <1>4 DEF Iteration, Nonce
<1> QED
  BY <1>1, <1>4, <1>5

LEMMA FilledTyped ==
  ASSUME NewInv, Filled, pc \in Role, NEW c \in Cell
  PROVE  hashes[c] \in Iteration /\ hashes[c] \in Nonce /\ Hash[hashes[c]] \in Nat
<1>1. hashes[c] \in Iteration
  BY DEF Filled
<1> QED
  BY <1>1, IterationNonces, NewAssumption

(* A thread that has just been created is not done, and joining one that   *)
(* has returned changes nothing.                                           *)
LEMMA DoneCreated ==
  ASSUME NewInv, CreateThread \/ JoinThread, NEW n, Done(n)'
  PROVE  Done(n)
<1>1. CASE CreateThread
  <2> DEFINE s == <<pc, spawned>>
             r == [state |-> "running", x |-> j, k |-> k, bucket_start |-> no_files]
  <2>1. /\ thread' = With(thread, s, r) /\ pc' = pc /\ spawned' = spawned + 1
        /\ pc \in Role
    BY <1>1 DEF CreateThread
  <2>2. /\ DOMAIN thread' = DOMAIN thread \cup {s} /\ thread'[s] = r
        /\ \A t \in DOMAIN thread : t # s => thread'[t] = thread[t]
    BY <2>1 DEF With
  <2>3. spawned \in Nat
    BY <2>1, OptionsTyped DEF NewInv, MainInv
  <2>4. n \in 0 .. spawned
    BY <2>1, <2>3 DEF Done
  <2>5. n # spawned
    <3> SUFFICES ASSUME n = spawned PROVE FALSE
      OBVIOUS
    <3>1. <<pc', n>> = s
      BY <2>1
    <3>2. thread'[s].state = "exited"
      BY <2>2, <3>1 DEF Done
    <3> QED
      BY <2>2, <3>2
  <2>6. <<pc, n>> # s
    BY <2>5
  <2> QED
    BY <2>1, <2>2, <2>3, <2>4, <2>5, <2>6 DEF Done
<1>2. CASE JoinThread
  <2> DEFINE s == <<pc, joined>>
  <2>1. /\ thread' = [t \in DOMAIN thread \ {s} |-> thread[t]] /\ pc' = pc /\ spawned' = spawned
        /\ thread[s].state = "exited"
    BY <1>2 DEF JoinThread
  <2> QED
    BY <2>1 DEF Done
<1> QED
  BY <1>1, <1>2

(* At a barrier all threads are done.                                      *)
LEMMA AllDone ==
  ASSUME NewInv, NEW r \in Role, PhaseOver(r), NEW n \in 0 .. (ThreadCount(r) - 1)
  PROVE  Done(n)
  BY BarrierEmpty DEF Done

(* A step of thread s changes nobody else's state.                         *)
LEMMA DoneStepped ==
  ASSUME NewInv, NEW s \in DOMAIN thread, NEW v, Becomes(s, v), UnchangedMain,
         NEW n, Done(n)', n # s[2]
  PROVE  Done(n)
<1>1. /\ thread' = [thread EXCEPT ![s].state = v] /\ pc' = pc /\ spawned' = spawned
  BY DEF Becomes, UnchangedMain
<1>2. s = <<pc, s[2]>>
  BY ThreadShape
<1>3. <<pc, n>> # s
  BY <1>2
<1> QED
  BY <1>1, <1>3 DEF Done

(* A cell of one thread's slice is in no other's.                          *)
LEMMA TouchesMine ==
  ASSUME NewInv, NEW s \in DOMAIN thread, pc # "writing_sort"
  PROVE  Touches(s) = Slice(max_records, ThreadCount(pc), s[2])
<1>1. /\ start_index(s) = Base(pc) + SliceStart(SegmentSize(pc), ThreadCount(pc), s[2])
      /\ end_index(s) = Base(pc) + SliceEnd(SegmentSize(pc), ThreadCount(pc), s[2])
  BY TouchesSlice
<1>2. Base(pc) = 0 /\ SegmentSize(pc) = max_records
  BY DEF Base, SegmentSize
<1>3. /\ SliceStart(max_records, ThreadCount(pc), s[2]) \in Nat
      /\ SliceEnd(max_records, ThreadCount(pc), s[2]) \in Nat
  BY ThreadShape, OptionsTyped, SliceWithin DEF NewInv, MainInv
<1>4. /\ start_index(s) = SliceStart(max_records, ThreadCount(pc), s[2])
      /\ end_index(s) = SliceEnd(max_records, ThreadCount(pc), s[2])
  BY <1>1, <1>2, <1>3
<1> QED
  BY <1>4 DEF Touches, Slice

LEMMA HashSliceFills ==
  ASSUME NewInv, FillInv, NEW s \in DOMAIN thread, HashSlice(s)
  PROVE  FillInv'
<1>1. /\ s[1] = pc /\ pc \in Role /\ s[2] \in 0 .. (ThreadCount(pc) - 1)
      /\ thread[s].x = j
  BY ThreadShape
<1>2. /\ pc = "hashing" /\ ThreadCount(pc) = options.hash
      /\ UNCHANGED <<pc, j, options>>
      /\ hashes' = [c \in Cell |-> IF c \in Touches(s) THEN Stored(c, s) ELSE hashes[c]]
  BY <1>1 DEF HashSlice, Runs, UnchangedMain, ThreadCount
<1>3. Touches(s) = Slice(max_records, options.hash, s[2]) /\ Touches(s) \subseteq Cell
  BY <1>2, TouchesMine, TouchesSlice
<1>4. ASSUME NEW n \in 0 .. (options.hash - 1), Done(n)'
      PROVE  HashedIn(n)'
  <2>1. CASE n = s[2]
    <3>1. \A c \in Touches(s) : hashes'[c] = j * max_records + c
      BY <1>1, <1>2, <1>3 DEF Stored
    <3> QED
      BY <1>2, <1>3, <2>1, <3>1 DEF HashedIn
  <2>2. CASE n # s[2]
    <3>1. HashedIn(n)
      BY <1>2, <1>4, <2>2, DoneStepped DEF FillInv, HashSlice
    <3>2. max_records \in Nat /\ options.hash \in Nat \ {0}
      BY OptionsTyped DEF NewInv, MainInv
    <3>3. /\ Slice(max_records, options.hash, n) \cap Touches(s) = {}
          /\ Slice(max_records, options.hash, n) \subseteq Cell
      BY <1>1, <1>2, <1>3, <1>4, <2>2, <3>2, SlicesDisjoint, SliceWithin DEF Cell
    <3> QED
      BY <1>2, <3>1, <3>3 DEF HashedIn
  <2> QED
    BY <2>1, <2>2
<1>5. iterations' = iterations
  BY DEF iterations
<1> QED
  BY <1>2, <1>4, <1>5 DEF FillInv, Writers

(* When the last hashing thread is joined, the array is filled.            *)
LEMMA FilledAtBarrier ==
  ASSUME NewInv, FillInv, PhaseOver("hashing")
  PROVE  Filled
<1>1. pc = "hashing" /\ ThreadCount("hashing") = options.hash
  BY DEF PhaseOver, ThreadCount
<1>2. /\ j * max_records \in Nat /\ (j + 1) * max_records = j * max_records + max_records
      /\ max_records \in Nat /\ options.hash \in Nat \ {0}
  BY <1>1, IterationNonces, OptionsTyped DEF NewInv, MainInv, Role
<1>3. ASSUME NEW c \in Cell PROVE hashes[c] = j * max_records + c
  <2>1. PICK n \in 0 .. (options.hash - 1) : c \in Slice(max_records, options.hash, n)
    BY <1>2, SlicesCover DEF Cell
  <2>2. Done(n)
    BY <1>1, AllDone DEF Role
  <2>3. HashedIn(n)
    BY <1>1, <2>2 DEF FillInv
  <2> QED
    BY <2>1, <2>3 DEF HashedIn
<1>4. {hashes[c] : c \in Cell} = Iteration
  <2>1. ASSUME NEW c \in Cell PROVE hashes[c] \in Iteration
    BY <1>2, <1>3 DEF Cell, Iteration
  <2>2. ASSUME NEW v \in Iteration PROVE \E c \in Cell : hashes[c] = v
    <3>1. v - j * max_records \in Cell /\ j * max_records + (v - j * max_records) = v
      BY <1>2 DEF Cell, Iteration
    <3> QED
      BY <1>3, <3>1
  <2> QED
    BY <2>1, <2>2
<1>5. ASSUME NEW c \in Cell, NEW d \in Cell, hashes[c] = hashes[d] PROVE c = d
  BY <1>2, <1>3, <1>5 DEF Cell
<1> QED
  BY <1>4, <1>5 DEF Filled

(* qsort rearranges a part of the array, and loses nothing.                *)
LEMMA Rearranged ==
  ASSUME NEW S \in SUBSET Cell, NEW p \in Rearrangements(S), Filled,
         hashes' = [c \in Cell |-> IF c \in S THEN hashes[p[c]] ELSE hashes[c]], j' = j
  PROVE  Filled'
<1> DEFINE q == [c \in Cell |-> IF c \in S THEN p[c] ELSE c]
<1>1. p \in [S -> S] /\ \A m, n \in S : m # n => p[m] # p[n]
  BY DEF Rearrangements
<1>2. q \in [Cell -> Cell] /\ \A c, d \in Cell : q[c] = q[d] => c = d
  BY <1>1
<1>3. \A c \in Cell : hashes'[c] = hashes[q[c]]
  BY <1>1
<1> HIDE DEF q
<1>4. IsFiniteSet(Cell)
  BY FS_Interval, NewAssumption DEF Cell
<1>5. q \in Injection(Cell, Cell)
  BY <1>2, Fun_IsInj
<1>6. q \in Surjection(Cell, Cell)
  BY <1>4, <1>5, FS_Injection
<1>7. \A d \in Cell : \E c \in Cell : q[c] = d
  BY <1>6 DEF Surjection
<1>8. {hashes'[c] : c \in Cell} = {hashes[c] : c \in Cell}
  BY <1>2, <1>3, <1>7
<1>9. \A c, d \in Cell : hashes'[c] = hashes'[d] => c = d
  BY <1>2, <1>3 DEF Filled
<1> QED
  BY <1>8, <1>9 DEF Filled, Iteration

(* A sorting thread leaves its slice sorted, and the others as they were.  *)
LEMMA SortSliceSorts ==
  ASSUME NewInv, FillInv, SortInv, NEW s \in DOMAIN thread, SortSlice(s)
  PROVE  FillInv' /\ SortInv'
<1>1. /\ s[1] = pc /\ s[2] \in 0 .. (ThreadCount(pc) - 1)
  BY ThreadShape
<1>2. /\ pc = "sorting" /\ ThreadCount(pc) = options.sort
      /\ UNCHANGED <<pc, j, options>>
  BY <1>1 DEF SortSlice, Runs, UnchangedMain, ThreadCount
<1>3. PICK p \in Rearrangements(Touches(s)) :
        /\ \A c, d \in Touches(s) : c < d => compare(hashes[p[c]], hashes[p[d]]) <= 0
        /\ hashes' = [c \in Cell |-> IF c \in Touches(s) THEN hashes[p[c]] ELSE hashes[c]]
  BY DEF SortSlice
<1>4. /\ Touches(s) = SortPart(s[2]) /\ Touches(s) \subseteq Cell
      /\ \A c \in Touches(s) : p[c] \in Touches(s)
  BY <1>2, <1>3, TouchesMine, TouchesSlice DEF SortPart, Rearrangements
<1>5. Filled
  BY <1>2 DEF FillInv
<1>6. Filled'
  BY <1>2, <1>3, <1>4, <1>5, Rearranged
<1>7. FillInv'
  BY <1>2, <1>6 DEF FillInv, iterations
<1>8. ASSUME NEW n \in 0 .. (options.sort - 1), Done(n)'
      PROVE  SortedIn(SortPart(n))'
  <2>1. SortPart(n)' = SortPart(n)
    BY <1>2 DEF SortPart
  <2>2. CASE n = s[2]
    <3> SUFFICES ASSUME NEW c \in Touches(s), NEW d \in Touches(s), c < d
                 PROVE  Hash[hashes'[c]] <= Hash[hashes'[d]]
      BY <1>4, <2>1, <2>2 DEF SortedIn
    <3>1. hashes'[c] = hashes[p[c]] /\ hashes'[d] = hashes[p[d]]
      BY <1>3, <1>4
    <3>2. Hash[hashes[p[c]]] \in Nat /\ Hash[hashes[p[d]]] \in Nat
      <4>1. p[c] \in Cell /\ p[d] \in Cell
        BY <1>4
      <4> QED
        BY <1>2, <1>5, <4>1, FilledTyped DEF Role
    <3>3. Hash[hashes[p[c]]] - Hash[hashes[p[d]]] <= 0
      BY <1>3 DEF compare
    <3> QED
      BY <3>1, <3>2, <3>3
  <2>3. CASE n # s[2]
    <3>1. SortedIn(SortPart(n))
      BY <1>2, <1>8, <2>3, DoneStepped DEF SortInv, SortSlice
    <3>2. max_records \in Nat /\ options.sort \in Nat \ {0}
      BY OptionsTyped DEF NewInv, MainInv
    <3>3. SortPart(n) \cap Touches(s) = {} /\ SortPart(n) \subseteq Cell
      BY <1>1, <1>2, <1>4, <1>8, <2>3, <3>2, SlicesDisjoint, SliceWithin DEF Cell, SortPart
    <3>4. \A c \in SortPart(n) : hashes'[c] = hashes[c]
      BY <1>3, <3>3
    <3> QED
      BY <2>1, <3>1, <3>4 DEF SortedIn
  <2> QED
    BY <2>2, <2>3
<1> QED
  BY <1>2, <1>7, <1>8 DEF SortInv, Writers

(* Steps that leave the array and main's place alone.                      *)
LEMMA ArrayKept ==
  ASSUME NewInv, FillInv, SortInv, UNCHANGED <<pc, j, options, hashes>>,
         \A n : Done(n)' => Done(n)
  PROVE  FillInv' /\ SortInv'
<1>1. /\ \A n : HashedIn(n)' = HashedIn(n) /\ SortedIn(SortPart(n))' = SortedIn(SortPart(n))
      /\ Filled' = Filled /\ iterations' = iterations
  BY DEF HashedIn, SortedIn, SortPart, Filled, Iteration, iterations
<1> QED
  BY <1>1 DEF FillInv, SortInv

LEMMA NextWorkInv == NewInv /\ FillInv /\ SortInv /\ [Next]_vars => FillInv' /\ SortInv'
<1> SUFFICES ASSUME NewInv, FillInv, SortInv, [Next]_vars PROVE FillInv' /\ SortInv'
  OBVIOUS
<1> USE DEF Role, Writers
<1>1. iterations' = iterations /\ iterations \in Nat
  BY IterationsFit DEF iterations
<1>2. CASE Malloc
  <2>1. pc' = "hashing" /\ UNCHANGED <<spawned, j>> /\ spawned = 0
    BY <1>2 DEF Malloc, NewInv, MainInv
  <2>2. \A n : ~Done(n)'
    BY <2>1 DEF Done
  <2> QED
    BY <1>1, <2>1, <2>2 DEF FillInv, SortInv
<1>3. CASE Report \/ NewCrash
  BY <1>1, <1>3 DEF Report, NewCrash, newOwn, FillInv, SortInv
<1>4. CASE CreateThread \/ JoinThread
  <2>1. UNCHANGED <<pc, j, options, hashes>>
    BY <1>4 DEF CreateThread, JoinThread
  <2> QED
    BY <1>4, <2>1, DoneCreated, ArrayKept
<1>5. CASE HashingOver
  <2>1. pc' = "sorting" /\ spawned' = 0 /\ UNCHANGED <<j, hashes>> /\ Filled
    BY <1>5, FilledAtBarrier DEF HashingOver, Goto
  <2>2. \A n : ~Done(n)'
    BY <2>1 DEF Done
  <2> QED
    BY <1>1, <2>1, <2>2 DEF FillInv, SortInv, Filled, Iteration
<1>6. CASE SortingOver
  <2>1. /\ pc = "sorting" /\ pc' \in Writers /\ UNCHANGED <<j, hashes, options>>
        /\ ThreadCount("sorting") = options.sort
    BY <1>6 DEF SortingOver, PhaseOver, Goto, ThreadCount
  <2>2. ASSUME NEW n \in 0 .. (options.sort - 1) PROVE SortedIn(SortPart(n))
    <3>1. Done(n)
      BY <1>6, <2>1, AllDone DEF SortingOver
    <3> QED
      BY <2>1, <3>1 DEF SortInv
  <2> QED
    BY <1>1, <2>1, <2>2 DEF FillInv, SortInv, Filled, Iteration, SortedIn, SortPart
<1>7. CASE WritingOver \/ (RoundOver /\ NextIteration("writing_sort"))
  <2>1. pc' = "malloc" /\ j' = j + 1
    BY <1>7 DEF WritingOver, NextIteration, Goto
  <2>2. j < iterations /\ j \in Nat
    <3>1. pc \in Writers
      BY <1>7 DEF WritingOver, RoundOver, PhaseOver
    <3> QED
      BY <3>1 DEF NewInv, MainInv
  <2> QED
    BY <1>1, <2>1, <2>2 DEF FillInv, SortInv
<1>8. CASE RoundOver /\ ~NextIteration("writing_sort")
  <2>1. pc = "writing_sort" /\ pc' = "writing_sort" /\ UNCHANGED <<j, hashes, options>>
    BY <1>8 DEF RoundOver, PhaseOver, Goto
  <2> QED
    BY <1>1, <2>1 DEF FillInv, SortInv, Filled, Iteration, SortedIn, SortPart
<1>9. ASSUME NEW s \in DOMAIN thread, HashSlice(s) PROVE FillInv' /\ SortInv'
  <2>1. pc' = "hashing"
    BY <1>9, ThreadShape DEF HashSlice, Runs, UnchangedMain
  <2> QED
    BY <1>9, <2>1, HashSliceFills DEF SortInv
<1>10. ASSUME NEW s \in DOMAIN thread, OpenFile(s) \/ WriteFile(s) PROVE FillInv' /\ SortInv'
  <2>1. /\ UNCHANGED <<pc, j, hashes, options>> /\ pc \in Writers
    BY <1>10, ThreadShape DEF OpenFile, WriteFile, Runs, UnchangedMain, NewInv, ThreadInv
  <2> QED
    BY <1>1, <2>1 DEF FillInv, SortInv, Filled, Iteration, SortedIn, SortPart
<1>11. CASE Later
  <2>1. /\ UNCHANGED <<no_files, options, j, k, thread, hashes, memory>>
        /\ \/ pc' = pc /\ UNCHANGED <<spawned, joined>>
           \/ pc \notin Role \cup {"malloc"} /\ pc' \notin Role \cup {"malloc"}
    BY <1>11, LaterKeeps
  <2>2. CASE pc' = pc /\ UNCHANGED <<spawned, joined>>
    <3>1. \A n : Done(n)' => Done(n)
      BY <2>1, <2>2 DEF Done
    <3> QED
      BY <2>1, <2>2, <3>1, ArrayKept
  <2>3. CASE pc \notin Role \cup {"malloc"} /\ pc' \notin Role \cup {"malloc"}
    BY <1>1, <2>1, <2>3 DEF FillInv, SortInv
  <2> QED
    BY <2>1, <2>2, <2>3
<1>12. ASSUME NEW s \in DOMAIN thread, NewThread(s) PROVE FillInv' /\ SortInv'
  BY <1>3, <1>9, <1>10, <1>12, SortSliceSorts DEF NewThread, HashNull
<1>13. CASE NewMain
  BY <1>2, <1>3, <1>4, <1>5, <1>6, <1>7, <1>8, <1>13 DEF NewMain, NoThreadArgument
<1> QED
  BY <1>11, <1>12, <1>13 DEF Next, Generating, NewStep, Later

LEMMA WorkInvAlways == Spec => [](FillInv /\ SortInv)
<1>1. Init => FillInv /\ SortInv
  BY IterationsFit DEF Init, NewInit, FillInv, SortInv, Writers
<1> QED
  BY <1>1, NextWorkInv, NewInvAlways, PTL DEF Spec

-----------------------------------------------------------------------------
(* The buckets of one iteration cut the array into parts *)

(* The a-th of round r, when every round has g of them.                    *)
At(g, r, a) == r * g + a

LEMMA AtWithin ==
  ASSUME NEW n \in Nat, NEW g \in Nat, NEW r \in 0 .. (n - 1), NEW a \in 0 .. (g - 1)
  PROVE  At(g, r, a) \in 0 .. (n * g - 1)
<1>1. (r + 1) * g <= n * g
  BY TimesMonotone, r + 1 \in Nat, r + 1 <= n
<1>2. (r + 1) * g = r * g + g /\ r * g \in Nat /\ n * g \in Nat
  OBVIOUS
<1> QED
  BY <1>1, <1>2 DEF At

LEMMA AtUnique ==
  ASSUME NEW g \in Nat, NEW r \in Nat, NEW q \in Nat, NEW a \in 0 .. (g - 1), NEW b \in 0 .. (g - 1),
         At(g, r, a) = At(g, q, b)
  PROVE  r = q /\ a = b
<1>1. ASSUME NEW x \in Nat, NEW y \in Nat, NEW c \in 0 .. (g - 1), NEW d \in 0 .. (g - 1), x < y
      PROVE  At(g, x, c) # At(g, y, d)
  <2>1. (x + 1) * g <= y * g
    BY <1>1, TimesMonotone, x + 1 \in Nat, x + 1 <= y
  <2>2. (x + 1) * g = x * g + g /\ x * g \in Nat /\ y * g \in Nat
    OBVIOUS
  <2> QED
    BY <2>1, <2>2 DEF At
<1>2. r = q
  <2>1. ~(r < q)
    BY <1>1
  <2>2. ~(q < r)
    BY <1>1
  <2> QED
    BY <2>1, <2>2
<1>3. r * g \in Nat
  OBVIOUS
<1> QED
  BY <1>2, <1>3 DEF At

LEMMA AtReached ==
  ASSUME NEW n \in Nat, NEW g \in Nat, NEW x \in 0 .. (n * g - 1)
  PROVE  \E r \in 0 .. (n - 1) : \E a \in 0 .. (g - 1) : x = At(g, r, a)
<1>1. n * g \in Nat /\ g # 0 /\ x \in Nat
  OBVIOUS
<1> DEFINE r == x \div g
           a == x % g
<1>2. r \in Nat /\ a \in 0 .. (g - 1) /\ x = r * g + a
  BY <1>1
<1> HIDE DEF r, a
<1>3. r < n
  <2> SUFFICES ASSUME n <= r PROVE FALSE
    BY <1>2
  <2>1. n * g <= r * g /\ r * g \in Nat
    BY <1>2, TimesMonotone
  <2> QED
    BY <1>1, <1>2, <2>1
<1> QED
  BY <1>2, <1>3 DEF At

(* Rounds of options.write buckets, each over one segment of the array.    *)
Rounds == IF pc = "writing_sort" THEN write_iter ELSE 1
Round == IF pc = "writing_sort" THEN k ELSE 0
Segments == SegmentSize(pc)

PartBucket(r, t) == no_files + At(options.write, r, t)

PartSize(t) == SliceEnd(Segments, options.write, t) - SliceStart(Segments, options.write, t)

PartCell(r, t, m) == At(Segments, r, SliceStart(Segments, options.write, t) + m - 1)

PartRecords(r, t) == [m \in 1 .. PartSize(t) |-> hashes[PartCell(r, t, m)]]

RoundNo == 0 .. (Rounds - 1)
WriterNo == 0 .. (options.write - 1)

LEMMA RoundsShape ==
  ASSUME NewInv, WholeRounds, pc \in Writers
  PROVE  /\ Rounds \in Nat \ {0} /\ Round \in RoundNo
         /\ Segments \in Nat /\ Rounds * Segments = max_records
         /\ options.write \in Nat \ {0} /\ Rounds * options.write = Added(pc)
         /\ ThreadCount(pc) = options.write /\ no_files \in Nat
<1>1. /\ options \in Options /\ k \in Nat /\ no_files \in Nat
      /\ pc = "writing_write" => options.write >= options.sort
      /\ pc = "writing_sort" => options.write < options.sort /\ k < write_iter
  BY DEF NewInv, MainInv
<1>2. /\ options.sort \in Nat \ {0} /\ options.write \in Nat \ {0} /\ max_records \in Nat \ {0}
  BY <1>1, OptionsTyped
<1>3. CASE pc = "writing_write"
  BY <1>1, <1>2, <1>3 DEF Rounds, Round, RoundNo, Segments, SegmentSize, Added, ThreadCount
<1>4. CASE pc = "writing_sort"
  <2>1. options.sort % options.write = 0 /\ max_records % write_iter = 0
    BY <1>1, <1>2, <1>4 DEF WholeRounds
  <2>2. write_iter \in Nat \ {0} /\ write_segment \in Nat
    BY <1>1, <1>4, SegmentsFit
  <2>3. write_iter * write_segment = max_records
    <3> HIDE DEF write_iter
    <3> QED
      BY <1>2, <2>1, <2>2 DEF write_segment
  <2>4. write_iter * options.write = options.sort
    BY <1>2, <2>1 DEF write_iter
  <2> QED
    BY <1>1, <1>2, <1>4, <2>2, <2>3, <2>4
       DEF Rounds, Round, RoundNo, Segments, SegmentSize, Added, ThreadCount
<1> QED
  BY <1>3, <1>4 DEF Writers

LEMMA PartOffset ==
  ASSUME NewInv, WholeRounds, pc \in Writers, NEW t \in WriterNo
  PROVE  /\ PartSize(t) \in Nat
         /\ SliceStart(Segments, options.write, t) \in Nat
         /\ \A m \in 1 .. PartSize(t) :
              SliceStart(Segments, options.write, t) + m - 1 \in
                Slice(Segments, options.write, t) \cap (0 .. (Segments - 1))
<1> DEFINE a == SliceStart(Segments, options.write, t)
           b == SliceEnd(Segments, options.write, t)
<1>1. /\ Segments \in Nat /\ options.write \in Nat \ {0}
  BY RoundsShape
<1>2. a \in Nat /\ b \in Nat /\ a <= b /\ b <= Segments
  BY <1>1, SliceWithin DEF WriterNo
<1> HIDE DEF a, b
<1>3. /\ PartSize(t) = b - a /\ Slice(Segments, options.write, t) = a .. (b - 1)
  BY DEF PartSize, Slice, a, b
<1>4. \A m \in 1 .. (b - a) : a + m - 1 \in a .. (b - 1) /\ a + m - 1 \in 0 .. (Segments - 1)
  BY <1>1, <1>2
<1>5. b - a \in Nat
  BY <1>2
<1> QED
  BY <1>2, <1>3, <1>4, <1>5 DEF a

LEMMA PartCellIn ==
  ASSUME NewInv, WholeRounds, pc \in Writers, NEW r \in RoundNo, NEW t \in WriterNo,
         NEW m \in 1 .. PartSize(t)
  PROVE  PartCell(r, t, m) \in Cell
<1>1. /\ Rounds \in Nat /\ Segments \in Nat /\ Rounds * Segments = max_records
  BY RoundsShape
<1>2. SliceStart(Segments, options.write, t) + m - 1 \in 0 .. (Segments - 1)
  BY PartOffset
<1>3. PartCell(r, t, m) \in 0 .. (Rounds * Segments - 1)
  BY <1>1, <1>2, AtWithin DEF PartCell, RoundNo
<1> QED
  BY <1>1, <1>3 DEF Cell

LEMMA PartCellUnique ==
  ASSUME NewInv, WholeRounds, pc \in Writers,
         NEW r \in RoundNo, NEW t \in WriterNo, NEW m \in 1 .. PartSize(t),
         NEW q \in RoundNo, NEW u \in WriterNo, NEW l \in 1 .. PartSize(u),
         PartCell(r, t, m) = PartCell(q, u, l)
  PROVE  r = q /\ t = u /\ m = l
<1> DEFINE a == SliceStart(Segments, options.write, t) + m - 1
           b == SliceStart(Segments, options.write, u) + l - 1
<1>1. Segments \in Nat /\ options.write \in Nat \ {0} /\ r \in Nat /\ q \in Nat
  BY RoundsShape DEF RoundNo
<1>2. /\ a \in Slice(Segments, options.write, t) /\ a \in 0 .. (Segments - 1)
      /\ b \in Slice(Segments, options.write, u) /\ b \in 0 .. (Segments - 1)
  BY PartOffset
<1>3. r = q /\ a = b
  <2>1. At(Segments, r, a) = At(Segments, q, b)
    BY DEF PartCell
  <2> HIDE DEF a, b
  <2> QED
    BY <1>1, <1>2, <2>1, AtUnique
<1>4. t = u
  BY <1>1, <1>2, <1>3, SlicesDisjoint DEF WriterNo
<1>5. m \in Int /\ l \in Int /\ SliceStart(Segments, options.write, t) \in Nat
  BY PartOffset
<1> QED
  BY <1>3, <1>4, <1>5

LEMMA PartCellReached ==
  ASSUME NewInv, WholeRounds, pc \in Writers, NEW c \in Cell
  PROVE  \E r \in RoundNo : \E t \in WriterNo : \E m \in 1 .. PartSize(t) : c = PartCell(r, t, m)
<1>1. /\ Rounds \in Nat /\ Segments \in Nat /\ Rounds * Segments = max_records
      /\ options.write \in Nat \ {0}
  BY RoundsShape
<1>2. c \in 0 .. (Rounds * Segments - 1)
  BY <1>1 DEF Cell
<1>3. PICK r \in 0 .. (Rounds - 1) : \E a \in 0 .. (Segments - 1) : c = At(Segments, r, a)
  BY <1>1, <1>2, AtReached
<1>4. PICK a \in 0 .. (Segments - 1) : c = At(Segments, r, a)
  BY <1>3
<1>5. PICK t \in 0 .. (options.write - 1) : a \in Slice(Segments, options.write, t)
  BY <1>1, SlicesCover
<1> DEFINE b == SliceStart(Segments, options.write, t)
           e == SliceEnd(Segments, options.write, t)
           m == a - b + 1
<1>6. b \in Nat /\ e \in Nat
  BY <1>1, SliceWithin
<1>7. a \in b .. (e - 1)
  BY <1>5 DEF Slice
<1>8. m \in 1 .. PartSize(t) /\ b + m - 1 = a
  <2>1. PartSize(t) = e - b
    BY DEF PartSize
  <2> HIDE DEF b, e
  <2> QED
    BY <1>6, <1>7, <2>1
<1>9. c = PartCell(r, t, m)
  BY <1>4, <1>8 DEF PartCell
<1> HIDE DEF m
<1> QED
  BY <1>3, <1>5, <1>8, <1>9 DEF RoundNo, WriterNo

(* A writer's bucket and its records, by its round.                        *)
LEMMA WritersPart ==
  ASSUME NewInv, WholeRounds, pc \in Writers, NEW s \in DOMAIN thread
  PROVE  /\ s = <<pc, s[2]>> /\ s[2] \in WriterNo /\ bucket_no(s) = PartBucket(Round, s[2])
         /\ Records(s) = PartRecords(Round, s[2])
<1>1. /\ s[1] = pc /\ s = <<pc, s[2]>> /\ s[2] \in 0 .. (ThreadCount(pc) - 1)
      /\ thread[s].bucket_start = no_files /\ thread[s].k = k
  BY ThreadShape
<1>2. /\ options.write \in Nat \ {0} /\ ThreadCount(pc) = options.write /\ no_files \in Nat
      /\ k \in Nat /\ Segments \in Nat
  BY RoundsShape DEF NewInv, MainInv
<1>3. bucket_no(s) = PartBucket(Round, s[2])
  <2>1. s[2] \in Nat /\ options.write * k = k * options.write /\ options.write * k \in Nat
        /\ 0 * options.write = 0
    BY <1>1, <1>2
  <2> QED
    BY <1>1, <1>2, <2>1 DEF bucket_no, PartBucket, Round, At
<1> DEFINE g == Segments
           a == SliceStart(Segments, options.write, s[2])
           b == SliceEnd(Segments, options.write, s[2])
<1>4. a \in Nat /\ b \in Nat
  BY <1>1, <1>2, SliceWithin
<1>5. Base(pc) = Round * g /\ Base(pc) \in Nat
  BY <1>2 DEF Base, Round, Segments, SegmentSize
<1>6. start_index(s) = Base(pc) + a /\ end_index(s) = Base(pc) + b
  BY <1>1, <1>2, TouchesSlice DEF Segments
<1>7. /\ end_index(s) - start_index(s) = PartSize(s[2])
      /\ \A m \in 1 .. PartSize(s[2]) : start_index(s) + m - 1 = PartCell(Round, s[2], m)
  <2>1. PartSize(s[2]) = b - a /\ \A m : PartCell(Round, s[2], m) = At(g, Round, a + m - 1)
    BY DEF PartSize, PartCell
  <2> HIDE DEF a, b, g
  <2> QED
    BY <1>4, <1>5, <1>6, <2>1 DEF At
<1>8. Records(s) = PartRecords(Round, s[2])
  BY <1>7 DEF Records, PartRecords
<1> QED
  BY <1>1, <1>2, <1>3, <1>8 DEF WriterNo

-----------------------------------------------------------------------------
(* What the buckets hold *)

(* A writer stores nonces, in the order of the array.                      *)
LEMMA RecordsStored ==
  ASSUME NewInv, Filled, NEW s \in DOMAIN thread
  PROVE  /\ Records(s) \in Seq(Nonce)
         /\ Len(Records(s)) = end_index(s) - start_index(s)
         /\ \A m \in 1 .. Len(Records(s)) :
              /\ start_index(s) + m - 1 \in Touches(s)
              /\ Records(s)[m] = hashes[start_index(s) + m - 1]
<1> DEFINE n == end_index(s) - start_index(s)
           c(m) == start_index(s) + m - 1
<1>1. /\ start_index(s) \in Nat /\ end_index(s) \in Nat
      /\ start_index(s) <= end_index(s) /\ Touches(s) \subseteq Cell
      /\ pc \in Role
  BY TouchesSlice, ThreadShape
<1>2. n \in Nat
  BY <1>1
<1>3. \A m \in 1 .. n : c(m) \in Touches(s)
  BY <1>1 DEF Touches
<1>4. \A m \in 1 .. n : hashes[c(m)] \in Nonce
  BY <1>1, <1>3, FilledTyped
<1>5. Records(s) = [m \in 1 .. n |-> hashes[c(m)]]
  BY DEF Records
<1> HIDE DEF n, c
<1>6. Records(s) \in Seq(Nonce) /\ Len(Records(s)) = n
  <2>1. Records(s) \in [1 .. n -> Nonce]
    BY <1>4, <1>5
  <2> QED
    BY <1>2, <2>1, SeqDef, LenProperties
<1>7. \A m \in 1 .. Len(Records(s)) : c(m) \in Touches(s) /\ Records(s)[m] = hashes[c(m)]
  BY <1>3, <1>5, <1>6
<1> QED
  BY <1>6, <1>7 DEF n, c

(* What a thread may store of its part of the array: all of it, or what a  *)
(* failing fwrite wrote.                                                   *)
Stores(s, recs) ==
  /\ recs \in Seq(Nonce)
  /\ \A m \in 1 .. Len(recs) :
       /\ start_index(s) + m - 1 \in Touches(s)
       /\ recs[m] = hashes[start_index(s) + m - 1]
  /\ options.faults = {} => Len(recs) = end_index(s) - start_index(s)

LEMMA WriteStores ==
  ASSUME NewInv, Filled, NEW s \in DOMAIN thread, WriteFile(s)
  PROVE  \E recs : Stores(s, recs) /\ bucket' = With(bucket, bucket_no(s), recs)
<1> DEFINE all == Records(s)
<1>1. /\ all \in Seq(Nonce) /\ Len(all) = end_index(s) - start_index(s)
      /\ \A m \in 1 .. Len(all) :
           /\ start_index(s) + m - 1 \in Touches(s)
           /\ all[m] = hashes[start_index(s) + m - 1]
  BY RecordsStored
<1> HIDE DEF all
<1>2. Stores(s, all)
  BY <1>1 DEF Stores
<1>3. ASSUME NEW n \in 0 .. (Len(all) - 1), "short" \in options.faults
      PROVE  Stores(s, SubSeq(all, 1, n))
  <2>1. n \in 0 .. Len(all) /\ Len(all) \in Nat
    BY <1>1, <1>3
  <2>2. /\ SubSeq(all, 1, n) \in Seq(Nonce) /\ Len(SubSeq(all, 1, n)) = n
        /\ \A m \in 1 .. n : SubSeq(all, 1, n)[m] = all[m]
    BY <1>1, <2>1
  <2> QED
    BY <1>1, <1>3, <2>1, <2>2 DEF Stores
<1> QED
  BY <1>2, <1>3 DEF WriteFile, all

(* The part of the array for writer t of round r.                          *)
PartStart(r, t) == r * Segments + SliceStart(Segments, options.write, t)
PartEnd(r, t) == r * Segments + SliceEnd(Segments, options.write, t)

(* When the slices are nested, it was sorted by one thread.                *)
LEMMA NestedRound ==
  ASSUME NewInv, Nested, pc \in Writers, NEW r \in RoundNo, NEW t \in WriterNo
  PROVE  \E o \in 0 .. (options.sort - 1) : PartStart(r, t) .. (PartEnd(r, t) - 1) \subseteq SortPart(o)
<1> DEFINE M == max_records
           S == options.sort
           W == options.write
<1>1. /\ options \in Options /\ k \in Nat
      /\ pc = "writing_write" => W >= S
      /\ pc = "writing_sort" => W < S
  BY DEF NewInv, MainInv
<1>2. S \in Nat \ {0} /\ W \in Nat \ {0} /\ M \in Nat \ {0}
  BY <1>1, OptionsTyped
<1>3. CASE pc = "writing_write"
  <2>1. r = 0 /\ Segments = M /\ 0 * M = 0
    BY <1>2, <1>3 DEF RoundNo, Rounds, Segments, SegmentSize
  <2>2. SliceStart(M, W, t) \in Nat /\ SliceEnd(M, W, t) \in Nat
    BY <1>2, SliceWithin DEF WriterNo
  <2>3. PartStart(r, t) = SliceStart(M, W, t) /\ PartEnd(r, t) = SliceEnd(M, W, t)
    BY <2>1, <2>2 DEF PartStart, PartEnd
  <2>4. PICK o \in 0 .. (S - 1) : Slice(M, W, t) \subseteq Slice(M, S, o)
    BY <1>1, <1>3 DEF Nested, WriterNo
  <2> QED
    BY <2>3, <2>4 DEF Slice, SortPart
<1>4. CASE pc = "writing_sort"
  <2>1. /\ W < S /\ S % W = 0 /\ M % S = 0
        /\ r \in 0 .. (S \div W - 1) /\ t \in 0 .. (W - 1)
    BY <1>1, <1>2, <1>4 DEF Nested, RoundNo, Rounds, WriterNo, write_iter
  <2>2. Segments = Segment(M, S, W)
    BY <1>4 DEF Segments, SegmentSize, write_segment, write_iter, Segment
  <2> DEFINE o == r * W + t
  <2> HIDE DEF M, S, W
  <2>3. RoundStart(M, S, W, r, t) = SliceStart(M, S, o)
    BY <1>2, <2>1, RoundsAlign
  <2>4. RoundEnd(M, S, W, r, t) = SliceEnd(M, S, o)
    BY <1>2, <2>1, RoundsAlign
  <2>5. o \in 0 .. (S - 1)
    BY <1>2, <2>1, <2>3, RoundsAlign
  <2> HIDE DEF o
  <2>6. PartStart(r, t) = SliceStart(M, S, o) /\ PartEnd(r, t) = SliceEnd(M, S, o)
    BY <2>2, <2>3, <2>4 DEF RoundStart, RoundEnd, PartStart, PartEnd, W
  <2>7. SliceStart(M, S, o) .. (SliceEnd(M, S, o) - 1) = SortPart(o)
    BY DEF Slice, SortPart, M, S
  <2> QED
    BY <2>5, <2>6, <2>7 DEF S
<1> QED
  BY <1>3, <1>4 DEF Writers

LEMMA NestedSlice ==
  ASSUME NewInv, Nested, pc \in Writers, NEW s \in DOMAIN thread
  PROVE  \E o \in 0 .. (options.sort - 1) : Touches(s) \subseteq SortPart(o)
<1>1. s[2] \in 0 .. (ThreadCount(pc) - 1) /\ ThreadCount(pc) = options.write
  BY ThreadShape DEF ThreadCount, Writers
<1>2. /\ Base(pc) = Round * Segments /\ Round \in RoundNo
      /\ SegmentSize(pc) = Segments
  <2>1. /\ options \in Options /\ k \in Nat
        /\ pc = "writing_sort" => options.write < options.sort /\ k < write_iter
    BY DEF NewInv, MainInv
  <2>2. pc = "writing_sort" => write_iter \in Nat
    BY <2>1, SegmentsFit
  <2>3. 0 * max_records = 0
    BY NewAssumption
  <2> QED
    BY <2>1, <2>2, <2>3 DEF Writers, Base, Round, Rounds, RoundNo, Segments, SegmentSize
<1>3. start_index(s) = PartStart(Round, s[2]) /\ end_index(s) = PartEnd(Round, s[2])
  BY <1>1, <1>2, TouchesSlice DEF PartStart, PartEnd
<1> QED
  BY <1>1, <1>2, <1>3, NestedRound DEF Touches, WriterNo

(* What is stored of a sorted part is sorted.                              *)
LEMMA StoresSorted ==
  ASSUME NewInv, FillInv, SortInv, Nested, pc \in Writers, NEW s \in DOMAIN thread,
         NEW recs, Stores(s, recs)
  PROVE  SortedByHash(recs)
<1>1. PICK o \in 0 .. (options.sort - 1) : Touches(s) \subseteq SortPart(o)
  BY NestedSlice
<1>2. SortedIn(SortPart(o))
  BY DEF SortInv
<1> SUFFICES ASSUME NEW m \in DOMAIN recs, NEW n \in DOMAIN recs, m < n
             PROVE  Hash[recs[m]] <= Hash[recs[n]]
  BY DEF SortedByHash
<1>3. m \in 1 .. Len(recs) /\ n \in 1 .. Len(recs) /\ m \in Nat /\ n \in Nat
  BY DEF Stores
<1> DEFINE c == start_index(s) + m - 1
           d == start_index(s) + n - 1
<1>4. /\ c \in Touches(s) /\ recs[m] = hashes[c]
      /\ d \in Touches(s) /\ recs[n] = hashes[d]
  BY <1>3 DEF Stores
<1>5. c < d
  BY <1>3, TouchesSlice
<1> HIDE DEF c, d
<1> QED
  BY <1>1, <1>2, <1>4, <1>5 DEF SortedIn

(* Only the writers touch the directory.                                   *)
LEMMA WhoWrites ==
  ASSUME NewInv, [Next]_vars
  PROVE  /\ options' = options
         /\ \/ UNCHANGED bucket
            \/ \E s \in DOMAIN thread : OpenFile(s) \/ WriteFile(s)
<1>1. CASE NewMain
  BY <1>1 DEF NewMain, Malloc, Report, CreateThread, NoThreadArgument, NewCrash, JoinThread,
     HashingOver, SortingOver, WritingOver, RoundOver, NextIteration, Goto, newOwn
<1>2. ASSUME NEW s \in DOMAIN thread, NewThread(s)
      PROVE  options' = options /\ (UNCHANGED bucket \/ OpenFile(s) \/ WriteFile(s))
  BY <1>2 DEF NewThread, HashSlice, HashNull, NewCrash, SortSlice, OpenFile, WriteFile,
     UnchangedMain
<1>3. CASE Later
  BY <1>3, LaterKeeps
<1> QED
  BY <1>1, <1>2, <1>3 DEF Next, Generating, NewStep, Later

(* What the directory held before is not forgotten.                        *)
LEMMA FoundKept == [Next]_vars => found' = found
  BY DEF Next, Generating, StartExternalSort, Merging, Over, vars

BucketsTyped == \A b \in DOMAIN bucket : bucket[b] \in Seq(Nonce)

(* As another run left it. *)
AsFound(b) == b \in DOMAIN found.bucket /\ bucket[b] = found.bucket[b]

LEMMA NextBuckets ==
  ASSUME NewInv, FillInv, SortInv, [Next]_vars
  PROVE  /\ BucketsTyped => BucketsTyped'
         /\ BucketsSortedIfNested => BucketsSortedIfNested'
<1> DEFINE Kept == /\ BucketsTyped => BucketsTyped'
                   /\ BucketsSortedIfNested => BucketsSortedIfNested'
<1>1. Nested' = Nested
  BY WhoWrites DEF Nested
<1>2. CASE UNCHANGED bucket
  BY <1>1, <1>2, FoundKept DEF BucketsTyped, BucketsSortedIfNested, SortedByHash
<1>3. ASSUME NEW s \in DOMAIN thread, OpenFile(s) \/ WriteFile(s), bucket' # bucket
      PROVE  Kept
  <2>1. pc \in Writers
    BY <1>3, ThreadShape DEF OpenFile, WriteFile, Runs, NewInv, ThreadInv
  <2>2. Filled
    BY <2>1 DEF FillInv
  <2>3. PICK recs : /\ bucket' = With(bucket, bucket_no(s), recs)
                    /\ recs \in Seq(Nonce) /\ (Nested => SortedByHash(recs))
    <3>1. CASE OpenFile(s)
      <4>1. <<>> \in Seq(Nonce) /\ SortedByHash(<<>>)
        BY DEF SortedByHash
      <4> QED
        BY <1>3, <3>1, <4>1 DEF OpenFile
    <3>2. CASE WriteFile(s)
      <4>1. PICK recs : Stores(s, recs) /\ bucket' = With(bucket, bucket_no(s), recs)
        BY <2>2, <3>2, WriteStores
      <4>2. Nested => SortedByHash(recs)
        BY <2>1, <4>1, StoresSorted
      <4> QED
        BY <4>1, <4>2 DEF Stores
    <3> QED
      BY <1>3, <3>1, <3>2
  <2>4. \A b \in DOMAIN bucket' : bucket'[b] = recs \/ (b \in DOMAIN bucket /\ bucket'[b] = bucket[b])
    <3> SUFFICES ASSUME NEW b \in DOMAIN bucket'
                 PROVE  bucket'[b] = recs \/ (b \in DOMAIN bucket /\ bucket'[b] = bucket[b])
      OBVIOUS
    <3> DEFINE f == bucket
               x == bucket_no(s)
    <3>1. b \in DOMAIN With(f, x, recs) /\ bucket' = With(f, x, recs)
      BY <2>3
    <3> HIDE DEF x
    <3>2. \/ b = x /\ With(f, x, recs)[b] = recs
          \/ b \in DOMAIN f /\ b # x /\ With(f, x, recs)[b] = f[b]
      BY <3>1 DEF With
    <3> QED
      BY <3>1, <3>2
  <2>5. BucketsTyped => \A b \in DOMAIN bucket' : bucket'[b] \in Seq(Nonce)
    BY <2>3, <2>4 DEF BucketsTyped
  <2>6. ASSUME BucketsSortedIfNested, Nested, NEW b \in DOMAIN bucket'
        PROVE  SortedByHash(bucket'[b]) \/ AsFound(b)'
    <3>1. CASE bucket'[b] = recs
      BY <2>3, <2>6, <3>1
    <3>2. CASE b \in DOMAIN bucket /\ bucket'[b] = bucket[b]
      BY <2>6, <3>2, FoundKept DEF BucketsSortedIfNested, AsFound
    <3> QED
      BY <2>4, <3>1, <3>2
  <2> QED
    BY <1>1, <2>5, <2>6 DEF BucketsTyped, BucketsSortedIfNested, SortedByHash, AsFound
<1> QED
  BY <1>2, <1>3, WhoWrites

LEMMA BucketsTypedAlways == Spec => []BucketsTyped
<1>1. Init => BucketsTyped
  BY NewAssumption DEF Init, NewInit, BucketsTyped
<1>2. NewInv /\ FillInv /\ SortInv /\ BucketsTyped /\ [Next]_vars => BucketsTyped'
  BY NextBuckets
<1> QED
  BY <1>1, <1>2, NewInvAlways, WorkInvAlways, PTL DEF Spec

(* If every slice that is written lies inside one that was sorted, every   *)
(* bucket this run has opened is sorted at all times, in spite of calls    *)
(* that fail: also the one fwrite left incomplete.  A bucket that is not   *)
(* sorted is as another run, with whatever options, left it.               *)
THEOREM NewSorts == Spec => []BucketsSortedIfNested
<1>1. Init => BucketsSortedIfNested
  BY DEF Init, NewInit, BucketsSortedIfNested
<1>2. NewInv /\ FillInv /\ SortInv /\ BucketsSortedIfNested /\ [Next]_vars
        => BucketsSortedIfNested'
  BY NextBuckets
<1> QED
  BY <1>1, <1>2, NewInvAlways, WorkInvAlways, PTL DEF Spec

-----------------------------------------------------------------------------
(* What is handed over *)

(* Buckets 0 .. N - 1 exist, and hold the records of V, each exactly once. *)
Held(N, V) ==
  /\ \A b \in 0 .. (N - 1) :
       b \in DOMAIN bucket /\ \A p \in DOMAIN bucket[b] : bucket[b][p] \in V
  /\ \A v \in V : \E b \in 0 .. (N - 1) : \E p \in DOMAIN bucket[b] : bucket[b][p] = v
  /\ \A a, b \in 0 .. (N - 1) : \A p \in DOMAIN bucket[a] : \A q \in DOMAIN bucket[b] :
       bucket[a][p] = bucket[b][q] => a = b /\ p = q

Before == 0 .. (j * max_records - 1)

Written(r, t) ==
  PartBucket(r, t) \in DOMAIN bucket /\ bucket[PartBucket(r, t)] = PartRecords(r, t)

(* The writers of the rounds before, and those of this one that are done,  *)
(* have written their buckets.                                             *)
RoundInv ==
  pc \in Writers =>
    \A r \in RoundNo, t \in WriterNo : r < Round \/ (r = Round /\ Done(t)) => Written(r, t)

Whole == options.faults = {} /\ WholeRounds

HandInv ==
  /\ Whole => Held(no_files, Before) /\ RoundInv
  /\ pc \notin Role \cup {"malloc", "crashed"} => j = iterations

(* What happens beyond the first N buckets does not concern them.          *)
LEMMA HeldKept ==
  ASSUME NEW N, NEW V, Held(N, V),
         \A b \in 0 .. (N - 1) :
           b \in DOMAIN bucket => b \in DOMAIN bucket' /\ bucket'[b] = bucket[b]
  PROVE  Held(N, V)'
<1>1. \A b \in 0 .. (N - 1) : b \in DOMAIN bucket' /\ bucket'[b] = bucket[b]
  BY DEF Held
<1> QED
  BY <1>1 DEF Held

LEMMA OldKept ==
  ASSUME Held(no_files, Before), UNCHANGED <<no_files, j>>,
         \A b \in 0 .. (no_files - 1) :
           b \in DOMAIN bucket => b \in DOMAIN bucket' /\ bucket'[b] = bucket[b]
  PROVE  Held(no_files, Before)'
<1>1. PICK N : N = no_files
  OBVIOUS
<1>2. PICK V : V = Before
  OBVIOUS
<1>3. Held(N, V)'
  BY <1>1, <1>2, HeldKept
<1>4. no_files' = N /\ Before' = V
  BY <1>1, <1>2 DEF Before
<1> QED
  BY <1>3, <1>4 DEF Held

(* Steps of main inside a phase.                                           *)
LEMMA RoundsKept ==
  ASSUME RoundInv, UNCHANGED <<pc, options, k, no_files, hashes, bucket>>,
         \A n : Done(n)' => Done(n)
  PROVE  RoundInv'
<1>1. /\ RoundNo' = RoundNo /\ WriterNo' = WriterNo /\ Round' = Round
      /\ \A r, t : PartBucket(r, t)' = PartBucket(r, t) /\ PartRecords(r, t)' = PartRecords(r, t)
  BY DEF RoundNo, Rounds, WriterNo, Round, PartBucket, PartRecords, PartSize, PartCell, Segments,
     SegmentSize, write_segment, write_iter
<1>2. \A r, t : Written(r, t)' = Written(r, t)
  BY <1>1 DEF Written
<1> QED
  BY <1>1, <1>2 DEF RoundInv

(* Two writers of an iteration never have the same bucket.                 *)
LEMMA PartBucketUnique ==
  ASSUME NewInv, WholeRounds, pc \in Writers,
         NEW r \in RoundNo, NEW t \in WriterNo, NEW q \in RoundNo, NEW u \in WriterNo,
         PartBucket(r, t) = PartBucket(q, u)
  PROVE  r = q /\ t = u
<1>1. options.write \in Nat /\ no_files \in Nat /\ Rounds \in Nat
  BY RoundsShape
<1>2. At(options.write, r, t) \in Nat /\ At(options.write, q, u) \in Nat
  BY <1>1 DEF At, RoundNo, WriterNo
<1>3. At(options.write, r, t) = At(options.write, q, u)
  BY <1>1, <1>2 DEF PartBucket
<1> QED
  BY <1>1, <1>3, AtUnique DEF RoundNo, WriterNo

LEMMA PartBucketBounds ==
  ASSUME NewInv, WholeRounds, pc \in Writers, NEW r \in RoundNo, NEW t \in WriterNo
  PROVE  PartBucket(r, t) \in no_files .. (no_files + Added(pc) - 1)
<1>1. /\ Rounds \in Nat /\ options.write \in Nat /\ Rounds * options.write = Added(pc)
      /\ no_files \in Nat
  BY RoundsShape
<1>2. At(options.write, r, t) \in 0 .. (Rounds * options.write - 1)
  BY <1>1, AtWithin DEF RoundNo, WriterNo
<1> QED
  BY <1>1, <1>2 DEF PartBucket

(* One writer's step: OpenFile makes its bucket empty, WriteFile fills it. *)
LEMMA WriterHands ==
  ASSUME NewInv, FillInv, HandInv, Whole, NEW s \in DOMAIN thread, OpenFile(s) \/ WriteFile(s)
  PROVE  Held(no_files, Before)' /\ RoundInv'
<1>1. /\ pc \in Writers /\ s[1] = pc
      /\ UNCHANGED <<pc, spawned, joined, no_files, options, j, k, memory, hashes>>
  BY ThreadShape DEF OpenFile, WriteFile, Runs, UnchangedMain, NewInv, ThreadInv
<1> DEFINE n == s[2]
           bn == PartBucket(Round, n)
<1>2. /\ s = <<pc, n>> /\ n \in WriterNo /\ Round \in RoundNo /\ bucket_no(s) = bn
      /\ Records(s) = PartRecords(Round, n)
  BY <1>1, WritersPart, RoundsShape DEF Whole
<1>3. PICK recs :
        /\ bucket' = With(bucket, bn, recs)
        /\ \/ recs = PartRecords(Round, n)
           \/ thread' = [thread EXCEPT ![s].state = "writing"]
  BY <1>2 DEF OpenFile, WriteFile, Becomes, Whole
<1>4. bn \in no_files .. (no_files + Added(pc) - 1) /\ no_files \in Nat
  BY <1>1, <1>2, PartBucketBounds, RoundsShape DEF Whole
<1> HIDE DEF n, bn
<1>5. /\ \A b \in DOMAIN bucket : b # bn => b \in DOMAIN bucket' /\ bucket'[b] = bucket[b]
      /\ bn \in DOMAIN bucket' /\ bucket'[bn] = recs
  BY <1>3 DEF With
<1>6. Held(no_files, Before)'
  <2>1. \A b \in 0 .. (no_files - 1) : b # bn
    BY <1>4
  <2> QED
    BY <1>1, <1>5, <2>1, OldKept DEF HandInv
<1>7. /\ RoundNo' = RoundNo /\ WriterNo' = WriterNo /\ Round' = Round
      /\ \A r, t : PartBucket(r, t)' = PartBucket(r, t) /\ PartRecords(r, t)' = PartRecords(r, t)
  BY <1>1 DEF RoundNo, Rounds, WriterNo, Round, PartBucket, PartRecords, PartSize, PartCell,
     Segments, SegmentSize, write_segment, write_iter
<1>8. ASSUME NEW r \in RoundNo, NEW t \in WriterNo, r < Round \/ (r = Round /\ Done(t)')
      PROVE  Written(r, t)'
  <2>1. CASE r = Round /\ t = n
    <3>1. PartBucket(r, t) = bn
      BY <2>1 DEF bn
    <3>2. recs = PartRecords(Round, n)
      <4> SUFFICES ASSUME thread' = [thread EXCEPT ![s].state = "writing"] PROVE FALSE
        BY <1>3
      <4>1. Done(n)'
        <5>1. Round \in Int
          BY <1>2 DEF RoundNo
        <5> QED
          BY <1>8, <2>1, <5>1
      <4>2. thread[s] \in Thread
        BY ThreadShape
      <4>3. thread'[s].state = "writing" /\ s \in DOMAIN thread'
        BY <4>2 DEF Thread
      <4>4. <<pc', n>> = s
        BY <1>1, <1>2
      <4> QED
        BY <4>1, <4>3, <4>4 DEF Done
    <3> QED
      BY <1>5, <1>7, <2>1, <3>1, <3>2 DEF Written
  <2>2. CASE ~(r = Round /\ t = n)
    <3>1. PartBucket(r, t) # bn
      BY <1>1, <1>2, <2>2, PartBucketUnique DEF bn, Whole
    <3>2. Written(r, t)
      <4>1. r < Round \/ (r = Round /\ Done(t))
        <5>1. CASE r = Round /\ Done(t)'
          <6>1. \E v : Becomes(s, v) /\ UnchangedMain
            BY DEF OpenFile, WriteFile
          <6>2. t # s[2]
            BY <2>2, <5>1 DEF n
          <6> QED
            BY <5>1, <6>1, <6>2, DoneStepped
        <5> QED
          BY <1>8, <5>1
      <4> QED
        BY <1>1, <4>1 DEF HandInv, RoundInv
    <3> QED
      BY <1>5, <1>7, <3>1, <3>2 DEF Written
  <2> QED
    BY <2>1, <2>2
<1>9. RoundInv'
  BY <1>7, <1>8 DEF RoundInv
<1> QED
  BY <1>6, <1>9

(* When the last round is over, every bucket of the iteration is written.  *)
LEMMA AllWritten ==
  ASSUME NewInv, HandInv, Whole, NEW w \in Writers, PhaseOver(w),
         w = "writing_sort" => k + 1 >= write_iter
  PROVE  /\ \A r \in RoundNo, t \in WriterNo : Written(r, t)
         /\ \A b \in no_files .. (no_files + Added(w) - 1) :
              \E r \in RoundNo : \E t \in WriterNo : b = PartBucket(r, t)
<1>1. pc = w
  BY DEF PhaseOver
<1>2. /\ Rounds \in Nat \ {0} /\ Round \in RoundNo /\ no_files \in Nat
      /\ options.write \in Nat \ {0}
      /\ Rounds * options.write = Added(w) /\ ThreadCount(pc) = options.write
  BY <1>1, RoundsShape DEF Whole
<1>3. ASSUME NEW r \in RoundNo, NEW t \in WriterNo PROVE Written(r, t)
  <2>1. r < Round \/ r = Round
    <3>1. Round = Rounds - 1
      BY <1>1, <1>2 DEF Round, Rounds, RoundNo, Writers, NewInv, MainInv, Role
    <3> QED
      BY <1>2, <3>1 DEF RoundNo
  <2>2. Done(t)
    BY <1>1, <1>2, AllDone DEF WriterNo, Writers, Role
  <2> QED
    BY <1>1, <2>1, <2>2 DEF HandInv, RoundInv
<1>4. ASSUME NEW b \in no_files .. (no_files + Added(w) - 1)
      PROVE  \E r \in RoundNo : \E t \in WriterNo : b = PartBucket(r, t)
  <2> DEFINE W == options.write
             x == b - no_files
  <2>1. x \in 0 .. (Rounds * W - 1) /\ no_files + x = b
    BY <1>2
  <2> HIDE DEF x
  <2>2. PICK r \in 0 .. (Rounds - 1) : \E t \in 0 .. (W - 1) : x = At(W, r, t)
    BY <1>2, <2>1, AtReached
  <2>3. PICK t \in 0 .. (W - 1) : x = At(W, r, t)
    BY <2>2
  <2> QED
    BY <2>1, <2>2, <2>3 DEF RoundNo, WriterNo, PartBucket
<1> QED
  BY <1>3, <1>4

(* With the buckets of this iteration, its records are handed over.        *)
LEMMA IterationHanded ==
  ASSUME NewInv, FillInv, HandInv, Whole, NEW w \in Writers, PhaseOver(w), NextIteration(w),
         w = "writing_sort" => k + 1 >= write_iter
  PROVE  Held(no_files, Before)'
<1> DEFINE N == no_files
           P == Added(w)
           J == j * max_records
           L == (j + 1) * max_records
<1>1. /\ pc = w /\ no_files' = N + P /\ j' = j + 1 /\ bucket' = bucket
  BY DEF PhaseOver, NextIteration, Goto
<1>2. /\ Filled /\ J \in Nat /\ L = J + max_records /\ max_records \in Nat
  BY <1>1, IterationNonces DEF FillInv, Writers, Role
<1>3. /\ Rounds \in Nat \ {0} /\ N \in Nat /\ options.write \in Nat \ {0}
      /\ Rounds * options.write = P
  BY <1>1, RoundsShape DEF Whole
<1>4. ASSUME NEW r \in RoundNo, NEW t \in WriterNo PROVE Written(r, t)
  BY AllWritten
<1>5. ASSUME NEW b \in N .. (N + P - 1)
      PROVE  \E r \in RoundNo : \E t \in WriterNo :
               b = PartBucket(r, t) /\ b \in DOMAIN bucket /\ bucket[b] = PartRecords(r, t)
  BY <1>4, AllWritten DEF Written
<1> HIDE DEF N, P, J, L
<1>6. ASSUME NEW r \in RoundNo, NEW t \in WriterNo, NEW m \in DOMAIN PartRecords(r, t)
      PROVE  /\ m \in 1 .. PartSize(t)
             /\ PartCell(r, t, m) \in Cell
             /\ PartRecords(r, t)[m] = hashes[PartCell(r, t, m)]
  <2>1. m \in 1 .. PartSize(t) /\ PartRecords(r, t)[m] = hashes[PartCell(r, t, m)]
    BY DEF PartRecords
  <2> QED
    BY <1>1, <2>1, PartCellIn DEF Whole
<1>7. ASSUME NEW b \in N .. (N + P - 1)
      PROVE  b \in DOMAIN bucket /\ \A p \in DOMAIN bucket[b] : bucket[b][p] \in J .. (L - 1)
  <2>1. \A c \in Cell : hashes[c] \in J .. (L - 1)
    BY <1>2 DEF Filled, Iteration, J, L
  <2> QED
    BY <1>5, <1>6, <2>1
<1>8. ASSUME NEW v \in J .. (L - 1)
      PROVE  \E b \in N .. (N + P - 1) : \E p \in DOMAIN bucket[b] : bucket[b][p] = v
  <2>1. PICK c \in Cell : hashes[c] = v
    BY <1>2 DEF Filled, Iteration, J, L
  <2>2. PICK r \in RoundNo : \E t \in WriterNo : \E m \in 1 .. PartSize(t) : c = PartCell(r, t, m)
    BY <1>1, PartCellReached DEF Whole
  <2>3. PICK t \in WriterNo : \E m \in 1 .. PartSize(t) : c = PartCell(r, t, m)
    BY <2>2
  <2>4. PICK m \in 1 .. PartSize(t) : c = PartCell(r, t, m)
    BY <2>3
  <2>5. PartBucket(r, t) \in N .. (N + P - 1)
    BY <1>1, PartBucketBounds DEF Whole, N, P
  <2>6. bucket[PartBucket(r, t)] = PartRecords(r, t)
    BY <1>4 DEF Written
  <2>7. m \in DOMAIN PartRecords(r, t) /\ PartRecords(r, t)[m] = v
    BY <2>1, <2>4 DEF PartRecords
  <2> QED
    BY <2>5, <2>6, <2>7
<1>9. ASSUME NEW a \in N .. (N + P - 1), NEW b \in N .. (N + P - 1),
             NEW p \in DOMAIN bucket[a], NEW q \in DOMAIN bucket[b], bucket[a][p] = bucket[b][q]
      PROVE  a = b /\ p = q
  <2>1. PICK r \in RoundNo : \E t \in WriterNo : a = PartBucket(r, t) /\ bucket[a] = PartRecords(r, t)
    BY <1>5
  <2>2. PICK t \in WriterNo : a = PartBucket(r, t) /\ bucket[a] = PartRecords(r, t)
    BY <2>1
  <2>3. PICK i \in RoundNo : \E u \in WriterNo : b = PartBucket(i, u) /\ bucket[b] = PartRecords(i, u)
    BY <1>5
  <2>4. PICK u \in WriterNo : b = PartBucket(i, u) /\ bucket[b] = PartRecords(i, u)
    BY <2>3
  <2>5. /\ p \in 1 .. PartSize(t) /\ PartCell(r, t, p) \in Cell
        /\ bucket[a][p] = hashes[PartCell(r, t, p)]
    BY <1>6, <2>2
  <2>6. /\ q \in 1 .. PartSize(u) /\ PartCell(i, u, q) \in Cell
        /\ bucket[b][q] = hashes[PartCell(i, u, q)]
    BY <1>6, <2>4
  <2>7. PartCell(r, t, p) = PartCell(i, u, q)
    BY <1>2, <1>9, <2>5, <2>6 DEF Filled
  <2>8. r = i /\ t = u /\ p = q
    BY <1>1, <2>5, <2>6, <2>7, PartCellUnique DEF Whole
  <2> QED
    BY <2>2, <2>4, <2>8
<1>10. Held(N, 0 .. (J - 1))
  BY DEF HandInv, Before, N, J
<1>11. P \in Nat
  BY <1>3
<1>12. PICK n \in Nat : n = N + P
  BY <1>3, <1>11 DEF N
<1>13. PICK V : V = 0 .. (L - 1)
  OBVIOUS
<1>14. /\ \A b \in 0 .. (n - 1) : b \in 0 .. (N - 1) \/ b \in N .. (N + P - 1)
       /\ \A b \in 0 .. (N - 1) : b \in 0 .. (n - 1)
       /\ \A b \in N .. (N + P - 1) : b \in 0 .. (n - 1)
  <2>1. N \in Nat
    BY <1>3 DEF N
  <2> QED
    BY <1>11, <1>12, <2>1
<1>15. \A v \in V : v \in 0 .. (J - 1) \/ v \in J .. (L - 1)
  BY <1>2, <1>13
<1>16. /\ \A v \in 0 .. (J - 1) : v \in V /\ v \notin J .. (L - 1)
       /\ \A v \in J .. (L - 1) : v \in V
  BY <1>2, <1>13
<1>17. \A b \in 0 .. (n - 1) : b \in DOMAIN bucket /\ \A p \in DOMAIN bucket[b] : bucket[b][p] \in V
  BY <1>7, <1>10, <1>14, <1>16 DEF Held
<1>18. \A v \in V : \E b \in 0 .. (n - 1) : \E p \in DOMAIN bucket[b] : bucket[b][p] = v
  BY <1>8, <1>10, <1>14, <1>15 DEF Held
<1>19. ASSUME NEW a \in 0 .. (n - 1), NEW b \in 0 .. (n - 1),
              NEW p \in DOMAIN bucket[a], NEW q \in DOMAIN bucket[b], bucket[a][p] = bucket[b][q]
       PROVE  a = b /\ p = q
  <2>1. CASE a \in 0 .. (N - 1) /\ b \in 0 .. (N - 1)
    BY <1>10, <1>19, <2>1 DEF Held
  <2>2. CASE a \in N .. (N + P - 1) /\ b \in N .. (N + P - 1)
    BY <1>9, <1>19, <2>2
  <2>3. CASE a \in 0 .. (N - 1) /\ b \in N .. (N + P - 1)
    <3>1. bucket[a][p] \in 0 .. (J - 1) /\ bucket[b][q] \in J .. (L - 1)
      BY <1>7, <1>10, <2>3 DEF Held
    <3> QED
      BY <1>16, <1>19, <3>1
  <2>4. CASE a \in N .. (N + P - 1) /\ b \in 0 .. (N - 1)
    <3>1. bucket[a][p] \in J .. (L - 1) /\ bucket[b][q] \in 0 .. (J - 1)
      BY <1>7, <1>10, <2>4 DEF Held
    <3> QED
      BY <1>16, <1>19, <3>1
  <2> QED
    BY <1>14, <2>1, <2>2, <2>3, <2>4
<1>20. Held(n, V)
  BY <1>17, <1>18, <1>19 DEF Held
<1>21. no_files' = n /\ bucket' = bucket /\ Before' = V
  BY <1>1, <1>12, <1>13 DEF Before, L, N, P
<1>22. Held(n, V)'
  BY <1>20, <1>21, HeldKept
<1> QED
  BY <1>21, <1>22 DEF Held

LEMMA NextHandInv ==
  NewInv /\ FillInv /\ HandInv /\ [Next]_vars => HandInv'
<1> SUFFICES ASSUME NewInv, FillInv, HandInv, [Next]_vars PROVE HandInv'
  OBVIOUS
<1> USE DEF Role, Writers
<1>1. options' = options /\ Whole' = Whole /\ iterations' = iterations
  BY WhoWrites DEF Whole, WholeRounds, write_iter, iterations
<1>2. ASSUME UNCHANGED <<bucket, no_files, j>>, pc' \notin Writers,
             pc' \notin Role \cup {"malloc", "crashed"} => j = iterations
      PROVE  HandInv'
  <2>1. Whole => Held(no_files, Before)'
    BY <1>2, OldKept DEF HandInv
  <2> QED
    BY <1>1, <1>2, <2>1 DEF HandInv, RoundInv
<1>3. ASSUME UNCHANGED <<pc, k, no_files, j, hashes, bucket>>, \A n : Done(n)' => Done(n)
      PROVE  HandInv'
  <2>1. Whole => Held(no_files, Before)' /\ RoundInv'
    BY <1>1, <1>3, OldKept, RoundsKept DEF HandInv
  <2> QED
    BY <1>1, <1>3, <2>1 DEF HandInv
<1>4. CASE Malloc \/ NewCrash \/ HashingOver
  BY <1>2, <1>4 DEF Malloc, NewCrash, HashingOver, Goto
<1>5. CASE Report
  <2>1. j = iterations
    BY <1>5, IterationsFit DEF Report, FillInv
  <2> QED
    BY <1>2, <1>5, <2>1 DEF Report, newOwn
<1>6. CASE CreateThread \/ JoinThread
  <2>1. UNCHANGED <<pc, k, no_files, j, hashes, bucket>>
    BY <1>6 DEF CreateThread, JoinThread
  <2> QED
    BY <1>3, <1>6, <2>1, DoneCreated
<1>7. CASE SortingOver
  <2>1. /\ UNCHANGED <<no_files, j, bucket>> /\ pc' \in Writers /\ k' = 0 /\ spawned' = 0
    BY <1>7 DEF SortingOver, Goto
  <2>2. Round' = 0 /\ \A n : ~Done(n)'
    BY <2>1 DEF Round, Done
  <2>3. RoundInv'
    BY <2>2 DEF RoundInv, RoundNo
  <2> QED
    BY <1>1, <2>1, <2>3, OldKept DEF HandInv
<1>8. CASE WritingOver \/ (RoundOver /\ NextIteration("writing_sort"))
  <2>1. PICK w \in Writers : /\ PhaseOver(w) /\ NextIteration(w)
                             /\ w = "writing_sort" => NextRound >= write_iter
    BY <1>8 DEF WritingOver, RoundOver, NextIteration, Goto
  <2>2. pc' = "malloc"
    BY <2>1 DEF NextIteration, Goto
  <2>3. Whole => Held(no_files, Before)'
    BY <2>1, IterationHanded DEF NextRound
  <2> QED
    BY <1>1, <2>2, <2>3 DEF HandInv, RoundInv
<1>9. CASE RoundOver /\ ~NextIteration("writing_sort")
  <2>1. /\ PhaseOver("writing_sort") /\ k' = k + 1 /\ k + 1 < write_iter
        /\ Goto("writing_sort") /\ UNCHANGED <<no_files, j, memory>>
    BY <1>9 DEF RoundOver, NextRound
  <2>2. /\ UNCHANGED <<pc, hashes, bucket>> /\ pc = "writing_sort" /\ spawned' = 0
    BY <2>1 DEF Goto, PhaseOver
  <2>3. /\ RoundNo' = RoundNo /\ WriterNo' = WriterNo /\ Round' = Round + 1 /\ Round = k
        /\ \A r, t : PartBucket(r, t)' = PartBucket(r, t) /\ PartRecords(r, t)' = PartRecords(r, t)
    BY <1>1, <2>1, <2>2 DEF RoundNo, Rounds, WriterNo, Round, PartBucket, PartRecords, PartSize,
       PartCell, Segments, SegmentSize, write_segment, write_iter
  <2>4. ASSUME Whole PROVE RoundInv'
    <3> SUFFICES ASSUME NEW r \in RoundNo, NEW t \in WriterNo,
                        r < Round + 1 \/ (r = Round + 1 /\ Done(t)')
                 PROVE  Written(r, t)'
      BY <2>3 DEF RoundInv
    <3>1. ~Done(t)'
      BY <2>2 DEF Done
    <3>2. Round \in Int /\ r \in Int /\ ThreadCount(pc) = options.write
      BY <2>2, <2>4, RoundsShape DEF RoundNo, Whole
    <3>3. r < Round \/ r = Round
      BY <3>1, <3>2
    <3>4. Done(t)
      BY <2>1, <2>2, <3>2, AllDone DEF WriterNo
    <3>5. Written(r, t)
      BY <2>2, <2>4, <3>3, <3>4 DEF HandInv, RoundInv
    <3> QED
      BY <2>2, <2>3, <3>5 DEF Written
  <2> QED
    BY <1>1, <2>1, <2>2, <2>4, OldKept DEF HandInv
<1>10. ASSUME NEW s \in DOMAIN thread, NewThread(s) PROVE HandInv'
  <2>1. CASE HashSlice(s) \/ SortSlice(s)
    <3>1. pc' = pc /\ pc \notin Writers /\ UNCHANGED <<bucket, no_files, j>>
      BY <2>1, ThreadShape DEF HashSlice, SortSlice, Runs, UnchangedMain
    <3> QED
      BY <1>2, <3>1 DEF HandInv
  <2>2. CASE HashNull(s)
    BY <1>4, <2>2 DEF HashNull
  <2>3. CASE OpenFile(s) \/ WriteFile(s)
    <3>1. pc' = pc /\ j' = j
      BY <2>3 DEF OpenFile, WriteFile, UnchangedMain
    <3> QED
      BY <1>1, <2>3, <3>1, WriterHands DEF HandInv
  <2> QED
    BY <1>10, <2>1, <2>2, <2>3 DEF NewThread
<1>11. CASE Later
  <2>1. /\ UNCHANGED <<bucket, no_files, options, j, k, thread, hashes, memory>>
        /\ \/ pc' = pc /\ UNCHANGED <<spawned, joined>>
           \/ pc \notin Role \cup {"malloc", "crashed"} /\ pc' \notin Role \cup {"malloc"}
    BY <1>11, LaterKeeps
  <2>2. CASE pc' = pc /\ UNCHANGED <<spawned, joined>>
    <3>1. \A n : Done(n)' => Done(n)
      BY <2>1, <2>2 DEF Done
    <3> QED
      BY <1>3, <2>1, <2>2, <3>1
  <2>3. CASE pc \notin Role \cup {"malloc", "crashed"} /\ pc' \notin Role \cup {"malloc"}
    BY <1>2, <2>1, <2>3 DEF HandInv
  <2> QED
    BY <2>1, <2>2, <2>3
<1>12. CASE NewMain
  BY <1>4, <1>5, <1>6, <1>7, <1>8, <1>9, <1>12 DEF NewMain, NoThreadArgument
<1> QED
  BY <1>10, <1>11, <1>12 DEF Next, Generating, NewStep, Later

LEMMA InitHandInv == Init => HandInv
<1> SUFFICES ASSUME Init PROVE HandInv
  OBVIOUS
<1>1. pc = "malloc" /\ no_files = 0 /\ j = 0
  BY DEF Init, NewInit
<1>2. 0 .. (no_files - 1) = {} /\ Before = {}
  <2>1. 0 * max_records = 0
    BY NewAssumption
  <2> QED
    BY <1>1, <2>1 DEF Before
<1>3. Held(no_files, Before)
  BY <1>2 DEF Held
<1> QED
  BY <1>1, <1>3 DEF HandInv, RoundInv, Writers, Role

LEMMA HandInvAlways == Spec => []HandInv
  BY InitHandInv, NextHandInv, NewInvAlways, WorkInvAlways, PTL DEF Spec

(* If no call fails and the rounds leave no record out, the buckets new.c  *)
(* reports exist when it ends and hold every record it generated exactly   *)
(* once, and nothing else, whatever an earlier run left behind.            *)
THEOREM NewHandsOver == Spec => []HandedOver
<1>1. NewInv /\ HandInv => HandedOver
  <2> SUFFICES ASSUME NewInv, HandInv, pc = "reported", Whole
               PROVE  /\ 0 .. (no_files - 1) \subseteq DOMAIN bucket
                      /\ \A n \in Nonce : Cardinality(PlacesOf(n)) =
                                          IF n < iterations * max_records THEN 1 ELSE 0
    BY DEF HandedOver, Whole
  <2>1. Held(no_files, Before) /\ j = iterations
    BY DEF HandInv, Role
  <2>2. 0 .. (no_files - 1) \subseteq DOMAIN bucket
    BY <2>1 DEF Held
  <2>3. ASSUME NEW n \in Nonce, n < iterations * max_records
        PROVE  Cardinality(PlacesOf(n)) = 1
    <3>1. n \in Before
      BY <2>1, <2>3, IterationsFit, NewAssumption DEF Before, Nonce
    <3>2. PICK b \in 0 .. (no_files - 1) : \E p \in DOMAIN bucket[b] : bucket[b][p] = n
      BY <2>1, <3>1 DEF Held
    <3>3. PICK p \in DOMAIN bucket[b] : bucket[b][p] = n
      BY <3>2
    <3>4. PlacesOf(n) = {<<b, p>>}
      <4>1. <<b, p>> \in PlacesOf(n)
        BY <3>2, <3>3 DEF PlacesOf
      <4>2. ASSUME NEW q \in PlacesOf(n) PROVE q = <<b, p>>
        <5>1. PICK a \in 0 .. (no_files - 1) : q \in {a} \X DOMAIN bucket[a] /\ bucket[q[1]][q[2]] = n
          BY DEF PlacesOf
        <5>2. q = <<a, q[2]>> /\ q[2] \in DOMAIN bucket[a] /\ bucket[a][q[2]] = n
          BY <5>1
        <5>3. a = b /\ q[2] = p
          BY <2>1, <3>2, <3>3, <5>1, <5>2 DEF Held
        <5> QED
          BY <5>2, <5>3
      <4> QED
        BY <4>1, <4>2
    <3> QED
      BY <3>4, FS_Singleton
  <2>4. ASSUME NEW n \in Nonce, ~(n < iterations * max_records)
        PROVE  Cardinality(PlacesOf(n)) = 0
    <3>1. n \notin Before
      <4>1. iterations * max_records \in Nat /\ n \in Nat
        BY IterationsFit, NewAssumption DEF Nonce
      <4> HIDE DEF iterations
      <4> QED
        BY <2>1, <2>4, <4>1 DEF Before
    <3>2. PlacesOf(n) = {}
      BY <2>1, <3>1 DEF Held, PlacesOf
    <3> QED
      BY <3>2, FS_EmptySet
  <2> QED
    BY <2>2, <2>3, <2>4
<1> QED
  BY <1>1, NewInvAlways, HandInvAlways, PTL

-----------------------------------------------------------------------------
(* Sorted buckets, whatever an earlier run left behind *)

LEMMA PartSorted ==
  ASSUME NewInv, FillInv, SortInv, Nested, WholeRounds, pc \in Writers,
         NEW r \in RoundNo, NEW t \in WriterNo
  PROVE  SortedByHash(PartRecords(r, t))
<1> DEFINE a == SliceStart(Segments, options.write, t)
           b == SliceEnd(Segments, options.write, t)
<1>1. PICK o \in 0 .. (options.sort - 1) : PartStart(r, t) .. (PartEnd(r, t) - 1) \subseteq SortPart(o)
  BY NestedRound
<1>2. SortedIn(SortPart(o))
  BY DEF SortInv
<1>3. /\ Segments \in Nat /\ options.write \in Nat \ {0} /\ r \in Nat
  BY RoundsShape DEF RoundNo
<1>4. a \in Nat /\ b \in Nat /\ r * Segments \in Nat
  <2>1. a \in Nat /\ b \in Nat
    BY <1>3, SliceWithin DEF WriterNo
  <2>2. r * Segments \in Nat
    BY <1>3
  <2> QED
    BY <2>1, <2>2
<1>5. ASSUME NEW m \in 1 .. PartSize(t), NEW n \in 1 .. PartSize(t), m < n
      PROVE  Hash[hashes[PartCell(r, t, m)]] <= Hash[hashes[PartCell(r, t, n)]]
  <2>1. /\ PartCell(r, t, m) = r * Segments + (a + m - 1)
        /\ PartCell(r, t, n) = r * Segments + (a + n - 1)
        /\ PartStart(r, t) = r * Segments + a /\ PartEnd(r, t) = r * Segments + b
        /\ PartSize(t) = b - a
    BY DEF PartCell, At, PartStart, PartEnd, PartSize
  <2> HIDE DEF a, b
  <2>2. /\ PartCell(r, t, m) \in PartStart(r, t) .. (PartEnd(r, t) - 1)
        /\ PartCell(r, t, n) \in PartStart(r, t) .. (PartEnd(r, t) - 1)
        /\ PartCell(r, t, m) < PartCell(r, t, n)
    <3> DEFINE g == r * Segments
    <3> HIDE DEF g
    <3> QED
      BY <1>4, <1>5, <2>1 DEF g
  <2> QED
    BY <1>1, <1>2, <2>2 DEF SortedIn
<1> QED
  BY <1>5 DEF SortedByHash, PartRecords

SortedInv ==
  /\ Whole /\ Nested => \A b \in 0 .. (no_files - 1) : SortedByHash(bucket[b])
  /\ j <= no_files

LEMMA NextSortedInv ==
  NewInv /\ FillInv /\ SortInv /\ HandInv /\ SortedInv /\ [Next]_vars => SortedInv'
<1> SUFFICES ASSUME NewInv, FillInv, SortInv, HandInv, SortedInv, [Next]_vars PROVE SortedInv'
  OBVIOUS
<1> USE DEF Role, Writers
<1>1. options' = options /\ Whole' = Whole /\ Nested' = Nested
  BY WhoWrites DEF Whole, WholeRounds, Nested, write_iter
<1>2. ASSUME UNCHANGED <<bucket, no_files, j>> PROVE SortedInv'
  BY <1>1, <1>2 DEF SortedInv, SortedByHash
<1>3. CASE Malloc \/ Report \/ CreateThread \/ NewCrash \/ JoinThread \/ HashingOver \/ SortingOver
  BY <1>2, <1>3 DEF Malloc, Report, CreateThread, NewCrash, JoinThread, HashingOver, SortingOver,
     Goto, newOwn
<1>4. CASE WritingOver \/ (RoundOver /\ NextIteration("writing_sort"))
  <2>1. PICK w \in Writers : /\ PhaseOver(w) /\ NextIteration(w)
                             /\ w = "writing_sort" => NextRound >= write_iter
    BY <1>4 DEF WritingOver, RoundOver, NextIteration, Goto
  <2>2. pc = w /\ bucket' = bucket /\ no_files' = no_files + Added(w) /\ j' = j + 1
    BY <2>1 DEF PhaseOver, NextIteration, Goto
  <2>3. Added(w) \in Nat \ {0} /\ no_files \in Nat /\ j \in Nat
    BY OptionsTyped DEF NewInv, MainInv, Added
  <2>4. ASSUME Whole, Nested, NEW b \in 0 .. (no_files' - 1) PROVE SortedByHash(bucket[b])
    <3>1. CASE b \in 0 .. (no_files - 1)
      BY <2>4, <3>1 DEF SortedInv
    <3>2. CASE b \notin 0 .. (no_files - 1)
      <4>1. b \in no_files .. (no_files + Added(w) - 1)
        BY <2>2, <2>3, <3>2
      <4>2. PICK r \in RoundNo : \E t \in WriterNo : b = PartBucket(r, t)
        BY <2>1, <2>4, <4>1, AllWritten DEF NextRound
      <4>3. PICK t \in WriterNo : b = PartBucket(r, t)
        BY <4>2
      <4>4. bucket[b] = PartRecords(r, t)
        BY <2>1, <2>4, <4>3, AllWritten DEF NextRound, Written
      <4> QED
        BY <2>2, <2>4, <4>4, PartSorted DEF Whole
    <3> QED
      BY <3>1, <3>2
  <2> QED
    BY <1>1, <2>2, <2>3, <2>4 DEF SortedInv, SortedByHash
<1>5. CASE RoundOver /\ ~NextIteration("writing_sort")
  BY <1>2, <1>5 DEF RoundOver, Goto
<1>6. ASSUME NEW s \in DOMAIN thread, NewThread(s) PROVE SortedInv'
  <2>1. UNCHANGED <<no_files, j>>
    BY <1>6 DEF NewThread, HashSlice, HashNull, NewCrash, SortSlice, OpenFile, WriteFile,
       UnchangedMain
  <2>2. CASE UNCHANGED bucket
    BY <1>2, <2>1, <2>2
  <2>3. CASE OpenFile(s) \/ WriteFile(s)
    <3>1. pc \in Writers
      BY <2>3, ThreadShape DEF OpenFile, WriteFile, Runs, NewInv, ThreadInv
    <3>2. ASSUME Whole, NEW b \in 0 .. (no_files - 1) PROVE bucket'[b] = bucket[b]
      <4>1. PICK recs : bucket' = With(bucket, bucket_no(s), recs)
        BY <2>3, <3>2 DEF OpenFile, WriteFile, Whole
      <4>2. s[2] \in WriterNo /\ bucket_no(s) = PartBucket(Round, s[2]) /\ Round \in RoundNo
            /\ no_files \in Nat
        BY <3>1, <3>2, WritersPart, RoundsShape DEF Whole
      <4>3. bucket_no(s) \in no_files .. (no_files + Added(pc) - 1)
        BY <3>1, <3>2, <4>2, PartBucketBounds DEF Whole
      <4>4. b # bucket_no(s)
        BY <4>2, <4>3
      <4>5. b \in DOMAIN bucket
        BY <3>2 DEF HandInv, Held
      <4> QED
        BY <4>1, <4>4, <4>5 DEF With
    <3> QED
      BY <1>1, <2>1, <3>2 DEF SortedInv, SortedByHash
  <2> QED
    BY <1>6, <2>2, <2>3 DEF NewThread, HashSlice, HashNull, NewCrash, SortSlice
<1>7. CASE Later
  BY <1>2, <1>7, LaterKeeps
<1> QED
  BY <1>3, <1>4, <1>5, <1>6, <1>7
     DEF Next, Generating, NewStep, NewMain, NoThreadArgument, Later

LEMMA SortedInvAlways == Spec => []SortedInv
<1>1. Init => SortedInv
  <2> SUFFICES ASSUME Init PROVE SortedInv
    OBVIOUS
  <2>1. no_files = 0 /\ j = 0
    BY DEF Init, NewInit
  <2>2. 0 .. (no_files - 1) = {}
    BY <2>1
  <2> QED
    BY <2>1, <2>2 DEF SortedInv
<1> QED
  BY <1>1, NextSortedInv, NewInvAlways, WorkInvAlways, HandInvAlways, PTL DEF Spec

-----------------------------------------------------------------------------
(* How external_sort loads the buckets *)

LEMMA BatchFacts ==
  ASSUME number \in Nat \ {0}
  PROVE  /\ batches \in Nat \ {0} /\ batch \in Nat \ {0}
         /\ batches * batch \in Nat /\ batches * batch <= number
         /\ WholeBatches => batches * batch = number
<1>1. load_threads \in Nat \ {0}
  BY MergeAssumption
<1>2. CASE number < load_threads
  <2>1. batch = number /\ batches = number \div number
    BY <1>2 DEF batches, batch
  <2>2. number \div number = 1
    OBVIOUS
  <2> QED
    BY <2>1, <2>2
<1>3. CASE ~(number < load_threads)
  <2>1. batches = number \div load_threads /\ batch = load_threads
    BY <1>3 DEF batches, batch
  <2>2. /\ number \div load_threads \in Nat \ {0}
        /\ (number \div load_threads) * load_threads <= number
        /\ number % load_threads = 0 => (number \div load_threads) * load_threads = number
    BY <1>1, <1>3
  <2> QED
    BY <1>1, <1>3, <2>1, <2>2 DEF WholeBatches
<1> QED
  BY <1>2, <1>3

(* The first bucket of a batch. *)
First == loop * batch

LEMMA FileNumbers ==
  ASSUME number \in Nat \ {0}, loop \in Nat, loop < batches
  PROVE  /\ First \in Nat /\ First + batch <= number
         /\ (loop + 1) * batch = First + batch
         /\ \A i \in 0 .. (batch - 1) : file_no(i) = First + i /\ file_no(i) \in Files
<1>1. /\ load_threads \in Nat \ {0} /\ batch \in Nat \ {0} /\ batches \in Nat \ {0}
      /\ batches * batch \in Nat /\ batches * batch <= number
  BY MergeAssumption, BatchFacts
<1>2. First \in Nat /\ (loop + 1) * batch = First + batch
  <2> HIDE DEF batch
  <2> QED
    BY <1>1 DEF First
<1>3. (loop + 1) * batch <= batches * batch
  <2> HIDE DEF batch, batches
  <2>1. loop + 1 \in Nat /\ loop + 1 <= batches
    BY <1>1
  <2> QED
    BY <1>1, <2>1, TimesMonotone
<1>4. load_threads * loop = First
  <2>1. CASE number < load_threads
    <3>1. batch = number /\ batches = 1
      <4>1. number \div number = 1
        OBVIOUS
      <4> QED
        BY <2>1, <4>1 DEF batch, batches
    <3> QED
      BY <1>1, <3>1 DEF First
  <2>2. CASE ~(number < load_threads)
    BY <1>1, <2>2 DEF batch, First
  <2> QED
    BY <2>1, <2>2
<1>5. First + batch <= number
  <2> HIDE DEF batch, First
  <2> QED
    BY <1>1, <1>2, <1>3
<1>6. \A i \in 0 .. (batch - 1) : file_no(i) = First + i /\ file_no(i) \in Files
  <2> HIDE DEF batch, First
  <2> QED
    BY <1>1, <1>2, <1>4, <1>5 DEF file_no, Files
<1> QED
  BY <1>2, <1>5, <1>6

LoaderInv ==
  /\ pc \in {"load", "merge", "merged"} =>
       /\ number = no_files /\ number \in Nat \ {0}
       /\ loading \in [Files -> {"none", "running", "exited"}]
       /\ records \in [Files -> {"uninit", "null", "live"}]
  /\ pc = "load" =>
       /\ loop \in 0 .. batches
       /\ spawned \in 0 .. batch /\ joined \in 0 .. spawned /\ joined < batch
       /\ loop = batches => spawned = 0
       /\ \A f \in Files :
            /\ f < First + joined => loading[f] = "exited"
            /\ f >= First + spawned => loading[f] = "none"
            /\ loading[f] = "exited" => records[f] = "live" /\ f \in DOMAIN bucket
            /\ loading[f] # "exited" => records[f] = "uninit"
  /\ pc \in {"merge", "merged"} => \A f \in Files : f \in DOMAIN bucket /\ records[f] # "uninit"
  /\ pc = "crashed" =>
       \/ "malloc" \in options.faults \/ "open" \in options.faults
       \/ iterations = 0 \/ ~(Files \subseteq DOMAIN bucket)
  /\ pc = "merge" /\ ~output_open => "open" \in options.faults
  /\ pc = "undefined" => ~WholeBatches

LEMMA GeneratingLoads ==
  ASSUME NewInv, LoaderInv, Generating
  PROVE  LoaderInv'
<1> USE DEF Role
<1>1. options' = options /\ iterations' = iterations
  BY WhoWrites DEF iterations, Next
<1>2. CASE Malloc \/ Report \/ CreateThread \/ JoinThread
  BY <1>2 DEF Malloc, Report, CreateThread, JoinThread, LoaderInv
<1>3. CASE NoThreadArgument
  BY <1>1, <1>3 DEF NoThreadArgument, NewCrash, LoaderInv
<1>4. CASE HashingOver \/ SortingOver \/ WritingOver \/ RoundOver
  BY <1>4 DEF HashingOver, SortingOver, WritingOver, RoundOver, NextIteration, Goto, LoaderInv
<1>5. ASSUME NEW s \in DOMAIN thread, NewThread(s) PROVE LoaderInv'
  <2>1. pc \in Role
    BY ThreadShape
  <2>2. CASE HashNull(s)
    <3>1. "malloc" \in options.faults /\ pc' = "crashed"
      BY <2>2 DEF HashNull, NewCrash, NewInv, MainInv
    <3> QED
      BY <1>1, <3>1 DEF LoaderInv
  <2>3. CASE ~HashNull(s)
    <3>1. pc' = pc
      BY <1>5, <2>3 DEF NewThread, HashSlice, SortSlice, OpenFile, WriteFile, UnchangedMain
    <3> QED
      BY <2>1, <3>1 DEF LoaderInv
  <2> QED
    BY <2>2, <2>3
<1> QED
  BY <1>2, <1>3, <1>4, <1>5 DEF Generating, NewStep, NewMain

(* external_sort started for no bucket at all: new.c found nothing to do.  *)
LEMMA StartLoads ==
  ASSUME NewInv, HandInv, SortedInv, StartExternalSort
  PROVE  LoaderInv'
<1>1. /\ no_files' = no_files /\ number' = no_files /\ bucket' = bucket /\ options' = options
      /\ pc' = IF no_files = 0 THEN "crashed" ELSE "load"
      /\ spawned' = 0 /\ joined' = 0 /\ loop' = 0
      /\ loading' = [f \in 0 .. (no_files - 1) |-> "none"]
      /\ records' = [f \in 0 .. (no_files - 1) |-> "uninit"]
  BY DEF StartExternalSort, StartMerge, newOwn
<1>2. no_files \in Nat /\ j \in Nat /\ iterations' = iterations /\ j <= no_files /\ j = iterations
  BY DEF NewInv, MainInv, iterations, SortedInv, HandInv, StartExternalSort, Role
<1>3. CASE no_files = 0
  <2>1. iterations = 0
    BY <1>2, <1>3
  <2> QED
    BY <1>1, <1>2, <1>3, <2>1 DEF LoaderInv
<1>4. CASE no_files # 0
  <2>1. number' \in Nat \ {0} /\ Files' = 0 .. (no_files - 1)
    BY <1>1, <1>2, <1>4 DEF Files
  <2>2. /\ (batches \in Nat \ {0})' /\ (batch \in Nat \ {0})'
    <3>1. (number \in Nat \ {0})'
      BY <2>1
    <3> QED
      BY <3>1, BatchFacts, PTL
  <2>3. First' = 0
    <3>1. PICK b \in Nat : b = batch'
      BY <2>2
    <3>2. First' = loop' * b
      BY <3>1 DEF First
    <3>3. 0 * b = 0
      OBVIOUS
    <3> QED
      BY <1>1, <3>2, <3>3
  <2>4. /\ loading' \in [Files' -> {"none", "running", "exited"}]
        /\ records' \in [Files' -> {"uninit", "null", "live"}]
        /\ \A f \in Files' : loading'[f] = "none" /\ records'[f] = "uninit" /\ ~(f < 0)
    BY <1>1, <1>2, <2>1
  <2> HIDE DEF batch, batches, First
  <2> QED
    BY <1>1, <1>4, <2>1, <2>2, <2>3, <2>4 DEF LoaderInv
<1> QED
  BY <1>3, <1>4

LEMMA MergingLoads ==
  ASSUME NewInv, LoaderInv, Merging
  PROVE  LoaderInv'
<1>1. /\ UNCHANGED <<no_files, options, bucket, number>> /\ iterations' = iterations
      /\ pc \in {"load", "merge"} /\ number \in Nat \ {0}
  BY DEF Merging, MergeMain, MergeThread, CreateLoad, JoinLoad, PrintFirst, MergeRecord, WriteRest,
     Load, NoMemory, NullOutput, MergeCrash, newOwn, mergeOwn, iterations, LoaderInv
<1>2. /\ Files' = Files /\ batch' = batch /\ batches' = batches /\ WholeBatches' = WholeBatches
      /\ loop' = loop => First' = First
  BY <1>1 DEF Files, batch, batches, WholeBatches, First
<1>3. /\ batches \in Nat \ {0} /\ batch \in Nat \ {0}
      /\ batches * batch \in Nat /\ batches * batch <= number
      /\ WholeBatches => batches * batch = number
  BY <1>1, BatchFacts
<1>4. Files = 0 .. (number - 1)
  BY DEF Files
<1> HIDE DEF batch, batches, First, Files, WholeBatches
<1>5. CASE CreateLoad
  <2>1. /\ pc = "load" /\ loop \in Nat /\ loop < batches /\ spawned < batch /\ spawned \in Nat
        /\ joined \in Nat /\ joined <= spawned /\ loop \in 0 .. batches /\ joined < batch
    BY <1>3, <1>5 DEF CreateLoad, LoaderInv
  <2>2. /\ First \in Nat /\ file_no(spawned) = First + spawned /\ file_no(spawned) \in Files
    BY <1>1, <2>1, <1>3, FileNumbers
  <2> HIDE DEF file_no
  <2>3. /\ loading' = [loading EXCEPT ![file_no(spawned)] = "running"]
        /\ spawned' = spawned + 1
        /\ UNCHANGED <<pc, joined, loop, records>>
    BY <1>5 DEF CreateLoad
  <2>4. ASSUME NEW f \in Files
        PROVE  /\ f < First + joined => loading'[f] = "exited"
               /\ f >= First + (spawned + 1) => loading'[f] = "none"
               /\ loading'[f] = "exited" => records[f] = "live" /\ f \in DOMAIN bucket
               /\ loading'[f] # "exited" => records[f] = "uninit"
    <3>1. f \in Nat
      BY <1>1, <1>4
    <3>2. CASE f = file_no(spawned)
      <4>1. loading'[f] = "running" /\ loading[f] = "none"
        BY <2>1, <2>2, <2>3, <3>2 DEF LoaderInv
      <4> QED
        BY <2>1, <2>2, <3>1, <3>2, <4>1 DEF LoaderInv
    <3>3. CASE f # file_no(spawned)
      <4>1. loading'[f] = loading[f]
        BY <2>1, <2>3, <3>3 DEF LoaderInv
      <4>2. f >= First + (spawned + 1) => f >= First + spawned
        BY <2>1, <2>2, <3>1
      <4> QED
        BY <2>1, <4>1, <4>2 DEF LoaderInv
    <3> QED
      BY <3>2, <3>3
  <2>5. loading' \in [Files -> {"none", "running", "exited"}]
    BY <2>1, <2>2, <2>3 DEF LoaderInv
  <2>6. spawned + 1 \in 0 .. batch /\ joined \in 0 .. (spawned + 1)
    BY <1>3, <2>1
  <2>7. First' = First /\ loop # batches
    BY <1>2, <1>3, <2>1, <2>3
  <2> QED
    BY <1>1, <1>2, <2>1, <2>3, <2>4, <2>5, <2>6, <2>7 DEF LoaderInv
<1>6. CASE JoinLoad
  <2>1. /\ pc = "load" /\ loop \in Nat /\ loop < batches /\ spawned = batch
        /\ joined \in Nat /\ joined < batch /\ loading[file_no(joined)] = "exited"
        /\ UNCHANGED <<pc, loading, records>>
    BY <1>3, <1>6 DEF JoinLoad, LoaderInv
  <2>2. /\ First \in Nat /\ file_no(joined) = First + joined /\ file_no(joined) \in Files
        /\ (loop + 1) * batch = First + batch
    BY <1>1, <1>3, <2>1, FileNumbers
  <2> HIDE DEF file_no
  <2>3. \A f \in Files : f < First + (joined + 1) => loading[f] = "exited"
    <3> SUFFICES ASSUME NEW f \in Files, f < First + (joined + 1) PROVE loading[f] = "exited"
      OBVIOUS
    <3>1. f < First + joined \/ f = First + joined
      BY <1>1, <1>4, <2>1, <2>2
    <3> QED
      BY <2>1, <2>2, <3>1 DEF LoaderInv
  <2>4. CASE joined + 1 < batch /\ joined' = joined + 1 /\ UNCHANGED <<spawned, loop>>
    <3>1. joined + 1 \in 0 .. spawned /\ loop # batches /\ loop \in 0 .. batches
      BY <1>3, <2>1, <2>4
    <3>2. First' = First
      BY <1>2, <2>4
    <3> QED
      BY <1>1, <1>2, <2>1, <2>3, <2>4, <3>1, <3>2 DEF LoaderInv
  <2>5. CASE joined + 1 = batch /\ joined' = 0 /\ spawned' = 0 /\ loop' = loop + 1
    <3>1. First' = First + batch
      BY <1>2, <2>2, <2>5 DEF First
    <3>2. \A f \in Files : /\ f < First' + 0 => loading[f] = "exited"
                           /\ f >= First' + 0 => loading[f] = "none"
      <4> SUFFICES ASSUME NEW f \in Files
                   PROVE  /\ f < First' + 0 => loading[f] = "exited"
                          /\ f >= First' + 0 => loading[f] = "none"
        OBVIOUS
      <4>1. f \in Nat /\ First' + 0 = First + (joined + 1) /\ First' + 0 = First + spawned
        BY <1>1, <1>3, <1>4, <2>1, <2>2, <2>5, <3>1
      <4>2. f >= First + spawned => loading[f] = "none"
        BY <2>1 DEF LoaderInv
      <4> QED
        BY <2>3, <4>1, <4>2
    <3>3. loop + 1 \in 0 .. batches /\ 0 \in 0 .. batch /\ 0 < batch
      BY <1>3, <2>1
    <3> QED
      BY <1>1, <1>2, <2>1, <2>5, <3>2, <3>3 DEF LoaderInv
  <2> QED
    BY <1>6, <2>4, <2>5 DEF JoinLoad
<1>7. CASE PrintFirst
  <2>1. /\ pc = "load" /\ loop = batches /\ UNCHANGED <<loading, records>>
        /\ pc' = IF \E f \in Files : records[f] = "uninit" THEN "undefined" ELSE "merge"
        /\ ~output_open' => "open" \in options.faults
    BY <1>7 DEF PrintFirst, Files
  <2>2. spawned = 0 /\ joined = 0 /\ First = batches * batch
    BY <2>1 DEF LoaderInv, First
  <2>3. CASE \E f \in Files : records[f] = "uninit"
    <3>1. PICK f \in Files : records[f] = "uninit"
      BY <2>3
    <3>2. ~(f < First + joined)
      BY <2>1, <3>1 DEF LoaderInv
    <3>3. ~WholeBatches
      BY <1>1, <1>3, <1>4, <2>2, <3>1, <3>2
    <3> QED
      BY <1>2, <2>1, <2>3, <3>3 DEF LoaderInv
  <2>4. CASE ~\E f \in Files : records[f] = "uninit"
    <3>1. \A f \in Files : f \in DOMAIN bucket
      BY <2>1, <2>4 DEF LoaderInv
    <3> QED
      BY <1>1, <1>2, <2>1, <2>4, <3>1 DEF LoaderInv
  <2> QED
    BY <2>3, <2>4
<1>8. CASE MergeRecord
  <2>1. pc = "merge" /\ pc' = "merge" /\ UNCHANGED <<loading, output_open>>
    BY <1>8 DEF MergeRecord
  <2>2. PICK f : UNCHANGED records \/ records' = [records EXCEPT ![f] = "null"]
    BY <1>8 DEF MergeRecord, RefillChunk
  <2> QED
    BY <1>1, <1>2, <2>1, <2>2 DEF LoaderInv
<1>9. CASE WriteRest
  BY <1>1, <1>2, <1>9 DEF WriteRest, LoaderInv
<1>10. CASE MergeThread
  <2>1. PICK f \in DOMAIN loading : Load(f)
    BY <1>10 DEF MergeThread
  <2>2. /\ pc = "load" /\ f \in Files /\ loading[f] = "running"
        /\ loading' = [loading EXCEPT ![f] = "exited"] /\ UNCHANGED <<spawned, joined, loop>>
    BY <2>1 DEF Load, LoaderInv
  <2>3. CASE pc' = "crashed" /\ (f \notin DOMAIN bucket \/ "open" \in options.faults)
    BY <1>1, <1>2, <2>2, <2>3 DEF LoaderInv
  <2>4. CASE f \in DOMAIN bucket /\ UNCHANGED pc /\ records' = [records EXCEPT ![f] = "live"]
    <3>1. pc' = pc /\ records' = [records EXCEPT ![f] = "live"]
      BY <2>4
    <3>2. First' = First
      BY <1>2, <2>2
    <3>3. /\ loading' \in [Files -> {"none", "running", "exited"}]
          /\ records' \in [Files -> {"uninit", "null", "live"}]
      BY <2>2, <3>1 DEF LoaderInv
    <3>4. ASSUME NEW g \in Files
          PROVE  /\ g < First + joined => loading'[g] = "exited"
                 /\ g >= First + spawned => loading'[g] = "none"
                 /\ loading'[g] = "exited" => records'[g] = "live" /\ g \in DOMAIN bucket
                 /\ loading'[g] # "exited" => records'[g] = "uninit"
      <4>1. CASE g = f
        BY <2>2, <2>4, <3>1, <4>1 DEF LoaderInv
      <4>2. CASE g # f
        BY <2>2, <3>1, <4>2 DEF LoaderInv
      <4> QED
        BY <4>1, <4>2
    <3> QED
      BY <1>1, <1>2, <2>2, <3>1, <3>2, <3>3, <3>4 DEF LoaderInv
  <2> QED
    BY <2>1, <2>3, <2>4 DEF Load
<1>11. CASE NoMemory
  <2>1. pc' = "crashed" /\ "malloc" \in options.faults
    BY <1>11 DEF NoMemory, MergeCrash
  <2> QED
    BY <1>1, <2>1 DEF LoaderInv
<1>12. CASE NullOutput
  <2>1. pc' = "crashed" /\ "open" \in options.faults
    BY <1>12 DEF NullOutput, MergeCrash, LoaderInv
  <2> QED
    BY <1>1, <2>1 DEF LoaderInv
<1> QED
  BY <1>5, <1>6, <1>7, <1>8, <1>9, <1>10, <1>11, <1>12 DEF Merging, MergeMain

LEMMA LoaderInvAlways == Spec => []LoaderInv
<1>1. Init => LoaderInv
  BY DEF Init, NewInit, LoaderInv
<1>2. NewInv /\ HandInv /\ SortedInv /\ LoaderInv /\ [Next]_vars => LoaderInv'
  <2> SUFFICES ASSUME NewInv, HandInv, SortedInv, LoaderInv, [Next]_vars PROVE LoaderInv'
    OBVIOUS
  <2>1. CASE Over \/ UNCHANGED vars
    <3>1. UNCHANGED vars
      BY <2>1 DEF Over
    <3> QED
      BY <3>1 DEF vars, newVars, newOwn, mergeOwn, LoaderInv, Files, First, batch, batches,
         WholeBatches, iterations
  <2> QED
    BY <2>1, GeneratingLoads, StartLoads, MergingLoads DEF Next
<1> QED
  BY <1>1, <1>2, NewInvAlways, HandInvAlways, SortedInvAlways, PTL DEF Spec

(* The two programs crash only when malloc or fopen fails, when new.c had  *)
(* nothing to hash, or when a bucket is missing, and follow a wild pointer *)
(* only when the batches of load threads do not come out even: for all     *)
(* options and sizes.                                                      *)
THEOREM TwoDefined == Spec => []Defined
<1>1. LoaderInv => Defined
  BY DEF LoaderInv, Defined
<1> QED
  BY <1>1, LoaderInvAlways, PTL

-----------------------------------------------------------------------------
(* Sequences of records *)

(* No record occurs at two places of s.                                    *)
OnlyOnce(s) == \A m, n \in DOMAIN s : m # n => s[m] # s[n]

LEMMA ImageOf ==
  ASSUME NEW s \in Seq(Nonce)
  PROVE  /\ Len(s) \in Nat /\ DOMAIN s = 1 .. Len(s)
         /\ Image(s) = {s[m] : m \in 1 .. Len(s)}
         /\ \A m \in 1 .. Len(s) : s[m] \in Nonce /\ s[m] \in Image(s)
  BY LenProperties, ElementOfSeq DEF Image

LEMMA AppendKeeps ==
  ASSUME NEW s \in Seq(Nonce), NEW r \in Nonce
  PROVE  /\ Append(s, r) \in Seq(Nonce) /\ Image(Append(s, r)) = Image(s) \cup {r}
         /\ SortedByHash(s) /\ (\A q \in Image(s) : Hash[q] <= Hash[r])
              => SortedByHash(Append(s, r))
         /\ OnlyOnce(s) /\ r \notin Image(s) => OnlyOnce(Append(s, r))
<1> DEFINE t == Append(s, r)
<1>1. /\ t \in Seq(Nonce) /\ Len(t) = Len(s) + 1 /\ Len(s) \in Nat
      /\ \A m \in 1 .. Len(s) : t[m] = s[m] /\ s[m] \in Image(s)
      /\ t[Len(s) + 1] = r
  BY AppendProperties, ImageOf
<1> HIDE DEF t
<1>2. /\ DOMAIN t = 1 .. (Len(s) + 1) /\ Image(t) = {t[m] : m \in 1 .. (Len(s) + 1)}
      /\ DOMAIN s = 1 .. Len(s) /\ Image(s) = {s[m] : m \in 1 .. Len(s)}
  BY <1>1, ImageOf
<1>3. \A m \in 1 .. (Len(s) + 1) : m \in 1 .. Len(s) \/ m = Len(s) + 1
  BY <1>1
<1>4. Image(t) = Image(s) \cup {r}
  <2>1. Image(t) \subseteq Image(s) \cup {r}
    BY <1>1, <1>2, <1>3
  <2>2. Image(s) \subseteq Image(t)
    BY <1>1, <1>2
  <2>3. r \in Image(t)
    BY <1>1, <1>2
  <2> QED
    BY <2>1, <2>2, <2>3
<1>5. ASSUME SortedByHash(s), \A q \in Image(s) : Hash[q] <= Hash[r]
      PROVE  SortedByHash(t)
  <2> SUFFICES ASSUME NEW m \in 1 .. (Len(s) + 1), NEW n \in 1 .. (Len(s) + 1), m < n
               PROVE  Hash[t[m]] <= Hash[t[n]]
    BY <1>2 DEF SortedByHash
  <2>1. m \in 1 .. Len(s)
    BY <1>1
  <2>2. CASE n \in 1 .. Len(s)
    BY <1>1, <1>2, <1>5, <2>1, <2>2 DEF SortedByHash
  <2>3. CASE n = Len(s) + 1
    BY <1>1, <1>5, <2>1, <2>3
  <2> QED
    BY <1>3, <2>2, <2>3
<1>6. ASSUME OnlyOnce(s), r \notin Image(s)
      PROVE  OnlyOnce(t)
  <2> SUFFICES ASSUME NEW m \in 1 .. (Len(s) + 1), NEW n \in 1 .. (Len(s) + 1), m # n
               PROVE  t[m] # t[n]
    BY <1>2 DEF OnlyOnce
  <2>1. CASE m \in 1 .. Len(s) /\ n \in 1 .. Len(s)
    BY <1>1, <1>2, <1>6, <2>1 DEF OnlyOnce
  <2>2. CASE m \in 1 .. Len(s) /\ n = Len(s) + 1
    BY <1>1, <1>6, <2>2
  <2>3. CASE n \in 1 .. Len(s) /\ m = Len(s) + 1
    BY <1>1, <1>6, <2>3
  <2> QED
    BY <1>3, <2>1, <2>2, <2>3
<1> QED
  BY <1>1, <1>4, <1>5, <1>6 DEF t

(* A sequence without repetitions is as long as what is in it.             *)
LEMMA CountedOnce ==
  ASSUME NEW s \in Seq(Nonce), OnlyOnce(s)
  PROVE  Cardinality(Image(s)) = Len(s)
<1>1. /\ Len(s) \in Nat /\ DOMAIN s = 1 .. Len(s)
      /\ Image(s) = {s[m] : m \in 1 .. Len(s)} /\ s \in [1 .. Len(s) -> Nonce]
  BY ImageOf, LenProperties
<1>2. s \in [1 .. Len(s) -> Image(s)]
  BY <1>1
<1>3. \A m, n \in 1 .. Len(s) : s[m] = s[n] => m = n
  BY <1>1 DEF OnlyOnce
<1>4. \A r \in Image(s) : \E m \in 1 .. Len(s) : s[m] = r
  BY <1>1
<1>5. s \in Injection(1 .. Len(s), Image(s))
  BY <1>2, <1>3, Fun_IsInj
<1>6. s \in Surjection(1 .. Len(s), Image(s))
  BY <1>2, <1>4, Fun_IsSurj
<1>7. IsFiniteSet(1 .. Len(s)) /\ Cardinality(1 .. Len(s)) = Len(s)
  BY <1>1, FS_Interval
<1> QED
  BY <1>5, <1>6, <1>7, FS_Surjection

(* There is a least one among natural numbers.                             *)
LEMMA NatMin ==
  ASSUME NEW T \in SUBSET Nat, T # {}
  PROVE  \E x \in T : \A y \in T : x <= y
<1>1. \E x \in T : \A y \in T : ~(<<y, x>> \in OpToRel(<, Nat))
  BY NatLessThanWellFounded, WFMin
<1>2. ASSUME NEW x \in Nat, NEW y \in Nat, ~(<<y, x>> \in OpToRel(<, Nat))
      PROVE  x <= y
  <2>1. <<y, x>> \in Nat \X Nat
    OBVIOUS
  <2>2. ~(<<y, x>>[1] < <<y, x>>[2])
    BY <1>2, <2>1 DEF OpToRel
  <2> QED
    BY <2>2
<1> QED
  BY <1>1, <1>2

-----------------------------------------------------------------------------
(* How far the merge has come in every bucket *)

LEMMA ChunkSize ==
  ASSUME number \in Nat \ {0}
  PROVE  divider \in Nat /\ records_per_read \in Nat
<1>1. divider \in Nat
  BY MergeAssumption DEF divider
<1> HIDE DEF divider
<1> QED
  BY <1>1 DEF records_per_read

WholeOf(f) == (Len(bucket[f]) \div records_per_read) * records_per_read

(* The number of records of bucket f that are merged.                      *)
Taken(f) ==
  IF records[f] = "live" THEN read[f] - records_per_read + idx[f] ELSE WholeOf(f)

TakenRecords == UNION {{bucket[f][m] : m \in 1 .. Taken(f)} : f \in Files}

(* A bucket is read in whole chunks, and given up when less than one is    *)
(* left.                                                                   *)
ChunkOf(f) ==
  /\ records[f] = "live" =>
       /\ records_per_read <= read[f] /\ read[f] <= Len(bucket[f])
       /\ \E q \in Nat : read[f] = q * records_per_read
       /\ \A m \in 1 .. records_per_read :
            chunk[f][m] = bucket[f][read[f] - records_per_read + m]
       /\ idx[f] < records_per_read \/ idx[f] = 0
  /\ records[f] # "live" => records_per_read # 0

Chunks ==
  /\ number \in Nat \ {0}
  /\ DOMAIN chunk = Files /\ read \in [Files -> Nat] /\ idx \in [Files -> Nat]
  /\ records \in [Files -> {"uninit", "null", "live"}]
  /\ \A f \in Files : bucket[f] \in Seq(Nonce) /\ ChunkOf(f)

LEMMA WholeChunks ==
  ASSUME NEW n \in Nat, NEW c \in Nat \ {0}
  PROVE  /\ (n \div c) * c \in Nat /\ (n \div c) * c <= n
         /\ \A q \in Nat : /\ q * c <= n => q * c <= (n \div c) * c
                           /\ q * c <= n /\ n < q * c + c => (n \div c) * c = q * c
<1> DEFINE d == n \div c
<1>1. d \in Nat /\ d * c \in Nat /\ d * c <= n /\ n < d * c + c
  OBVIOUS
<1> HIDE DEF d
<1>2. ASSUME NEW q \in Nat
      PROVE  /\ q * c <= n => q * c <= d * c
             /\ q * c <= n /\ n < q * c + c => d * c = q * c
  <2>1. q * c \in Nat /\ (d + 1) * c = d * c + c /\ (q + 1) * c = q * c + c
    BY <1>1
  <2>2. CASE q <= d
    <3>1. q * c <= d * c
      BY <1>1, <2>2, TimesMonotone
    <3>2. q = d \/ (q + 1) * c <= d * c
      <4>1. CASE q + 1 <= d
        BY <1>1, <4>1, TimesMonotone, q + 1 \in Nat
      <4> QED
        BY <1>1, <2>2, <4>1
    <3> QED
      BY <1>1, <2>1, <3>1, <3>2
  <2>3. CASE ~(q <= d)
    <3>1. (d + 1) * c <= q * c
      BY <1>1, <2>3, TimesMonotone, d + 1 \in Nat, d + 1 <= q
    <3> QED
      BY <1>1, <2>1, <3>1
  <2> QED
    BY <2>2, <2>3
<1> QED
  BY <1>1, <1>2 DEF d

(* The next record of a candidate is the one behind those that are merged. *)
LEMMA CurrentTyped ==
  ASSUME Chunks, NEW f \in Candidates
  PROVE  /\ f \in Files /\ f \in Nat /\ records[f] = "live"
         /\ records_per_read \in Nat \ {0} /\ idx[f] \in 0 .. (records_per_read - 1)
         /\ read[f] \in Nat /\ records_per_read <= read[f] /\ read[f] <= Len(bucket[f])
         /\ bucket[f] \in Seq(Nonce) /\ Len(bucket[f]) \in Nat
         /\ Taken(f) \in Nat /\ Taken(f) = read[f] - records_per_read + idx[f]
         /\ Taken(f) + 1 \in 1 .. read[f] /\ Taken(f) + 1 \in 1 .. Len(bucket[f])
         /\ Current(f) = bucket[f][Taken(f) + 1] /\ Current(f) \in Nonce
<1>1. f \in Files /\ f \in Nat /\ records[f] = "live" /\ idx[f] < records_per_read
  BY DEF Candidates, Files, Chunks
<1>2. records_per_read \in Nat /\ idx[f] \in Nat /\ read[f] \in Nat /\ bucket[f] \in Seq(Nonce)
  BY <1>1, ChunkSize DEF Chunks
<1>3. records_per_read # 0 /\ idx[f] \in 0 .. (records_per_read - 1) /\ Len(bucket[f]) \in Nat
  BY <1>1, <1>2, LenProperties
<1>4. /\ records_per_read <= read[f] /\ read[f] <= Len(bucket[f])
      /\ \A m \in 1 .. records_per_read :
           chunk[f][m] = bucket[f][read[f] - records_per_read + m]
  BY <1>1 DEF Chunks, ChunkOf
<1>5. Taken(f) = read[f] - records_per_read + idx[f]
  BY <1>1 DEF Taken
<1>6. /\ Taken(f) \in Nat /\ Taken(f) + 1 \in 1 .. read[f] /\ Taken(f) + 1 \in 1 .. Len(bucket[f])
      /\ idx[f] + 1 \in 1 .. records_per_read
      /\ read[f] - records_per_read + (idx[f] + 1) = Taken(f) + 1
  <2> DEFINE c == records_per_read
             i == idx[f]
             e == read[f]
             n == Len(bucket[f])
  <2>1. c \in Nat /\ i \in Nat /\ e \in Nat /\ n \in Nat /\ i < c /\ c <= e /\ e <= n
    BY <1>1, <1>2, <1>3, <1>4
  <2>2. Taken(f) = e - c + i
    BY <1>5
  <2> HIDE DEF c, i, e, n
  <2>3. /\ Taken(f) \in Nat /\ Taken(f) + 1 \in 1 .. e /\ Taken(f) + 1 \in 1 .. n
        /\ i + 1 \in 1 .. c /\ e - c + (i + 1) = Taken(f) + 1
    BY <2>1, <2>2
  <2> QED
    BY <2>3 DEF c, i, e, n
<1>7. Current(f) = bucket[f][Taken(f) + 1]
  BY <1>4, <1>6 DEF Current
<1>8. Current(f) \in Nonce
  BY <1>2, <1>6, <1>7, ElementOfSeq
<1> QED
  BY <1>1, <1>2, <1>3, <1>4, <1>5, <1>6, <1>7, <1>8

LEMMA HashNat ==
  ASSUME NEW r \in Nonce
  PROVE  Hash[r] \in Nat /\ HashOf(r) = Hash[r]
<1>1. r \in Nat /\ Hash[r] \in Nat
  BY NewAssumption DEF Nonce
<1> QED
  BY <1>1 DEF HashOf

(* The record taken next is one of the least of those in memory.           *)
LEMMA SmallIdx ==
  ASSUME Chunks, Candidates # {}
  PROVE  /\ small_idx \in Candidates
         /\ \A g \in Candidates : Hash[Current(small_idx)] <= Hash[Current(g)]
<1> DEFINE H == {Hash[Current(f)] : f \in Candidates}
<1>1. \A f \in Candidates : /\ Hash[Current(f)] \in Nat /\ f \in Nat
                            /\ HashOf(Current(f)) = Hash[Current(f)]
  BY CurrentTyped, HashNat
<1>2. PICK h \in H : \A y \in H : h <= y
  <2>1. H \in SUBSET Nat /\ H # {}
    BY <1>1
  <2> HIDE DEF H
  <2> QED
    BY <2>1, NatMin
<1> DEFINE U == {f \in Candidates : Hash[Current(f)] = h}
<1>3. PICK f \in U : \A g \in U : f <= g
  <2>1. U \in SUBSET Nat /\ U # {}
    BY <1>1, <1>2
  <2> HIDE DEF U, H
  <2> QED
    BY <2>1, NatMin
<1>4. \A g \in Candidates :
        \/ HashOf(Current(f)) < HashOf(Current(g))
        \/ HashOf(Current(f)) = HashOf(Current(g)) /\ f <= g
  <2> SUFFICES ASSUME NEW g \in Candidates
               PROVE  \/ HashOf(Current(f)) < HashOf(Current(g))
                      \/ HashOf(Current(f)) = HashOf(Current(g)) /\ f <= g
    OBVIOUS
  <2>1. /\ HashOf(Current(f)) = h /\ HashOf(Current(g)) = Hash[Current(g)]
        /\ h <= Hash[Current(g)] /\ h \in Nat /\ Hash[Current(g)] \in Nat
    BY <1>1, <1>2, <1>3
  <2>2. CASE Hash[Current(g)] = h
    BY <1>3, <2>1, <2>2
  <2> QED
    BY <2>1, <2>2
<1>5. \E e \in Candidates : \A g \in Candidates :
        \/ HashOf(Current(e)) < HashOf(Current(g))
        \/ HashOf(Current(e)) = HashOf(Current(g)) /\ e <= g
  BY <1>3, <1>4
<1>6. /\ small_idx \in Candidates
      /\ \A g \in Candidates :
           \/ HashOf(Current(small_idx)) < HashOf(Current(g))
           \/ HashOf(Current(small_idx)) = HashOf(Current(g)) /\ small_idx <= g
  BY <1>5 DEF small_idx
<1> QED
  BY <1>1, <1>6

-----------------------------------------------------------------------------
(* A step of the merge *)

(* The merge goes on in a chunk, reads the next one, or gives up a bucket. *)
Within(f) ==
  /\ idx[f] + 1 < records_per_read
  /\ idx' = [idx EXCEPT ![f] = idx[f] + 1]
  /\ UNCHANGED <<records, chunk, read>>

Refilled(f) ==
  /\ idx[f] + 1 = records_per_read
  /\ read[f] + records_per_read <= Len(bucket[f])
  /\ chunk' = [chunk EXCEPT ![f] = Next_Records(f)]
  /\ read' = [read EXCEPT ![f] = read[f] + records_per_read]
  /\ idx' = [idx EXCEPT ![f] = 0] /\ UNCHANGED records

GivenUp(f) ==
  /\ idx[f] + 1 = records_per_read
  /\ ~(read[f] + records_per_read <= Len(bucket[f]))
  /\ records' = [records EXCEPT ![f] = "null"]
  /\ read' = [read EXCEPT ![f] = Len(bucket[f])]
  /\ idx' = [idx EXCEPT ![f] = 0] /\ UNCHANGED chunk

(* What fread finds in a bucket that has been read up to read[f].          *)
LEMMA NextRecords ==
  ASSUME NEW f, bucket[f] \in Seq(Nonce), records_per_read \in Nat,
         read[f] \in Nat, read[f] <= Len(bucket[f])
  PROVE  /\ Len(Next_Records(f)) = records_per_read <=>
              read[f] + records_per_read <= Len(bucket[f])
         /\ read[f] + records_per_read <= Len(bucket[f]) =>
              \A m \in 1 .. records_per_read : Next_Records(f)[m] = bucket[f][read[f] + m]
<1> DEFINE n == Len(bucket[f])
           e == read[f]
           c == records_per_read
           z == Smaller(n, e + c)
<1>1. n \in Nat /\ e \in Nat /\ c \in Nat /\ e <= n
  BY LenProperties
<1>2. Next_Records(f) = SubSeq(bucket[f], e + 1, z)
  BY DEF Next_Records
<1>3. \A m \in 1 .. n : bucket[f][m] \in Nonce
  BY ElementOfSeq
<1> HIDE DEF n, e, c
<1>4. /\ z \in Nat /\ e <= z /\ z <= n /\ (z - e = c <=> e + c <= n) /\ (e + c <= n => z = e + c)
  BY <1>1 DEF Smaller
<1> HIDE DEF z
<1>5. /\ e + 1 \in Int /\ z \in Int /\ \A m \in (e + 1) .. z : m \in 1 .. n
      /\ (IF e + 1 <= z THEN z - (e + 1) + 1 ELSE 0) = z - e /\ z - (e + 1) + 1 = z - e
  BY <1>1, <1>4
<1>6. \A m \in (e + 1) .. z : bucket[f][m] \in Nonce
  BY <1>3, <1>5
<1>7. /\ Len(SubSeq(bucket[f], e + 1, z)) = z - e
      /\ \A m \in 1 .. (z - e) : SubSeq(bucket[f], e + 1, z)[m] = bucket[f][e + 1 + m - 1]
  BY <1>5, <1>6, SubSeqProperties
<1>8. \A m \in 1 .. (z - e) : e + 1 + m - 1 = e + m
  BY <1>1, <1>4
<1>9. /\ Len(Next_Records(f)) = c <=> e + c <= n
      /\ e + c <= n => \A m \in 1 .. c : Next_Records(f)[m] = bucket[f][e + m]
  BY <1>2, <1>4, <1>7, <1>8
<1> QED
  BY <1>9 DEF n, e, c

LEMMA MergeCases ==
  ASSUME Chunks, MergeRecord
  PROVE  /\ pc = "merge" /\ pc' = "merge" /\ UNCHANGED <<bucket, number>>
         /\ small_idx \in Candidates
         /\ \A g \in Candidates : Hash[Current(small_idx)] <= Hash[Current(g)]
         /\ Within(small_idx) \/ Refilled(small_idx) \/ GivenUp(small_idx)
         /\ \/ /\ appended' = appended \o Append(sorted, Current(small_idx)) /\ sorted' = <<>>
            \/ appended' = appended /\ sorted' = Append(sorted, Current(small_idx))
<1>1. /\ pc = "merge" /\ pc' = "merge" /\ UNCHANGED <<bucket, number>> /\ Candidates # {}
  BY DEF MergeRecord
<1>2. /\ small_idx \in Candidates
      /\ \A g \in Candidates : Hash[Current(small_idx)] <= Hash[Current(g)]
  BY <1>1, SmallIdx
<1>3. PICK f \in Candidates : f = small_idx
  BY <1>2
<1>4. /\ f \in Files /\ bucket[f] \in Seq(Nonce) /\ records_per_read \in Nat
      /\ read[f] \in Nat /\ read[f] <= Len(bucket[f])
      /\ idx \in [Files -> Nat] /\ read \in [Files -> Nat]
  BY CurrentTyped DEF Chunks
<1>5. /\ Len(Next_Records(f)) = records_per_read <=>
           read[f] + records_per_read <= Len(bucket[f])
  BY <1>4, NextRecords
<1>6. \/ idx[f] + 1 = records_per_read /\ RefillChunk(f) /\ idx' = [idx EXCEPT ![f] = 0]
      \/ /\ idx[f] + 1 < records_per_read
         /\ idx' = [idx EXCEPT ![f] = @ + 1]
         /\ UNCHANGED <<records, chunk, read>>
  BY <1>3 DEF MergeRecord
<1>7. Within(f) \/ Refilled(f) \/ GivenUp(f)
  <2>1. CASE idx[f] + 1 = records_per_read /\ RefillChunk(f) /\ idx' = [idx EXCEPT ![f] = 0]
    BY <1>4, <1>5, <2>1 DEF RefillChunk, Refilled, GivenUp
  <2>2. CASE /\ idx[f] + 1 < records_per_read
             /\ idx' = [idx EXCEPT ![f] = @ + 1]
             /\ UNCHANGED <<records, chunk, read>>
    BY <1>4, <2>2 DEF Within
  <2> QED
    BY <1>6, <2>1, <2>2
<1>8. \/ /\ appended' = appended \o Append(sorted, Current(small_idx)) /\ sorted' = <<>>
      \/ appended' = appended /\ sorted' = Append(sorted, Current(small_idx))
  BY DEF MergeRecord, AfterFlush
<1> QED
  BY <1>1, <1>2, <1>3, <1>7, <1>8

LEMMA TakenByMerge ==
  ASSUME Chunks, MergeRecord, NEW f \in Candidates, f = small_idx
  PROVE  /\ Chunks'
         /\ Taken(f)' = Taken(f) + 1
         /\ \A g \in Files : g # f => Taken(g)' = Taken(g)
         /\ Candidates' \subseteq Candidates
         /\ \A g \in Candidates' : g # f => Current(g)' = Current(g)
<1>1. /\ UNCHANGED <<bucket, number>>
      /\ Within(f) \/ Refilled(f) \/ GivenUp(f)
  BY MergeCases
<1>2. /\ f \in Files /\ records[f] = "live"
      /\ records_per_read \in Nat \ {0} /\ idx[f] \in 0 .. (records_per_read - 1)
      /\ read[f] \in Nat /\ records_per_read <= read[f] /\ read[f] <= Len(bucket[f])
      /\ bucket[f] \in Seq(Nonce) /\ Len(bucket[f]) \in Nat
      /\ Taken(f) = read[f] - records_per_read + idx[f]
  BY CurrentTyped
<1>3. /\ DOMAIN chunk = Files /\ read \in [Files -> Nat] /\ idx \in [Files -> Nat]
      /\ records \in [Files -> {"uninit", "null", "live"}] /\ number \in Nat \ {0}
      /\ \A g \in Files : bucket[g] \in Seq(Nonce) /\ ChunkOf(g)
  BY DEF Chunks
<1>4. /\ Files' = Files /\ records_per_read' = records_per_read
      /\ \A g : WholeOf(g)' = WholeOf(g)
  BY <1>1 DEF Files, records_per_read, divider, WholeOf
<1> DEFINE c == records_per_read
<1>5. PICK q \in Nat : read[f] = q * c
  BY <1>2, <1>3 DEF ChunkOf
<1>6. \A m \in 1 .. c : chunk[f][m] = bucket[f][read[f] - c + m]
  BY <1>2, <1>3 DEF ChunkOf
<1>7. /\ DOMAIN chunk' = Files /\ read' \in [Files -> Nat] /\ idx' \in [Files -> Nat]
      /\ records' \in [Files -> {"uninit", "null", "live"}]
  <2>1. CASE Within(f)
    <3>1. idx[f] + 1 \in Nat
      BY <1>2
    <3> QED
      BY <1>3, <2>1, <3>1 DEF Within
  <2>2. CASE Refilled(f)
    <3>1. read[f] + records_per_read \in Nat
      BY <1>2
    <3> QED
      BY <1>3, <2>2, <3>1 DEF Refilled
  <2>3. CASE GivenUp(f)
    BY <1>2, <1>3, <2>3 DEF GivenUp
  <2> QED
    BY <1>1, <2>1, <2>2, <2>3
<1>8. \A g \in Files : g # f => /\ idx'[g] = idx[g] /\ records'[g] = records[g]
                                /\ read'[g] = read[g] /\ chunk'[g] = chunk[g]
  BY <1>1, <1>2, <1>3 DEF Within, Refilled, GivenUp
<1>9. \A g \in Files : g # f => Taken(g)' = Taken(g) /\ Current(g)' = Current(g) /\ ChunkOf(g)'
  <2> SUFFICES ASSUME NEW g \in Files, g # f
               PROVE  Taken(g)' = Taken(g) /\ Current(g)' = Current(g) /\ ChunkOf(g)'
    OBVIOUS
  <2>1. /\ idx'[g] = idx[g] /\ records'[g] = records[g]
        /\ read'[g] = read[g] /\ chunk'[g] = chunk[g] /\ bucket' = bucket
    BY <1>1, <1>8
  <2>2. Taken(g)' = Taken(g) /\ Current(g)' = Current(g)
    BY <1>4, <2>1 DEF Taken, Current
  <2>3. ChunkOf(g)
    BY <1>3
  <2>4. ChunkOf(g)'
    BY <1>4, <2>1, <2>3 DEF ChunkOf
  <2> QED
    BY <2>2, <2>4
<1>10. f \in Candidates /\ \A g \in Files : g # f => (g \in Candidates' <=> g \in Candidates)
  BY <1>4, <1>8 DEF Candidates
<1>11. Candidates' \subseteq Candidates /\ Candidates' \subseteq Files
  BY <1>4, <1>10 DEF Candidates
<1>12. Taken(f)' = Taken(f) + 1 /\ ChunkOf(f)'
  <2>1. CASE Within(f)
    <3>1. /\ idx'[f] = idx[f] + 1 /\ records'[f] = "live" /\ read'[f] = read[f]
          /\ chunk'[f] = chunk[f] /\ idx[f] + 1 < c /\ bucket' = bucket
      BY <1>1, <1>2, <1>3, <2>1 DEF Within
    <3>2. Taken(f)' = Taken(f) + 1
      BY <1>2, <1>4, <3>1 DEF Taken
    <3>3. ChunkOf(f)'
      BY <1>2, <1>4, <1>5, <1>6, <3>1 DEF ChunkOf
    <3> QED
      BY <3>2, <3>3
  <2>2. CASE Refilled(f)
    <3>1. /\ idx'[f] = 0 /\ records'[f] = "live" /\ read'[f] = read[f] + c
          /\ chunk'[f] = Next_Records(f) /\ idx[f] + 1 = c /\ bucket' = bucket
          /\ read[f] + c <= Len(bucket[f])
      BY <1>1, <1>2, <1>3, <2>2 DEF Refilled
    <3>2. Taken(f)' = Taken(f) + 1
      BY <1>2, <1>4, <3>1 DEF Taken
    <3>3. \A m \in 1 .. c : Next_Records(f)[m] = bucket[f][read[f] + m]
      BY <1>2, <3>1, NextRecords
    <3>4. \A m \in 1 .. c : (read[f] + c) - c + m = read[f] + m
      BY <1>2
    <3>5. read'[f] = (q + 1) * c /\ q + 1 \in Nat
      <4>1. c \in Nat
        BY <1>2
      <4> HIDE DEF c
      <4>2. (q + 1) * c = q * c + c
        BY <4>1
      <4> QED
        BY <1>5, <3>1, <4>2
    <3>6. c <= read'[f] /\ read'[f] <= Len(bucket[f])
      BY <1>2, <3>1
    <3>7. \A m \in 1 .. c : chunk'[f][m] = bucket[f][read'[f] - c + m]
      BY <3>1, <3>3, <3>4
    <3>8. ChunkOf(f)'
      BY <1>2, <1>4, <3>1, <3>5, <3>6, <3>7 DEF ChunkOf
    <3> QED
      BY <3>2, <3>8
  <2>3. CASE GivenUp(f)
    <3>1. /\ records'[f] = "null" /\ idx[f] + 1 = c /\ ~(read[f] + c <= Len(bucket[f]))
      BY <1>2, <1>3, <2>3 DEF GivenUp
    <3>2. WholeOf(f) = read[f]
      <4>1. c \in Nat \ {0} /\ Len(bucket[f]) \in Nat
        BY <1>2
      <4> HIDE DEF c
      <4>2. q * c <= Len(bucket[f]) /\ Len(bucket[f]) < q * c + c
        BY <1>2, <1>5, <3>1, <4>1
      <4>3. (Len(bucket[f]) \div c) * c = q * c
        BY <4>1, <4>2, WholeChunks
      <4> QED
        BY <1>5, <4>3 DEF WholeOf, c
    <3>3. Taken(f)' = Taken(f) + 1
      BY <1>2, <1>4, <3>1, <3>2 DEF Taken
    <3>4. ChunkOf(f)'
      BY <1>2, <1>4, <3>1 DEF ChunkOf
    <3> QED
      BY <3>3, <3>4
  <2> QED
    BY <1>1, <2>1, <2>2, <2>3
<1>13. Chunks'
  <2>1. \A g \in Files : ChunkOf(g)' /\ bucket'[g] \in Seq(Nonce)
    BY <1>1, <1>3, <1>9, <1>12
  <2> HIDE DEF ChunkOf
  <2> QED
    BY <1>1, <1>3, <1>4, <1>7, <2>1 DEF Chunks
<1> QED
  BY <1>9, <1>11, <1>12, <1>13

LEMMA TakenRecordsGrow ==
  ASSUME Chunks, MergeRecord
  PROVE  TakenRecords' = TakenRecords \cup {Current(small_idx)}
<1>1. PICK f \in Candidates : f = small_idx
  BY MergeCases
<1>2. /\ Current(f) = bucket[f][Taken(f) + 1] /\ Taken(f)' = Taken(f) + 1
      /\ f \in Files /\ Taken(f) \in Nat
      /\ \A g \in Files : g # f => Taken(g)' = Taken(g)
  BY <1>1, TakenByMerge, CurrentTyped
<1>3. bucket' = bucket /\ Files' = Files
  BY MergeCases DEF Files
<1> DEFINE r == bucket[f][Taken(f) + 1]
<1>4. ASSUME NEW q \in TakenRecords' PROVE q \in TakenRecords \cup {r}
  <2>1. PICK g \in Files : \E m \in 1 .. Taken(g)' : q = bucket[g][m]
    BY <1>3 DEF TakenRecords
  <2>2. PICK m \in 1 .. Taken(g)' : q = bucket[g][m]
    BY <2>1
  <2>3. m \in 1 .. Taken(g) \/ (g = f /\ m = Taken(f) + 1)
    BY <1>2
  <2> QED
    BY <2>2, <2>3 DEF TakenRecords
<1>5. ASSUME NEW q \in TakenRecords \cup {r} PROVE q \in TakenRecords'
  <2>1. \E g \in Files : \E m \in 1 .. Taken(g)' : q = bucket[g][m]
    <3>1. CASE q = r
      <4>1. Taken(f) + 1 \in 1 .. Taken(f)'
        BY <1>2
      <4> QED
        BY <1>2, <3>1, <4>1
    <3>2. CASE q \in TakenRecords
      <4>1. PICK g \in Files : \E m \in 1 .. Taken(g) : q = bucket[g][m]
        BY <3>2 DEF TakenRecords
      <4>2. \A m \in 1 .. Taken(g) : m \in 1 .. Taken(g)'
        BY <1>2
      <4> QED
        BY <4>1, <4>2
    <3> QED
      BY <3>1, <3>2
  <2> QED
    BY <1>3, <2>1 DEF TakenRecords
<1> QED
  BY <1>1, <1>2, <1>4, <1>5

-----------------------------------------------------------------------------
(* What is copied *)

(* A bucket that was loaded and fills a chunk is read one chunk far.       *)
ReadInv ==
  /\ pc \in Role \cup {"malloc", "reported", "load"} => appended = <<>>
  /\ pc = "load" =>
       /\ sorted = <<>>
       /\ DOMAIN chunk = Files /\ read \in [Files -> Nat] /\ idx \in [Files -> Nat]
       /\ \A f \in Files :
            /\ idx[f] = 0
            /\ loading[f] # "exited" => read[f] = 0
            /\ loading[f] = "exited" /\ records_per_read <= Len(bucket[f]) =>
                 ChunkOf(f) /\ read[f] = records_per_read

LEMMA LoadReads ==
  ASSUME BucketsTyped, LoaderInv, ReadInv, NEW f \in DOMAIN loading, Load(f)
  PROVE  ReadInv'
<1>1. /\ pc = "load" /\ number \in Nat \ {0} /\ f \in Files /\ appended = <<>> /\ sorted = <<>>
      /\ DOMAIN chunk = Files /\ read \in [Files -> Nat] /\ idx \in [Files -> Nat]
      /\ loading \in [Files -> {"none", "running", "exited"}]
      /\ records \in [Files -> {"uninit", "null", "live"}]
      /\ UNCHANGED <<bucket, number, idx, sorted, appended>>
      /\ loading' = [loading EXCEPT ![f] = "exited"]
      /\ \A g \in Files : idx[g] = 0
  BY DEF Load, LoaderInv, ReadInv
<1>2. Files' = Files /\ records_per_read' = records_per_read /\ records_per_read \in Nat
  BY <1>1, ChunkSize DEF Files, records_per_read, divider
<1>3. CASE pc' = "crashed"
  BY <1>1, <1>3 DEF ReadInv, Role
<1>4. CASE pc' # "crashed"
  <2>1. /\ records' = [records EXCEPT ![f] = "live"] /\ pc' = pc
        /\ read' = [read EXCEPT ![f] = Len(Next_Records(f))]
        /\ \E junk \in [1 .. (records_per_read - Len(Next_Records(f))) -> Junk] :
             chunk' = [chunk EXCEPT ![f] = Next_Records(f) \o junk]
        /\ f \in DOMAIN bucket
    BY <1>4 DEF Load
  <2>2. loading[f] = "running"
    BY DEF Load
  <2> DEFINE c == records_per_read
             z == Smaller(Len(bucket[f]), read[f] + c)
  <2>3. bucket[f] \in Seq(Nonce) /\ Len(bucket[f]) \in Nat /\ read[f] \in Nat
    BY <1>1, <2>1, LenProperties DEF BucketsTyped
  <2>4. Next_Records(f) = SubSeq(bucket[f], read[f] + 1, z)
    BY DEF Next_Records
  <2>5. Next_Records(f) \in Seq(Nonce) /\ Len(Next_Records(f)) \in Nat
    <3>1. /\ read[f] + 1 \in Int /\ z \in Int
          /\ \A m \in (read[f] + 1) .. z : m \in 1 .. Len(bucket[f])
      BY <1>2, <2>3 DEF Smaller
    <3> HIDE DEF z
    <3>2. \A m \in (read[f] + 1) .. z : bucket[f][m] \in Nonce
      BY <2>3, <3>1, ElementOfSeq
    <3> QED
      BY <2>4, <3>1, <3>2, SubSeqProperties, LenProperties
  <2>6. read' \in [Files -> Nat] /\ DOMAIN chunk' = Files
    BY <1>1, <2>1, <2>5
  <2>7. ASSUME c <= Len(bucket[f]) PROVE ChunkOf(f)' /\ read'[f] = c
    <3>1. read[f] = 0
      BY <1>1, <2>2 DEF ReadInv
    <3>2. /\ c \in Nat /\ read[f] + c <= Len(bucket[f]) /\ read[f] <= Len(bucket[f])
          /\ \A m \in 1 .. c : read[f] + m = m
      BY <1>2, <2>3, <2>7, <3>1
    <3>3. Len(Next_Records(f)) = c /\ \A m \in 1 .. c : Next_Records(f)[m] = bucket[f][m]
      BY <2>3, <3>2, NextRecords
    <3>4. PICK junk \in [1 .. (c - Len(Next_Records(f))) -> Junk] :
            chunk' = [chunk EXCEPT ![f] = Next_Records(f) \o junk]
      BY <2>1
    <3>5. junk \in Seq(Nonce) /\ Len(junk) = 0
      <4>1. 1 .. (c - Len(Next_Records(f))) = 1 .. 0
        BY <3>2, <3>3
      <4>2. junk \in [1 .. 0 -> Nonce]
        <5>1. junk \in [1 .. 0 -> Junk]
          BY <3>4, <4>1, Zenon
        <5>2. \A m \in 1 .. 0 : junk[m] \in Nonce
          OBVIOUS
        <5> QED
          BY <5>1, <5>2
      <4>3. junk \in Seq(Nonce)
        BY <4>2, SeqDef, 0 \in Nat
      <4> QED
        BY <4>2, <4>3, LenProperties
    <3>6. \A m \in 1 .. c : chunk'[f][m] = bucket[f][m]
      <4>1. \A m \in 1 .. Len(Next_Records(f)) + Len(junk) :
              (Next_Records(f) \o junk)[m] =
                IF m <= Len(Next_Records(f)) THEN Next_Records(f)[m]
                ELSE junk[m - Len(Next_Records(f))]
        BY <2>5, <3>5, ConcatProperties
      <4>2. \A m \in 1 .. c : m \in 1 .. Len(Next_Records(f)) + Len(junk) /\ m <= Len(Next_Records(f))
        BY <3>2, <3>3, <3>5
      <4>3. chunk'[f] = Next_Records(f) \o junk
        BY <1>1, <3>4
      <4> QED
        BY <3>3, <4>1, <4>2, <4>3
    <3>7. read'[f] = c /\ idx'[f] = 0 /\ records'[f] = "live" /\ bucket' = bucket
      BY <1>1, <2>1, <3>3
    <3>8. c = 1 * c /\ 1 \in Nat /\ \A m \in 1 .. c : c - c + m = m
      BY <1>2
    <3> QED
      BY <1>2, <2>7, <3>6, <3>7, <3>8 DEF ChunkOf
  <2>8. ASSUME NEW g \in Files, loading'[g] = "exited", c <= Len(bucket[g])
        PROVE  ChunkOf(g)' /\ read'[g] = c
    <3>1. CASE g = f
      BY <2>7, <2>8, <3>1
    <3>2. CASE g # f
      <4>1. /\ ChunkOf(g) /\ read[g] = c
        BY <1>1, <2>8, <3>2 DEF ReadInv
      <4>2. /\ records'[g] = records[g] /\ read'[g] = read[g] /\ chunk'[g] = chunk[g]
            /\ idx'[g] = idx[g] /\ bucket' = bucket
        BY <1>1, <2>1, <3>2
      <4> QED
        BY <1>2, <4>1, <4>2 DEF ChunkOf
    <3> QED
      BY <3>1, <3>2
  <2> HIDE DEF ChunkOf
  <2>9. ASSUME NEW g \in Files
        PROVE  idx'[g] = 0 /\ (loading'[g] # "exited" => read'[g] = 0)
    BY <1>1, <2>1 DEF ReadInv
  <2> QED
    BY <1>1, <1>2, <2>1, <2>6, <2>8, <2>9 DEF ReadInv
<1> QED
  BY <1>3, <1>4

LEMMA NextReadInv ==
  NewInv /\ BucketsTyped /\ LoaderInv /\ ReadInv /\ [Next]_vars => ReadInv'
<1> SUFFICES ASSUME NewInv, BucketsTyped, LoaderInv, ReadInv, [Next]_vars PROVE ReadInv'
  OBVIOUS
<1> USE DEF Role
<1>1. CASE Generating
  <2>1. UNCHANGED mergeOwn /\ pc' # "load" /\ pc \in Role \cup {"malloc"}
    <3>1. CASE NewMain
      BY <1>1, <3>1 DEF Generating, NewMain, Malloc, Report, CreateThread, NoThreadArgument,
         NewCrash, JoinThread, HashingOver, SortingOver, WritingOver, RoundOver, PhaseOver,
         NextIteration, Goto
    <3>2. ASSUME NEW s \in DOMAIN thread, NewThread(s)
          PROVE  UNCHANGED mergeOwn /\ pc' # "load" /\ pc \in Role \cup {"malloc"}
      <4>1. pc \in Role
        BY ThreadShape
      <4> QED
        BY <1>1, <3>2, <4>1 DEF Generating, NewThread, HashSlice, HashNull, NewCrash, SortSlice,
           OpenFile, WriteFile, UnchangedMain
    <3> QED
      BY <1>1, <3>1, <3>2 DEF Generating, NewStep
  <2> QED
    BY <2>1 DEF ReadInv, mergeOwn
<1>2. CASE StartExternalSort
  <2>1. /\ pc = "reported" /\ no_files \in Nat /\ number' = no_files
        /\ appended' = appended /\ sorted' = <<>>
        /\ loading' = [f \in 0 .. (no_files - 1) |-> "none"]
        /\ chunk' = [f \in 0 .. (no_files - 1) |-> <<>>]
        /\ read' = [f \in 0 .. (no_files - 1) |-> 0]
        /\ idx' = [f \in 0 .. (no_files - 1) |-> 0]
    BY <1>2 DEF StartExternalSort, StartMerge, NewInv, MainInv
  <2>2. Files' = 0 .. (no_files - 1)
    BY <2>1 DEF Files
  <2> QED
    BY <2>1, <2>2 DEF ReadInv
<1>3. CASE Merging
  <2>1. CASE CreateLoad \/ JoinLoad
    <3>1. UNCHANGED <<pc, bucket, number, records, chunk, read, idx, sorted, appended>>
      BY <2>1 DEF CreateLoad, JoinLoad
    <3>2. /\ Files' = Files /\ records_per_read' = records_per_read
          /\ \A f : ChunkOf(f)' = ChunkOf(f)
      BY <3>1 DEF Files, records_per_read, divider, ChunkOf
    <3>3. ASSUME pc = "load", NEW f \in Files
          PROVE  loading'[f] = "exited" <=> loading[f] = "exited"
      <4>1. CASE CreateLoad
        <5>1. loading' = [loading EXCEPT ![file_no(spawned)] = "running"]
          BY <4>1 DEF CreateLoad
        <5>2. loading[file_no(spawned)] = "none" /\ loading \in [Files -> {"none", "running", "exited"}]
          <6>1. /\ number \in Nat \ {0} /\ loop \in 0 .. batches /\ loop < batches
                /\ spawned \in 0 .. batch /\ spawned < batch
                /\ \A g \in Files : g >= First + spawned => loading[g] = "none"
            BY <3>3, <4>1 DEF LoaderInv, CreateLoad
          <6>2. batches \in Nat /\ batch \in Nat
            BY <6>1, BatchFacts
          <6>3. spawned \in 0 .. (batch - 1) /\ loop \in Nat
            BY <6>1, <6>2
          <6>4. First \in Nat /\ file_no(spawned) = First + spawned /\ file_no(spawned) \in Files
            BY <6>1, <6>3, FileNumbers
          <6> HIDE DEF file_no, First
          <6>5. file_no(spawned) >= First + spawned
            BY <6>3, <6>4
          <6> QED
            BY <3>3, <6>1, <6>4, <6>5 DEF LoaderInv
        <5> HIDE DEF file_no
        <5> QED
          BY <3>3, <5>1, <5>2
      <4>2. CASE JoinLoad
        BY <4>2 DEF JoinLoad
      <4> QED
        BY <2>1, <4>1, <4>2
    <3> HIDE DEF ChunkOf, Files, records_per_read
    <3> QED
      BY <3>1, <3>2, <3>3 DEF ReadInv
  <2>2. CASE PrintFirst \/ MergeRecord \/ WriteRest \/ NoMemory \/ NullOutput
    BY <2>2 DEF PrintFirst, MergeRecord, WriteRest, NoMemory, NullOutput, MergeCrash, ReadInv
  <2>3. CASE MergeThread
    BY <2>3, LoadReads DEF MergeThread
  <2> QED
    BY <1>3, <2>1, <2>2, <2>3 DEF Merging, MergeMain
<1>4. CASE Over \/ UNCHANGED vars
  <2>1. UNCHANGED vars
    BY <1>4 DEF Over
  <2> QED
    BY <2>1 DEF vars, newVars, mergeOwn, ReadInv, Files, ChunkOf, records_per_read, divider
<1> QED
  BY <1>1, <1>2, <1>3, <1>4 DEF Next

(* What is in the file and in the buffer. *)
Out == appended \o sorted

Sorts(f) == \A q \in Image(Out) : Hash[q] <= Hash[Current(f)]

CopyInv ==
  /\ pc \in {"merge", "merged"} /\ FirstChunksFull =>
       /\ Chunks
       /\ appended \in Seq(Nonce) /\ sorted \in Seq(Nonce)
       /\ Image(Out) = TakenRecords
       /\ Whole => OnlyOnce(Out)
       /\ (\A f \in Files : SortedByHash(bucket[f])) =>
            SortedByHash(Out) /\ \A f \in Candidates : Sorts(f)
  /\ pc = "merged" => sorted = <<>> /\ Candidates = {}

(* The merge starts with the first record of every bucket.                 *)
LEMMA MergeStarts ==
  ASSUME BucketsTyped, LoaderInv, ReadInv, PrintFirst
  PROVE  CopyInv'
<1>1. /\ pc = "load"
      /\ UNCHANGED <<bucket, number, loading, records, chunk, read, idx, sorted, appended>>
      /\ pc' = IF \E f \in Files : records[f] = "uninit" THEN "undefined" ELSE "merge"
  BY DEF PrintFirst
<1> SUFFICES ASSUME pc' = "merge", FirstChunksFull'
             PROVE  /\ Chunks'
                    /\ appended' \in Seq(Nonce) /\ sorted' \in Seq(Nonce)
                    /\ Image(Out') = TakenRecords'
                    /\ OnlyOnce(Out')
                    /\ SortedByHash(Out') /\ Image(Out') = {}
  BY <1>1 DEF CopyInv, OnlyOnce, SortedByHash, Image, Sorts
<1>2. /\ appended = <<>> /\ sorted = <<>> /\ number \in Nat \ {0}
      /\ DOMAIN chunk = Files /\ read \in [Files -> Nat] /\ idx \in [Files -> Nat]
      /\ records \in [Files -> {"uninit", "null", "live"}]
      /\ \A f \in Files : records[f] # "uninit"
  BY <1>1 DEF ReadInv, LoaderInv
<1>3. FirstChunksFull
  BY <1>1 DEF FirstChunksFull, Files, records_per_read, divider
<1>4. records_per_read \in Nat
  BY <1>2, ChunkSize
<1>5. ASSUME NEW f \in Files
      PROVE  /\ records[f] = "live" /\ ChunkOf(f) /\ read[f] = records_per_read /\ idx[f] = 0
             /\ bucket[f] \in Seq(Nonce)
  <2>1. loading[f] = "exited"
    BY <1>1, <1>2 DEF LoaderInv
  <2>2. records[f] = "live" /\ f \in DOMAIN bucket
    BY <1>1, <2>1 DEF LoaderInv
  <2>3. bucket[f] \in Seq(Nonce) /\ records_per_read <= Len(bucket[f])
    BY <1>3, <1>4, <2>2, LenProperties DEF FirstChunksFull, BucketsTyped
  <2> QED
    BY <1>1, <2>1, <2>2, <2>3 DEF ReadInv
<1>6. Chunks
  BY <1>2, <1>5 DEF Chunks
<1>7. \A f \in Files : Taken(f) = 0
  BY <1>4, <1>5 DEF Taken
<1>8. TakenRecords = {}
  BY <1>7 DEF TakenRecords
<1>9. Chunks' /\ TakenRecords' = {}
  <2>1. UNCHANGED <<bucket, number, records, chunk, read, idx>>
    BY <1>1
  <2>2. Files' = Files /\ records_per_read' = records_per_read
    BY <2>1 DEF Files, records_per_read, divider
  <2>3. \A f : ChunkOf(f)' = ChunkOf(f) /\ Taken(f)' = Taken(f)
    BY <2>1, <2>2 DEF ChunkOf, Taken, WholeOf
  <2>4. TakenRecords' = TakenRecords
    BY <2>1, <2>2, <2>3 DEF TakenRecords
  <2> QED
    BY <1>6, <1>8, <2>1, <2>2, <2>3, <2>4 DEF Chunks
<1>10. Out' = <<>>
  BY <1>1, <1>2 DEF Out
<1>11. Image(<<>>) = {} /\ OnlyOnce(<<>>) /\ SortedByHash(<<>>) /\ <<>> \in Seq(Nonce)
  BY DEF Image, OnlyOnce, SortedByHash
<1> QED
  BY <1>1, <1>2, <1>9, <1>10, <1>11

(* With the records of earlier iterations only, each in one place, no      *)
(* record is taken a second time.                                          *)
LEMMA NotTaken ==
  ASSUME Chunks, Held(number, Before), NEW f \in Candidates
  PROVE  Current(f) \notin TakenRecords
<1> SUFFICES ASSUME Current(f) \in TakenRecords PROVE FALSE
  OBVIOUS
<1>1. PICK g \in Files : \E m \in 1 .. Taken(g) : Current(f) = bucket[g][m]
  BY DEF TakenRecords
<1>2. PICK m \in 1 .. Taken(g) : Current(f) = bucket[g][m]
  BY <1>1
<1>3. /\ Current(f) = bucket[f][Taken(f) + 1] /\ Taken(f) + 1 \in 1 .. Len(bucket[f])
      /\ f \in Files /\ Taken(f) \in Nat /\ records_per_read \in Nat \ {0}
      /\ DOMAIN bucket[f] = 1 .. Len(bucket[f])
  BY CurrentTyped, LenProperties
<1>4. m \in DOMAIN bucket[g]
  <2>1. /\ bucket[g] \in Seq(Nonce) /\ Len(bucket[g]) \in Nat /\ ChunkOf(g)
        /\ DOMAIN bucket[g] = 1 .. Len(bucket[g]) /\ read[g] \in Nat /\ idx[g] \in Nat
    BY LenProperties DEF Chunks
  <2>2. Taken(g) \in Nat /\ Taken(g) <= Len(bucket[g])
    <3>1. CASE records[g] = "live"
      <4> DEFINE c == records_per_read
                 i == idx[g]
                 e == read[g]
                 n == Len(bucket[g])
      <4>1. /\ c \in Nat \ {0} /\ i \in Nat /\ e \in Nat /\ n \in Nat
            /\ c <= e /\ e <= n /\ (i < c \/ i = 0) /\ Taken(g) = e - c + i
        BY <1>3, <2>1, <3>1 DEF ChunkOf, Taken
      <4> HIDE DEF c, i, e, n
      <4>2. Taken(g) \in Nat /\ Taken(g) <= n
        BY <4>1
      <4> QED
        BY <4>2 DEF n
    <3>2. CASE records[g] # "live"
      <4>1. WholeOf(g) \in Nat /\ WholeOf(g) <= Len(bucket[g])
        BY <1>3, <2>1, WholeChunks DEF WholeOf
      <4> QED
        BY <3>2, <4>1 DEF Taken
    <3> QED
      BY <3>1, <3>2
  <2> QED
    BY <2>1, <2>2
<1>5. f = g /\ Taken(f) + 1 = m
  <2>1. \A a, b \in Files : \A p \in DOMAIN bucket[a] : \A q \in DOMAIN bucket[b] :
          bucket[a][p] = bucket[b][q] => a = b /\ p = q
    BY DEF Held, Files
  <2>2. /\ Taken(f) + 1 \in DOMAIN bucket[f] /\ f \in Files /\ g \in Files
        /\ bucket[f][Taken(f) + 1] = bucket[g][m]
    BY <1>2, <1>3
  <2>3. \A p \in DOMAIN bucket[f] : \A q \in DOMAIN bucket[g] :
          bucket[f][p] = bucket[g][q] => f = g /\ p = q
    BY <2>1, <2>2
  <2> QED
    BY <1>4, <2>2, <2>3
<1> QED
  BY <1>3, <1>5

CurrentIs(f) ==
  /\ Current(f) = bucket[f][Taken(f) + 1] /\ Current(f) \in Nonce
  /\ Taken(f) + 1 \in 1 .. Len(bucket[f])

LEMMA CurrentEvery == Chunks => \A e \in Candidates : CurrentIs(e)
  BY CurrentTyped DEF CurrentIs

LEMMA MergeCopies ==
  ASSUME NewInv, HandInv, LoaderInv, CopyInv, MergeRecord, FirstChunksFull, UNCHANGED options
  PROVE  CopyInv'
<1>1. PICK f \in Candidates : f = small_idx
  BY MergeCases DEF CopyInv, MergeRecord
<1>2. /\ pc = "merge" /\ pc' = "merge" /\ Chunks
      /\ appended \in Seq(Nonce) /\ sorted \in Seq(Nonce) /\ Image(Out) = TakenRecords
      /\ Whole => OnlyOnce(Out)
      /\ (\A g \in Files : SortedByHash(bucket[g])) =>
           SortedByHash(Out) /\ \A g \in Candidates : Sorts(g)
  BY DEF CopyInv, MergeRecord
<1>3. /\ UNCHANGED <<bucket, number>>
      /\ \A g \in Candidates : Hash[Current(f)] <= Hash[Current(g)]
      /\ \/ appended' = appended \o Append(sorted, Current(f)) /\ sorted' = <<>>
         \/ appended' = appended /\ sorted' = Append(sorted, Current(f))
  BY <1>1, <1>2, MergeCases
<1> DEFINE r == Current(f)
<1>4. /\ f \in Files /\ r \in Nonce /\ Taken(f) \in Nat
      /\ r = bucket[f][Taken(f) + 1] /\ bucket[f] \in Seq(Nonce)
      /\ Taken(f) + 1 \in 1 .. Len(bucket[f]) /\ Len(bucket[f]) \in Nat
  BY <1>2, CurrentTyped
<1>5. /\ Chunks' /\ Taken(f)' = Taken(f) + 1
      /\ Candidates' \subseteq Candidates
      /\ \A g \in Candidates' : g # f => Current(g)' = Current(g)
  BY <1>1, <1>2, TakenByMerge
<1>6. Files' = Files /\ Whole' = Whole
  BY <1>3 DEF Files, Whole, WholeRounds, write_iter
<1>7. /\ Out \in Seq(Nonce) /\ Out' = Append(Out, r)
      /\ appended' \in Seq(Nonce) /\ sorted' \in Seq(Nonce)
  <2> HIDE DEF r
  <2>1. /\ Append(sorted, r) \in Seq(Nonce) /\ Append(sorted, r) = sorted \o <<r>>
        /\ <<r>> \in Seq(Nonce) /\ Out \in Seq(Nonce) /\ Append(Out, r) = Out \o <<r>>
        /\ <<>> \in Seq(Nonce)
    BY <1>2, <1>4, AppendProperties, AppendIsConcat, ConcatProperties DEF Out
  <2>2. appended \o Append(sorted, r) = Append(Out, r) /\ appended \o Append(sorted, r) \in Seq(Nonce)
    BY <1>2, <2>1, ConcatAssociative, ConcatProperties DEF Out
  <2>3. (appended \o Append(sorted, r)) \o <<>> = appended \o Append(sorted, r)
    BY <2>2, ConcatEmptySeq
  <2>4. CASE appended' = appended \o Append(sorted, r) /\ sorted' = <<>>
    BY <2>1, <2>2, <2>3, <2>4 DEF Out
  <2>5. CASE appended' = appended /\ sorted' = Append(sorted, r)
    BY <1>2, <2>1, <2>2, <2>5 DEF Out
  <2> QED
    BY <1>3, <2>4, <2>5 DEF r
<1>8. Image(Out') = Image(Out) \cup {r}
  BY <1>4, <1>7, AppendKeeps
<1>9. TakenRecords' = TakenRecords \cup {r}
  BY <1>1, <1>2, TakenRecordsGrow
<1>10. ASSUME Whole PROVE OnlyOnce(Out')
  <2>1. Held(number, Before)
    BY <1>2, <1>10 DEF HandInv, LoaderInv
  <2>2. r \notin Image(Out)
    BY <1>2, <2>1, NotTaken
  <2> QED
    BY <1>2, <1>4, <1>7, <1>10, <2>2, AppendKeeps
<1>11. ASSUME \A g \in Files : SortedByHash(bucket[g])
       PROVE  SortedByHash(Out') /\ \A g \in Candidates' : Sorts(g)'
  <2>1. SortedByHash(Out) /\ \A g \in Candidates : Sorts(g)
    BY <1>2, <1>11
  <2>2. \A q \in Image(Out) : Hash[q] <= Hash[r]
    BY <2>1 DEF Sorts
  <2>3. SortedByHash(Out')
    BY <1>4, <1>7, <2>1, <2>2, AppendKeeps
  <2>4. \A q \in Image(Out') : Hash[q] \in Nat /\ Hash[q] <= Hash[r]
    <3>1. \A q \in Image(Out) : q \in Nonce
      BY <1>7, ImageOf
    <3> QED
      BY <1>4, <1>8, <2>2, <3>1, HashNat
  <2>5. ASSUME NEW g \in Candidates'
        PROVE  Hash[Current(g)'] \in Nat /\ Hash[r] <= Hash[Current(g)']
    <3>1. CASE g # f
      <4>1. Current(g)' = Current(g) /\ g \in Candidates
        BY <1>5, <3>1
      <4>2. Current(g) \in Nonce
        BY <1>2, <4>1, CurrentTyped
      <4> QED
        BY <1>3, <4>1, <4>2, HashNat
    <3>2. CASE g = f
      <4>1. /\ Current(f)' = bucket[f][Taken(f)' + 1] /\ Taken(f)' + 1 \in 1 .. Len(bucket[f])
            /\ Current(f)' \in Nonce
        <5>1. (Chunks => \A e \in Candidates : CurrentIs(e))'
          BY CurrentEvery, PTL
        <5> QED
          BY <1>3, <1>5, <3>2, <5>1 DEF CurrentIs
      <4>2. /\ Taken(f) + 1 < Taken(f)' + 1 /\ SortedByHash(bucket[f])
            /\ DOMAIN bucket[f] = 1 .. Len(bucket[f])
        BY <1>4, <1>5, <1>11, LenProperties
      <4>3. Hash[bucket[f][Taken(f) + 1]] <= Hash[bucket[f][Taken(f)' + 1]]
        BY <1>4, <4>1, <4>2 DEF SortedByHash
      <4> QED
        BY <1>4, <3>2, <4>1, <4>3, HashNat
    <3> QED
      BY <3>1, <3>2
  <2>6. Hash[r] \in Nat
    BY <1>4, HashNat
  <2>7. \A g \in Candidates' : \A q \in Image(Out') : Hash[q] <= Hash[Current(g)']
    BY <2>4, <2>5, <2>6
  <2> QED
    BY <2>3, <2>7 DEF Sorts
<1>12. (\A g \in Files' : SortedByHash(bucket'[g])) => \A g \in Files : SortedByHash(bucket[g])
  BY <1>3, <1>6
<1> HIDE DEF r
<1> QED
  BY <1>2, <1>5, <1>6, <1>7, <1>8, <1>9, <1>10, <1>11, <1>12
     DEF CopyInv, OnlyOnce, SortedByHash, Image

LEMMA ReadInvAlways == Spec => []ReadInv
<1>1. Init => ReadInv
  BY DEF Init, NewInit, MergeInit, ReadInv
<1> QED
  BY <1>1, NextReadInv, NewInvAlways, BucketsTypedAlways, LoaderInvAlways, PTL DEF Spec

LEMMA RestIsCopied ==
  ASSUME LoaderInv, CopyInv, WriteRest, UNCHANGED <<no_files, options>>
  PROVE  CopyInv'
<1>1. /\ pc = "merge" /\ pc' = "merged" /\ Candidates = {}
      /\ appended' = Out /\ sorted' = <<>>
      /\ UNCHANGED <<bucket, number, records, chunk, read, idx>>
  BY DEF WriteRest, Out
<1>2. /\ Files' = Files /\ records_per_read' = records_per_read /\ Whole' = Whole
      /\ Candidates' = Candidates /\ FirstChunksFull' = FirstChunksFull
  BY <1>1 DEF Files, records_per_read, divider, Whole, WholeRounds, write_iter, Candidates,
     FirstChunksFull
<1>3. \A f : ChunkOf(f)' = ChunkOf(f) /\ Taken(f)' = Taken(f)
  BY <1>1, <1>2 DEF ChunkOf, Taken, WholeOf
<1>4. Chunks' = Chunks /\ TakenRecords' = TakenRecords
  BY <1>1, <1>2, <1>3 DEF Chunks, TakenRecords
<1>5. ASSUME FirstChunksFull
      PROVE  /\ Out' = Out /\ appended' \in Seq(Nonce) /\ sorted' \in Seq(Nonce)
  <2>1. appended \in Seq(Nonce) /\ sorted \in Seq(Nonce)
    BY <1>1, <1>5 DEF CopyInv
  <2>2. Out \in Seq(Nonce)
    BY <2>1, ConcatProperties DEF Out
  <2>3. Out \o <<>> = Out
    BY <2>2, ConcatEmptySeq
  <2> QED
    BY <1>1, <2>2, <2>3 DEF Out
<1>6. FirstChunksFull =>
        /\ Chunks /\ Image(Out) = TakenRecords
        /\ Whole => OnlyOnce(Out)
        /\ (\A f \in Files : SortedByHash(bucket[f])) => SortedByHash(Out)
  BY <1>1 DEF CopyInv
<1>7. FirstChunksFull =>
        /\ Image(Out') = Image(Out) /\ OnlyOnce(Out') = OnlyOnce(Out)
        /\ SortedByHash(Out') = SortedByHash(Out)
  BY <1>5
<1>8. FirstChunksFull' =>
        /\ Chunks'
        /\ appended' \in Seq(Nonce) /\ sorted' \in Seq(Nonce)
        /\ Image(Out') = TakenRecords'
        /\ Whole' => OnlyOnce(Out')
        /\ (\A f \in Files' : SortedByHash(bucket'[f])) =>
             SortedByHash(Out') /\ \A f \in Candidates' : Sorts(f)'
  BY <1>1, <1>2, <1>4, <1>5, <1>6, <1>7
<1> QED
  BY <1>1, <1>2, <1>8 DEF CopyInv, OnlyOnce, SortedByHash, Image

LEMMA NextCopyInv ==
  NewInv /\ BucketsTyped /\ HandInv /\ LoaderInv /\ ReadInv /\ CopyInv /\ [Next]_vars => CopyInv'
<1> SUFFICES ASSUME NewInv, BucketsTyped, HandInv, LoaderInv, ReadInv, CopyInv, [Next]_vars
             PROVE  CopyInv'
  OBVIOUS
<1> USE DEF Role
<1>1. CASE Generating
  <2>1. pc' \notin {"merge", "merged"}
    <3>1. CASE NewMain
      BY <1>1, <3>1 DEF Generating, NewMain, Malloc, Report, CreateThread, NoThreadArgument,
         NewCrash, JoinThread, HashingOver, SortingOver, WritingOver, RoundOver, PhaseOver,
         NextIteration, Goto
    <3>2. ASSUME NEW s \in DOMAIN thread, NewThread(s)
          PROVE  pc' \notin {"merge", "merged"}
      <4>1. pc \in Role
        BY ThreadShape
      <4> QED
        BY <1>1, <3>2, <4>1 DEF Generating, NewThread, HashSlice, HashNull, NewCrash, SortSlice,
           OpenFile, WriteFile, UnchangedMain
    <3> QED
      BY <1>1, <3>1, <3>2 DEF Generating, NewStep
  <2> QED
    BY <2>1 DEF CopyInv
<1>2. CASE StartExternalSort
  <2>1. pc' \notin {"merge", "merged"}
    BY <1>2 DEF StartExternalSort, StartMerge
  <2> QED
    BY <2>1 DEF CopyInv
<1>3. CASE Merging
  <2>1. UNCHANGED options /\ UNCHANGED no_files
    BY <1>3 DEF Merging, newOwn
  <2>2. CASE CreateLoad \/ JoinLoad \/ MergeThread \/ NoMemory \/ NullOutput
    <3>1. pc' \notin {"merge", "merged"}
      BY <2>2 DEF CreateLoad, JoinLoad, MergeThread, Load, NoMemory, NullOutput, MergeCrash
    <3> QED
      BY <3>1 DEF CopyInv
  <2>3. CASE PrintFirst
    BY <2>3, MergeStarts
  <2>4. CASE MergeRecord
    <3>1. /\ pc' = "merge" /\ UNCHANGED <<bucket, number>>
      BY <2>4 DEF MergeRecord
    <3>2. FirstChunksFull' = FirstChunksFull
      BY <3>1 DEF FirstChunksFull, Files, records_per_read, divider
    <3>3. CASE FirstChunksFull
      BY <2>1, <2>4, <3>3, MergeCopies
    <3>4. CASE ~FirstChunksFull
      BY <3>1, <3>2, <3>4 DEF CopyInv
    <3> QED
      BY <3>3, <3>4
  <2>5. CASE WriteRest
    BY <2>1, <2>5, RestIsCopied
  <2> QED
    BY <1>3, <2>2, <2>3, <2>4, <2>5 DEF Merging, MergeMain
<1>4. CASE Over \/ UNCHANGED vars
  <2>1. UNCHANGED vars
    BY <1>4 DEF Over
  <2>2. UNCHANGED <<pc, options, bucket, number, records, chunk, read, idx, sorted, appended>>
    BY <2>1 DEF vars, newVars, newOwn, mergeOwn
  <2>3. /\ Files' = Files /\ records_per_read' = records_per_read /\ Whole' = Whole
        /\ Candidates' = Candidates /\ FirstChunksFull' = FirstChunksFull /\ Out' = Out
    BY <2>2 DEF Files, records_per_read, divider, Whole, WholeRounds, write_iter, Candidates,
       FirstChunksFull, Out
  <2>4. \A f : ChunkOf(f)' = ChunkOf(f) /\ Taken(f)' = Taken(f) /\ Sorts(f)' = Sorts(f)
    BY <2>2, <2>3 DEF ChunkOf, Taken, WholeOf, Sorts, Image, Current
  <2>5. Chunks' = Chunks /\ TakenRecords' = TakenRecords
    BY <2>2, <2>3, <2>4 DEF Chunks, TakenRecords
  <2> HIDE DEF Out, Chunks, TakenRecords, Files, Candidates, FirstChunksFull, Whole
  <2> QED
    BY <2>2, <2>3, <2>4, <2>5 DEF CopyInv, OnlyOnce, SortedByHash, Image
<1> QED
  BY <1>1, <1>2, <1>3, <1>4 DEF Next

LEMMA CopyInvAlways == Spec => []CopyInv
<1>1. Init => CopyInv
  BY DEF Init, NewInit, CopyInv
<1> QED
  BY <1>1, NextCopyInv, NewInvAlways, BucketsTypedAlways, HandInvAlways, LoaderInvAlways,
     ReadInvAlways, PTL DEF Spec

(* When no candidate is left, the whole chunks of all buckets are merged.  *)
LEMMA AllTaken ==
  ASSUME Chunks, Candidates = {}
  PROVE  /\ TakenRecords = UNION {InWholeChunks(f) : f \in Files}
         /\ records_per_read # 0 => \A f \in Files : Taken(f) = WholeOf(f)
<1>1. records_per_read \in Nat
  BY ChunkSize DEF Chunks
<1>2. ASSUME NEW f \in Files
      PROVE  /\ records_per_read # 0 => Taken(f) = WholeOf(f)
             /\ records_per_read = 0 => Taken(f) = 0
  <2>1. /\ idx[f] \in Nat /\ read[f] \in Nat /\ ChunkOf(f)
    BY DEF Chunks
  <2>2. ~(records[f] = "live" /\ idx[f] < records_per_read)
    BY DEF Candidates
  <2>3. CASE records_per_read = 0
    <3>1. records[f] = "live" /\ idx[f] = 0
      BY <2>1, <2>3 DEF ChunkOf
    <3>2. PICK q \in Nat : read[f] = q * 0
      BY <2>1, <2>3, <3>1 DEF ChunkOf
    <3> QED
      BY <2>3, <3>1, <3>2 DEF Taken
  <2>4. CASE records_per_read # 0
    <3>1. records[f] # "live"
      BY <1>1, <2>1, <2>2, <2>4 DEF ChunkOf
    <3> QED
      BY <2>4, <3>1 DEF Taken
  <2> QED
    BY <2>3, <2>4
<1>3. \A f \in Files : {bucket[f][m] : m \in 1 .. Taken(f)} = InWholeChunks(f)
  BY <1>2 DEF InWholeChunks, WholeOf
<1> QED
  BY <1>2, <1>3 DEF TakenRecords

(* external_sort appends the whole chunks of its buckets to output.bin and *)
(* nothing else, and keeps them in order, for every number of buckets and  *)
(* every size of the memory, provided that each bucket fills a chunk: what *)
(* it reads behind the end of a shorter one is not a record.               *)
THEOREM TwoCopiesChunks == Spec => []CopiesWholeChunks
<1>1. CopyInv => CopiesWholeChunks
  <2> SUFFICES ASSUME CopyInv, pc = "merged", FirstChunksFull
               PROVE  /\ Image(appended) = UNION {InWholeChunks(f) : f \in Files}
                      /\ Whole => Cardinality(Image(appended)) = Len(appended)
                      /\ (\A f \in Files : SortedByHash(bucket[f])) => SortedByHash(appended)
    BY DEF CopiesWholeChunks, Whole
  <2>1. /\ Chunks /\ appended \in Seq(Nonce) /\ sorted = <<>> /\ Candidates = {}
        /\ Image(Out) = TakenRecords /\ (Whole => OnlyOnce(Out))
        /\ (\A f \in Files : SortedByHash(bucket[f])) => SortedByHash(Out)
    BY DEF CopyInv
  <2>2. Out = appended
    BY <2>1, ConcatEmptySeq DEF Out
  <2>3. TakenRecords = UNION {InWholeChunks(f) : f \in Files}
    BY <2>1, AllTaken
  <2> QED
    BY <2>1, <2>2, <2>3, CountedOnce
<1> QED
  BY <1>1, CopyInvAlways, PTL

(* With options that leave no remainder, the two programs hash every nonce *)
(* and append its record to output.bin exactly once and in order, whatever *)
(* buckets an earlier run left in the directory, and behind whatever       *)
(* output.bin held.                                                        *)
THEOREM TwoSortAll == Spec => []AllRecords
<1>1. NewInv /\ HandInv /\ SortedInv /\ LoaderInv /\ CopyInv => AllRecords
  <2> SUFFICES ASSUME NewInv, HandInv, SortedInv, LoaderInv, CopyInv, pc = "merged", EvenOptions
               PROVE  /\ SortedByHash(appended) /\ Image(appended) = Nonce
                      /\ Len(appended) = total_hash_count
    BY DEF AllRecords
  <2>1. /\ Whole /\ Nested /\ FirstChunksFull /\ records_per_read # 0
        /\ iterations * max_records = total_hash_count
        /\ \A f \in Files : Len(bucket[f]) % records_per_read = 0
    BY NewAssumption DEF EvenOptions, Whole
  <2>2. /\ number = no_files /\ j = iterations /\ Held(number, Before)
    BY <2>1 DEF LoaderInv, HandInv, Role
  <2>3. /\ Chunks /\ appended \in Seq(Nonce) /\ sorted = <<>> /\ Candidates = {}
        /\ Image(Out) = TakenRecords /\ OnlyOnce(Out)
        /\ (\A f \in Files : SortedByHash(bucket[f])) => SortedByHash(Out)
    BY <2>1 DEF CopyInv
  <2>4. Out = appended
    BY <2>3, ConcatEmptySeq DEF Out
  <2>5. \A f \in Files : SortedByHash(bucket[f])
    BY <2>1, <2>2 DEF SortedInv, Files
  <2>6. ASSUME NEW f \in Files
        PROVE  Taken(f) = Len(bucket[f]) /\ DOMAIN bucket[f] = 1 .. Len(bucket[f])
    <3> DEFINE n == Len(bucket[f])
               c == records_per_read
    <3>1. n \in Nat /\ c \in Nat \ {0} /\ n % c = 0 /\ DOMAIN bucket[f] = 1 .. n
      BY <2>1, <2>3, ChunkSize, LenProperties DEF Chunks
    <3>2. Taken(f) = (n \div c) * c
      BY <2>1, <2>3, AllTaken DEF WholeOf
    <3> HIDE DEF n, c
    <3>3. (n \div c) * c = n
      BY <3>1
    <3> QED
      BY <3>1, <3>2, <3>3 DEF n
  <2>7. TakenRecords = Before
    <3>1. TakenRecords = UNION {{bucket[f][m] : m \in DOMAIN bucket[f]} : f \in Files}
      BY <2>6 DEF TakenRecords
    <3>2. \A f \in Files : \A p \in DOMAIN bucket[f] : bucket[f][p] \in Before
      BY <2>2 DEF Held, Files
    <3>3. \A v \in Before : \E f \in Files : \E p \in DOMAIN bucket[f] : bucket[f][p] = v
      BY <2>2 DEF Held, Files
    <3> QED
      BY <3>1, <3>2, <3>3
  <2>8. Before = Nonce /\ total_hash_count \in Nat
    BY <2>1, <2>2, NewAssumption DEF Before, Nonce
  <2>9. Image(appended) = Nonce /\ Cardinality(Image(appended)) = Len(appended)
    BY <2>3, <2>4, <2>7, <2>8, CountedOnce
  <2>10. Cardinality(Nonce) = total_hash_count
    <3>1. /\ 0 \in Int /\ total_hash_count - 1 \in Int
          /\ Cardinality(0 .. (total_hash_count - 1)) =
               IF 0 > total_hash_count - 1 THEN 0 ELSE (total_hash_count - 1) - 0 + 1
      BY <2>8, FS_Interval
    <3> QED
      BY <2>8, <3>1 DEF Nonce
  <2> QED
    BY <2>3, <2>4, <2>5, <2>9, <2>10
<1> QED
  BY <1>1, NewInvAlways, HandInvAlways, SortedInvAlways, LoaderInvAlways, CopyInvAlways, PTL

=============================================================================
