--------------------------- MODULE GenerateProofs ---------------------------
(***************************************************************************)
(* The generating phase never leaves its types, never frees memory that is *)
(* in use and has no data race, for every number of threads and records.   *)
(* Every bucket gets a number of its own: no later thread, round or        *)
(* iteration opens it again, and no number is left out.                    *)
(***************************************************************************)
EXTENDS Generate, SlicesProofs, SequenceTheorems

(* Every role has at least one thread.                                     *)
LEMMA ThreadCountPositive ==
  ASSUME NEW r \in Role
  PROVE  ThreadCount(r) \in Nat \ {0}
  BY ConfigAssumption DEF Role, ThreadCount

(* A slot is a role and the index of a thread of that role.                *)
LEMMA SlotShape ==
  ASSUME NEW s \in Slot
  PROVE  /\ s = <<s[1], s[2]>>
         /\ s[1] \in Role
         /\ s[2] \in 0 .. (ThreadCount(s[1]) - 1)
  BY DEF Slot

LEMMA SlotBuilt ==
  ASSUME NEW r \in Role, NEW n \in 0 .. (ThreadCount(r) - 1)
  PROVE  <<r, n>> \in Slot
  BY DEF Slot

(* iterations counts whole arrays: no nonce goes beyond total_hash_count.  *)
LEMMA IterationsFit ==
  /\ iterations \in Nat
  /\ iterations * max_records <= total_hash_count
<1>1. max_records \in Nat \ {0} /\ total_hash_count \in Nat
  BY ConfigAssumption
<1>2. iterations = PerThread(total_hash_count, max_records)
  BY DEF iterations, PerThread
<1>3. /\ iterations \in Nat
      /\ max_records * iterations <= total_hash_count
  BY <1>1, <1>2, DivisionFits
<1> QED
  BY <1>1, <1>3

(* The rounds of writing_sort stay inside the array.                       *)
LEMMA SegmentsFit ==
  ASSUME write_threads < sort_threads
  PROVE  /\ write_iter \in Nat \ {0}
         /\ write_segment \in Nat
         /\ write_iter * write_segment <= max_records
<1>1. /\ sort_threads \in Nat \ {0} /\ write_threads \in Nat \ {0}
      /\ max_records \in Nat
  BY ConfigAssumption
<1>2. write_iter \in Nat \ {0}
  BY <1>1 DEF write_iter
<1>3. write_segment = PerThread(max_records, write_iter)
  BY DEF write_segment, PerThread
<1> QED
  BY <1>1, <1>2, <1>3, DivisionFits

-----------------------------------------------------------------------------
(* The inductive invariant *)

(* main has created the threads 0 .. spawned - 1 of this phase and taken   *)
(* back 0 .. joined - 1; it is inside the loop over j only for a j below   *)
(* iterations, and in writing_sort only for a k below write_iter.          *)
MainInv ==
  /\ pc \in Role => spawned <= ThreadCount(pc) /\ joined <= spawned
  /\ pc \in {"malloc", "free"} => spawned = 0 /\ joined = 0
  /\ pc \in Role \cup {"free"} =>
       j < iterations /\ memory # "freed"
  /\ pc = "writing_sort" => write_threads < sort_threads /\ k < write_iter

(* A thread that was created and not joined belongs to the current phase   *)
(* and works with main's current j, k and no_files.                        *)
ThreadInv ==
  \A s \in Slot : thread[s] # "none" =>
    /\ pc = s[1]
    /\ joined <= s[2] /\ s[2] < spawned
    /\ arg[s] = [x |-> j, k |-> k, bucket_start |-> no_files]
    /\ s[1] = "hashing" => SliceStart(max_records, hash_threads, s[2]) <= cursor[s]

IInv == TypeOK /\ MainInv /\ ThreadInv

(* What a thread touches is an interval of the array, of the current round *)
(* when it is a writing_sort thread.                                       *)
LEMMA TouchesWithin ==
  ASSUME IInv, NEW s \in Slot, thread[s] # "none"
  PROVE  /\ start_index(s) \in Nat /\ end_index(s) \in Nat
         /\ start_index(s) <= end_index(s) /\ end_index(s) <= max_records
         /\ Touches(s) \subseteq Cell
<1> DEFINE M == SegmentSize(s[1])
           T == ThreadCount(s[1])
           a == SliceStart(M, T, s[2])
           b == SliceEnd(M, T, s[2])
<1>1. s[1] \in Role /\ T \in Nat \ {0} /\ s[2] \in 0 .. (T - 1)
  BY SlotShape, ThreadCountPositive
<1>2. max_records \in Nat
  BY ConfigAssumption
<1>3. CASE s[1] = "writing_sort"
  <2>1. write_threads < sort_threads /\ k \in Nat /\ k < write_iter /\ arg[s].k = k
    BY <1>3 DEF IInv, ThreadInv, MainInv, TypeOK
  <2>2. /\ write_iter \in Nat /\ write_segment \in Nat
        /\ write_iter * write_segment <= max_records
    BY <2>1, SegmentsFit
  <2>3. M = write_segment
    BY <1>3 DEF SegmentSize
  <2>4. a \in Nat /\ b \in Nat /\ a <= b /\ b <= write_segment
    <3> HIDE DEF M, T
    <3> QED
      BY <1>1, <2>2, <2>3, SliceWithin
  <2>5. /\ k * write_segment \in Nat
        /\ k * write_segment + write_segment <= max_records
    <3>1. (k + 1) * write_segment <= write_iter * write_segment
      BY <2>1, <2>2, TimesMonotone, k + 1 \in Nat, k + 1 <= write_iter
    <3> QED
      BY <1>2, <2>1, <2>2, <3>1
  <2>6. /\ start_index(s) = k * write_segment + a
        /\ end_index(s) = k * write_segment + b
    BY <1>3, <2>1 DEF start_index, end_index, SegmentStart
  <2> HIDE DEF a, b
  <2> QED
    BY <1>2, <2>2, <2>4, <2>5, <2>6 DEF Touches, Cell
<1>4. CASE s[1] # "writing_sort"
  <2>1. M = max_records
    BY <1>4 DEF SegmentSize
  <2>2. a \in Nat /\ b \in Nat /\ a <= b /\ b <= max_records
    <3> HIDE DEF M, T
    <3> QED
      BY <1>1, <1>2, <2>1, SliceWithin
  <2>3. start_index(s) = 0 + a /\ end_index(s) = 0 + b
    BY <1>4 DEF start_index, end_index, SegmentStart
  <2> HIDE DEF a, b
  <2> QED
    BY <1>2, <2>2, <2>3 DEF Touches, Cell
<1> QED
  BY <1>3, <1>4

(* Two threads that exist at the same time are of one phase and one round, *)
(* so they work on different slices and different buckets.                 *)
LEMMA TouchesApart ==
  ASSUME IInv, NEW s \in Slot, NEW t \in Slot, s # t,
         thread[s] # "none", thread[t] # "none"
  PROVE  /\ Touches(s) \cap Touches(t) = {}
         /\ bucket_no(s) # bucket_no(t)
<1> DEFINE M == SegmentSize(s[1])
           T == ThreadCount(s[1])
           base == SegmentStart(s)
<1>1. /\ s[1] = t[1] /\ arg[s] = arg[t] /\ s[2] # t[2]
      /\ s[2] \in 0 .. (T - 1) /\ t[2] \in 0 .. (T - 1)
      /\ T \in Nat \ {0}
  BY SlotShape, ThreadCountPositive DEF IInv, ThreadInv
<1>2. bucket_no(s) # bucket_no(t)
  <2>1. arg[s] \in Argument /\ write_threads \in Nat
    BY ConfigAssumption DEF IInv, TypeOK
  <2> QED
    BY <1>1, <2>1, ThreadCountPositive DEF bucket_no, Argument
<1>3. M \in Nat /\ base \in Nat
  <2>1. CASE s[1] = "writing_sort"
    BY <2>1, SegmentsFit
       DEF IInv, ThreadInv, MainInv, TypeOK, SegmentSize, SegmentStart
  <2>2. CASE s[1] # "writing_sort"
    BY <2>2, ConfigAssumption DEF SegmentSize, SegmentStart
  <2> QED
    BY <2>1, <2>2
<1>4. Slice(M, T, s[2]) \cap Slice(M, T, t[2]) = {}
  <2> HIDE DEF M, T
  <2> QED
    BY <1>1, <1>3, SlicesDisjoint
<1>5. /\ SliceStart(M, T, s[2]) \in Nat /\ SliceEnd(M, T, s[2]) \in Nat
      /\ SliceStart(M, T, t[2]) \in Nat /\ SliceEnd(M, T, t[2]) \in Nat
  <2> HIDE DEF M, T
  <2> QED
    BY <1>1, <1>3, SliceWithin
<1>6. /\ start_index(s) = base + SliceStart(M, T, s[2])
      /\ end_index(s) = base + SliceEnd(M, T, s[2])
      /\ start_index(t) = base + SliceStart(M, T, t[2])
      /\ end_index(t) = base + SliceEnd(M, T, t[2])
  <2>1. SegmentStart(t) = base /\ SegmentSize(t[1]) = M /\ ThreadCount(t[1]) = T
    BY <1>1 DEF SegmentStart
  <2> QED
    BY <2>1 DEF start_index, end_index
<1>7. ASSUME NEW c \in Touches(s) \cap Touches(t)
      PROVE  FALSE
  <2> HIDE DEF M, T, base
  <2>1. c \in Int /\ c - base \in Slice(M, T, s[2])
    BY <1>3, <1>5, <1>6, <1>7 DEF Slice, Touches
  <2>2. c - base \in Slice(M, T, t[2])
    BY <1>3, <1>5, <1>6, <1>7 DEF Slice, Touches
  <2> QED
    BY <1>4, <2>1, <2>2
<1> QED
  BY <1>2, <1>7

(* The invariant is as strong as the two properties.                       *)
LEMMA RaceFreeFromIInv == IInv => RaceFree
  BY TouchesApart DEF RaceFree, Busy

LEMMA MemorySafeFromIInv == IInv => MemorySafe
<1> SUFFICES ASSUME IInv, NEW s \in Slot, Busy(s)
             PROVE  memory # "freed" /\ Touches(s) \subseteq Cell
  BY DEF MemorySafe
<1>1. thread[s] # "none"
  BY DEF Busy
<1>2. pc \in Role
  BY <1>1, SlotShape DEF IInv, ThreadInv
<1> QED
  BY <1>1, <1>2, TouchesWithin DEF IInv, MainInv

-----------------------------------------------------------------------------
(* The invariant is inductive *)

LEMMA InitIInv == Init => IInv
<1> SUFFICES ASSUME Init PROVE IInv
  OBVIOUS
<1>1. TypeOK
  <2>1. DOMAIN bucket = {}
    BY DEF Init
  <2>2. /\ arg \in [Slot -> Argument] /\ cursor \in [Slot -> Nat]
        /\ thread \in [Slot -> {"none", "running", "writing", "exited"}]
        /\ hashes \in [Cell -> Nonce \cup {Garbage}]
    BY DEF Init, Argument
  <2> QED
    BY <2>1, <2>2 DEF Init, TypeOK
<1>2. MainInv
  BY DEF Init, MainInv, Role
<1>3. ThreadInv
  BY DEF Init, ThreadInv
<1> QED
  BY <1>1, <1>2, <1>3 DEF IInv

(* At a barrier every thread of the phase has been joined: none exists.    *)
LEMMA BarrierEmpty ==
  ASSUME IInv, NEW r \in Role, AllJoined(r)
  PROVE  \A s \in Slot : thread[s] = "none"
<1> SUFFICES ASSUME NEW s \in Slot, thread[s] # "none" PROVE FALSE
  OBVIOUS
<1>1. pc = r /\ joined = ThreadCount(r) /\ spawned <= ThreadCount(r)
  BY DEF IInv, MainInv, AllJoined
<1>2. s[1] = r /\ joined <= s[2] /\ s[2] < spawned
  BY <1>1 DEF IInv, ThreadInv
<1>3. s[2] \in Nat /\ ThreadCount(r) \in Nat /\ spawned \in Nat
  BY SlotShape, ThreadCountPositive DEF IInv, TypeOK
<1> QED
  BY <1>1, <1>2, <1>3

(* Between the phases there is no thread either.                           *)
LEMMA QuietEmpty ==
  ASSUME IInv, pc \notin Role
  PROVE  \A s \in Slot : thread[s] = "none"
  BY SlotShape DEF IInv, ThreadInv

(* A step to a point without threads keeps ThreadInv.                      *)
LEMMA MallocStep == IInv /\ Malloc => IInv'
<1> SUFFICES ASSUME IInv, Malloc PROVE IInv'
  OBVIOUS
<1>1. \A s \in Slot : thread[s] = "none"
  BY QuietEmpty DEF Malloc, Role
<1>2. TypeOK'
  BY DEF IInv, TypeOK, Malloc, Role
<1>3. MainInv'
  <2>1. "hashing" \in Role /\ ThreadCount("hashing") \in Nat
    BY ThreadCountPositive DEF Role
  <2> QED
    BY <2>1 DEF IInv, MainInv, Malloc, Role
<1>4. ThreadInv'
  BY <1>1 DEF ThreadInv, Malloc
<1> QED
  BY <1>2, <1>3, <1>4 DEF IInv

LEMMA LeaveLoopStep == IInv /\ LeaveLoop => IInv'
<1> SUFFICES ASSUME IInv, LeaveLoop PROVE IInv'
  OBVIOUS
<1>1. \A s \in Slot : thread[s] = "none"
  BY QuietEmpty DEF LeaveLoop, Role
<1>2. TypeOK'
  BY DEF IInv, TypeOK, LeaveLoop, own
<1>3. MainInv'
  BY DEF IInv, MainInv, LeaveLoop, Role, own
<1>4. ThreadInv'
  BY <1>1 DEF ThreadInv, LeaveLoop, own
<1> QED
  BY <1>2, <1>3, <1>4 DEF IInv

LEMMA CreateStep == IInv /\ Create => IInv'
<1> SUFFICES ASSUME IInv, Create PROVE IInv'
  OBVIOUS
<1> DEFINE s == <<pc, spawned>>
<1>1. pc \in Role /\ spawned < ThreadCount(pc) /\ ThreadCount(pc) \in Nat
  BY ThreadCountPositive DEF Create, MoreToCreate
<1>2. s \in Slot /\ s[1] = pc /\ s[2] = spawned
  BY <1>1, SlotBuilt DEF IInv, TypeOK
<1>3. SliceStart(max_records, hash_threads, spawned) \in Nat
  <2>1. spawned \in Nat
    BY DEF IInv, TypeOK
  <2>2. PerThread(max_records, hash_threads) \in Nat
    BY ConfigAssumption, DivisionFits
  <2> QED
    BY <2>1, <2>2 DEF SliceStart
<1>4. TypeOK'
  BY <1>2, <1>3 DEF IInv, TypeOK, Create, Argument
<1>5. MainInv'
  BY <1>1 DEF IInv, TypeOK, MainInv, Create, Role
<1>6. ASSUME NEW t \in Slot, thread'[t] # "none"
      PROVE  /\ pc' = t[1]
             /\ joined' <= t[2] /\ t[2] < spawned'
             /\ arg'[t] = [x |-> j', k |-> k', bucket_start |-> no_files']
             /\ t[1] = "hashing" =>
                  SliceStart(max_records, hash_threads, t[2]) <= cursor'[t]
  <2>1. CASE t = s
    BY <1>1, <1>2, <1>3, <2>1 DEF IInv, TypeOK, MainInv, Create
  <2>2. CASE t # s
    <3>1. thread[t] # "none" /\ arg'[t] = arg[t] /\ cursor'[t] = cursor[t]
      BY <1>2, <1>6, <2>2 DEF IInv, TypeOK, Create
    <3>2. t[2] \in Nat
      BY SlotShape
    <3> QED
      BY <3>1, <3>2 DEF IInv, TypeOK, ThreadInv, Create
  <2> QED
    BY <2>1, <2>2
<1>7. ThreadInv'
  BY <1>6 DEF ThreadInv
<1> QED
  BY <1>4, <1>5, <1>7 DEF IInv

LEMMA NoArgumentStep == IInv /\ NoArgument => IInv'
<1> SUFFICES ASSUME IInv, NoArgument PROVE IInv'
  OBVIOUS
<1>1. TypeOK'
  BY DEF IInv, TypeOK, NoArgument, Crash
<1>2. MainInv'
  BY DEF MainInv, NoArgument, Crash, Role
<1>3. ThreadInv'
  BY DEF ThreadInv, NoArgument, Crash
<1> QED
  BY <1>1, <1>2, <1>3 DEF IInv

LEMMA JoinStep == IInv /\ Join => IInv'
<1> SUFFICES ASSUME IInv, Join PROVE IInv'
  OBVIOUS
<1> DEFINE s == <<pc, joined>>
<1>1. pc \in Role /\ joined < ThreadCount(pc) /\ ThreadCount(pc) \in Nat
  BY ThreadCountPositive DEF Join
<1>2. s \in Slot /\ s[1] = pc /\ s[2] = joined
  BY <1>1, SlotBuilt DEF IInv, TypeOK
<1>3. TypeOK'
  BY <1>2 DEF IInv, TypeOK, Join
<1>4. MainInv'
  BY <1>1 DEF IInv, TypeOK, MainInv, Join, Role
<1>5. ASSUME NEW t \in Slot, thread'[t] # "none"
      PROVE  /\ t # s /\ thread[t] # "none" /\ joined' <= t[2]
  <2>1. t # s /\ thread[t] # "none"
    BY <1>2, <1>5 DEF IInv, TypeOK, Join
  <2>2. t[1] = pc /\ joined <= t[2] /\ t[2] \in Nat /\ t = <<t[1], t[2]>>
    BY <2>1, SlotShape DEF IInv, ThreadInv
  <2>3. t[2] # joined
    BY <2>1, <2>2
  <2> QED
    BY <2>1, <2>2, <2>3 DEF IInv, TypeOK, Join
<1>6. ThreadInv'
  BY <1>5 DEF IInv, ThreadInv, Join
<1> QED
  BY <1>3, <1>4, <1>6 DEF IInv

(* The four barriers and free: main moves on only when no thread is left.  *)
LEMMA HashingDoneStep == IInv /\ HashingDone => IInv'
<1> SUFFICES ASSUME IInv, HashingDone PROVE IInv'
  OBVIOUS
<1>1. \A s \in Slot : thread[s] = "none"
  BY BarrierEmpty DEF HashingDone, Role
<1>2. TypeOK'
  BY DEF IInv, TypeOK, HashingDone, Role, own
<1>3. MainInv'
  <2>1. "sorting" \in Role /\ ThreadCount("sorting") \in Nat
    BY ThreadCountPositive DEF Role
  <2> QED
    BY <2>1 DEF IInv, MainInv, HashingDone, AllJoined, Role, own
<1>4. ThreadInv'
  BY <1>1 DEF ThreadInv, HashingDone, own
<1> QED
  BY <1>2, <1>3, <1>4 DEF IInv

LEMMA SortingDoneStep == IInv /\ SortingDone => IInv'
<1> SUFFICES ASSUME IInv, SortingDone PROVE IInv'
  OBVIOUS
<1>1. \A s \in Slot : thread[s] = "none"
  BY BarrierEmpty DEF SortingDone, Role
<1>2. TypeOK'
  BY DEF IInv, TypeOK, SortingDone, Role
<1>3. MainInv'
  <2>1. pc' \in Role /\ ThreadCount(pc') \in Nat
    BY ThreadCountPositive DEF Role, SortingDone
  <2>2. pc' = "writing_sort" => write_threads < sort_threads /\ 0 < write_iter
    <3>1. CASE write_threads < sort_threads
      BY <3>1, SegmentsFit
    <3>2. CASE ~(write_threads < sort_threads)
      BY <3>2, ConfigAssumption DEF SortingDone
    <3> QED
      BY <3>1, <3>2
  <2>3. j < iterations /\ memory # "freed"
    BY DEF IInv, MainInv, SortingDone, AllJoined, Role
  <2> QED
    BY <2>1, <2>2, <2>3 DEF MainInv, SortingDone, Role
<1>4. ThreadInv'
  BY <1>1 DEF ThreadInv, SortingDone
<1> QED
  BY <1>2, <1>3, <1>4 DEF IInv

LEMMA WritingWriteDoneStep == IInv /\ WritingWriteDone => IInv'
<1> SUFFICES ASSUME IInv, WritingWriteDone PROVE IInv'
  OBVIOUS
<1>1. \A s \in Slot : thread[s] = "none"
  BY BarrierEmpty DEF WritingWriteDone, Role
<1>2. TypeOK'
  BY ConfigAssumption DEF IInv, TypeOK, WritingWriteDone, BucketsAdded, own
<1>3. MainInv'
  BY DEF IInv, MainInv, WritingWriteDone, AllJoined, Role, own
<1>4. ThreadInv'
  BY <1>1 DEF ThreadInv, WritingWriteDone, own
<1> QED
  BY <1>2, <1>3, <1>4 DEF IInv

LEMMA WritingSortDoneStep == IInv /\ WritingSortDone => IInv'
<1> SUFFICES ASSUME IInv, WritingSortDone PROVE IInv'
  OBVIOUS
<1>1. \A s \in Slot : thread[s] = "none"
  BY BarrierEmpty DEF WritingSortDone, Role
<1>2. TypeOK'
  BY ConfigAssumption DEF IInv, TypeOK, WritingSortDone, BucketsAdded, NextRound, AllJoined, Role
<1>3. MainInv'
  <2>1. "writing_sort" \in Role /\ ThreadCount("writing_sort") \in Nat
    BY ThreadCountPositive DEF Role
  <2> QED
    BY <2>1 DEF IInv, MainInv, WritingSortDone, AllJoined, NextRound, Role
<1>4. ThreadInv'
  BY <1>1 DEF ThreadInv, WritingSortDone
<1> QED
  BY <1>2, <1>3, <1>4 DEF IInv

LEMMA FreeStep == IInv /\ Free => IInv'
<1> SUFFICES ASSUME IInv, Free PROVE IInv'
  OBVIOUS
<1>1. \A s \in Slot : thread[s] = "none"
  BY QuietEmpty DEF Free, Role
<1>2. TypeOK'
  <2>1. memory' \in {"freed", "null", "live"}
    BY DEF Free
  <2> QED
    BY <2>1 DEF IInv, TypeOK, Free
<1>3. MainInv'
  BY DEF IInv, MainInv, Free, Role
<1>4. ThreadInv'
  BY <1>1 DEF ThreadInv, Free
<1> QED
  BY <1>2, <1>3, <1>4 DEF IInv

(* What a thread's step may change keeps main's part of the invariant.     *)
LEMMA ThreadInvKept ==
  ASSUME IInv, NEW s \in Slot, thread[s] # "none",
         UNCHANGED <<pc, spawned, joined, no_files, j, k, arg>>,
         \E v \in {"running", "writing", "exited"} : thread' = [thread EXCEPT ![s] = v],
         \A t \in Slot : cursor'[t] >= cursor[t] /\ cursor'[t] \in Nat
  PROVE  ThreadInv'
<1> SUFFICES ASSUME NEW t \in Slot, thread'[t] # "none"
             PROVE  /\ pc' = t[1]
                    /\ joined' <= t[2] /\ t[2] < spawned'
                    /\ arg'[t] = [x |-> j', k |-> k', bucket_start |-> no_files']
                    /\ t[1] = "hashing" =>
                         SliceStart(max_records, hash_threads, t[2]) <= cursor'[t]
  BY DEF ThreadInv
<1>1. thread[t] # "none"
  BY DEF IInv, TypeOK
<1>2. ASSUME t[1] = "hashing"
      PROVE  SliceStart(max_records, hash_threads, t[2]) <= cursor'[t]
  <2>1. SliceStart(max_records, hash_threads, t[2]) \in Nat
    <3>1. t[2] \in 0 .. (hash_threads - 1) /\ hash_threads \in Nat \ {0} /\ max_records \in Nat
      BY <1>2, SlotShape, ConfigAssumption DEF ThreadCount
    <3> QED
      BY <3>1, SliceWithin
  <2>2. SliceStart(max_records, hash_threads, t[2]) <= cursor[t] /\ cursor[t] \in Nat
    BY <1>1, <1>2 DEF IInv, ThreadInv, TypeOK
  <2> QED
    BY <2>1, <2>2
<1> QED
  BY <1>1, <1>2 DEF IInv, ThreadInv

(* The nonce a thread computes is one of those that were asked for.        *)
LEMMA HashedNonceTyped ==
  ASSUME IInv, NEW s \in Slot, Running(s, "hashing"), cursor[s] < end_index(s)
  PROVE  cursor[s] \in Cell /\ HashedNonce(s) \in Nonce
<1>1. /\ cursor[s] \in Nat /\ cursor[s] < max_records /\ max_records \in Nat
  BY TouchesWithin, ConfigAssumption DEF IInv, TypeOK, Running
<1>2. arg[s].x = j /\ j \in Nat /\ j < iterations
  BY DEF IInv, TypeOK, MainInv, ThreadInv, Running, Role
<1>3. /\ iterations \in Nat /\ total_hash_count \in Nat
      /\ iterations * max_records <= total_hash_count
  BY IterationsFit, ConfigAssumption
<1>4. j * max_records \in Nat /\ (j + 1) * max_records <= iterations * max_records
  BY <1>1, <1>2, <1>3, TimesMonotone, j + 1 \in Nat, j + 1 <= iterations
<1>5. j * max_records + cursor[s] < total_hash_count
  BY <1>1, <1>2, <1>3, <1>4
<1> QED
  BY <1>1, <1>2, <1>3, <1>4, <1>5 DEF HashedNonce, Nonce, Cell

LEMMA HashRecordStep ==
  ASSUME IInv, NEW s \in Slot, HashRecord(s)
  PROVE  IInv'
<1>1. cursor[s] \in Cell /\ cursor[s] \in Nat /\ HashedNonce(s) \in Nonce
  BY HashedNonceTyped DEF HashRecord, IInv, TypeOK
<1>2. TypeOK'
  BY <1>1 DEF IInv, TypeOK, HashRecord, shared
<1>3. MainInv'
  BY DEF IInv, MainInv, HashRecord, shared
<1>4. ThreadInv'
  <2>1. thread[s] # "none" /\ thread' = [thread EXCEPT ![s] = "running"]
    BY DEF HashRecord, Running, IInv, TypeOK
  <2>2. \A t \in Slot : cursor'[t] >= cursor[t] /\ cursor'[t] \in Nat
    BY <1>1 DEF IInv, TypeOK, HashRecord
  <2> QED
    BY <2>1, <2>2, ThreadInvKept DEF HashRecord, shared
<1> QED
  BY <1>2, <1>3, <1>4 DEF IInv

(* A step of s that leaves the cursors alone and sets its state to v.      *)
LEMMA CursorsKept ==
  ASSUME IInv, UNCHANGED cursor
  PROVE  \A t \in Slot : cursor'[t] >= cursor[t] /\ cursor'[t] \in Nat
  BY DEF IInv, TypeOK

LEMMA HashReturnStep ==
  ASSUME IInv, NEW s \in Slot, HashReturn(s)
  PROVE  IInv'
<1>1. TypeOK'
  BY DEF IInv, TypeOK, HashReturn, Exit, shared
<1>2. MainInv'
  BY DEF IInv, MainInv, HashReturn, shared
<1>3. ThreadInv'
  BY ThreadInvKept, CursorsKept DEF HashReturn, Running, Exit, shared
<1> QED
  BY <1>1, <1>2, <1>3 DEF IInv

LEMMA NullStoreStep ==
  ASSUME IInv, NEW s \in Slot, NullStore(s)
  PROVE  IInv'
<1>1. TypeOK'
  BY DEF IInv, TypeOK, NullStore, Crash
<1>2. MainInv'
  BY DEF MainInv, NullStore, Crash, Role
<1>3. ThreadInv'
  BY DEF ThreadInv, NullStore, Crash
<1> QED
  BY <1>1, <1>2, <1>3 DEF IInv

LEMMA QSortStep ==
  ASSUME IInv, NEW s \in Slot, QSort(s)
  PROVE  IInv'
<1>1. thread[s] # "none" /\ Touches(s) \subseteq Cell
  BY TouchesWithin DEF QSort, Running
<1>2. hashes' \in [Cell -> Nonce \cup {Garbage}]
  <2>1. PICK p \in Rearrangements(Touches(s)) :
          hashes' = [c \in Cell |->
            IF c \in Touches(s) THEN [d \in Touches(s) |-> hashes[p[d]]][c]
                                ELSE hashes[c]]
    BY DEF QSort
  <2>2. \A c \in Touches(s) : p[c] \in Cell
    BY <1>1, <2>1 DEF Rearrangements
  <2> QED
    BY <2>1, <2>2 DEF IInv, TypeOK
<1>3. TypeOK'
  BY <1>2 DEF IInv, TypeOK, QSort, Exit, shared
<1>4. MainInv'
  BY DEF IInv, MainInv, QSort, shared
<1>5. ThreadInv'
  BY <1>1, ThreadInvKept, CursorsKept DEF QSort, Exit, shared
<1> QED
  BY <1>3, <1>4, <1>5 DEF IInv

(* An interval that starts at 1 determines its end.                        *)
LEMMA IntervalEnd ==
  ASSUME NEW m \in Nat, NEW n \in Nat, 1 .. m = 1 .. n
  PROVE  m = n
<1>1. CASE m < n
  BY <1>1, n \in 1 .. n, n \notin 1 .. m
<1>2. CASE n < m
  BY <1>2, m \in 1 .. m, m \notin 1 .. n
<1> QED
  BY <1>1, <1>2

(* What a writer stores is a sequence of array cells.                      *)
LEMMA SliceRecordsTyped ==
  ASSUME IInv, NEW s \in Slot, thread[s] # "none"
  PROVE  /\ SliceRecords(s) \in Seq(Nonce \cup {Garbage})
         /\ \A n \in Nat : n < Len(SliceRecords(s)) =>
              SubSeq(SliceRecords(s), 1, n) \in Seq(Nonce \cup {Garbage})
<1> DEFINE R == Nonce \cup {Garbage}
           len == end_index(s) - start_index(s)
<1>1. /\ start_index(s) \in Nat /\ end_index(s) \in Nat
      /\ start_index(s) <= end_index(s) /\ end_index(s) <= max_records
      /\ max_records \in Nat
  BY TouchesWithin, ConfigAssumption
<1>2. ASSUME NEW n \in 1 .. len PROVE hashes[start_index(s) + n - 1] \in R
  <2>1. start_index(s) + n - 1 \in Cell
    BY <1>1 DEF Cell
  <2> QED
    BY <2>1 DEF IInv, TypeOK
<1>3. len \in Nat
  BY <1>1
<1>4. SliceRecords(s) \in Seq(R) /\ Len(SliceRecords(s)) = len
  <2> HIDE DEF len, R
  <2>1. SliceRecords(s) = [n \in 1 .. len |-> hashes[start_index(s) + n - 1]]
    BY DEF SliceRecords, len
  <2>2. SliceRecords(s) \in [1 .. len -> R]
    BY <1>2, <2>1
  <2>3. SliceRecords(s) \in Seq(R)
    <3>1. SliceRecords(s) \in UNION {[1 .. n -> R] : n \in Nat}
      BY <1>3, <2>2
    <3> QED
      BY <3>1, SeqDef
  <2>4. /\ Len(SliceRecords(s)) \in Nat
        /\ 1 .. Len(SliceRecords(s)) = 1 .. len
    BY <2>2, <2>3, LenProperties
  <2>5. Len(SliceRecords(s)) = len
    BY <1>3, <2>4, IntervalEnd
  <2> QED
    BY <2>3, <2>5
<1>5. ASSUME NEW n \in Nat, n < Len(SliceRecords(s))
      PROVE  SubSeq(SliceRecords(s), 1, n) \in Seq(R)
  <2> HIDE DEF len, R
  <2>1. \A i \in 1 .. n : SliceRecords(s)[i] \in R
    BY <1>3, <1>4, <1>5, ElementOfSeq
  <2> QED
    BY <2>1, SubSeqProperties
<1> QED
  BY <1>4, <1>5

(* A bucket number is a number, and storing records keeps the buckets typed.*)
LEMMA BucketsWithTyped ==
  ASSUME IInv, NEW s \in Slot, thread[s] # "none",
         NEW recs \in Seq(Nonce \cup {Garbage}),
         bucket' = BucketsWith(bucket_no(s), recs)
  PROVE  \A b \in DOMAIN bucket' : b \in Nat /\ bucket'[b] \in Seq(Nonce \cup {Garbage})
<1>1. bucket_no(s) \in Nat
  <2>1. s[2] \in Nat /\ arg[s] \in Argument /\ write_threads \in Nat
    BY SlotShape, ConfigAssumption DEF IInv, TypeOK
  <2>2. arg[s].bucket_start \in Nat /\ arg[s].k \in Nat
    BY <2>1 DEF Argument
  <2>3. write_threads * arg[s].k \in Nat
    BY <2>1, <2>2
  <2>4. CASE s[1] = "writing_sort"
    <3>1. bucket_no(s) = arg[s].bucket_start + write_threads * arg[s].k + s[2]
      BY <2>4 DEF bucket_no
    <3> QED
      BY <2>1, <2>2, <2>3, <3>1
  <2>5. CASE s[1] # "writing_sort"
    <3>1. bucket_no(s) = arg[s].bucket_start + 0 + s[2]
      BY <2>5 DEF bucket_no
    <3> QED
      BY <2>1, <2>2, <3>1
  <2> QED
    BY <2>4, <2>5
<1>2. \A b \in DOMAIN bucket : b \in Nat /\ bucket[b] \in Seq(Nonce \cup {Garbage})
  BY DEF IInv, TypeOK
<1> QED
  BY <1>1, <1>2 DEF BucketsWith

LEMMA OpenBucketStep ==
  ASSUME IInv, NEW s \in Slot, OpenBucket(s)
  PROVE  IInv'
<1>1. thread[s] # "none" /\ \E v \in {"writing", "exited"} : thread' = [thread EXCEPT ![s] = v]
  BY DEF OpenBucket, Exit
<1>2. \A b \in DOMAIN bucket' : b \in Nat /\ bucket'[b] \in Seq(Nonce \cup {Garbage})
  <2>1. CASE bucket' = bucket
    BY <2>1 DEF IInv, TypeOK
  <2>2. CASE bucket' = BucketsWith(bucket_no(s), <<>>)
    BY <1>1, <2>2, BucketsWithTyped, EmptySeq
  <2> QED
    BY <2>1, <2>2 DEF OpenBucket
<1>3. thread' \in [Slot -> {"none", "running", "writing", "exited"}]
  BY <1>1 DEF IInv, TypeOK
<1>4. TypeOK'
  BY <1>2, <1>3 DEF IInv, TypeOK, OpenBucket
<1>5. MainInv'
  BY DEF IInv, MainInv, OpenBucket
<1>6. ThreadInv'
  <2>1. \A t \in Slot : thread'[t] # "none" => thread[t] # "none"
    BY <1>1 DEF IInv, TypeOK
  <2> QED
    BY <2>1 DEF IInv, ThreadInv, OpenBucket
<1> QED
  BY <1>4, <1>5, <1>6 DEF IInv

LEMMA WriteBucketStep ==
  ASSUME IInv, NEW s \in Slot, WriteBucket(s)
  PROVE  IInv'
<1>1. thread[s] # "none"
  BY DEF WriteBucket
<1>2. \A b \in DOMAIN bucket' : b \in Nat /\ bucket'[b] \in Seq(Nonce \cup {Garbage})
  <2>1. CASE bucket' = BucketsWith(bucket_no(s), SliceRecords(s))
    BY <1>1, <2>1, BucketsWithTyped, SliceRecordsTyped
  <2>2. CASE \E n \in 0 .. (Len(SliceRecords(s)) - 1) :
               bucket' = BucketsWith(bucket_no(s), SubSeq(SliceRecords(s), 1, n))
    <3>1. PICK n \in 0 .. (Len(SliceRecords(s)) - 1) :
               bucket' = BucketsWith(bucket_no(s), SubSeq(SliceRecords(s), 1, n))
      BY <2>2
    <3>2. SubSeq(SliceRecords(s), 1, n) \in Seq(Nonce \cup {Garbage})
      <4>1. Len(SliceRecords(s)) \in Nat
        BY <1>1, SliceRecordsTyped, LenProperties
      <4> QED
        BY <1>1, <3>1, <4>1, SliceRecordsTyped
    <3> QED
      BY <1>1, <3>1, <3>2, BucketsWithTyped
  <2> QED
    BY <2>1, <2>2 DEF WriteBucket
<1>3. TypeOK'
  BY <1>2 DEF IInv, TypeOK, WriteBucket, Exit
<1>4. MainInv'
  BY DEF IInv, MainInv, WriteBucket
<1>5. ThreadInv'
  BY <1>1, ThreadInvKept, CursorsKept DEF WriteBucket, Exit
<1> QED
  BY <1>3, <1>4, <1>5 DEF IInv

LEMMA StutterStep == IInv /\ UNCHANGED vars => IInv'
  BY DEF IInv, TypeOK, MainInv, ThreadInv, vars, shared, own

LEMMA NextIInv == IInv /\ [Next]_vars => IInv'
<1> SUFFICES ASSUME IInv, [Next]_vars PROVE IInv'
  OBVIOUS
<1>1. CASE Main
  BY <1>1, MallocStep, LeaveLoopStep, CreateStep, NoArgumentStep, JoinStep,
     HashingDoneStep, SortingDoneStep, WritingWriteDoneStep, WritingSortDoneStep, FreeStep DEF Main
<1>2. CASE \E s \in Slot : Worker(s)
  BY <1>2, HashRecordStep, HashReturnStep, NullStoreStep, QSortStep,
     OpenBucketStep, WriteBucketStep DEF Worker
<1>3. CASE Over \/ UNCHANGED vars
  BY <1>3, StutterStep DEF Over
<1> QED
  BY <1>1, <1>2, <1>3 DEF Next, Step

LEMMA IInvAlways == Spec => []IInv
  BY InitIInv, NextIInv, PTL DEF Spec

-----------------------------------------------------------------------------
(* The results *)

(* Every variable keeps its type: in particular every cell a thread writes *)
(* exists, and every nonce that is hashed was asked for.                   *)
THEOREM GenerateTypeCorrect == Spec => []TypeOK
<1>1. IInv => TypeOK
  BY DEF IInv
<1> QED
  BY <1>1, IInvAlways, PTL

(* hashgen.c shares the array and the directory between its threads        *)
(* without a lock, and no two threads ever touch the same record or write  *)
(* the same bucket at the same time: for any options, any remainder of the *)
(* divisions, and also when library calls fail.                            *)
THEOREM GenerateRaceFree == Spec => []RaceFree
  BY IInvAlways, RaceFreeFromIInv, PTL

(* free(hashes) never takes the array away from a running thread, and no   *)
(* thread leaves the array.                                                *)
THEOREM GenerateMemorySafe == Spec => []MemorySafe
  BY IInvAlways, MemorySafeFromIInv, PTL

-----------------------------------------------------------------------------
(* The numbers of the buckets *)

(* The number of the bucket the first writer of this round stores.         *)
round_start == no_files + (IF pc = "writing_sort" THEN write_threads * k ELSE 0)

WriterRole == {"writing_write", "writing_sort"}

(* A bucket that exists was written before this round, or belongs to a     *)
(* thread of this round that has passed its fopen.                         *)
Numbering ==
  \A b \in DOMAIN bucket :
    \/ b < round_start
    \/ \E n \in 0 .. (spawned - 1) :
         /\ pc \in WriterRole /\ n < ThreadCount(pc)
         /\ b = round_start + n
         /\ thread[<<pc, n>>] # "running"

FilesInv == IInv /\ (pc # "crashed" => Numbering)

-----------------------------------------------------------------------------

LEMMA NatTimes ==
  ASSUME NEW a \in Nat, NEW b \in Nat
  PROVE  a * b \in Nat
  OBVIOUS

LEMMA NatSum ==
  ASSUME NEW a \in Nat, NEW b \in Nat
  PROVE  a + b \in Nat /\ a <= a + b
  OBVIOUS

LEMMA SumCancels ==
  ASSUME NEW a \in Int, NEW b \in Int, NEW c \in Int, a + b = a + c
  PROVE  b = c
  OBVIOUS

LEMMA RoundStartTyped ==
  ASSUME TypeOK
  PROVE  /\ round_start \in Nat /\ no_files <= round_start
         /\ write_threads * k \in Nat
<1>1. no_files \in Nat /\ k \in Nat /\ write_threads \in Nat
  BY ConfigAssumption DEF TypeOK
<1>2. write_threads * k \in Nat
  BY <1>1
<1> QED
  BY <1>1, <1>2 DEF round_start

(* The place a live writer's bucket has in this round.                     *)
LEMMA BucketOfRound ==
  ASSUME IInv, NEW s \in Slot, Writer(s), thread[s] # "none"
  PROVE  /\ bucket_no(s) = round_start + s[2]
         /\ s = <<pc, s[2]>> /\ pc \in WriterRole
         /\ s[2] \in 0 .. (spawned - 1) /\ s[2] < ThreadCount(pc)
<1>1. /\ pc = s[1] /\ s[2] < spawned
      /\ arg[s].k = k /\ arg[s].bucket_start = no_files
  BY DEF IInv, ThreadInv
<1>2. s = <<s[1], s[2]>> /\ s[2] \in 0 .. (ThreadCount(s[1]) - 1)
  BY SlotShape
<1>3. ThreadCount(s[1]) \in Nat /\ spawned \in Nat /\ no_files \in Nat
  BY SlotShape, ThreadCountPositive DEF IInv, TypeOK
<1>4. bucket_no(s) = round_start + s[2]
  <2>1. write_threads * k \in Nat
    BY RoundStartTyped DEF IInv
  <2>2. CASE pc = "writing_sort"
    BY <1>1, <1>2, <1>3, <2>1, <2>2 DEF bucket_no, round_start
  <2>3. CASE pc # "writing_sort"
    BY <1>1, <1>2, <1>3, <2>3 DEF bucket_no, round_start
  <2> QED
    BY <2>2, <2>3
<1> QED
  BY <1>1, <1>2, <1>3, <1>4 DEF Writer, WriterRole

(* When a writer opens its bucket, no bucket has that number.              *)
LEMMA OpensNew ==
  ASSUME IInv, Numbering, NEW s \in Slot, Writer(s), thread[s] = "running"
  PROVE  bucket_no(s) \notin DOMAIN bucket
<1> SUFFICES ASSUME bucket_no(s) \in DOMAIN bucket PROVE FALSE
  OBVIOUS
<1>1. /\ bucket_no(s) = round_start + s[2]
      /\ s = <<pc, s[2]>> /\ s[2] \in 0 .. (spawned - 1)
  BY BucketOfRound
<1>2. round_start \in Nat
  BY RoundStartTyped DEF IInv
<1>3. PICK n \in 0 .. (spawned - 1) :
        bucket_no(s) = round_start + n /\ thread[<<pc, n>>] # "running"
  BY <1>1, <1>2 DEF Numbering
<1>4. n = s[2]
  <2>1. n \in Int /\ s[2] \in Int
    BY <1>1, <1>3
  <2>2. round_start + n = round_start + s[2]
    BY <1>1, <1>3
  <2> QED
    BY <1>2, <2>1, <2>2, SumCancels
<1> QED
  BY <1>1, <1>3, <1>4

-----------------------------------------------------------------------------
(* The invariant is inductive *)

LEMMA InitNumbering == Init => Numbering
<1>1. Init => DOMAIN bucket = {}
  BY DEF Init
<1> QED
  BY <1>1 DEF Numbering

(* Outside the writing phases every bucket is counted in no_files.         *)
LEMMA CountedOutside ==
  ASSUME IInv, Numbering, pc \notin WriterRole
  PROVE  \A b \in DOMAIN bucket : b < no_files
<1>1. round_start = no_files + 0 /\ no_files \in Nat
  BY DEF round_start, WriterRole, IInv, TypeOK
<1>2. \A b \in DOMAIN bucket : b < round_start
  BY DEF Numbering
<1> QED
  BY <1>1, <1>2

(* The steps of main that do not write: between the phases a bucket only   *)
(* has to be counted.                                                      *)
LEMMA BetweenNumbering ==
  ASSUME IInv, Numbering,
         Malloc \/ LeaveLoop \/ HashingDone \/ SortingDone \/ Free
  PROVE  Numbering'
<1>1. pc \notin WriterRole /\ bucket' = bucket /\ no_files' = no_files
  BY DEF Malloc, LeaveLoop, HashingDone, SortingDone, Free, AllJoined,
         WriterRole, own
<1>2. \A b \in DOMAIN bucket : b \in Nat /\ b < no_files
  BY <1>1, CountedOutside DEF IInv, TypeOK
<1>3. k' \in Nat /\ write_threads \in Nat /\ no_files \in Nat
  BY ConfigAssumption DEF IInv, TypeOK, Malloc, LeaveLoop, HashingDone, SortingDone,
     Free, own
<1>4. write_threads * k' \in Nat
  BY <1>3, NatTimes
<1>5. no_files <= round_start' /\ round_start' \in Nat
  <2>1. CASE pc' = "writing_sort"
    <3>1. round_start' = no_files' + write_threads * k'
      BY <2>1 DEF round_start
    <3> QED
      BY <1>1, <1>3, <1>4, <3>1, NatSum
  <2>2. CASE pc' # "writing_sort"
    <3>1. round_start' = no_files + 0
      BY <1>1, <2>2 DEF round_start
    <3> QED
      BY <1>3, <3>1
  <2> QED
    BY <2>1, <2>2
<1>6. \A b \in DOMAIN bucket' : b < round_start'
  BY <1>1, <1>2, <1>3, <1>5
<1> QED
  BY <1>6 DEF Numbering

LEMMA CreateNumbering ==
  ASSUME IInv, Numbering, Create
  PROVE  Numbering'
<1>1. /\ pc' = pc /\ bucket' = bucket /\ no_files' = no_files /\ k' = k
      /\ spawned \in Nat /\ spawned' = spawned + 1
      /\ thread' = [thread EXCEPT ![<<pc, spawned>>] = "running"]
  BY DEF Create, IInv, TypeOK
<1>2. round_start' = round_start
  BY <1>1 DEF round_start
<1>3. \A n \in 0 .. (spawned - 1) : thread'[<<pc, n>>] = thread[<<pc, n>>]
  BY <1>1 DEF IInv, TypeOK
<1>4. 0 .. (spawned - 1) \subseteq 0 .. (spawned' - 1)
  BY <1>1
<1> QED
  BY <1>1, <1>2, <1>3, <1>4 DEF Numbering

(* A step in which no bucket appears, main stays where it is and no thread *)
(* is started keeps the numbering.                                         *)
LEMMA NumberingKept ==
  ASSUME Numbering, pc' = pc, spawned' = spawned, no_files' = no_files, k' = k,
         DOMAIN bucket' = DOMAIN bucket,
         \A s \in Slot : thread[s] # "running" => thread'[s] # "running"
  PROVE  Numbering'
<1>1. round_start' = round_start
  BY DEF round_start
<1>2. ASSUME NEW n \in Nat, pc \in WriterRole, n < ThreadCount(pc)
      PROVE  <<pc, n>> \in Slot
  BY <1>2, SlotBuilt, ThreadCountPositive DEF WriterRole, Role
<1>3. \A n \in 0 .. (spawned - 1) : n \in Nat
  OBVIOUS
<1> QED
  BY <1>1, <1>2, <1>3 DEF Numbering

LEMMA WriterCounts ==
  /\ ThreadCount("writing_write") = sort_threads
  /\ ThreadCount("writing_sort") = write_threads
  BY DEF ThreadCount

(* At the end of a round the buckets are below the next round's.           *)
LEMMA InRound ==
  ASSUME IInv, Numbering, pc \in WriterRole, NEW b \in DOMAIN bucket
  PROVE  b < round_start + ThreadCount(pc)
<1>1. round_start \in Nat /\ ThreadCount(pc) \in Nat \ {0} /\ b \in Nat
  BY RoundStartTyped, ThreadCountPositive DEF IInv, TypeOK, WriterRole, Role
<1>2. CASE b < round_start
  BY <1>1, <1>2
<1>3. CASE \E n \in 0 .. (spawned - 1) : n < ThreadCount(pc) /\ b = round_start + n
  <2>1. PICK n \in 0 .. (spawned - 1) : n < ThreadCount(pc) /\ b = round_start + n
    BY <1>3
  <2>2. n \in Int
    OBVIOUS
  <2> QED
    BY <1>1, <2>1, <2>2
<1> QED
  BY <1>2, <1>3 DEF Numbering

(* no_files += sort_threads counts the buckets of all rounds.              *)
LEMMA WritingWriteNumbering ==
  ASSUME IInv, Numbering, WritingWriteDone
  PROVE  Numbering'
<1>1. /\ pc = "writing_write" /\ pc' = "free" /\ bucket' = bucket
      /\ no_files' = no_files + sort_threads
      /\ no_files \in Nat /\ sort_threads \in Nat
  BY ConfigAssumption
     DEF WritingWriteDone, AllJoined, BucketsAdded, IInv, TypeOK
<1>2. round_start = no_files /\ round_start' = no_files'
  BY <1>1 DEF round_start
<1>3. ThreadCount(pc) = sort_threads
  BY <1>1, WriterCounts
<1>4. \A b \in DOMAIN bucket : b < no_files + sort_threads
  BY <1>1, <1>2, <1>3, InRound DEF WriterRole
<1> QED
  BY <1>1, <1>2, <1>4 DEF Numbering

LEMMA RoundsFit ==
  ASSUME IInv, pc = "writing_sort"
  PROVE  write_threads * (k + 1) <= sort_threads
<1>1. /\ write_threads < sort_threads /\ k \in Nat /\ k < write_iter
      /\ write_threads \in Nat \ {0} /\ sort_threads \in Nat
  BY ConfigAssumption DEF IInv, MainInv, TypeOK
<1>2. /\ write_iter = PerThread(sort_threads, write_threads)
      /\ write_iter \in Nat /\ write_threads * write_iter <= sort_threads
  BY <1>1, DivisionFits DEF write_iter, PerThread
<1>3. (k + 1) * write_threads <= write_iter * write_threads
  BY <1>1, <1>2, TimesMonotone, k + 1 \in Nat, k + 1 <= write_iter
<1>4. /\ (k + 1) * write_threads = write_threads * (k + 1)
      /\ write_iter * write_threads = write_threads * write_iter
      /\ write_threads * (k + 1) \in Nat /\ write_threads * write_iter \in Nat
  BY <1>1, <1>2
<1> QED
  BY <1>1, <1>2, <1>3, <1>4

LEMMA WritingSortNumbering ==
  ASSUME IInv, Numbering, WritingSortDone
  PROVE  Numbering'
<1>1. /\ pc = "writing_sort" /\ bucket' = bucket /\ k' = k + 1
      /\ k \in Nat /\ no_files \in Nat /\ sort_threads \in Nat /\ write_threads \in Nat
      /\ ThreadCount(pc) = write_threads
  BY ConfigAssumption, WriterCounts
     DEF WritingSortDone, AllJoined, NextRound, IInv, TypeOK
<1>2. /\ write_threads * k \in Nat
      /\ write_threads * (k + 1) = write_threads * k + write_threads
  BY <1>1
<1>3. write_threads * (k + 1) <= sort_threads
  BY <1>1, RoundsFit
<1>4. round_start = no_files + write_threads * k
  BY <1>1 DEF round_start
<1>5. ASSUME NEW b \in DOMAIN bucket
      PROVE  b \in Nat /\ b < no_files + (write_threads * k + write_threads)
  <2>1. b \in Nat
    BY DEF IInv, TypeOK
  <2>2. b < round_start + write_threads
    BY <1>1, InRound DEF WriterRole
  <2> QED
    BY <1>1, <1>2, <1>4, <2>1, <2>2
<1>6. \/ pc' = "writing_sort" /\ no_files' = no_files
      \/ pc' = "free" /\ no_files' = no_files + sort_threads
  BY <1>1 DEF WritingSortDone, BucketsAdded
<1>7. \A b \in DOMAIN bucket : b < round_start'
  <2>1. CASE pc' = "writing_sort" /\ no_files' = no_files
    <3>1. round_start' = no_files + (write_threads * k + write_threads)
      BY <1>1, <1>2, <2>1 DEF round_start
    <3> QED
      BY <1>5, <3>1
  <2>2. CASE pc' = "free" /\ no_files' = no_files + sort_threads
    <3>1. round_start' = no_files + sort_threads
      BY <1>1, <2>2 DEF round_start
    <3> QED
      BY <1>1, <1>2, <1>3, <1>5, <3>1
  <2> QED
    BY <1>6, <2>1, <2>2
<1> QED
  BY <1>1, <1>7 DEF Numbering

(* A writer that has opened its bucket, or failed to, is not running, and  *)
(* the bucket it adds has its place in the round.                          *)
LEMMA WriterNumbering ==
  ASSUME IInv, Numbering, NEW s \in Slot, OpenBucket(s) \/ WriteBucket(s)
  PROVE  Numbering'
<1>1. /\ Writer(s) /\ thread[s] # "none"
      /\ pc' = pc /\ spawned' = spawned /\ no_files' = no_files /\ k' = k
      /\ \E v \in {"writing", "exited"} : thread' = [thread EXCEPT ![s] = v]
  BY DEF OpenBucket, WriteBucket, Exit
<1>2. DOMAIN bucket' \subseteq DOMAIN bucket \cup {bucket_no(s)}
  BY DEF OpenBucket, WriteBucket, BucketsWith
<1>3. round_start' = round_start
  BY <1>1 DEF round_start
<1>4. \A t \in Slot : thread[t] # "running" => thread'[t] # "running"
  BY <1>1 DEF IInv, TypeOK
<1>5. ASSUME NEW n \in Nat, pc \in WriterRole, n < ThreadCount(pc)
      PROVE  <<pc, n>> \in Slot
  BY <1>5, SlotBuilt, ThreadCountPositive DEF WriterRole, Role
<1>6. /\ bucket_no(s) = round_start + s[2] /\ s = <<pc, s[2]>> /\ pc \in WriterRole
      /\ s[2] \in 0 .. (spawned - 1) /\ s[2] < ThreadCount(pc)
  BY <1>1, BucketOfRound
<1>7. thread'[<<pc, s[2]>>] # "running"
  BY <1>1, <1>6 DEF IInv, TypeOK
<1> SUFFICES ASSUME NEW b \in DOMAIN bucket'
             PROVE  \/ b < round_start
                    \/ \E n \in 0 .. (spawned - 1) :
                         /\ pc \in WriterRole /\ n < ThreadCount(pc)
                         /\ b = round_start + n
                         /\ thread'[<<pc, n>>] # "running"
  BY <1>1, <1>3 DEF Numbering
<1>8. CASE b \in DOMAIN bucket
  BY <1>4, <1>5, <1>8 DEF Numbering
<1>9. CASE b = bucket_no(s)
  BY <1>6, <1>7, <1>9
<1> QED
  BY <1>2, <1>8, <1>9

LEMMA ThreadNumbering ==
  ASSUME IInv, Numbering, NEW s \in Slot,
         HashRecord(s) \/ HashReturn(s) \/ QSort(s)
  PROVE  Numbering'
<1>1. /\ pc' = pc /\ spawned' = spawned /\ no_files' = no_files /\ k' = k
      /\ bucket' = bucket
  BY DEF HashRecord, HashReturn, QSort, shared
<1>2. thread' = thread \/ Exit(s)
  BY DEF HashRecord, HashReturn, QSort
<1>3. \A t \in Slot : thread[t] # "running" => thread'[t] # "running"
  BY <1>2 DEF Exit, IInv, TypeOK
<1> QED
  BY <1>1, <1>3, NumberingKept

LEMMA JoinNumbering ==
  ASSUME IInv, Numbering, Join
  PROVE  Numbering'
<1>1. \A t \in Slot : thread[t] # "running" => thread'[t] # "running"
  BY DEF Join, IInv, TypeOK
<1> QED
  BY <1>1, NumberingKept DEF Join

LEMMA NextFilesInv == FilesInv /\ [Next]_vars => FilesInv'
<1> SUFFICES ASSUME FilesInv, [Next]_vars, pc' # "crashed" PROVE Numbering'
  BY NextIInv DEF FilesInv
<1>1. CASE UNCHANGED vars
  <2>1. IInv /\ Numbering
    BY <1>1 DEF FilesInv, vars, shared
  <2> QED
    BY <1>1, <2>1, NumberingKept DEF vars, shared, own
<1>2. CASE Over
  BY <1>1, <1>2 DEF Over
<1>3. CASE Main
  <2>1. pc # "crashed"
    BY <1>3 DEF Main, Malloc, LeaveLoop, Create, NoArgument, Crash, Join, HashingDone,
       SortingDone, WritingWriteDone, WritingSortDone, Free, AllJoined, Role
  <2> QED
    BY <1>3, <2>1, BetweenNumbering, CreateNumbering, JoinNumbering,
       WritingWriteNumbering, WritingSortNumbering
       DEF FilesInv, Main, NoArgument, Crash
<1>4. ASSUME NEW s \in Slot, Worker(s) PROVE Numbering'
  <2>1. pc # "crashed"
    <3>1. thread[s] # "none"
      BY <1>4 DEF Worker, HashRecord, HashReturn, NullStore, QSort, OpenBucket,
         WriteBucket, Running
    <3> QED
      BY <3>1, SlotShape DEF FilesInv, IInv, ThreadInv, Role
  <2> QED
    BY <1>4, <2>1, ThreadNumbering, WriterNumbering
       DEF FilesInv, Worker, NullStore, Crash
<1> QED
  BY <1>1, <1>2, <1>3, <1>4 DEF Next, Step

LEMMA FilesInvAlways == Spec => []FilesInv
<1>1. Init => FilesInv
  BY InitIInv, InitNumbering DEF FilesInv
<1> QED
  BY <1>1, NextFilesInv, PTL DEF Spec

-----------------------------------------------------------------------------

LEMMA StepFinal ==
  ASSUME FilesInv, [Next]_vars, NEW b \in DOMAIN bucket
  PROVE  \/ b \in DOMAIN bucket' /\ bucket'[b] = bucket[b]
         \/ \E s \in Slot : Writer(s) /\ thread[s] = "writing" /\ bucket_no(s) = b
<1>1. CASE bucket' = bucket
  BY <1>1
<1>2. ASSUME NEW s \in Slot, OpenBucket(s), bucket' # bucket
      PROVE  b \in DOMAIN bucket' /\ bucket'[b] = bucket[b]
  <2>1. /\ Writer(s) /\ thread[s] = "running"
        /\ bucket' = BucketsWith(bucket_no(s), <<>>)
    BY <1>2 DEF OpenBucket
  <2>2. pc # "crashed"
    BY <2>1, SlotShape DEF FilesInv, IInv, ThreadInv, Role
  <2>3. b # bucket_no(s)
    BY <2>1, <2>2, OpensNew DEF FilesInv
  <2> QED
    BY <2>1, <2>3 DEF BucketsWith
<1>3. ASSUME NEW s \in Slot, WriteBucket(s)
      PROVE  \/ b \in DOMAIN bucket' /\ bucket'[b] = bucket[b]
             \/ Writer(s) /\ thread[s] = "writing" /\ bucket_no(s) = b
  BY <1>3 DEF WriteBucket, BucketsWith
<1>4. CASE Main
  <2>1. bucket' = bucket
    BY <1>4 DEF Main, Malloc, LeaveLoop, Create, NoArgument, Crash, Join, HashingDone,
       SortingDone, WritingWriteDone, WritingSortDone, Free, own
  <2> QED
    BY <1>1, <2>1
<1>5. ASSUME NEW s \in Slot,
             HashRecord(s) \/ HashReturn(s) \/ NullStore(s) \/ QSort(s)
      PROVE  bucket' = bucket
  BY <1>5 DEF HashRecord, HashReturn, NullStore, Crash, QSort, shared
<1>6. CASE Over \/ UNCHANGED vars
  BY <1>1, <1>6 DEF Over, vars, shared
<1> QED
  BY <1>1, <1>2, <1>3, <1>4, <1>5, <1>6 DEF Next, Step, Worker

(* fopen(.., "wb") never empties a bucket of an earlier thread, round or   *)
(* iteration, although every writer computes its number on its own from    *)
(* no_files, k and its index: what a writer has closed is final.           *)
THEOREM GenerateBucketsFinal == Spec => BucketsFinal
<1>1. FilesInv /\ [Next]_vars =>
        [\A b \in DOMAIN bucket :
           \/ b \in DOMAIN bucket' /\ bucket'[b] = bucket[b]
           \/ \E s \in Slot :
                Writer(s) /\ thread[s] = "writing" /\ bucket_no(s) = b]_vars
  BY StepFinal
<1> QED
  BY <1>1, FilesInvAlways, PTL DEF Spec, BucketsFinal

-----------------------------------------------------------------------------
(* No number is left out *)

(* The options for which the rounds of writing_sort write as many buckets  *)
(* as no_files counts.                                                     *)
RoundsEven == write_threads >= sort_threads \/ sort_threads % write_threads = 0

(* The buckets of earlier rounds exist, and of this round those whose      *)
(* threads have passed their fopen.                                        *)
Present ==
  /\ \A b \in 0 .. (round_start - 1) : b \in DOMAIN bucket
  /\ pc \in WriterRole =>
       \A n \in 0 .. (ThreadCount(pc) - 1) :
         n < spawned /\ thread[<<pc, n>>] # "running" => round_start + n \in DOMAIN bucket

PresentInv ==
  /\ FilesInv
  /\ "open" \notin Faults /\ RoundsEven /\ pc # "crashed" => Present

LEMMA InitPresent == Init => Present
<1> SUFFICES ASSUME Init PROVE Present
  OBVIOUS
<1>1. pc = "malloc" /\ round_start = 0
  BY DEF Init, round_start
<1> QED
  BY <1>1 DEF Present, WriterRole

(* The steps of main between the phases.                                   *)
LEMMA BetweenPresent ==
  ASSUME IInv, Present, Malloc \/ LeaveLoop \/ HashingDone \/ SortingDone \/ Free
  PROVE  Present'
<1>1. /\ bucket' = bucket /\ no_files' = no_files /\ no_files \in Nat
      /\ pc # "writing_sort"
      /\ pc' \in WriterRole => spawned' = 0
      /\ pc' = "writing_sort" => k' = 0
  BY DEF Malloc, LeaveLoop, HashingDone, SortingDone, Free, AllJoined, WriterRole, own,
     IInv, TypeOK
<1>2. round_start = no_files
  BY <1>1 DEF round_start
<1>3. round_start' = no_files
  <2>1. write_threads * 0 = 0
    BY ConfigAssumption
  <2> QED
    BY <1>1, <2>1 DEF round_start
<1>4. \A b \in 0 .. (round_start' - 1) : b \in DOMAIN bucket'
  BY <1>1, <1>2, <1>3 DEF Present
<1>5. \A n \in 0 .. (ThreadCount(pc') - 1) : ~(n < 0)
  OBVIOUS
<1> QED
  BY <1>1, <1>4, <1>5 DEF Present

(* A step of a thread, or of main creating or joining one.                 *)
LEMMA PresentKept ==
  ASSUME IInv, Present, pc' = pc, no_files' = no_files, k' = k,
         DOMAIN bucket \subseteq DOMAIN bucket',
         pc \in WriterRole =>
           \A n \in 0 .. (ThreadCount(pc) - 1) :
             n < spawned' /\ thread'[<<pc, n>>] # "running" =>
               \/ n < spawned /\ thread[<<pc, n>>] # "running"
               \/ round_start + n \in DOMAIN bucket'
  PROVE  Present'
<1>1. round_start' = round_start
  BY DEF round_start
<1> QED
  BY <1>1 DEF Present

LEMMA CreatePresent ==
  ASSUME IInv, Present, Create
  PROVE  Present'
<1>1. /\ pc \in Role /\ spawned \in Nat /\ spawned' = spawned + 1 /\ spawned < ThreadCount(pc)
      /\ thread' = [thread EXCEPT ![<<pc, spawned>>] = "running"]
      /\ ThreadCount(pc) \in Nat
  BY ThreadCountPositive DEF Create, MoreToCreate, IInv, TypeOK
<1>2. ASSUME NEW n \in 0 .. (ThreadCount(pc) - 1), n < spawned', thread'[<<pc, n>>] # "running"
      PROVE  n < spawned /\ thread[<<pc, n>>] # "running"
  <2>1. <<pc, n>> \in Slot
    BY <1>1, SlotBuilt
  <2>2. n # spawned
    BY <1>1, <1>2, <2>1 DEF IInv, TypeOK
  <2>3. n < spawned
    BY <1>1, <1>2, <2>2
  <2>4. <<pc, n>> # <<pc, spawned>>
    BY <2>2
  <2> QED
    BY <1>1, <1>2, <2>1, <2>3, <2>4 DEF IInv, TypeOK
<1> QED
  BY <1>2, PresentKept DEF Create

LEMMA JoinPresent ==
  ASSUME IInv, Present, Join
  PROVE  Present'
<1>1. /\ pc \in Role /\ thread[<<pc, joined>>] = "exited"
      /\ thread' = [thread EXCEPT ![<<pc, joined>>] = "none"]
  BY DEF Join
<1>2. ASSUME NEW n \in 0 .. (ThreadCount(pc) - 1), thread'[<<pc, n>>] # "running"
      PROVE  thread[<<pc, n>>] # "running"
  <2>1. <<pc, n>> \in Slot
    BY <1>1, SlotBuilt
  <2> QED
    BY <1>1, <1>2, <2>1 DEF IInv, TypeOK
<1> QED
  BY <1>2, PresentKept DEF Join

LEMMA ThreadPresent ==
  ASSUME IInv, Present, NEW s \in Slot, "open" \notin Faults,
         HashRecord(s) \/ HashReturn(s) \/ QSort(s) \/ OpenBucket(s) \/ WriteBucket(s)
  PROVE  Present'
<1>1. /\ pc' = pc /\ spawned' = spawned /\ no_files' = no_files /\ k' = k
      /\ thread[s] # "none"
      /\ \E v \in {"running", "writing", "exited"} : thread' = [thread EXCEPT ![s] = v]
  BY DEF HashRecord, HashReturn, QSort, OpenBucket, WriteBucket, Exit, Running, shared,
     IInv, TypeOK
<1>2. DOMAIN bucket \subseteq DOMAIN bucket'
  BY DEF HashRecord, HashReturn, QSort, OpenBucket, WriteBucket, BucketsWith, shared
<1>3. Writer(s) /\ thread[s] = "running" => bucket_no(s) \in DOMAIN bucket'
  BY DEF HashRecord, HashReturn, QSort, OpenBucket, WriteBucket, BucketsWith, Running, Writer
<1>4. ASSUME pc \in WriterRole, NEW n \in 0 .. (ThreadCount(pc) - 1),
             n < spawned, thread'[<<pc, n>>] # "running", thread[<<pc, n>>] = "running"
      PROVE  round_start + n \in DOMAIN bucket'
  <2>1. <<pc, n>> \in Slot
    BY <1>4, SlotBuilt DEF WriterRole, Role
  <2>2. s = <<pc, n>>
    BY <1>1, <1>4, <2>1 DEF IInv, TypeOK
  <2>3. Writer(s) /\ thread[s] = "running" /\ s[2] = n
    BY <1>4, <2>2 DEF Writer, WriterRole
  <2> QED
    BY <1>3, <2>3, BucketOfRound
<1> QED
  BY <1>1, <1>2, <1>4, PresentKept

(* When the threads of a round are joined all its buckets are there.       *)
LEMMA RoundPresent ==
  ASSUME IInv, Present, NEW r \in WriterRole, AllJoined(r)
  PROVE  \A b \in 0 .. (round_start + ThreadCount(r) - 1) : b \in DOMAIN bucket
<1>1. /\ pc = r /\ r \in Role /\ joined = ThreadCount(r) /\ joined <= spawned
      /\ spawned <= ThreadCount(r) /\ ThreadCount(r) \in Nat /\ spawned \in Nat
  BY ThreadCountPositive DEF AllJoined, IInv, MainInv, TypeOK, WriterRole, Role
<1>2. \A s \in Slot : thread[s] = "none"
  BY <1>1, BarrierEmpty
<1>3. round_start \in Nat
  BY RoundStartTyped DEF IInv
<1> SUFFICES ASSUME NEW b \in 0 .. (round_start + ThreadCount(r) - 1) PROVE b \in DOMAIN bucket
  OBVIOUS
<1>4. CASE b < round_start
  <2>1. b \in 0 .. (round_start - 1)
    BY <1>3, <1>4
  <2> QED
    BY <2>1 DEF Present
<1>5. CASE b >= round_start
  <2> DEFINE n == b - round_start
  <2>1. n \in 0 .. (ThreadCount(pc) - 1) /\ n < spawned /\ b = round_start + n
    BY <1>1, <1>3, <1>5
  <2> HIDE DEF n
  <2>2. <<pc, n>> \in Slot
    BY <1>1, <2>1, SlotBuilt
  <2>3. thread[<<pc, n>>] # "running"
    BY <1>2, <2>2
  <2> QED
    BY <1>1, <2>1, <2>3 DEF Present
<1> QED
  BY <1>3, <1>4, <1>5

LEMMA WritingWritePresent ==
  ASSUME IInv, Present, WritingWriteDone
  PROVE  Present'
<1>1. /\ pc = "writing_write" /\ pc' = "free" /\ bucket' = bucket
      /\ no_files' = no_files + sort_threads
  BY DEF WritingWriteDone, AllJoined, BucketsAdded
<1>2. /\ round_start' = no_files + sort_threads /\ round_start = no_files
      /\ no_files \in Nat /\ sort_threads \in Nat
  BY <1>1, ConfigAssumption DEF round_start, IInv, TypeOK
<1>3. \A b \in 0 .. (no_files + sort_threads - 1) : b \in DOMAIN bucket
  BY <1>2, RoundPresent, WriterCounts DEF WritingWriteDone, WriterRole
<1>4. \A b \in 0 .. (round_start' - 1) : b \in DOMAIN bucket'
  BY <1>1, <1>2, <1>3
<1> QED
  BY <1>1, <1>4 DEF Present, WriterRole

LEMMA WritingSortPresent ==
  ASSUME IInv, Present, WritingSortDone, RoundsEven
  PROVE  Present'
<1>1. /\ pc = "writing_sort" /\ bucket' = bucket /\ k' = k + 1 /\ spawned' = 0
      /\ \/ k + 1 < write_iter /\ pc' = pc /\ no_files' = no_files
         \/ k + 1 >= write_iter /\ pc' = "free" /\ no_files' = no_files + sort_threads
  BY DEF WritingSortDone, AllJoined, BucketsAdded, NextRound
<1>2. /\ k \in Nat /\ k < write_iter /\ no_files \in Nat
      /\ write_threads < sort_threads /\ write_threads \in Nat \ {0} /\ sort_threads \in Nat
  BY <1>1, ConfigAssumption DEF IInv, MainInv, TypeOK
<1>3. round_start = no_files + write_threads * k /\ round_start \in Nat
  BY <1>1, RoundStartTyped DEF round_start, IInv
<1>4. \A b \in 0 .. (round_start + write_threads - 1) : b \in DOMAIN bucket
  BY RoundPresent, WriterCounts DEF WritingSortDone, WriterRole
<1>5. /\ write_threads * (k + 1) = write_threads * k + write_threads
      /\ write_threads * k \in Nat
  BY <1>2
<1>6. CASE pc' = pc
  <2>1. round_start' = round_start + write_threads
    <3>1. round_start' = no_files + write_threads * (k + 1)
      BY <1>1, <1>6 DEF round_start
    <3> QED
      BY <1>2, <1>3, <1>5, <3>1
  <2>2. \A b \in 0 .. (round_start' - 1) : b \in DOMAIN bucket'
    <3>1. round_start' - 1 = round_start + write_threads - 1
      BY <1>2, <1>3, <2>1
    <3> QED
      BY <1>1, <1>4, <3>1
  <2>3. \A n \in 0 .. (ThreadCount(pc') - 1) : ~(n < spawned')
    BY <1>1, <1>2, WriterCounts
  <2> QED
    BY <2>2, <2>3 DEF Present
<1>7. CASE k + 1 >= write_iter /\ pc' = "free" /\ no_files' = no_files + sort_threads
  <2>1. write_iter \in Nat /\ sort_threads = write_threads * write_iter
    BY <1>2 DEF write_iter, RoundsEven
  <2>2. k + 1 = write_iter
    BY <1>2, <1>7, <2>1
  <2>3. round_start' = no_files + sort_threads
    BY <1>7 DEF round_start
  <2>4. round_start + write_threads = no_files + sort_threads
    BY <1>2, <1>3, <1>5, <2>1, <2>2
  <2>5. \A b \in 0 .. (round_start' - 1) : b \in DOMAIN bucket'
    <3>1. round_start' - 1 = round_start + write_threads - 1
      BY <1>2, <1>3, <2>3, <2>4
    <3> QED
      BY <1>1, <1>4, <3>1
  <2> QED
    BY <1>7, <2>5 DEF Present, WriterRole
<1> QED
  BY <1>1, <1>6, <1>7

LEMMA NextPresentInv == PresentInv /\ [Next]_vars => PresentInv'
<1> SUFFICES ASSUME PresentInv, [Next]_vars, "open" \notin Faults, RoundsEven, pc' # "crashed"
             PROVE  Present'
  BY NextFilesInv DEF PresentInv
<1>1. CASE UNCHANGED vars
  <2>1. Present
    BY <1>1 DEF PresentInv, vars, shared
  <2> QED
    BY <1>1, <2>1 DEF vars, shared, own, Present, round_start
<1>2. CASE Over
  BY <1>1, <1>2 DEF Over
<1>3. CASE Main
  <2>1. pc # "crashed"
    BY <1>3 DEF Main, Malloc, LeaveLoop, Create, NoArgument, Crash, Join, HashingDone,
       SortingDone, WritingWriteDone, WritingSortDone, Free, AllJoined, Role
  <2> QED
    BY <1>3, <2>1, BetweenPresent, CreatePresent, JoinPresent,
       WritingWritePresent, WritingSortPresent
       DEF PresentInv, FilesInv, Main, NoArgument, Crash
<1>4. ASSUME NEW s \in Slot, Worker(s) PROVE Present'
  <2>1. pc # "crashed"
    <3>1. thread[s] # "none"
      BY <1>4 DEF Worker, HashRecord, HashReturn, NullStore, QSort, OpenBucket,
         WriteBucket, Running
    <3> QED
      BY <3>1, SlotShape DEF PresentInv, FilesInv, IInv, ThreadInv, Role
  <2> QED
    BY <1>4, <2>1, ThreadPresent DEF PresentInv, FilesInv, Worker, NullStore, Crash
<1> QED
  BY <1>1, <1>2, <1>3, <1>4 DEF Next, Step

(* ExternalSort and delete_bins count on the names bucket_0.bin up to      *)
(* bucket_<no_files - 1>.bin without looking into the directory: these are *)
(* the files there are, unless one could not be opened.                    *)
THEOREM GenerateNumbers == Spec => []Numbered
<1>1. Init => PresentInv
  BY InitIInv, InitNumbering, InitPresent DEF PresentInv, FilesInv
<1>2. PresentInv => Numbered
  <2> SUFFICES ASSUME PresentInv, pc = "ExternalSort", "open" \notin Faults, RoundsEven
               PROVE  DOMAIN bucket = 0 .. (no_files - 1)
    BY DEF Numbered, RoundsEven
  <2>1. IInv /\ Numbering /\ Present
    BY DEF PresentInv, FilesInv
  <2>2. round_start = no_files
    BY <2>1 DEF round_start, IInv, TypeOK
  <2>3. \A b \in DOMAIN bucket : b \in Nat /\ b < no_files /\ no_files \in Nat
    BY <2>1, CountedOutside DEF IInv, TypeOK, WriterRole
  <2>4. \A b \in 0 .. (no_files - 1) : b \in DOMAIN bucket
    BY <2>1, <2>2 DEF Present
  <2>5. DOMAIN bucket \subseteq 0 .. (no_files - 1)
    BY <2>3
  <2> QED
    BY <2>4, <2>5
<1> QED
  BY <1>1, <1>2, NextPresentInv, PTL DEF Spec

=============================================================================
