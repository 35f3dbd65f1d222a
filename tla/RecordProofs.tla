---------------------------- MODULE RecordProofs ----------------------------
(***************************************************************************)
(* What becomes of the records of the generating phase: the hashing        *)
(* threads fill the whole array, sorting only rearranges it, what a writer *)
(* stores is sorted, and every nonce gets into one place of one bucket.    *)
(***************************************************************************)
EXTENDS GenerateProofs, FiniteSetTheorems, FunctionTheorems

Later == {"sorting", "writing_write", "writing_sort", "free"}

(* The nonces of this iteration.                                           *)
Iteration == (j * max_records) .. (j * max_records + max_records - 1)

(* Every nonce of this iteration is in one cell of the array.              *)
Filled ==
  /\ {hashes[c] : c \in Cell} = Iteration
  /\ \A c, d \in Cell : hashes[c] = hashes[d] => c = d

HashedUpTo(t, n) ==
  \A c \in Cell : SliceStart(max_records, hash_threads, t) <= c /\ c < n =>
                    hashes[c] = j * max_records + c

(* A running thread has hashed its slice up to its cursor, one that has    *)
(* returned, or is joined, all of it.                                      *)
FillInv ==
  /\ pc = "hashing" =>
       \A t \in 0 .. (hash_threads - 1) : t < spawned =>
         HashedUpTo(t, IF thread[<<"hashing", t>>] = "running"
                       THEN cursor[<<"hashing", t>>]
                       ELSE SliceEnd(max_records, hash_threads, t))
  /\ pc \in Later => Filled

-----------------------------------------------------------------------------
(* The array is filled *)

LEMMA Offsets ==
  ASSUME TypeOK
  PROVE  /\ j * max_records \in Nat /\ max_records \in Nat \ {0} /\ j \in Nat
         /\ (j + 1) * max_records = j * max_records + max_records
<1>1. j \in Nat /\ max_records \in Nat \ {0}
  BY ConfigAssumption DEF TypeOK
<1> QED
  BY <1>1

LEMMA HashingSlot ==
  ASSUME NEW t \in 0 .. (hash_threads - 1)
  PROVE  /\ <<"hashing", t>> \in Slot
         /\ start_index(<<"hashing", t>>) = SliceStart(max_records, hash_threads, t)
         /\ end_index(<<"hashing", t>>) = SliceEnd(max_records, hash_threads, t)
         /\ SliceStart(max_records, hash_threads, t) \in Nat
         /\ SliceEnd(max_records, hash_threads, t) \in Nat
         /\ SliceEnd(max_records, hash_threads, t) <= max_records
<1>1. max_records \in Nat /\ hash_threads \in Nat \ {0}
  BY ConfigAssumption
<1>2. ThreadCount("hashing") = hash_threads
  BY DEF ThreadCount
<1>3. <<"hashing", t>> \in Slot
  BY <1>2, SlotBuilt DEF Role
<1>4. /\ SliceStart(max_records, hash_threads, t) \in Nat
      /\ SliceEnd(max_records, hash_threads, t) \in Nat
      /\ SliceEnd(max_records, hash_threads, t) <= max_records
  BY <1>1, SliceWithin
<1>5. /\ start_index(<<"hashing", t>>) = 0 + SliceStart(max_records, hash_threads, t)
      /\ end_index(<<"hashing", t>>) = 0 + SliceEnd(max_records, hash_threads, t)
  BY <1>2 DEF start_index, end_index, SegmentStart, SegmentSize
<1> QED
  BY <1>3, <1>4, <1>5

(* When the last hashing thread is joined the array is full.               *)
LEMMA FilledAtBarrier ==
  ASSUME IInv, FillInv, HashingDone
  PROVE  Filled'
<1>1. /\ pc = "hashing" /\ hashes' = hashes /\ j' = j /\ joined = hash_threads
      /\ \A s \in Slot : thread[s] = "none"
  BY BarrierEmpty DEF HashingDone, AllJoined, own, Role, ThreadCount
<1>2. spawned = hash_threads /\ hash_threads \in Nat \ {0} /\ max_records \in Nat
  BY <1>1, ConfigAssumption DEF IInv, MainInv, TypeOK, Role, ThreadCount
<1>3. ASSUME NEW c \in Cell PROVE hashes[c] = j * max_records + c
  <2>1. PICK t \in 0 .. (hash_threads - 1) : c \in Slice(max_records, hash_threads, t)
    BY <1>2, SlicesCover DEF Cell
  <2>2. /\ t < spawned /\ thread[<<"hashing", t>>] = "none"
        /\ SliceStart(max_records, hash_threads, t) <= c
        /\ c < SliceEnd(max_records, hash_threads, t)
    BY <1>1, <1>2, <2>1, HashingSlot DEF Slice
  <2>3. HashedUpTo(t, SliceEnd(max_records, hash_threads, t))
    BY <1>1, <2>2 DEF FillInv
  <2> QED
    BY <2>2, <2>3 DEF HashedUpTo
<1>4. j * max_records \in Nat
  BY Offsets DEF IInv
<1>5. Filled
  <2>1. {hashes[c] : c \in Cell} \subseteq Iteration
    BY <1>2, <1>3, <1>4 DEF Cell, Iteration
  <2>2. ASSUME NEW v \in Iteration PROVE v \in {hashes[c] : c \in Cell}
    <3> DEFINE c == v - j * max_records
    <3>1. c \in Cell /\ v = j * max_records + c
      BY <1>2, <1>4 DEF Cell, Iteration
    <3> QED
      BY <1>3, <3>1
  <2>3. \A c, d \in Cell : hashes[c] = hashes[d] => c = d
    BY <1>2, <1>3, <1>4 DEF Cell
  <2> QED
    BY <2>1, <2>2, <2>3 DEF Filled
<1> QED
  BY <1>1, <1>5 DEF Filled, Iteration

(* One turn of hashing's loop puts into a cell what belongs there.         *)
LEMMA HashRecordFills ==
  ASSUME IInv, FillInv, NEW s \in Slot, HashRecord(s)
  PROVE  FillInv'
<1>1. /\ s[1] = "hashing" /\ thread[s] = "running" /\ cursor[s] < end_index(s)
      /\ hashes' = [hashes EXCEPT ![cursor[s]] = HashedNonce(s)]
      /\ cursor' = [cursor EXCEPT ![s] = @ + 1]
      /\ UNCHANGED <<pc, spawned, j, thread>>
  BY DEF HashRecord, Running, shared
<1> DEFINE u == s[2]
<1>2. /\ pc = "hashing" /\ u \in 0 .. (hash_threads - 1) /\ s = <<"hashing", u>>
      /\ SliceStart(max_records, hash_threads, u) <= cursor[s]
      /\ arg[s].x = j
  BY <1>1, SlotShape DEF IInv, ThreadInv, ThreadCount
<1> HIDE DEF u
<1>3. cursor[s] \in Cell /\ cursor[s] \in Nat /\ HashedNonce(s) = j * max_records + cursor[s]
  BY <1>1, <1>2, HashedNonceTyped DEF Running, HashedNonce, IInv, TypeOK
<1>4. hashes \in [Cell -> Nonce \cup {Garbage}] /\ cursor \in [Slot -> Nat]
  BY DEF IInv, TypeOK
<1>5. \A c \in Cell : hashes[c] = j * max_records + c => hashes'[c] = j * max_records + c
  BY <1>1, <1>3, <1>4
<1>6. ASSUME NEW t \in 0 .. (hash_threads - 1), t < spawned
      PROVE  HashedUpTo(t, IF thread[<<"hashing", t>>] = "running"
                           THEN cursor[<<"hashing", t>>]
                           ELSE SliceEnd(max_records, hash_threads, t))'
  <2>1. HashedUpTo(t, IF thread[<<"hashing", t>>] = "running"
                      THEN cursor[<<"hashing", t>>]
                      ELSE SliceEnd(max_records, hash_threads, t))
    BY <1>2, <1>6 DEF FillInv
  <2>2. CASE t = u
    <3>1. PICK n \in Nat : n = cursor[s]
      BY <1>3
    <3>2. cursor'[<<"hashing", t>>] = n + 1 /\ thread[<<"hashing", t>>] = "running"
      BY <1>1, <1>2, <1>4, <2>2, <3>1
    <3>3. HashedUpTo(t, n)
      BY <1>2, <2>1, <2>2, <3>1, <3>2
    <3>4. HashedUpTo(t, n + 1)'
      <4> SUFFICES ASSUME NEW c \in Cell, SliceStart(max_records, hash_threads, t) <= c, c < n + 1
                   PROVE  hashes'[c] = j * max_records + c
        BY <1>1 DEF HashedUpTo
      <4>1. CASE c = n
        BY <1>1, <1>3, <1>4, <3>1, <4>1
      <4>2. CASE c # n
        <5>1. c < n
          BY <4>2, ConfigAssumption DEF Cell
        <5> QED
          BY <1>5, <3>3, <5>1 DEF HashedUpTo
      <4> QED
        BY <4>1, <4>2
    <3> QED
      BY <1>1, <3>2, <3>4
  <2>3. CASE t # u
    <3>1. cursor'[<<"hashing", t>>] = cursor[<<"hashing", t>>]
      <4>1. <<"hashing", t>> # s /\ <<"hashing", t>> \in Slot
        BY <1>2, <2>3, HashingSlot
      <4> QED
        BY <1>1, <1>4, <4>1
    <3> DEFINE n == IF thread[<<"hashing", t>>] = "running"
                    THEN cursor[<<"hashing", t>>]
                    ELSE SliceEnd(max_records, hash_threads, t)
    <3>2. n' = n
      BY <1>1, <3>1
    <3> HIDE DEF n
    <3>3. HashedUpTo(t, n)'
      BY <1>1, <1>5, <2>1, <3>2 DEF HashedUpTo, n
    <3> QED
      BY <3>3 DEF n
  <2> QED
    BY <2>2, <2>3
<1> QED
  BY <1>1, <1>2, <1>6 DEF FillInv, Later

(* A thread returns when its slice is hashed.                              *)
LEMMA HashReturnFills ==
  ASSUME IInv, FillInv, NEW s \in Slot, HashReturn(s)
  PROVE  FillInv'
<1>1. /\ s[1] = "hashing" /\ thread[s] = "running" /\ cursor[s] >= end_index(s)
      /\ thread' = [thread EXCEPT ![s] = "exited"]
      /\ UNCHANGED <<pc, spawned, j, hashes, cursor>>
  BY DEF HashReturn, Running, Exit, shared
<1> DEFINE u == s[2]
<1>2. /\ pc = "hashing" /\ u \in 0 .. (hash_threads - 1) /\ s = <<"hashing", u>>
  BY <1>1, SlotShape DEF IInv, ThreadInv, ThreadCount
<1> HIDE DEF u
<1>3. thread \in [Slot -> {"none", "running", "writing", "exited"}] /\ cursor[s] \in Nat
  BY DEF IInv, TypeOK
<1>4. ASSUME NEW t \in 0 .. (hash_threads - 1), t < spawned
      PROVE  HashedUpTo(t, IF thread[<<"hashing", t>>] = "running"
                           THEN cursor[<<"hashing", t>>]
                           ELSE SliceEnd(max_records, hash_threads, t))'
  <2>1. HashedUpTo(t, IF thread[<<"hashing", t>>] = "running"
                      THEN cursor[<<"hashing", t>>]
                      ELSE SliceEnd(max_records, hash_threads, t))
    BY <1>2, <1>4 DEF FillInv
  <2>2. CASE t = u
    <3>1. thread'[<<"hashing", t>>] = "exited" /\ thread[<<"hashing", t>>] = "running"
      BY <1>1, <1>2, <1>3, <2>2
    <3>2. /\ SliceEnd(max_records, hash_threads, t) \in Nat
          /\ SliceEnd(max_records, hash_threads, t) <= cursor[s]
      BY <1>1, <1>2, <2>2, HashingSlot
    <3>3. HashedUpTo(t, cursor[s])
      BY <1>2, <2>1, <2>2, <3>1
    <3>4. \A c \in Cell : c \in Nat
      BY ConfigAssumption DEF Cell
    <3>5. \A c \in Cell : c < SliceEnd(max_records, hash_threads, t) => c < cursor[s]
      BY <1>3, <3>2, <3>4
    <3>6. HashedUpTo(t, SliceEnd(max_records, hash_threads, t))'
      BY <1>1, <3>3, <3>5 DEF HashedUpTo
    <3> QED
      BY <3>1, <3>6
  <2>3. CASE t # u
    <3>1. <<"hashing", t>> # s /\ <<"hashing", t>> \in Slot
      BY <1>2, <2>3, HashingSlot
    <3>2. thread'[<<"hashing", t>>] = thread[<<"hashing", t>>]
      BY <1>1, <1>3, <3>1
    <3> QED
      BY <1>1, <2>1, <3>2 DEF HashedUpTo
  <2> QED
    BY <2>2, <2>3
<1> QED
  BY <1>1, <1>2, <1>4 DEF FillInv, Later

(* Main creates and joins the hashing threads.                             *)
LEMMA CreateFills ==
  ASSUME IInv, FillInv, Create
  PROVE  FillInv'
<1>1. /\ pc' = pc /\ spawned' = spawned + 1 /\ spawned \in Nat
      /\ thread' = [thread EXCEPT ![<<pc, spawned>>] = "running"]
      /\ cursor' = [cursor EXCEPT ![<<pc, spawned>>] =
                      SliceStart(max_records, hash_threads, spawned)]
      /\ UNCHANGED <<j, hashes>>
  BY DEF Create, IInv, TypeOK
<1>2. /\ thread \in [Slot -> {"none", "running", "writing", "exited"}]
      /\ cursor \in [Slot -> Nat]
  BY DEF IInv, TypeOK
<1>3. ASSUME pc = "hashing", NEW t \in 0 .. (hash_threads - 1), t < spawned'
      PROVE  HashedUpTo(t, IF thread[<<"hashing", t>>] = "running"
                           THEN cursor[<<"hashing", t>>]
                           ELSE SliceEnd(max_records, hash_threads, t))'
  <2>1. <<"hashing", t>> \in Slot /\ SliceStart(max_records, hash_threads, t) \in Nat
    BY HashingSlot
  <2>2. CASE t = spawned
    <3>1. /\ thread'[<<"hashing", t>>] = "running"
          /\ cursor'[<<"hashing", t>>] = SliceStart(max_records, hash_threads, t)
      BY <1>1, <1>2, <1>3, <2>1, <2>2
    <3>2. \A c \in Cell : c \in Nat
      BY ConfigAssumption DEF Cell
    <3>3. HashedUpTo(t, SliceStart(max_records, hash_threads, t))'
      BY <2>1, <3>2 DEF HashedUpTo
    <3> QED
      BY <3>1, <3>3
  <2>3. CASE t # spawned
    <3>1. t < spawned /\ <<"hashing", t>> # <<pc, spawned>>
      BY <1>1, <1>3, <2>3
    <3>2. /\ thread'[<<"hashing", t>>] = thread[<<"hashing", t>>]
          /\ cursor'[<<"hashing", t>>] = cursor[<<"hashing", t>>]
      BY <1>1, <1>2, <2>1, <3>1
    <3>3. HashedUpTo(t, IF thread[<<"hashing", t>>] = "running"
                        THEN cursor[<<"hashing", t>>]
                        ELSE SliceEnd(max_records, hash_threads, t))
      BY <1>3, <3>1 DEF FillInv
    <3> QED
      BY <1>1, <3>2, <3>3 DEF HashedUpTo
  <2> QED
    BY <2>2, <2>3
<1> QED
  BY <1>1, <1>3 DEF FillInv, Filled, Iteration

LEMMA JoinFills ==
  ASSUME IInv, FillInv, Join
  PROVE  FillInv'
<1>1. /\ pc' = pc /\ spawned' = spawned /\ thread[<<pc, joined>>] = "exited"
      /\ thread' = [thread EXCEPT ![<<pc, joined>>] = "none"]
      /\ UNCHANGED <<j, hashes, cursor>>
  BY DEF Join
<1>2. thread \in [Slot -> {"none", "running", "writing", "exited"}]
  BY DEF IInv, TypeOK
<1>3. ASSUME pc = "hashing", NEW t \in 0 .. (hash_threads - 1), t < spawned
      PROVE  HashedUpTo(t, IF thread[<<"hashing", t>>] = "running"
                           THEN cursor[<<"hashing", t>>]
                           ELSE SliceEnd(max_records, hash_threads, t))'
  <2>1. <<"hashing", t>> \in Slot
    BY HashingSlot
  <2>2. thread'[<<"hashing", t>>] = "running" <=> thread[<<"hashing", t>>] = "running"
    BY <1>1, <1>2, <2>1
  <2>3. HashedUpTo(t, IF thread[<<"hashing", t>>] = "running"
                      THEN cursor[<<"hashing", t>>]
                      ELSE SliceEnd(max_records, hash_threads, t))
    BY <1>3 DEF FillInv
  <2> QED
    BY <1>1, <2>2, <2>3 DEF HashedUpTo
<1> QED
  BY <1>1, <1>3 DEF FillInv, Filled, Iteration

(* qsort rearranges a part of the array, and loses nothing.                *)
LEMMA Rearranged ==
  ASSUME NEW S \in SUBSET Cell, NEW p \in Rearrangements(S), Filled,
         hashes' = [c \in Cell |-> IF c \in S THEN hashes[p[c]] ELSE hashes[c]], j' = j
  PROVE  Filled'
<1> DEFINE q == [c \in Cell |-> IF c \in S THEN p[c] ELSE c]
<1>1. p \in [S -> S] /\ \A m, n \in S : m # n => p[m] # p[n]
  BY DEF Rearrangements
<1>2. q \in [Cell -> Cell] /\ \A c, d \in Cell : q[c] = q[d] => c = d
  BY <1>1
<1>3. \A c \in Cell : hashes'[c] = hashes[q[c]]
  BY <1>1
<1> HIDE DEF q
<1>4. IsFiniteSet(Cell)
  BY FS_Interval, ConfigAssumption DEF Cell
<1>5. q \in Injection(Cell, Cell)
  BY <1>2, Fun_IsInj
<1>6. q \in Surjection(Cell, Cell)
  BY <1>4, <1>5, FS_Injection
<1>7. \A d \in Cell : \E c \in Cell : q[c] = d
  BY <1>6 DEF Surjection
<1>8. {hashes'[c] : c \in Cell} = {hashes[c] : c \in Cell}
  BY <1>2, <1>3, <1>7
<1>9. \A c, d \in Cell : hashes'[c] = hashes'[d] => c = d
  BY <1>2, <1>3 DEF Filled
<1> QED
  BY <1>8, <1>9 DEF Filled, Iteration

LEMMA QSortFills ==
  ASSUME IInv, FillInv, NEW s \in Slot, QSort(s)
  PROVE  FillInv'
<1>1. /\ s[1] = "sorting" /\ thread[s] # "none" /\ UNCHANGED <<pc, j>>
  BY DEF QSort, Running, shared
<1>2. pc = "sorting" /\ Touches(s) \in SUBSET Cell
  BY <1>1, TouchesWithin DEF IInv, ThreadInv
<1>3. PICK p \in Rearrangements(Touches(s)) :
        hashes' = [c \in Cell |->
          IF c \in Touches(s) THEN [d \in Touches(s) |-> hashes[p[d]]][c] ELSE hashes[c]]
  BY DEF QSort
<1>4. hashes' = [c \in Cell |-> IF c \in Touches(s) THEN hashes[p[c]] ELSE hashes[c]]
  BY <1>3
<1>5. Filled'
  BY <1>1, <1>2, <1>4, Rearranged DEF FillInv, Later
<1> QED
  BY <1>1, <1>2, <1>5 DEF FillInv

LEMMA NextFillInv == IInv /\ FillInv /\ [Next]_vars => FillInv'
<1> SUFFICES ASSUME IInv, FillInv, [Next]_vars PROVE FillInv'
  OBVIOUS
<1>1. CASE Malloc
  BY <1>1 DEF Malloc, IInv, MainInv, TypeOK, FillInv, Later
<1>2. CASE LeaveLoop \/ NoArgument \/ Free
  BY <1>2 DEF LeaveLoop, NoArgument, Crash, Free, FillInv, Later
<1>3. CASE Create \/ Join
  BY <1>3, CreateFills, JoinFills
<1>4. CASE HashingDone
  BY <1>4, FilledAtBarrier DEF HashingDone, FillInv, Later
<1>5. CASE SortingDone \/ WritingWriteDone \/ WritingSortDone
  BY <1>5 DEF SortingDone, WritingWriteDone, WritingSortDone, AllJoined, own,
     FillInv, Later, Filled, Iteration
<1>6. ASSUME NEW s \in Slot, HashRecord(s) \/ HashReturn(s) \/ QSort(s)
      PROVE  FillInv'
  BY <1>6, HashRecordFills, HashReturnFills, QSortFills
<1>7. ASSUME NEW s \in Slot, NullStore(s) PROVE FillInv'
  BY <1>7 DEF NullStore, Crash, FillInv, Later
<1>8. ASSUME NEW s \in Slot, OpenBucket(s) \/ WriteBucket(s) PROVE FillInv'
  <2>1. /\ UNCHANGED <<pc, j, hashes>> /\ Writer(s) /\ thread[s] # "none"
    BY <1>8 DEF OpenBucket, WriteBucket
  <2>2. pc \in WriterRole
    BY <2>1, BucketOfRound
  <2> QED
    BY <2>1, <2>2 DEF FillInv, Later, WriterRole, Filled, Iteration
<1>9. CASE Over \/ UNCHANGED vars
  BY <1>9 DEF Over, vars, shared, own, FillInv, Filled, Iteration, HashedUpTo
<1> QED
  BY <1>1, <1>2, <1>3, <1>4, <1>5, <1>6, <1>7, <1>8, <1>9 DEF Next, Step, Main, Worker

LEMMA FillInvAlways == Spec => []FillInv
<1>1. Init => FillInv
  BY DEF Init, FillInv, Later
<1> QED
  BY <1>1, NextFillInv, IInvAlways, PTL DEF Spec

(* When sorting begins the hashing threads have, between them, put every   *)
(* nonce of this iteration into the array, for any number of threads; and  *)
(* nothing that follows in this iteration loses one.                       *)
THEOREM GenerateFills == Spec => []FilledBeforeSort
<1>1. FillInv => FilledBeforeSort
  BY DEF FillInv, FilledBeforeSort, Filled, Iteration, Later
<1> QED
  BY <1>1, FillInvAlways, PTL

-----------------------------------------------------------------------------
(* What a writer stores *)

LEMMA SliceRecordsAt ==
  ASSUME IInv, NEW s \in Slot, thread[s] # "none"
  PROVE  /\ SliceRecords(s) \in Seq(Nonce \cup {Garbage})
         /\ Len(SliceRecords(s)) = end_index(s) - start_index(s)
         /\ \A m \in 1 .. Len(SliceRecords(s)) :
              /\ SliceRecords(s)[m] = hashes[start_index(s) + m - 1]
              /\ start_index(s) + m - 1 \in Touches(s)
<1>1. /\ start_index(s) \in Nat /\ end_index(s) \in Nat /\ start_index(s) <= end_index(s)
      /\ SliceRecords(s) \in Seq(Nonce \cup {Garbage})
  BY TouchesWithin, SliceRecordsTyped
<1> DEFINE len == end_index(s) - start_index(s)
<1>2. DOMAIN SliceRecords(s) = 1 .. len /\ len \in Nat
  BY <1>1 DEF SliceRecords
<1>3. Len(SliceRecords(s)) = len
  <2> HIDE DEF len
  <2>1. Len(SliceRecords(s)) \in Nat /\ DOMAIN SliceRecords(s) = 1 .. Len(SliceRecords(s))
    BY <1>1, LenProperties
  <2>2. 1 .. Len(SliceRecords(s)) = 1 .. len
    BY <1>2, <2>1
  <2> QED
    BY <1>2, <2>1, <2>2, IntervalEnd
<1>4. ASSUME NEW m \in 1 .. len
      PROVE  /\ SliceRecords(s)[m] = hashes[start_index(s) + m - 1]
             /\ start_index(s) + m - 1 \in Touches(s)
  BY <1>1, <1>4 DEF SliceRecords, Touches
<1> QED
  BY <1>1, <1>3, <1>4

(* A bucket gets the slice of its writer, or the beginning of it when the  *)
(* disk is full.                                                           *)
LEMMA StoresSlice ==
  ASSUME IInv, NEW s \in Slot, WriteBucket(s)
  PROVE  \E recs \in Seq(Nonce \cup {Garbage}) :
           /\ bucket' = BucketsWith(bucket_no(s), recs)
           /\ DOMAIN recs \subseteq 1 .. (end_index(s) - start_index(s))
           /\ "short" \notin Faults => DOMAIN recs = 1 .. (end_index(s) - start_index(s))
           /\ \A m \in DOMAIN recs :
                /\ recs[m] = hashes[start_index(s) + m - 1]
                /\ start_index(s) + m - 1 \in Touches(s)
<1> DEFINE all == SliceRecords(s)
           len == end_index(s) - start_index(s)
<1>1. /\ all \in Seq(Nonce \cup {Garbage}) /\ Len(all) = len /\ Len(all) \in Nat
      /\ \A m \in 1 .. Len(all) :
           /\ all[m] = hashes[start_index(s) + m - 1]
           /\ start_index(s) + m - 1 \in Touches(s)
  BY SliceRecordsAt, LenProperties DEF WriteBucket
<1> HIDE DEF all, len
<1>2. DOMAIN all = 1 .. len
  BY <1>1, LenProperties
<1>3. CASE bucket' = BucketsWith(bucket_no(s), all)
  BY <1>1, <1>2, <1>3 DEF len
<1>4. ASSUME "short" \in Faults, NEW n \in 0 .. (Len(all) - 1),
             bucket' = BucketsWith(bucket_no(s), SubSeq(all, 1, n))
      PROVE  \E recs \in Seq(Nonce \cup {Garbage}) :
           /\ bucket' = BucketsWith(bucket_no(s), recs)
           /\ DOMAIN recs \subseteq 1 .. len
           /\ "short" \notin Faults => DOMAIN recs = 1 .. len
           /\ \A m \in DOMAIN recs :
                /\ recs[m] = hashes[start_index(s) + m - 1]
                /\ start_index(s) + m - 1 \in Touches(s)
  <2> DEFINE recs == SubSeq(all, 1, n)
  <2>1. \A m \in 1 .. n : m \in 1 .. Len(all) /\ all[m] \in Nonce \cup {Garbage}
    BY <1>1, ElementOfSeq
  <2>2. /\ recs \in Seq(Nonce \cup {Garbage}) /\ Len(recs) = n
        /\ \A m \in 1 .. n : recs[m] = all[m]
    BY <1>1, <2>1, SubSeqProperties
  <2> HIDE DEF recs
  <2>3. DOMAIN recs = 1 .. n
    BY <2>2, LenProperties
  <2>4. /\ bucket' = BucketsWith(bucket_no(s), recs)
        /\ DOMAIN recs \subseteq 1 .. len
        /\ \A m \in DOMAIN recs :
             /\ recs[m] = hashes[start_index(s) + m - 1]
             /\ start_index(s) + m - 1 \in Touches(s)
    BY <1>1, <1>4, <2>1, <2>2, <2>3 DEF recs
  <2> QED
    BY <1>4, <2>2, <2>4
<1> QED
  BY <1>3, <1>4 DEF WriteBucket, all, len

-----------------------------------------------------------------------------
(* The buckets are sorted *)

SortSlice(t) == Slice(max_records, sort_threads, t)

SortedIn(S) == \A c, d \in S : c < d => Hash[hashes[c]] <= Hash[hashes[d]]

(* A sorting thread that has returned leaves its slice sorted, and nobody  *)
(* disturbs a sorted slice before it is written.                           *)
SortInv ==
  /\ pc = "sorting" =>
       \A t \in 0 .. (sort_threads - 1) :
         t < spawned /\ thread[<<"sorting", t>>] # "running" => SortedIn(SortSlice(t))
  /\ pc \in WriterRole => \A t \in 0 .. (sort_threads - 1) : SortedIn(SortSlice(t))
  /\ BucketsSorted

LEMMA SortingSlot ==
  ASSUME NEW t \in 0 .. (sort_threads - 1)
  PROVE  <<"sorting", t>> \in Slot /\ Touches(<<"sorting", t>>) = SortSlice(t)
<1>1. max_records \in Nat /\ sort_threads \in Nat \ {0}
  BY ConfigAssumption
<1>2. ThreadCount("sorting") = sort_threads
  BY DEF ThreadCount
<1>3. <<"sorting", t>> \in Slot
  BY <1>2, SlotBuilt DEF Role
<1>4. /\ SliceStart(max_records, sort_threads, t) \in Nat
      /\ SliceEnd(max_records, sort_threads, t) \in Nat
  BY <1>1, SliceWithin
<1>5. /\ start_index(<<"sorting", t>>) = 0 + SliceStart(max_records, sort_threads, t)
      /\ end_index(<<"sorting", t>>) = 0 + SliceEnd(max_records, sort_threads, t)
  BY <1>2 DEF start_index, end_index, SegmentStart, SegmentSize
<1> QED
  BY <1>3, <1>4, <1>5 DEF Touches, SortSlice, Slice

LEMMA QSortSorts ==
  ASSUME IInv, SortInv, NEW s \in Slot, QSort(s)
  PROVE  SortInv'
<1>1. /\ s[1] = "sorting" /\ thread[s] = "running"
      /\ thread' = [thread EXCEPT ![s] = "exited"]
      /\ UNCHANGED <<pc, spawned, bucket>>
  BY DEF QSort, Running, Exit, shared
<1> DEFINE u == s[2]
<1>2. /\ pc = "sorting" /\ u \in 0 .. (sort_threads - 1) /\ s = <<"sorting", u>>
  BY <1>1, SlotShape DEF IInv, ThreadInv, ThreadCount
<1> HIDE DEF u
<1>3. PICK p \in Rearrangements(Touches(s)) :
        LET moved == [c \in Touches(s) |-> hashes[p[c]]] IN
        /\ SortedByHash(moved)
        /\ hashes' = [c \in Cell |-> IF c \in Touches(s) THEN moved[c] ELSE hashes[c]]
  BY DEF QSort
<1>4. thread \in [Slot -> {"none", "running", "writing", "exited"}]
  BY DEF IInv, TypeOK
<1>5. Touches(s) = SortSlice(u) /\ Touches(s) \subseteq Cell
  BY <1>1, <1>2, SortingSlot, TouchesWithin
<1>6. SortedIn(SortSlice(u))'
  <2>1. \A c \in SortSlice(u) : hashes'[c] = [d \in Touches(s) |-> hashes[p[d]]][c]
    BY <1>3, <1>5
  <2>2. \A c, d \in SortSlice(u) : c < d => Hash[hashes'[c]] <= Hash[hashes'[d]]
    BY <1>3, <1>5, <2>1 DEF SortedByHash
  <2> QED
    BY <2>2 DEF SortedIn
<1>7. ASSUME NEW t \in 0 .. (sort_threads - 1), t < spawned,
             thread'[<<"sorting", t>>] # "running"
      PROVE  SortedIn(SortSlice(t))'
  <2>1. CASE t = u
    BY <1>6, <2>1
  <2>2. CASE t # u
    <3>1. thread'[<<"sorting", t>>] = thread[<<"sorting", t>>]
      <4>1. <<"sorting", t>> # s /\ <<"sorting", t>> \in Slot
        BY <1>2, <2>2, SortingSlot
      <4> QED
        BY <1>1, <1>4, <4>1
    <3>2. SortedIn(SortSlice(t))
      BY <1>2, <1>7, <3>1 DEF SortInv
    <3>3. SortSlice(t) \cap SortSlice(u) = {} /\ SortSlice(t) \subseteq Cell
      <4>1. max_records \in Nat /\ sort_threads \in Nat \ {0}
        BY ConfigAssumption
      <4> QED
        BY <1>2, <2>2, <4>1, SlicesDisjoint, SliceWithin DEF SortSlice, Cell
    <3>4. \A c \in SortSlice(t) : hashes'[c] = hashes[c]
      BY <1>3, <1>5, <3>3
    <3> QED
      BY <3>2, <3>4 DEF SortedIn
  <2> QED
    BY <2>1, <2>2
<1>8. BucketsSorted'
  BY <1>1 DEF SortInv, BucketsSorted, SortedByHash
<1> QED
  BY <1>1, <1>2, <1>7, <1>8 DEF SortInv, WriterRole

(* With these options a writer stores the slice of one sorting thread.     *)
LEMMA WritesOneSlice ==
  ASSUME IInv, Aligned, NEW s \in Slot, Writer(s), thread[s] # "none"
  PROVE  \E t \in 0 .. (sort_threads - 1) :
           /\ start_index(s) = SliceStart(max_records, sort_threads, t)
           /\ end_index(s) = SliceEnd(max_records, sort_threads, t)
           /\ bucket_no(s) = no_files + t
<1>1. /\ s[1] = pc /\ arg[s].k = k /\ k \in Nat
      /\ s[2] \in 0 .. (ThreadCount(s[1]) - 1)
      /\ arg[s].bucket_start = no_files /\ no_files \in Nat
  BY SlotShape DEF IInv, ThreadInv, TypeOK
<1>2. /\ max_records \in Nat \ {0} /\ sort_threads \in Nat \ {0}
      /\ write_threads \in Nat \ {0}
  BY ConfigAssumption
<1>3. CASE s[1] = "writing_write"
  <2>1. s[2] \in 0 .. (sort_threads - 1) /\ ThreadCount(s[1]) = sort_threads
    BY <1>1, <1>3, WriterCounts
  <2>2. /\ SliceStart(max_records, sort_threads, s[2]) \in Nat
        /\ SliceEnd(max_records, sort_threads, s[2]) \in Nat
    BY <1>2, <2>1, SliceWithin
  <2>3. /\ start_index(s) = 0 + SliceStart(max_records, sort_threads, s[2])
        /\ end_index(s) = 0 + SliceEnd(max_records, sort_threads, s[2])
    BY <1>3, <2>1 DEF start_index, end_index, SegmentStart, SegmentSize
  <2>4. bucket_no(s) = no_files + s[2]
    BY <1>1, <1>3, <2>1 DEF bucket_no
  <2> QED
    BY <2>1, <2>2, <2>3, <2>4
<1>4. CASE s[1] = "writing_sort"
  <2>1. /\ write_threads < sort_threads /\ k < write_iter
        /\ s[2] \in 0 .. (write_threads - 1)
    BY <1>1, <1>4, WriterCounts DEF IInv, MainInv
  <2>2. sort_threads % write_threads = 0 /\ max_records % sort_threads = 0
    BY <1>2, <2>1 DEF Aligned
  <2> DEFINE t == s[2]
             i == k * write_threads + t
  <2>3. /\ i \in 0 .. (sort_threads - 1)
        /\ RoundStart(max_records, sort_threads, write_threads, k, t)
             = SliceStart(max_records, sort_threads, i)
        /\ RoundEnd(max_records, sort_threads, write_threads, k, t)
             = SliceEnd(max_records, sort_threads, i)
    <3>1. /\ k \in 0 .. (sort_threads \div write_threads - 1)
          /\ t \in 0 .. (write_threads - 1)
      BY <1>1, <2>1, SegmentsFit DEF write_iter
    <3> HIDE DEF t
    <3>2. RoundStart(max_records, sort_threads, write_threads, k, t)
            = SliceStart(max_records, sort_threads, i)
      BY <1>2, <2>1, <2>2, <3>1, RoundsAlign
    <3>3. RoundEnd(max_records, sort_threads, write_threads, k, t)
            = SliceEnd(max_records, sort_threads, i)
      BY <1>2, <2>1, <2>2, <3>1, RoundsAlign
    <3>4. i \in 0 .. (sort_threads - 1)
      BY <1>2, <2>1, <2>2, <3>1, <3>2, RoundsAlign
    <3> QED
      BY <3>2, <3>3, <3>4
  <2> HIDE DEF i
  <2>4. /\ start_index(s) = SliceStart(max_records, sort_threads, i)
        /\ end_index(s) = SliceEnd(max_records, sort_threads, i)
    BY <1>1, <1>4, <2>3, WriterCounts
       DEF start_index, end_index, SegmentStart, SegmentSize, RoundStart, RoundEnd, Segment,
           write_segment, write_iter
  <2>5. bucket_no(s) = no_files + i
    <3>1. t \in Int /\ k * write_threads \in Nat /\ k * write_threads = write_threads * k
      BY <1>1, <1>2, <2>1
    <3>2. bucket_no(s) = no_files + write_threads * k + t
      BY <1>1, <1>4 DEF bucket_no
    <3> QED
      BY <1>1, <3>1, <3>2 DEF i
  <2> QED
    BY <2>3, <2>4, <2>5
<1> QED
  BY <1>3, <1>4 DEF Writer

(* What is not written leaves the buckets sorted.                          *)
LEMMA BucketsSortedKept ==
  ASSUME BucketsSorted, bucket' = bucket
  PROVE  BucketsSorted'
  BY DEF BucketsSorted, SortedByHash

LEMMA CreateSorts ==
  ASSUME IInv, SortInv, Create
  PROVE  SortInv'
<1>1. /\ pc' = pc /\ spawned' = spawned + 1 /\ spawned \in Nat
      /\ thread' = [thread EXCEPT ![<<pc, spawned>>] = "running"]
      /\ UNCHANGED <<hashes, bucket>>
  BY DEF Create, IInv, TypeOK
<1>2. thread \in [Slot -> {"none", "running", "writing", "exited"}]
  BY DEF IInv, TypeOK
<1>3. ASSUME pc = "sorting", NEW t \in 0 .. (sort_threads - 1), t < spawned',
             thread'[<<"sorting", t>>] # "running"
      PROVE  SortedIn(SortSlice(t))'
  <2>1. <<"sorting", t>> \in Slot
    BY SortingSlot
  <2>2. t # spawned
    BY <1>1, <1>2, <1>3, <2>1
  <2>3. t < spawned /\ <<"sorting", t>> # <<pc, spawned>>
    BY <1>1, <1>3, <2>2
  <2>4. thread'[<<"sorting", t>>] = thread[<<"sorting", t>>]
    BY <1>1, <1>2, <2>1, <2>3
  <2>5. SortedIn(SortSlice(t))
    BY <1>3, <2>3, <2>4 DEF SortInv
  <2> QED
    BY <1>1, <2>5 DEF SortedIn
<1>4. BucketsSorted'
  BY <1>1, BucketsSortedKept DEF SortInv
<1> QED
  BY <1>1, <1>3, <1>4 DEF SortInv, SortedIn

LEMMA JoinSorts ==
  ASSUME IInv, SortInv, Join
  PROVE  SortInv'
<1>1. /\ pc' = pc /\ spawned' = spawned /\ thread[<<pc, joined>>] = "exited"
      /\ thread' = [thread EXCEPT ![<<pc, joined>>] = "none"]
      /\ UNCHANGED <<hashes, bucket>>
  BY DEF Join
<1>2. thread \in [Slot -> {"none", "running", "writing", "exited"}]
  BY DEF IInv, TypeOK
<1>3. ASSUME pc = "sorting", NEW t \in 0 .. (sort_threads - 1), t < spawned,
             thread'[<<"sorting", t>>] # "running"
      PROVE  SortedIn(SortSlice(t))'
  <2>1. thread[<<"sorting", t>>] # "running"
    BY <1>1, <1>2, <1>3, SortingSlot
  <2> QED
    BY <1>1, <1>3, <2>1 DEF SortInv, SortedIn
<1>4. BucketsSorted'
  BY <1>1, BucketsSortedKept DEF SortInv
<1> QED
  BY <1>1, <1>3, <1>4 DEF SortInv, SortedIn

(* When the last sorting thread is joined every slice is sorted.           *)
LEMMA SortedAtBarrier ==
  ASSUME IInv, SortInv, SortingDone
  PROVE  SortInv'
<1>1. /\ pc = "sorting" /\ joined = sort_threads /\ UNCHANGED <<hashes, bucket>>
      /\ pc' \in WriterRole
      /\ \A s \in Slot : thread[s] = "none"
  BY BarrierEmpty DEF SortingDone, AllJoined, Role, ThreadCount, WriterRole
<1>2. spawned = sort_threads /\ sort_threads \in Nat
  BY <1>1, ConfigAssumption DEF IInv, MainInv, TypeOK, Role, ThreadCount
<1>3. ASSUME NEW t \in 0 .. (sort_threads - 1) PROVE SortedIn(SortSlice(t))'
  <2>1. t < spawned /\ thread[<<"sorting", t>>] # "running"
    BY <1>1, <1>2, SortingSlot
  <2>2. SortedIn(SortSlice(t))
    BY <1>1, <2>1 DEF SortInv
  <2> QED
    BY <1>1, <2>2 DEF SortedIn
<1>4. BucketsSorted'
  BY <1>1, BucketsSortedKept DEF SortInv
<1> QED
  BY <1>1, <1>3, <1>4 DEF SortInv, WriterRole

(* A writer empties its bucket, or stores a part of a sorted slice in it.  *)
LEMMA WriterSorts ==
  ASSUME IInv, SortInv, NEW s \in Slot, OpenBucket(s) \/ WriteBucket(s)
  PROVE  SortInv'
<1>1. /\ Writer(s) /\ thread[s] # "none" /\ UNCHANGED <<pc, hashes>>
  BY DEF OpenBucket, WriteBucket
<1>2. pc \in WriterRole
  BY <1>1, BucketOfRound
<1>3. ASSUME Aligned, NEW b \in DOMAIN bucket' PROVE SortedByHash(bucket'[b])
  <2>1. \A c \in DOMAIN bucket : SortedByHash(bucket[c])
    BY <1>3 DEF SortInv, BucketsSorted
  <2>2. CASE bucket' = bucket
    BY <1>3, <2>1, <2>2
  <2>3. CASE bucket' = BucketsWith(bucket_no(s), <<>>)
    <3>1. SortedByHash(<<>>)
      BY DEF SortedByHash
    <3> QED
      BY <1>3, <2>1, <2>3, <3>1 DEF BucketsWith
  <2>4. CASE WriteBucket(s)
    <3>1. PICK recs \in Seq(Nonce \cup {Garbage}) :
            /\ bucket' = BucketsWith(bucket_no(s), recs)
            /\ DOMAIN recs \subseteq 1 .. (end_index(s) - start_index(s))
            /\ \A m \in DOMAIN recs :
                 /\ recs[m] = hashes[start_index(s) + m - 1]
                 /\ start_index(s) + m - 1 \in Touches(s)
      BY <2>4, StoresSlice
    <3>2. PICK t \in 0 .. (sort_threads - 1) : Touches(s) \subseteq SortSlice(t)
      BY <1>1, <1>3, WritesOneSlice DEF Touches, SortSlice, Slice
    <3>3. SortedIn(SortSlice(t))
      BY <1>2 DEF SortInv
    <3>4. start_index(s) \in Nat
      BY <1>1, TouchesWithin
    <3>5. ASSUME NEW m \in DOMAIN recs, NEW n \in DOMAIN recs, m < n
          PROVE  Hash[recs[m]] <= Hash[recs[n]]
      <4>1. m \in Int /\ n \in Int
        BY <3>1
      <4> DEFINE c == start_index(s) + m - 1
                 d == start_index(s) + n - 1
      <4>2. c \in SortSlice(t) /\ d \in SortSlice(t) /\ c < d
        BY <3>1, <3>2, <3>4, <3>5, <4>1
      <4>3. recs[m] = hashes[c] /\ recs[n] = hashes[d]
        BY <3>1
      <4> HIDE DEF c, d
      <4> QED
        BY <3>3, <4>2, <4>3 DEF SortedIn
    <3>6. SortedByHash(recs)
      BY <3>5 DEF SortedByHash
    <3> QED
      BY <1>3, <2>1, <3>1, <3>6 DEF BucketsWith
  <2> QED
    BY <2>2, <2>3, <2>4 DEF OpenBucket
<1>4. BucketsSorted'
  BY <1>3 DEF BucketsSorted, Aligned
<1> QED
  BY <1>1, <1>2, <1>4 DEF SortInv, SortedIn, WriterRole

LEMMA NextSortInv == IInv /\ SortInv /\ [Next]_vars => SortInv'
<1> SUFFICES ASSUME IInv, SortInv, [Next]_vars PROVE SortInv'
  OBVIOUS
<1>1. CASE Malloc \/ LeaveLoop \/ NoArgument \/ WritingWriteDone \/ Free
  <2>1. bucket' = bucket /\ pc' \notin WriterRole \cup {"sorting"}
    BY <1>1 DEF Malloc, LeaveLoop, NoArgument, Crash, WritingWriteDone, Free, WriterRole
  <2> QED
    BY <2>1, BucketsSortedKept DEF SortInv
<1>2. CASE HashingDone
  <2>1. bucket' = bucket /\ pc' = "sorting" /\ spawned' = 0
    BY <1>2 DEF HashingDone
  <2>2. \A t \in 0 .. (sort_threads - 1) : ~(t < 0)
    OBVIOUS
  <2> QED
    BY <2>1, <2>2, BucketsSortedKept DEF SortInv, WriterRole
<1>3. CASE WritingSortDone
  <2>1. /\ UNCHANGED <<bucket, hashes>> /\ pc = "writing_sort"
        /\ pc' \in {"writing_sort", "free"}
    BY <1>3 DEF WritingSortDone, AllJoined
  <2> QED
    BY <2>1, BucketsSortedKept DEF SortInv, SortedIn, WriterRole
<1>4. CASE Create \/ Join \/ SortingDone
  BY <1>4, CreateSorts, JoinSorts, SortedAtBarrier
<1>5. ASSUME NEW s \in Slot, HashRecord(s) \/ HashReturn(s) \/ NullStore(s) PROVE SortInv'
  <2>1. s[1] = "hashing" /\ thread[s] = "running" /\ bucket' = bucket
        /\ pc' \in {pc, "crashed"}
    BY <1>5 DEF HashRecord, HashReturn, NullStore, Crash, Running, shared
  <2>2. pc = "hashing"
    BY <2>1 DEF IInv, ThreadInv
  <2> QED
    BY <2>1, <2>2, BucketsSortedKept DEF SortInv, WriterRole
<1>6. ASSUME NEW s \in Slot, QSort(s) \/ OpenBucket(s) \/ WriteBucket(s) PROVE SortInv'
  BY <1>6, QSortSorts, WriterSorts
<1>7. CASE Over \/ UNCHANGED vars
  <2>1. UNCHANGED <<pc, spawned, thread, hashes, bucket>>
    BY <1>7 DEF Over, vars, shared, own
  <2> QED
    BY <2>1, BucketsSortedKept DEF SortInv, SortedIn
<1> QED
  BY <1>1, <1>2, <1>3, <1>4, <1>5, <1>6, <1>7 DEF Next, Step, Main, Worker

(* Every bucket the external sort will merge is sorted by hash, also while *)
(* it is written and when a write stores too little, because with aligned  *)
(* options a writer never stores across the edge of two sorted slices.     *)
THEOREM GenerateSorts == Spec => []BucketsSorted
<1>1. Init => SortInv
  <2> SUFFICES ASSUME Init PROVE SortInv
    OBVIOUS
  <2>1. pc = "malloc" /\ DOMAIN bucket = {}
    BY DEF Init
  <2> QED
    BY <2>1 DEF SortInv, BucketsSorted, WriterRole
<1>2. SortInv => BucketsSorted
  BY DEF SortInv
<1> QED
  BY <1>1, <1>2, NextSortInv, IInvAlways, PTL DEF Spec

-----------------------------------------------------------------------------
(* Every nonce gets into one place *)

(* Where the part of the array begins that this round writes, and which    *)
(* cells of it writer n stores.                                            *)
base == IF pc = "writing_sort" THEN k * write_segment ELSE 0

RoundSlice(n) == {base + c : c \in Slice(SegmentSize(pc), ThreadCount(pc), n)}

(* A value of an earlier iteration, or of an earlier round.                *)
Old(v) == v \in Nat /\ v < j * max_records

Behind(v) == Old(v) \/ \E c \in Cell : c < base /\ v = hashes[c]

(* What bucket b may hold during this round.                               *)
Holds(b, v) ==
  \/ b < round_start /\ Behind(v)
  \/ \E n \in 0 .. (ThreadCount(pc) - 1) :
       b = round_start + n /\ \E c \in RoundSlice(n) : v = hashes[c]

Once ==
  \A a, b \in DOMAIN bucket : \A p \in DOMAIN bucket[a], q \in DOMAIN bucket[b] :
    bucket[a][p] = bucket[b][q] => a = b /\ p = q

(* A writer between fopen and fwrite has an empty file.                    *)
Emptied ==
  \A s \in Slot : Writer(s) /\ thread[s] = "writing" =>
    bucket_no(s) \in DOMAIN bucket /\ bucket[bucket_no(s)] = <<>>

(* No value is in two places, because every bucket holds what its round    *)
(* and its writer may put there and nothing else.                          *)
PlaceInv ==
  /\ Once
  /\ Emptied
  /\ \A b \in DOMAIN bucket : \A p \in DOMAIN bucket[b] :
       /\ pc \in WriterRole => Holds(b, bucket[b][p])
       /\ pc \notin WriterRole \cup {"free", "crashed"} => Old(bucket[b][p])
       /\ pc = "free" =>
            bucket[b][p] \in Nat /\ bucket[b][p] < j * max_records + max_records

(* The part of the array that a round writes.                              *)
LEMMA RoundWithin ==
  ASSUME IInv, pc \in WriterRole
  PROVE  /\ base \in Nat /\ SegmentSize(pc) \in Nat
         /\ base + SegmentSize(pc) <= max_records
         /\ ThreadCount(pc) \in Nat \ {0}
         /\ base .. (base + SegmentSize(pc) - 1) \subseteq Cell
<1>1. max_records \in Nat /\ ThreadCount(pc) \in Nat \ {0}
  BY ConfigAssumption, ThreadCountPositive DEF WriterRole, Role
<1>2. base \in Nat /\ SegmentSize(pc) \in Nat /\ base + SegmentSize(pc) <= max_records
  <2>1. CASE pc = "writing_sort"
    <3>1. write_threads < sort_threads /\ k \in Nat /\ k < write_iter
      BY <2>1 DEF IInv, MainInv, TypeOK
    <3>2. /\ write_iter \in Nat /\ write_segment \in Nat
          /\ write_iter * write_segment <= max_records
      BY <3>1, SegmentsFit
    <3>3. (k + 1) * write_segment <= write_iter * write_segment
      BY <3>1, <3>2, TimesMonotone, k + 1 \in Nat, k + 1 <= write_iter
    <3>4. /\ (k + 1) * write_segment = k * write_segment + write_segment
          /\ k * write_segment \in Nat /\ write_iter * write_segment \in Nat
      BY <3>1, <3>2
    <3>5. base = k * write_segment /\ SegmentSize(pc) = write_segment
      BY <2>1 DEF base, SegmentSize
    <3> QED
      BY <1>1, <3>2, <3>3, <3>4, <3>5
  <2>2. CASE pc # "writing_sort"
    BY <1>1, <2>2 DEF base, SegmentSize
  <2> QED
    BY <2>1, <2>2
<1>3. base .. (base + SegmentSize(pc) - 1) \subseteq Cell
  BY <1>1, <1>2 DEF Cell
<1> QED
  BY <1>1, <1>2, <1>3

LEMMA RoundSliceWithin ==
  ASSUME IInv, pc \in WriterRole, NEW n \in 0 .. (ThreadCount(pc) - 1)
  PROVE  RoundSlice(n) \subseteq base .. (base + SegmentSize(pc) - 1)
<1> DEFINE M == SegmentSize(pc)
           T == ThreadCount(pc)
<1>1. M \in Nat /\ T \in Nat \ {0} /\ base \in Nat /\ n \in 0 .. (T - 1)
  BY RoundWithin
<1>2. RoundSlice(n) = {base + c : c \in Slice(M, T, n)}
  BY DEF RoundSlice
<1> HIDE DEF M, T
<1>3. Slice(M, T, n) \subseteq 0 .. (M - 1)
  BY <1>1, SliceWithin DEF Slice
<1>4. RoundSlice(n) \subseteq base .. (base + M - 1)
  BY <1>1, <1>2, <1>3
<1> QED
  BY <1>4 DEF M

LEMMA RoundSlicesApart ==
  ASSUME IInv, pc \in WriterRole, NEW m \in 0 .. (ThreadCount(pc) - 1),
         NEW n \in 0 .. (ThreadCount(pc) - 1), m # n
  PROVE  RoundSlice(m) \cap RoundSlice(n) = {}
<1> DEFINE M == SegmentSize(pc)
           T == ThreadCount(pc)
<1>1. M \in Nat /\ T \in Nat \ {0} /\ base \in Nat /\ m \in 0 .. (T - 1) /\ n \in 0 .. (T - 1)
  BY RoundWithin
<1>2. /\ RoundSlice(m) = {base + c : c \in Slice(M, T, m)}
      /\ RoundSlice(n) = {base + c : c \in Slice(M, T, n)}
  BY DEF RoundSlice
<1> HIDE DEF M, T
<1>3. /\ Slice(M, T, m) \cap Slice(M, T, n) = {}
      /\ Slice(M, T, m) \subseteq Int /\ Slice(M, T, n) \subseteq Int
  BY <1>1, SlicesDisjoint DEF Slice
<1> QED
  BY <1>1, <1>2, <1>3

LEMMA RoundSlicesCover ==
  ASSUME IInv, pc \in WriterRole, NEW c \in Int, base <= c, c < base + SegmentSize(pc)
  PROVE  \E n \in 0 .. (ThreadCount(pc) - 1) : c \in RoundSlice(n)
<1> DEFINE M == SegmentSize(pc)
           T == ThreadCount(pc)
<1>1. M \in Nat /\ T \in Nat \ {0} /\ base \in Nat
  BY RoundWithin
<1>2. \A n : RoundSlice(n) = {base + d : d \in Slice(M, T, n)}
  BY DEF RoundSlice
<1>3. c < base + M
  OBVIOUS
<1> HIDE DEF M, T
<1>4. c - base \in 0 .. (M - 1)
  BY <1>1, <1>3
<1>5. PICK n \in 0 .. (T - 1) : c - base \in Slice(M, T, n)
  BY <1>1, <1>4, SlicesCover
<1>6. c = base + (c - base)
  BY <1>1
<1>7. c \in RoundSlice(n)
  BY <1>2, <1>5, <1>6
<1> QED
  BY <1>5, <1>7 DEF T

(* A writer touches its slice of this round.                               *)
LEMMA TouchesRound ==
  ASSUME IInv, NEW s \in Slot, Writer(s), thread[s] # "none"
  PROVE  Touches(s) = RoundSlice(s[2])
<1> DEFINE M == SegmentSize(pc)
           T == ThreadCount(pc)
           a == SliceStart(M, T, s[2])
           b == SliceEnd(M, T, s[2])
<1>1. s[1] = pc /\ arg[s].k = k /\ s[2] \in 0 .. (T - 1) /\ pc \in WriterRole
  BY SlotShape DEF IInv, ThreadInv, Writer, WriterRole
<1>2. M \in Nat /\ T \in Nat \ {0} /\ base \in Nat
  BY <1>1, RoundWithin
<1>3. a \in Nat /\ b \in Nat
  <2> HIDE DEF M, T
  <2> QED
    BY <1>1, <1>2, SliceWithin
<1>4. start_index(s) = base + a /\ end_index(s) = base + b
  BY <1>1 DEF start_index, end_index, SegmentStart, base
<1>5. RoundSlice(s[2]) = {base + c : c \in a .. (b - 1)}
  BY DEF RoundSlice, Slice
<1> HIDE DEF a, b, M, T
<1>6. Touches(s) = (base + a) .. (base + b - 1)
  <2>1. end_index(s) - 1 = base + b - 1
    BY <1>2, <1>3, <1>4
  <2> QED
    BY <1>4, <2>1 DEF Touches
<1>7. \A x \in (base + a) .. (base + b - 1) : x - base \in a .. (b - 1) /\ x = base + (x - base)
  BY <1>2, <1>3
<1>8. \A c \in a .. (b - 1) : base + c \in (base + a) .. (base + b - 1)
  BY <1>2, <1>3
<1> QED
  BY <1>5, <1>6, <1>7, <1>8

(* In the writing phases the array holds this iteration's nonces.          *)
LEMMA Written ==
  ASSUME IInv, FillInv, pc \in Later
  PROVE  \A c \in Cell : /\ hashes[c] \in Nat /\ ~Old(hashes[c])
                         /\ hashes[c] < j * max_records + max_records
                         /\ \A d \in Cell : hashes[c] = hashes[d] => c = d
<1>1. Filled
  BY DEF FillInv
<1>2. j * max_records \in Nat /\ max_records \in Nat
  BY Offsets DEF IInv
<1>3. \A c \in Cell : hashes[c] \in Iteration
  BY <1>1 DEF Filled
<1> QED
  BY <1>1, <1>2, <1>3 DEF Filled, Iteration, Old

(* What a writer stores is in no other bucket.                             *)
LEMMA NewToOthers ==
  ASSUME IInv, FillInv, pc \in WriterRole, NEW n \in 0 .. (ThreadCount(pc) - 1),
         NEW c \in RoundSlice(n), NEW b, NEW v, Holds(b, v), b # round_start + n
  PROVE  v # hashes[c]
<1>1. c \in Cell /\ base <= c /\ base \in Nat
  BY RoundWithin, RoundSliceWithin
<1>2. /\ ~Old(hashes[c])
      /\ \A d \in Cell : hashes[c] = hashes[d] => c = d
  BY <1>1, Written DEF WriterRole, Later
<1>3. CASE Behind(v)
  BY <1>1, <1>2, <1>3 DEF Behind, Cell
<1>4. ASSUME NEW m \in 0 .. (ThreadCount(pc) - 1), b = round_start + m,
             NEW d \in RoundSlice(m), v = hashes[d]
      PROVE  v # hashes[c]
  <2>1. m # n
    BY <1>4
  <2>2. RoundSlice(m) \cap RoundSlice(n) = {}
    BY <2>1, RoundSlicesApart
  <2>3. d # c /\ d \in Cell
    BY <2>2, RoundWithin, RoundSliceWithin
  <2> QED
    BY <1>2, <1>4, <2>3
<1> QED
  BY <1>3, <1>4 DEF Holds

LEMMA RoundKept ==
  ASSUME UNCHANGED <<pc, k, no_files, j>>
  PROVE  /\ base' = base /\ round_start' = round_start
         /\ \A n : RoundSlice(n)' = RoundSlice(n)
         /\ \A v : Old(v)' <=> Old(v)
         /\ hashes' = hashes => \A b, v : Holds(b, v)' <=> Holds(b, v)
<1>1. base' = base /\ round_start' = round_start
  BY DEF base, round_start
<1>2. \A n : RoundSlice(n)' = RoundSlice(n)
  BY <1>1 DEF RoundSlice
<1>3. \A v : Old(v)' <=> Old(v)
  BY DEF Old
<1>4. hashes' = hashes => \A v : Behind(v)' <=> Behind(v)
  BY <1>1, <1>3 DEF Behind
<1>5. hashes' = hashes => \A b, v : Holds(b, v)' <=> Holds(b, v)
  BY <1>1, <1>2, <1>4 DEF Holds
<1> QED
  BY <1>1, <1>2, <1>3, <1>5

(* A writer's bucket has a number of its own among those being written.    *)
LEMMA EmptiedKept ==
  ASSUME IInv, Emptied, UNCHANGED arg, NEW s \in Slot, Writer(s), thread[s] # "none",
         NEW recs, bucket' = BucketsWith(bucket_no(s), recs),
         NEW v \in {"writing", "exited"}, thread' = [thread EXCEPT ![s] = v],
         v = "writing" => recs = <<>>
  PROVE  Emptied'
<1> SUFFICES ASSUME NEW t \in Slot, Writer(t), thread'[t] = "writing"
             PROVE  bucket_no(t) \in DOMAIN bucket' /\ bucket'[bucket_no(t)] = <<>>
  <2>1. \A t \in Slot : Writer(t)' <=> Writer(t)
    BY DEF Writer
  <2>2. \A t \in Slot : bucket_no(t)' = bucket_no(t)
    BY DEF bucket_no
  <2> QED
    BY <2>1, <2>2 DEF Emptied
<1>1. thread \in [Slot -> {"none", "running", "writing", "exited"}]
  BY DEF IInv, TypeOK
<1>2. CASE t = s
  BY <1>1, <1>2 DEF BucketsWith
<1>3. CASE t # s
  <2>1. thread[t] = "writing"
    BY <1>1, <1>3
  <2>2. bucket_no(t) # bucket_no(s)
    BY <1>3, <2>1, TouchesApart
  <2>3. bucket_no(t) \in DOMAIN bucket /\ bucket[bucket_no(t)] = <<>>
    BY <2>1 DEF Emptied
  <2> QED
    BY <2>2, <2>3 DEF BucketsWith
<1> QED
  BY <1>2, <1>3

(* Opening adds an empty bucket, and no place.                             *)
LEMMA OpenPlaces ==
  ASSUME IInv, Numbering, PlaceInv, NEW s \in Slot, OpenBucket(s)
  PROVE  PlaceInv'
<1>1. /\ Writer(s) /\ thread[s] = "running"
      /\ UNCHANGED <<pc, k, no_files, j, hashes, arg>>
  BY DEF OpenBucket
<1>2. pc \in WriterRole
  BY <1>1, BucketOfRound
<1>3. CASE bucket' = bucket /\ Exit(s)
  <2>1. \A t \in Slot : thread'[t] = "writing" => thread[t] = "writing"
    BY <1>3 DEF Exit, IInv, TypeOK
  <2>2. Emptied'
    BY <1>1, <1>3, <2>1 DEF PlaceInv, Emptied, Writer, bucket_no
  <2> QED
    BY <1>1, <1>2, <1>3, <2>2, RoundKept DEF PlaceInv, Once, WriterRole
<1>4. CASE bucket' = BucketsWith(bucket_no(s), <<>>) /\ thread' = [thread EXCEPT ![s] = "writing"]
  <2>1. bucket_no(s) \notin DOMAIN bucket
    BY <1>1, OpensNew
  <2>2. Emptied'
    BY <1>1, <1>4, EmptiedKept DEF PlaceInv
  <2>3. /\ DOMAIN bucket' = DOMAIN bucket \cup {bucket_no(s)}
        /\ \A b \in DOMAIN bucket : bucket'[b] = bucket[b]
        /\ bucket'[bucket_no(s)] = <<>>
    BY <1>4, <2>1 DEF BucketsWith
  <2>4. \A b \in DOMAIN bucket' : \A p \in DOMAIN bucket'[b] :
          b \in DOMAIN bucket /\ p \in DOMAIN bucket[b] /\ bucket'[b][p] = bucket[b][p]
    BY <2>3
  <2>5. Once'
    <3> SUFFICES ASSUME NEW a \in DOMAIN bucket', NEW b \in DOMAIN bucket',
                        NEW p \in DOMAIN bucket'[a], NEW q \in DOMAIN bucket'[b],
                        bucket'[a][p] = bucket'[b][q]
                 PROVE  a = b /\ p = q
      BY DEF Once
    <3>1. /\ a \in DOMAIN bucket /\ p \in DOMAIN bucket[a] /\ bucket'[a][p] = bucket[a][p]
          /\ b \in DOMAIN bucket /\ q \in DOMAIN bucket[b] /\ bucket'[b][q] = bucket[b][q]
      BY <2>4
    <3>2. bucket[a][p] = bucket[b][q]
      BY <3>1
    <3> QED
      BY <3>1, <3>2 DEF PlaceInv, Once
  <2>6. \A b \in DOMAIN bucket' : \A p \in DOMAIN bucket'[b] : Holds(b, bucket'[b][p])
    BY <1>2, <2>4 DEF PlaceInv
  <2>7. \A b, v : Holds(b, v)' <=> Holds(b, v)
    BY <1>1, RoundKept
  <2> QED
    BY <1>1, <1>2, <2>2, <2>5, <2>6, <2>7 DEF PlaceInv, WriterRole
<1> QED
  BY <1>3, <1>4 DEF OpenBucket

(* Writing puts new values into an empty bucket.                           *)
LEMMA WritePlaces ==
  ASSUME IInv, FillInv, PlaceInv, NEW s \in Slot, WriteBucket(s)
  PROVE  PlaceInv'
<1>1. /\ Writer(s) /\ thread[s] = "writing"
      /\ thread' = [thread EXCEPT ![s] = "exited"]
      /\ UNCHANGED <<pc, k, no_files, j, hashes, arg>>
  BY DEF WriteBucket, Exit
<1> DEFINE n == s[2]
           bn == bucket_no(s)
<1>2. /\ pc \in WriterRole /\ n \in 0 .. (ThreadCount(pc) - 1)
      /\ bn = round_start + n /\ Touches(s) = RoundSlice(n)
  <2>1. /\ bucket_no(s) = round_start + n /\ pc \in WriterRole
        /\ s[2] \in 0 .. (spawned - 1) /\ s[2] < ThreadCount(pc)
    BY <1>1, BucketOfRound
  <2>2. ThreadCount(pc) \in Nat /\ spawned \in Nat
    BY <2>1, RoundWithin DEF IInv, TypeOK
  <2> QED
    BY <1>1, <2>1, <2>2, TouchesRound
<1>3. bn \in DOMAIN bucket /\ bucket[bn] = <<>>
  BY <1>1 DEF PlaceInv, Emptied
<1>4. PICK recs \in Seq(Nonce \cup {Garbage}) :
        /\ bucket' = BucketsWith(bn, recs)
        /\ DOMAIN recs \subseteq 1 .. (end_index(s) - start_index(s))
        /\ \A m \in DOMAIN recs :
             /\ recs[m] = hashes[start_index(s) + m - 1]
             /\ start_index(s) + m - 1 \in Touches(s)
  BY StoresSlice
<1>5. Emptied'
  BY <1>1, <1>4, EmptiedKept DEF PlaceInv
<1>6. start_index(s) \in Nat
  BY <1>1, TouchesWithin
<1> HIDE DEF n, bn
<1>7. /\ DOMAIN bucket' = DOMAIN bucket
      /\ \A b \in DOMAIN bucket : b # bn => bucket'[b] = bucket[b]
      /\ bucket'[bn] = recs
  BY <1>3, <1>4 DEF BucketsWith
<1>8. \A b \in DOMAIN bucket : \A p \in DOMAIN bucket[b] : Holds(b, bucket[b][p])
  BY <1>2 DEF PlaceInv
<1>9. \A m \in DOMAIN recs : \E c \in RoundSlice(n) : recs[m] = hashes[c]
  BY <1>2, <1>4
<1>10. \A m \in DOMAIN recs : Holds(bn, recs[m])
  BY <1>2, <1>9 DEF Holds
<1>11. \A b \in DOMAIN bucket' : \A p \in DOMAIN bucket'[b] : Holds(b, bucket'[b][p])
  BY <1>7, <1>8, <1>10
<1>12. ASSUME NEW b \in DOMAIN bucket, b # bn, NEW q \in DOMAIN bucket[b], NEW m \in DOMAIN recs
       PROVE  bucket[b][q] # recs[m]
  <2>1. PICK c \in RoundSlice(n) : recs[m] = hashes[c]
    BY <1>9
  <2>2. Holds(b, bucket[b][q])
    BY <1>8
  <2> QED
    BY <1>2, <1>12, <2>1, <2>2, NewToOthers
<1>13. ASSUME NEW l \in DOMAIN recs, NEW m \in DOMAIN recs, recs[l] = recs[m]
       PROVE  l = m
  <2> DEFINE c == start_index(s) + l - 1
             d == start_index(s) + m - 1
  <2>1. l \in Int /\ m \in Int
    BY <1>4
  <2>2. c \in Cell /\ d \in Cell /\ hashes[c] = hashes[d]
    BY <1>1, <1>4, <1>13, TouchesWithin
  <2>3. c = d
    <3> HIDE DEF c, d
    <3> QED
      BY <1>2, <2>2, Written DEF WriterRole, Later
  <2> QED
    BY <1>6, <2>1, <2>3
<1>14. Once'
  <2> SUFFICES ASSUME NEW a \in DOMAIN bucket', NEW b \in DOMAIN bucket',
                      NEW p \in DOMAIN bucket'[a], NEW q \in DOMAIN bucket'[b],
                      bucket'[a][p] = bucket'[b][q]
               PROVE  a = b /\ p = q
    BY DEF Once
  <2>1. CASE a # bn /\ b # bn
    BY <1>7, <2>1 DEF PlaceInv, Once
  <2>2. CASE a = bn /\ b # bn
    BY <1>7, <1>12, <2>2
  <2>3. CASE a # bn /\ b = bn
    BY <1>7, <1>12, <2>3
  <2>4. CASE a = bn /\ b = bn
    BY <1>7, <1>13, <2>4
  <2> QED
    BY <2>1, <2>2, <2>3, <2>4
<1>15. \A b, v : Holds(b, v)' <=> Holds(b, v)
  BY <1>1, RoundKept
<1> QED
  BY <1>1, <1>2, <1>5, <1>11, <1>14, <1>15 DEF PlaceInv, WriterRole

(* Steps that leave the files alone.                                       *)
LEMMA PlacesKept ==
  ASSUME IInv, PlaceInv, UNCHANGED <<pc, k, no_files, j, bucket>>,
         pc \in WriterRole => hashes' = hashes,
         \A s \in Slot : thread'[s] = "writing" => thread[s] = "writing" /\ arg'[s] = arg[s]
  PROVE  PlaceInv'
<1>1. Emptied'
  BY DEF PlaceInv, Emptied, Writer, bucket_no
<1>2. Once'
  BY DEF PlaceInv, Once
<1>3. \A v : Old(v)' <=> Old(v)
  BY RoundKept
<1>4. ASSUME pc \in WriterRole PROVE \A b, v : Holds(b, v)' <=> Holds(b, v)
  BY <1>4, RoundKept
<1> QED
  BY <1>1, <1>2, <1>3, <1>4 DEF PlaceInv

(* What a round leaves behind.                                             *)
LEMMA RoundPlaced ==
  ASSUME IInv, FillInv, PlaceInv, pc \in WriterRole,
         NEW b \in DOMAIN bucket, NEW p \in DOMAIN bucket[b]
  PROVE  /\ bucket[b][p] \in Nat /\ bucket[b][p] < j * max_records + max_records
         /\ \/ Old(bucket[b][p])
            \/ \E c \in Cell : c < base + SegmentSize(pc) /\ bucket[b][p] = hashes[c]
<1>1. Holds(b, bucket[b][p])
  BY DEF PlaceInv
<1>2. base \in Nat /\ SegmentSize(pc) \in Nat
  BY RoundWithin
<1>3. \/ Old(bucket[b][p])
      \/ \E c \in Cell : c < base + SegmentSize(pc) /\ bucket[b][p] = hashes[c]
  <2>1. CASE Behind(bucket[b][p])
    BY <1>2, <2>1 DEF Behind, Cell
  <2>2. ASSUME NEW n \in 0 .. (ThreadCount(pc) - 1), NEW c \in RoundSlice(n),
               bucket[b][p] = hashes[c]
        PROVE  \E d \in Cell : d < base + SegmentSize(pc) /\ bucket[b][p] = hashes[d]
    <3>1. c \in base .. (base + SegmentSize(pc) - 1) /\ c \in Cell
      BY RoundWithin, RoundSliceWithin
    <3>2. c < base + SegmentSize(pc)
      BY <1>2, <3>1
    <3> QED
      BY <2>2, <3>1, <3>2
  <2> QED
    BY <1>1, <2>1, <2>2 DEF Holds
<1>4. j * max_records \in Nat /\ max_records \in Nat
  BY Offsets DEF IInv
<1>5. bucket[b][p] \in Nat /\ bucket[b][p] < j * max_records + max_records
  <2>1. CASE Old(bucket[b][p])
    BY <1>4, <2>1 DEF Old
  <2>2. ASSUME NEW c \in Cell, bucket[b][p] = hashes[c]
        PROVE  bucket[b][p] \in Nat /\ bucket[b][p] < j * max_records + max_records
    BY <2>2, Written DEF WriterRole, Later
  <2> QED
    BY <1>3, <2>1, <2>2
<1> QED
  BY <1>3, <1>5

(* When no writer exists nothing is being emptied.                         *)
LEMMA QuietPlaces ==
  ASSUME PlaceInv, UNCHANGED bucket, \A s \in Slot : thread'[s] # "writing"
  PROVE  Once' /\ Emptied'
  BY DEF PlaceInv, Once, Emptied

LEMMA SortingDonePlaces ==
  ASSUME IInv, Numbering, PlaceInv, SortingDone
  PROVE  PlaceInv'
<1>1. /\ pc = "sorting" /\ pc' \in WriterRole /\ k' = 0
      /\ UNCHANGED <<no_files, j, bucket, hashes, thread>>
      /\ \A s \in Slot : thread[s] = "none"
  BY BarrierEmpty DEF SortingDone, AllJoined, Role, WriterRole
<1>2. no_files \in Nat /\ write_threads * 0 = 0
  BY ConfigAssumption DEF IInv, TypeOK
<1>3. round_start' = no_files
  BY <1>1, <1>2 DEF round_start
<1>4. \A b \in DOMAIN bucket : b < no_files
  BY <1>1, CountedOutside DEF WriterRole
<1>5. \A b \in DOMAIN bucket : \A p \in DOMAIN bucket[b] : Old(bucket[b][p])
  BY <1>1 DEF PlaceInv, WriterRole
<1>6. \A v : Old(v) => Behind(v)'
  BY <1>1 DEF Behind, Old
<1>7. ASSUME NEW b \in DOMAIN bucket', NEW p \in DOMAIN bucket'[b]
      PROVE  Holds(b, bucket[b][p])'
  <2>1. PICK v : v = bucket[b][p]
    OBVIOUS
  <2>2. Holds(b, v)'
    BY <1>1, <1>3, <1>4, <1>5, <1>6, <2>1 DEF Holds
  <2>3. bucket'[b][p] = v
    BY <1>1, <2>1
  <2> QED
    BY <2>2, <2>3 DEF Holds, Behind, Old
<1> QED
  BY <1>1, <1>7, QuietPlaces DEF PlaceInv, WriterRole

(* The end of a round.                                                     *)
LEMMA RoundDonePlaces ==
  ASSUME IInv, FillInv, Numbering, PlaceInv, WritingWriteDone \/ WritingSortDone
  PROVE  PlaceInv'
<1>1. /\ pc \in WriterRole /\ UNCHANGED <<j, bucket, hashes, thread>>
      /\ \A s \in Slot : thread[s] = "none"
      /\ \/ pc' = "free"
         \/ pc = "writing_sort" /\ pc' = pc /\ k' = k + 1 /\ no_files' = no_files
  BY BarrierEmpty
     DEF WritingWriteDone, WritingSortDone, AllJoined, Role, WriterRole, NextRound, own
<1>2. Once' /\ Emptied'
  BY <1>1, QuietPlaces
<1>3. CASE pc' = "free"
  BY <1>1, <1>2, <1>3, RoundPlaced DEF PlaceInv, WriterRole
<1>4. CASE pc = "writing_sort" /\ pc' = pc /\ k' = k + 1 /\ no_files' = no_files
  <2>1. /\ k \in Nat /\ write_threads \in Nat /\ no_files \in Nat
        /\ write_segment \in Nat /\ base = k * write_segment
        /\ SegmentSize(pc) = write_segment /\ ThreadCount(pc) = write_threads
        /\ round_start = no_files + write_threads * k
    <3>1. SegmentSize(pc) = write_segment
      BY <1>4 DEF SegmentSize
    <3> QED
      BY <1>1, <1>4, <3>1, ConfigAssumption, WriterCounts, RoundWithin
         DEF IInv, TypeOK, base, round_start
  <2>2. /\ (k + 1) * write_segment = k * write_segment + write_segment
        /\ write_threads * (k + 1) = write_threads * k + write_threads
        /\ write_threads * k \in Nat
    BY <2>1
  <2>3. base' = base + SegmentSize(pc) /\ round_start' = round_start + ThreadCount(pc)
    <3>1. base' = (k + 1) * write_segment /\ round_start' = no_files + write_threads * (k + 1)
      BY <1>4 DEF base, round_start
    <3> QED
      BY <2>1, <2>2, <3>1
  <2>4. \A b \in DOMAIN bucket : b < round_start'
    BY <1>1, <2>3, InRound
  <2>5. ASSUME NEW b \in DOMAIN bucket', NEW p \in DOMAIN bucket'[b]
        PROVE  Holds(b, bucket[b][p])'
    <3>1. PICK v : v = bucket[b][p]
      OBVIOUS
    <3>2. Old(v) \/ \E c \in Cell : c < base' /\ v = hashes[c]
      BY <1>1, <2>3, <2>5, <3>1, RoundPlaced
    <3>3. Behind(v)'
      BY <1>1, <3>2 DEF Behind, Old
    <3>4. Holds(b, v)'
      BY <1>1, <2>4, <3>3 DEF Holds
    <3>5. bucket'[b][p] = v
      BY <1>1, <3>1
    <3> QED
      BY <3>4, <3>5 DEF Holds, Behind, Old
  <2> QED
    BY <1>1, <1>2, <1>4, <2>5 DEF PlaceInv, WriterRole
<1> QED
  BY <1>1, <1>3, <1>4

LEMMA NextPlaceInv == FilesInv /\ FillInv /\ PlaceInv /\ [Next]_vars => PlaceInv'
<1> SUFFICES ASSUME FilesInv, FillInv, PlaceInv, [Next]_vars PROVE PlaceInv'
  OBVIOUS
<1>1. IInv /\ (pc # "crashed" => Numbering)
  BY DEF FilesInv
<1>2. thread \in [Slot -> {"none", "running", "writing", "exited"}]
      /\ arg \in [Slot -> Argument]
  BY <1>1 DEF IInv, TypeOK
<1>3. CASE Malloc \/ LeaveLoop \/ HashingDone
  <2>1. /\ UNCHANGED <<j, bucket, thread>> /\ pc \in {"malloc", "hashing"}
        /\ pc' \in {"hashing", "ExternalSort", "sorting"}
        /\ \A s \in Slot : thread[s] = "none"
    BY <1>1, <1>3, QuietEmpty, BarrierEmpty
       DEF Malloc, LeaveLoop, HashingDone, AllJoined, Role, own
  <2>2. \A v : Old(v)' <=> Old(v)
    BY <2>1 DEF Old
  <2> QED
    BY <2>1, <2>2, QuietPlaces DEF PlaceInv, WriterRole
<1>4. CASE Create
  <2>1. /\ UNCHANGED <<pc, k, no_files, j, bucket, hashes>>
        /\ thread' = [thread EXCEPT ![<<pc, spawned>>] = "running"]
        /\ \A s \in Slot : s # <<pc, spawned>> => arg'[s] = arg[s]
    BY <1>2, <1>4 DEF Create
  <2>2. \A s \in Slot : thread'[s] = "writing" => thread[s] = "writing" /\ arg'[s] = arg[s]
    BY <1>2, <2>1
  <2> QED
    BY <1>1, <2>1, <2>2, PlacesKept
<1>5. CASE Join
  <2>1. /\ UNCHANGED <<pc, k, no_files, j, bucket, hashes, arg>>
        /\ thread' = [thread EXCEPT ![<<pc, joined>>] = "none"]
    BY <1>5 DEF Join
  <2>2. \A s \in Slot : thread'[s] = "writing" => thread[s] = "writing" /\ arg'[s] = arg[s]
    BY <1>2, <2>1
  <2> QED
    BY <1>1, <2>1, <2>2, PlacesKept
<1>6. CASE SortingDone
  BY <1>1, <1>6, SortingDonePlaces DEF SortingDone, AllJoined
<1>7. CASE WritingWriteDone \/ WritingSortDone
  BY <1>1, <1>7, RoundDonePlaces DEF WritingWriteDone, WritingSortDone, AllJoined
<1>8. CASE Free
  <2>1. /\ UNCHANGED <<bucket, thread>> /\ pc = "free" /\ pc' = "malloc" /\ j' = j + 1
        /\ \A s \in Slot : thread[s] = "none"
    BY <1>1, <1>8, QuietEmpty DEF Free, Role
  <2>2. (j + 1) * max_records = j * max_records + max_records
    BY <1>1, Offsets DEF IInv
  <2>3. \A b \in DOMAIN bucket : \A p \in DOMAIN bucket[b] : Old(bucket[b][p])'
    BY <1>1, <2>1, <2>2, Offsets DEF PlaceInv, IInv, TypeOK, Old
  <2> QED
    BY <2>1, <2>3, QuietPlaces DEF PlaceInv, WriterRole
<1>9. ASSUME NEW s \in Slot, HashRecord(s) \/ HashReturn(s) \/ QSort(s) PROVE PlaceInv'
  <2>1. /\ UNCHANGED <<pc, k, no_files, j, bucket, arg>>
        /\ thread' = thread \/ Exit(s)
        /\ s[1] \in {"hashing", "sorting"} /\ thread[s] = "running"
    BY <1>9 DEF HashRecord, HashReturn, QSort, Running, shared
  <2>2. pc \notin WriterRole
    BY <1>1, <2>1 DEF IInv, ThreadInv, WriterRole
  <2>3. \A t \in Slot : thread'[t] = "writing" => thread[t] = "writing" /\ arg'[t] = arg[t]
    BY <1>2, <2>1 DEF Exit
  <2> QED
    BY <1>1, <2>1, <2>2, <2>3, PlacesKept
<1>10. ASSUME NEW s \in Slot, OpenBucket(s) \/ WriteBucket(s) PROVE PlaceInv'
  <2>1. Writer(s) /\ thread[s] # "none"
    BY <1>10 DEF OpenBucket, WriteBucket
  <2>2. pc # "crashed"
    BY <1>1, <2>1, BucketOfRound DEF WriterRole
  <2> QED
    BY <1>1, <1>10, <2>2, OpenPlaces, WritePlaces
<1>11. CASE Crash
  <2>1. pc' = "crashed" /\ UNCHANGED bucket /\ \A s \in Slot : thread'[s] # "writing"
    BY <1>11 DEF Crash
  <2> QED
    BY <2>1, QuietPlaces DEF PlaceInv, WriterRole
<1>12. CASE UNCHANGED vars
  BY <1>1, <1>12, PlacesKept DEF vars, shared, own
<1> QED
  BY <1>3, <1>4, <1>5, <1>6, <1>7, <1>8, <1>9, <1>10, <1>11, <1>12
     DEF Next, Step, Main, Worker, NoArgument, NullStore, Over

LEMMA PlaceInvAlways == Spec => []PlaceInv
<1>1. Init => PlaceInv
  <2> SUFFICES ASSUME Init PROVE PlaceInv
    OBVIOUS
  <2>1. DOMAIN bucket = {} /\ \A s \in Slot : thread[s] = "none"
    BY DEF Init
  <2> QED
    BY <2>1 DEF PlaceInv, Once, Emptied
<1> QED
  BY <1>1, NextPlaceInv, FilesInvAlways, FillInvAlways, PTL DEF Spec

-----------------------------------------------------------------------------
(* No nonce is left out *)

Stored(v) == \E b \in DOMAIN bucket : \E p \in DOMAIN bucket[b] : bucket[b][p] = v

(* The instances whose files can all be written, and whose rounds reach    *)
(* the whole array.                                                        *)
AllWritten == Faults \subseteq {"malloc"} /\ NoRemainder

(* Stored are the nonces of earlier iterations, of earlier rounds and of   *)
(* the writers of this round that have returned.                           *)
StoredInv ==
  /\ \A v \in Nat : v < j * max_records => Stored(v)
  /\ pc \in WriterRole =>
       /\ \A c \in Cell : c < base => Stored(hashes[c])
       /\ \A n \in 0 .. (ThreadCount(pc) - 1) : n < spawned /\ ~Busy(<<pc, n>>) =>
            \A c \in RoundSlice(n) : Stored(hashes[c])
  /\ pc = "free" => \A c \in Cell : Stored(hashes[c])

LEMMA StoredKept ==
  ASSUME UNCHANGED bucket
  PROVE  \A v : Stored(v)' <=> Stored(v)
  BY DEF Stored

(* A writer replaces an empty file only.                                   *)
LEMMA StoredGrows ==
  ASSUME IInv, Numbering, PlaceInv, NEW s \in Slot, OpenBucket(s) \/ WriteBucket(s)
  PROVE  \A v : Stored(v) => Stored(v)'
<1>1. CASE bucket' = bucket
  BY <1>1, StoredKept
<1>2. ASSUME NEW recs, bucket' = BucketsWith(bucket_no(s), recs)
      PROVE  \A v : Stored(v) => Stored(v)'
  <2>1. bucket_no(s) \in DOMAIN bucket => bucket[bucket_no(s)] = <<>>
    BY OpensNew DEF OpenBucket, WriteBucket, PlaceInv, Emptied
  <2>2. \A b \in DOMAIN bucket : \A p \in DOMAIN bucket[b] :
          b \in DOMAIN bucket' /\ bucket'[b] = bucket[b]
    BY <1>2, <2>1 DEF BucketsWith
  <2> QED
    BY <2>2 DEF Stored
<1> QED
  BY <1>1, <1>2 DEF OpenBucket, WriteBucket

(* A writer that returns has stored its whole slice.                       *)
LEMMA WriteStores ==
  ASSUME IInv, "short" \notin Faults, NEW s \in Slot, WriteBucket(s)
  PROVE  \A c \in Touches(s) : Stored(hashes[c])'
<1>1. thread[s] # "none" /\ UNCHANGED hashes
  BY DEF WriteBucket
<1>2. PICK recs \in Seq(Nonce \cup {Garbage}) :
        /\ bucket' = BucketsWith(bucket_no(s), recs)
        /\ DOMAIN recs = 1 .. (end_index(s) - start_index(s))
        /\ \A m \in DOMAIN recs : recs[m] = hashes[start_index(s) + m - 1]
  BY StoresSlice
<1>3. start_index(s) \in Nat /\ end_index(s) \in Nat
  BY <1>1, TouchesWithin
<1>4. bucket_no(s) \in DOMAIN bucket' /\ bucket'[bucket_no(s)] = recs
  BY <1>2 DEF BucketsWith
<1> SUFFICES ASSUME NEW c \in Touches(s) PROVE Stored(hashes[c])'
  OBVIOUS
<1> DEFINE m == c - start_index(s) + 1
<1>5. m \in DOMAIN recs /\ start_index(s) + m - 1 = c
  BY <1>2, <1>3 DEF Touches
<1>6. recs[m] = hashes[c]
  BY <1>2, <1>5
<1> HIDE DEF m
<1> QED
  BY <1>1, <1>4, <1>5, <1>6 DEF Stored

(* Within a round: the cells of a writer that is not busy are stored.      *)
LEMMA RoundStored ==
  ASSUME IInv, StoredInv, UNCHANGED <<pc, k, no_files, j>>, pc \in Role,
         pc \in WriterRole => hashes' = hashes,
         \A v : Stored(v) => Stored(v)',
         pc \in WriterRole =>
           \A n \in 0 .. (ThreadCount(pc) - 1) : n < spawned' /\ ~Busy(<<pc, n>>)' =>
             \/ n < spawned /\ ~Busy(<<pc, n>>)
             \/ \A c \in RoundSlice(n) : Stored(hashes[c])'
  PROVE  StoredInv'
<1>1. base' = base /\ \A n : RoundSlice(n)' = RoundSlice(n)
  BY RoundKept
<1>2. \A v \in Nat : v < j' * max_records => Stored(v)'
  BY DEF StoredInv
<1>3. ASSUME pc \in WriterRole
      PROVE  /\ \A c \in Cell : c < base => Stored(hashes[c])'
             /\ \A n \in 0 .. (ThreadCount(pc) - 1) : n < spawned' /\ ~Busy(<<pc, n>>)' =>
                  \A c \in RoundSlice(n) : Stored(hashes[c])'
  <2>1. \A c : Stored(hashes[c]) => Stored(hashes[c])'
    <3> SUFFICES ASSUME NEW c, Stored(hashes[c]) PROVE Stored(hashes[c])'
      OBVIOUS
    <3>1. PICK v : v = hashes[c]
      OBVIOUS
    <3>2. Stored(v)'
      BY <3>1
    <3> QED
      BY <1>3, <3>1, <3>2 DEF Stored
  <2> QED
    BY <1>3, <2>1 DEF StoredInv
<1> QED
  BY <1>1, <1>2, <1>3 DEF StoredInv, Role

(* At the end of a round the part of the array it writes is stored.        *)
LEMMA StoredAtBarrier ==
  ASSUME IInv, StoredInv, pc \in WriterRole, AllJoined(pc)
  PROVE  \A c \in Cell : c < base + SegmentSize(pc) => Stored(hashes[c])
<1> SUFFICES ASSUME NEW c \in Cell, c < base + SegmentSize(pc) PROVE Stored(hashes[c])
  OBVIOUS
<1>1. CASE c < base
  BY <1>1 DEF StoredInv
<1>2. CASE ~(c < base)
  <2>1. base \in Nat /\ c \in Int
    BY RoundWithin DEF Cell
  <2>2. PICK n \in 0 .. (ThreadCount(pc) - 1) : c \in RoundSlice(n)
    BY <1>2, <2>1, RoundSlicesCover
  <2>3. pc \in Role /\ ThreadCount(pc) \in Nat \ {0}
    BY ThreadCountPositive DEF WriterRole, Role
  <2>4. n < spawned
    BY <2>3 DEF AllJoined, IInv, MainInv, TypeOK
  <2>5. ~Busy(<<pc, n>>)
    BY <2>3, SlotBuilt, BarrierEmpty DEF Busy
  <2> QED
    BY <2>2, <2>4, <2>5 DEF StoredInv
<1> QED
  BY <1>1, <1>2

(* writing_write stores the whole array in one round; writing_sort has     *)
(* stored it after the last one when no record is left over.               *)
LEMMA RoundDoneStores ==
  ASSUME IInv, StoredInv, NoRemainder, WritingWriteDone \/ WritingSortDone
  PROVE  StoredInv'
<1>1. /\ pc \in WriterRole /\ AllJoined(pc) /\ UNCHANGED <<j, bucket, hashes>>
      /\ spawned' = 0
      /\ \/ pc = "writing_write" /\ pc' = "free"
         \/ pc = "writing_sort" /\ pc' = "free" /\ k + 1 >= write_iter
         \/ pc = "writing_sort" /\ pc' = pc /\ k' = k + 1
  BY DEF WritingWriteDone, WritingSortDone, AllJoined, WriterRole, NextRound, own
<1>2. \A v \in Nat : v < j' * max_records => Stored(v)'
  BY <1>1, StoredKept DEF StoredInv
<1>3. \A c \in Cell : c < base + SegmentSize(pc) => Stored(hashes[c])
  BY <1>1, StoredAtBarrier
<1>4. \A c : Stored(hashes[c])' <=> Stored(hashes[c])
  BY <1>1 DEF Stored
<1>5. base \in Nat /\ SegmentSize(pc) \in Nat
  BY <1>1, RoundWithin
<1>6. max_records \in Nat \ {0}
  BY ConfigAssumption
<1>7. CASE pc = "writing_write" /\ pc' = "free"
  <2>1. base + SegmentSize(pc) = max_records
    BY <1>6, <1>7 DEF base, SegmentSize
  <2>2. \A c \in Cell : c < base + SegmentSize(pc)
    BY <1>6, <2>1 DEF Cell
  <2> QED
    BY <1>2, <1>3, <1>4, <1>7, <2>2 DEF StoredInv, WriterRole
<1>8. CASE pc = "writing_sort" /\ pc' = "free" /\ k + 1 >= write_iter
  <2>1. /\ k \in Nat /\ k < write_iter /\ write_threads < sort_threads
        /\ base = k * write_segment /\ SegmentSize(pc) = write_segment
    BY <1>8 DEF IInv, MainInv, TypeOK, base, SegmentSize
  <2>2. write_iter \in Nat \ {0} /\ write_segment \in Nat
    BY <2>1, SegmentsFit
  <2>3. max_records % write_iter = 0
    BY <2>1, ConfigAssumption DEF NoRemainder
  <2>4. max_records = write_iter * write_segment
    <3> HIDE DEF write_iter
    <3> QED
      BY <1>6, <2>2, <2>3 DEF write_segment
  <2>5. write_iter = k + 1
    BY <1>8, <2>1, <2>2
  <2>6. (k + 1) * write_segment = k * write_segment + write_segment
    BY <2>1, <2>2
  <2>7. base + SegmentSize(pc) = max_records
    BY <2>1, <2>4, <2>5, <2>6
  <2>8. \A c \in Cell : c < base + SegmentSize(pc)
    BY <1>6, <2>7 DEF Cell
  <2> QED
    BY <1>2, <1>3, <1>4, <1>8, <2>8 DEF StoredInv, WriterRole
<1>9. CASE pc = "writing_sort" /\ pc' = pc /\ k' = k + 1
  <2>1. /\ k \in Nat /\ write_segment \in Nat
        /\ base = k * write_segment /\ SegmentSize(pc) = write_segment
    <3>1. SegmentSize(pc) = write_segment
      BY <1>9 DEF SegmentSize
    <3> QED
      BY <1>5, <1>9, <3>1 DEF IInv, TypeOK, base
  <2>2. base' = base + SegmentSize(pc)
    <3>1. base' = (k + 1) * write_segment
      BY <1>9 DEF base
    <3> QED
      BY <2>1, <3>1
  <2>3. \A n \in 0 .. (ThreadCount(pc) - 1) : ~(n < spawned')
    BY <1>1, RoundWithin
  <2> QED
    BY <1>1, <1>2, <1>3, <1>4, <1>9, <2>2, <2>3 DEF StoredInv
<1> QED
  BY <1>1, <1>7, <1>8, <1>9

(* Main creates and joins threads: none of them becomes idle by that.      *)
LEMMA MainStored ==
  ASSUME IInv, StoredInv, Create \/ Join
  PROVE  StoredInv'
<1>1. /\ pc \in Role /\ UNCHANGED <<pc, k, no_files, j, hashes, bucket>>
      /\ \/ /\ spawned' = spawned + 1
            /\ thread' = [thread EXCEPT ![<<pc, spawned>>] = "running"]
         \/ /\ spawned' = spawned /\ thread[<<pc, joined>>] = "exited"
            /\ thread' = [thread EXCEPT ![<<pc, joined>>] = "none"]
  BY DEF Create, Join
<1>2. /\ thread \in [Slot -> {"none", "running", "writing", "exited"}] /\ spawned \in Nat
      /\ ThreadCount(pc) \in Nat
  BY <1>1, ThreadCountPositive DEF IInv, TypeOK
<1>3. ASSUME NEW n \in 0 .. (ThreadCount(pc) - 1), n < spawned', ~Busy(<<pc, n>>)'
      PROVE  n < spawned /\ ~Busy(<<pc, n>>)
  <2>1. <<pc, n>> \in Slot
    BY <1>1, SlotBuilt
  <2>2. thread'[<<pc, n>>] \notin {"running", "writing"}
    BY <1>1, <1>3 DEF Busy
  <2>3. CASE spawned' = spawned + 1 /\ thread' = [thread EXCEPT ![<<pc, spawned>>] = "running"]
    <3>1. n # spawned
      BY <1>2, <2>1, <2>2, <2>3
    <3>2. n < spawned /\ <<pc, n>> # <<pc, spawned>>
      BY <1>2, <1>3, <2>3, <3>1
    <3>3. thread'[<<pc, n>>] = thread[<<pc, n>>]
      BY <1>2, <2>1, <2>3, <3>2
    <3> QED
      BY <2>2, <3>2, <3>3 DEF Busy
  <2>4. CASE /\ spawned' = spawned /\ thread[<<pc, joined>>] = "exited"
             /\ thread' = [thread EXCEPT ![<<pc, joined>>] = "none"]
    <3>1. thread[<<pc, n>>] \notin {"running", "writing"}
      BY <1>2, <2>1, <2>2, <2>4
    <3> QED
      BY <1>3, <2>4, <3>1 DEF Busy
  <2> QED
    BY <1>1, <2>3, <2>4
<1>4. \A v : Stored(v) => Stored(v)'
  BY <1>1, StoredKept
<1> QED
  BY <1>1, <1>3, <1>4, RoundStored

LEMMA ThreadStored ==
  ASSUME IInv, StoredInv, NEW s \in Slot, HashRecord(s) \/ HashReturn(s) \/ QSort(s)
  PROVE  StoredInv'
<1>1. /\ UNCHANGED <<pc, k, no_files, j, bucket>>
      /\ s[1] \in {"hashing", "sorting"} /\ thread[s] = "running"
  BY DEF HashRecord, HashReturn, QSort, Running, shared
<1>2. pc \in Role \ WriterRole
  BY <1>1, SlotShape DEF IInv, ThreadInv, WriterRole
<1>3. \A v : Stored(v) => Stored(v)'
  BY <1>1, StoredKept
<1> QED
  BY <1>1, <1>2, <1>3, RoundStored

LEMMA WriterStored ==
  ASSUME IInv, Numbering, PlaceInv, StoredInv, Faults \subseteq {"malloc"},
         NEW s \in Slot, OpenBucket(s) \/ WriteBucket(s)
  PROVE  StoredInv'
<1>1. /\ Writer(s) /\ thread[s] # "none" /\ UNCHANGED <<pc, k, no_files, j, hashes, spawned>>
      /\ \/ thread' = [thread EXCEPT ![s] = "writing"]
         \/ WriteBucket(s) /\ thread' = [thread EXCEPT ![s] = "exited"]
  BY DEF OpenBucket, WriteBucket, Exit
<1>2. thread \in [Slot -> {"none", "running", "writing", "exited"}]
  BY DEF IInv, TypeOK
<1>3. /\ s = <<pc, s[2]>> /\ pc \in WriterRole /\ Touches(s) = RoundSlice(s[2])
  BY <1>1, BucketOfRound, TouchesRound
<1>4. ASSUME NEW n \in 0 .. (ThreadCount(pc) - 1), n < spawned', ~Busy(<<pc, n>>)'
      PROVE  \/ n < spawned /\ ~Busy(<<pc, n>>)
             \/ \A c \in RoundSlice(n) : Stored(hashes[c])'
  <2>1. <<pc, n>> \in Slot
    BY <1>3, <1>4, SlotBuilt DEF WriterRole, Role
  <2>2. thread'[<<pc, n>>] \notin {"running", "writing"}
    BY <1>1, <1>4 DEF Busy
  <2>3. CASE n = s[2]
    <3>1. WriteBucket(s)
      BY <1>1, <1>2, <1>3, <2>1, <2>2, <2>3
    <3>2. \A c \in Touches(s) : Stored(hashes[c])'
      BY <3>1, WriteStores
    <3> QED
      BY <1>3, <2>3, <3>2
  <2>4. CASE n # s[2]
    <3>1. <<pc, n>> # s
      BY <1>3, <2>4
    <3>2. thread'[<<pc, n>>] = thread[<<pc, n>>]
      BY <1>1, <1>2, <2>1, <3>1
    <3> QED
      BY <1>1, <1>4, <2>2, <3>2 DEF Busy
  <2> QED
    BY <2>3, <2>4
<1>5. \A v : Stored(v) => Stored(v)'
  BY StoredGrows
<1> QED
  BY <1>1, <1>3, <1>4, <1>5, RoundStored DEF WriterRole, Role

(* What the array holds when an iteration ends are all its nonces.         *)
LEMMA FreeStores ==
  ASSUME IInv, FillInv, StoredInv, Free
  PROVE  StoredInv'
<1>1. pc = "free" /\ pc' = "malloc" /\ j' = j + 1 /\ UNCHANGED bucket
  BY DEF Free
<1>2. /\ j * max_records \in Nat /\ max_records \in Nat
      /\ (j + 1) * max_records = j * max_records + max_records
  BY Offsets DEF IInv
<1>3. \A c \in Cell : Stored(hashes[c])
  BY <1>1 DEF StoredInv
<1>4. ASSUME NEW v \in Nat, v < (j + 1) * max_records PROVE Stored(v)
  <2>1. CASE v < j * max_records
    BY <2>1 DEF StoredInv
  <2>2. CASE ~(v < j * max_records)
    <3>1. v \in Iteration
      BY <1>2, <1>4, <2>2 DEF Iteration
    <3>2. {hashes[c] : c \in Cell} = Iteration
      BY <1>1 DEF FillInv, Filled, Later
    <3>3. PICK c \in Cell : v = hashes[c]
      BY <3>1, <3>2
    <3> QED
      BY <1>3, <3>3
  <2> QED
    BY <2>1, <2>2
<1>5. \A v \in Nat : v < j' * max_records => Stored(v)'
  BY <1>1, <1>4, StoredKept
<1> QED
  BY <1>1, <1>5 DEF StoredInv, WriterRole

LEMMA NextStoredInv ==
  AllWritten /\ FilesInv /\ FillInv /\ PlaceInv /\ StoredInv /\ [Next]_vars => StoredInv'
<1> SUFFICES ASSUME AllWritten, FilesInv, FillInv, PlaceInv, StoredInv, [Next]_vars
             PROVE  StoredInv'
  OBVIOUS
<1>1. IInv /\ (pc # "crashed" => Numbering)
  BY DEF FilesInv
<1>2. CASE Malloc \/ LeaveLoop \/ HashingDone \/ NoArgument
  <2>1. UNCHANGED <<j, bucket>> /\ pc' \notin WriterRole \cup {"free"}
    BY <1>2 DEF Malloc, LeaveLoop, HashingDone, NoArgument, Crash, WriterRole, own
  <2> QED
    BY <2>1, StoredKept DEF StoredInv
<1>3. CASE SortingDone
  <2>1. /\ UNCHANGED <<j, bucket>> /\ pc' \in WriterRole /\ k' = 0 /\ spawned' = 0
    BY <1>3 DEF SortingDone, AllJoined, WriterRole
  <2>2. pc' = "writing_sort" => write_segment \in Nat
    BY <1>3, SegmentsFit, ConfigAssumption DEF SortingDone
  <2>3. pc' = "writing_sort" => 0 * write_segment = 0
    BY <2>2
  <2>4. base' = 0
    BY <2>1, <2>3 DEF base
  <2>5. \A c \in Cell : ~(c < 0)
    BY ConfigAssumption DEF Cell
  <2>6. \A n \in 0 .. (ThreadCount(pc') - 1) : ~(n < 0)
    OBVIOUS
  <2>7. \A v \in Nat : v < j' * max_records => Stored(v)'
    BY <2>1, StoredKept DEF StoredInv
  <2> QED
    BY <2>1, <2>4, <2>5, <2>6, <2>7 DEF StoredInv, WriterRole
<1>4. CASE Create \/ Join
  BY <1>1, <1>4, MainStored
<1>5. CASE WritingWriteDone \/ WritingSortDone
  BY <1>1, <1>5, RoundDoneStores DEF AllWritten
<1>6. CASE Free
  BY <1>1, <1>6, FreeStores
<1>7. ASSUME NEW s \in Slot, Worker(s) PROVE StoredInv'
  <2>1. CASE HashRecord(s) \/ HashReturn(s) \/ QSort(s)
    BY <1>1, <2>1, ThreadStored
  <2>2. CASE NullStore(s)
    <3>1. UNCHANGED <<j, bucket>> /\ pc' = "crashed"
      BY <2>2 DEF NullStore, Crash
    <3> QED
      BY <3>1, StoredKept DEF StoredInv, WriterRole
  <2>3. CASE OpenBucket(s) \/ WriteBucket(s)
    <3>1. Writer(s) /\ thread[s] # "none"
      BY <2>3 DEF OpenBucket, WriteBucket
    <3>2. pc # "crashed"
      BY <1>1, <3>1, BucketOfRound DEF WriterRole
    <3> QED
      BY <1>1, <2>3, <3>2, WriterStored DEF AllWritten
  <2> QED
    BY <1>7, <2>1, <2>2, <2>3 DEF Worker
<1>8. CASE Over \/ UNCHANGED vars
  <2>1. UNCHANGED <<pc, k, no_files, j, hashes, bucket, spawned, thread>>
    BY <1>8 DEF Over, vars, shared, own
  <2>2. base' = base /\ \A n : RoundSlice(n)' = RoundSlice(n)
    BY <2>1, RoundKept
  <2>3. \A v \in Nat : v < j' * max_records => Stored(v)'
    BY <2>1, StoredKept DEF StoredInv
  <2>4. \A c : Stored(hashes[c])' <=> Stored(hashes[c])
    BY <2>1 DEF Stored
  <2>5. \A n : Busy(<<pc, n>>)' <=> Busy(<<pc, n>>)
    BY <2>1 DEF Busy
  <2> QED
    BY <2>1, <2>2, <2>3, <2>4, <2>5 DEF StoredInv
<1> QED
  BY <1>2, <1>3, <1>4, <1>5, <1>6, <1>7, <1>8 DEF Next, Step, Main

(* Two places of one nonce are the same place.                             *)
LEMMA OneOrNone ==
  ASSUME Once, NEW n
  PROVE  Cardinality(PlacesOf(n)) <= 1
<1>1. ASSUME NEW x \in PlacesOf(n), NEW y \in PlacesOf(n)
      PROVE  x = y
  <2>1. \A z \in PlacesOf(n) :
          \E b \in DOMAIN bucket : \E p \in DOMAIN bucket[b] : z = <<b, p>> /\ bucket[b][p] = n
    BY DEF PlacesOf
  <2> QED
    BY <2>1 DEF Once
<1>2. CASE PlacesOf(n) = {}
  <2>1. Cardinality(PlacesOf(n)) = 0
    BY <1>2, FS_EmptySet
  <2> QED
    BY <2>1
<1>3. CASE PlacesOf(n) # {}
  <2>1. PICK x : x \in PlacesOf(n)
    BY <1>3
  <2>2. PlacesOf(n) = {x}
    BY <1>1, <2>1
  <2>3. Cardinality(PlacesOf(n)) = 1
    BY <2>2, FS_Singleton
  <2> QED
    BY <2>3
<1> QED
  BY <1>2, <1>3

(* No nonce is stored twice, whatever fails; and unless a file cannot be   *)
(* written, each nonce of the iterations that are over is stored: the      *)
(* buckets hold a permutation of what was hashed, for all thread counts    *)
(* whose rounds reach the whole array.                                     *)
THEOREM GenerateStoresOnce == Spec => []StoredOnce
<1>1. PlaceInv => \A n \in Nonce : Cardinality(PlacesOf(n)) <= 1
  BY OneOrNone DEF PlaceInv
<1>2. Init => StoredInv
  <2> SUFFICES ASSUME Init PROVE StoredInv
    OBVIOUS
  <2>1. pc = "malloc" /\ j = 0 /\ 0 * max_records = 0
    BY ConfigAssumption DEF Init
  <2> QED
    BY <2>1 DEF StoredInv, WriterRole
<1>3. AllWritten /\ StoredInv => \A n \in Nonce : n < j * max_records => PlacesOf(n) # {}
  <2> SUFFICES ASSUME StoredInv, NEW n \in Nonce, n < j * max_records
               PROVE  PlacesOf(n) # {}
    OBVIOUS
  <2>1. n \in Nat
    BY ConfigAssumption DEF Nonce
  <2>2. PICK b \in DOMAIN bucket : \E p \in DOMAIN bucket[b] : bucket[b][p] = n
    BY <2>1 DEF StoredInv, Stored
  <2>3. PICK p \in DOMAIN bucket[b] : bucket[b][p] = n
    BY <2>2
  <2>4. <<b, p>> \in PlacesOf(n)
    BY <2>3 DEF PlacesOf
  <2> QED
    BY <2>4
<1>4. CASE AllWritten
  <2>1. AllWritten
    BY <1>4
  <2>2. PlaceInv /\ StoredInv => StoredOnce
    BY <1>1, <1>3, <2>1 DEF StoredOnce
  <2>3. FilesInv /\ FillInv /\ PlaceInv /\ StoredInv /\ [Next]_vars => StoredInv'
    BY <2>1, NextStoredInv
  <2> QED
    BY <1>2, <2>2, <2>3, FilesInvAlways, FillInvAlways, PlaceInvAlways, PTL DEF Spec
<1>5. CASE ~AllWritten
  <2>1. PlaceInv => StoredOnce
    BY <1>1, <1>5 DEF StoredOnce, AllWritten
  <2> QED
    BY <2>1, PlaceInvAlways, PTL
<1> QED
  BY <1>4, <1>5

-----------------------------------------------------------------------------
(* In a directory with buckets of earlier runs *)

(* The nonces that iteration i puts into the slice of sorting thread o.    *)
Home(i, o) == {i * max_records + c : c \in SortSlice(o)}

NoneTwice(recs) == \A m, n \in DOMAIN recs : m # n => recs[m] # recs[n]

(* Whichever run wrote it, a bucket holds records of one slice only.       *)
Known(b) ==
  \E i \in 0 .. (iterations - 1), o \in 0 .. (sort_threads - 1) :
    /\ b = i * sort_threads + o
    /\ bucket[b] \in Seq(Nonce) /\ NoneTwice(bucket[b])
    /\ \A m \in DOMAIN bucket[b] : bucket[b][m] \in Home(i, o)

KnownInv == \A b \in DOMAIN bucket : Known(b)

CountInv ==
  /\ pc \in Role \cup {"malloc"} => no_files = j * sort_threads /\ j <= iterations
  /\ pc = "free" => no_files = (j + 1) * sort_threads
  /\ pc = "ExternalSort" => no_files = iterations * sort_threads

(* Until they are written, the slices keep their records.                  *)
SlicesInv ==
  pc \in {"sorting"} \cup WriterRole =>
    \A o \in 0 .. (sort_threads - 1) : {hashes[c] : c \in SortSlice(o)} = Home(j, o)

(* The buckets this run has written: there, and complete, unless a call    *)
(* failed.                                                                 *)
Whole(files, b) ==
  \E i \in 0 .. (iterations - 1), o \in 0 .. (sort_threads - 1) :
    /\ b = i * sort_threads + o
    /\ {files[b][m] : m \in DOMAIN files[b]} = Home(i, o)
    /\ Len(files[b]) = SliceEnd(max_records, sort_threads, o)
                         - SliceStart(max_records, sort_threads, o)

Complete(files, b) ==
  /\ "open" \notin Faults => b \in DOMAIN files
  /\ Faults = {} => Whole(files, b)

CompleteInv ==
  /\ \A b \in 0 .. (round_start - 1) : Complete(bucket, b)
  /\ pc \in WriterRole =>
       \A n \in 0 .. (ThreadCount(pc) - 1) :
         n < spawned /\ thread[<<pc, n>>] \notin {"running", "writing"} =>
           Complete(bucket, round_start + n)

DirectoryInv ==
  Aligned /\ pc # "crashed" => CountInv /\ SlicesInv /\ CompleteInv

LEMMA HomeTyped ==
  ASSUME NEW i \in 0 .. (iterations - 1), NEW o \in 0 .. (sort_threads - 1)
  PROVE  Home(i, o) \subseteq Nonce /\ SortSlice(o) \subseteq Cell
<1>1. max_records \in Nat \ {0} /\ sort_threads \in Nat \ {0} /\ total_hash_count \in Nat
  BY ConfigAssumption
<1>2. SortSlice(o) \subseteq 0 .. (max_records - 1)
  BY <1>1, SliceWithin DEF SortSlice
<1> DEFINE M == max_records
           n == iterations
<1>3. n \in Nat /\ n * M <= total_hash_count /\ n * M \in Nat
  BY <1>1, IterationsFit
<1>4. i \in Nat /\ i + 1 \in Nat /\ i + 1 <= n
  BY <1>3
<1> HIDE DEF n, M
<1>5. (i + 1) * M <= n * M
  BY <1>1, <1>3, <1>4, TimesMonotone DEF M
<1>6. (i + 1) * M = i * M + M /\ i * M \in Nat
  BY <1>1, <1>4 DEF M
<1>7. \A c \in SortSlice(o) : i * M + c \in 0 .. (total_hash_count - 1)
  BY <1>1, <1>2, <1>3, <1>5, <1>6 DEF M
<1> QED
  BY <1>2, <1>7 DEF Home, Nonce, Cell, M

LEMMA OfNonces ==
  ASSUME NEW recs \in Seq(Nonce \cup {Garbage}), \A m \in DOMAIN recs : recs[m] \in Nonce
  PROVE  recs \in Seq(Nonce)
<1>1. Len(recs) \in Nat /\ DOMAIN recs = 1 .. Len(recs) /\ recs = [m \in 1 .. Len(recs) |-> recs[m]]
  BY LenProperties
<1> DEFINE n == Len(recs)
<1>2. recs \in [1 .. n -> Nonce] /\ n \in Nat
  BY <1>1
<1> HIDE DEF n
<1> QED
  BY <1>2

(* Where a writer's records come from, and which bucket they go to.        *)
LEMMA WriterHome ==
  ASSUME IInv, CountInv, Aligned, NEW s \in Slot, Writer(s), thread[s] # "none"
  PROVE  \E o \in 0 .. (sort_threads - 1) :
           /\ j \in 0 .. (iterations - 1)
           /\ bucket_no(s) = j * sort_threads + o
           /\ start_index(s) = SliceStart(max_records, sort_threads, o)
           /\ end_index(s) = SliceEnd(max_records, sort_threads, o)
           /\ Touches(s) = SortSlice(o)
<1>1. pc \in Role /\ j \in Nat /\ iterations \in Nat
  BY BucketOfRound, IterationsFit DEF IInv, TypeOK, WriterRole, Role
<1>2. j \in 0 .. (iterations - 1) /\ no_files = j * sort_threads
  BY <1>1 DEF IInv, MainInv, CountInv
<1>3. PICK o \in 0 .. (sort_threads - 1) :
        /\ start_index(s) = SliceStart(max_records, sort_threads, o)
        /\ end_index(s) = SliceEnd(max_records, sort_threads, o)
        /\ bucket_no(s) = no_files + o
  BY WritesOneSlice
<1>4. Touches(s) = SortSlice(o)
  BY <1>3 DEF Touches, SortSlice, Slice
<1> QED
  BY <1>2, <1>3, <1>4

LEMMA StoresHome ==
  ASSUME IInv, Filled, CountInv, SlicesInv, Aligned, NEW s \in Slot, WriteBucket(s)
  PROVE  \E recs \in Seq(Nonce), o \in 0 .. (sort_threads - 1) :
           /\ j \in 0 .. (iterations - 1)
           /\ bucket_no(s) = j * sort_threads + o
           /\ bucket' = BucketsWith(bucket_no(s), recs)
           /\ NoneTwice(recs)
           /\ \A m \in DOMAIN recs : recs[m] \in Home(j, o)
           /\ "short" \notin Faults =>
                /\ {recs[m] : m \in DOMAIN recs} = Home(j, o)
                /\ Len(recs) = SliceEnd(max_records, sort_threads, o)
                                 - SliceStart(max_records, sort_threads, o)
<1>1. Writer(s) /\ thread[s] # "none" /\ pc \in WriterRole
  BY BucketOfRound DEF WriteBucket
<1>2. PICK o \in 0 .. (sort_threads - 1) :
        /\ j \in 0 .. (iterations - 1)
        /\ bucket_no(s) = j * sort_threads + o
        /\ start_index(s) = SliceStart(max_records, sort_threads, o)
        /\ end_index(s) = SliceEnd(max_records, sort_threads, o)
        /\ Touches(s) = SortSlice(o)
  BY <1>1, WriterHome
<1>3. PICK recs \in Seq(Nonce \cup {Garbage}) :
        /\ bucket' = BucketsWith(bucket_no(s), recs)
        /\ DOMAIN recs \subseteq 1 .. (end_index(s) - start_index(s))
        /\ "short" \notin Faults => DOMAIN recs = 1 .. (end_index(s) - start_index(s))
        /\ \A m \in DOMAIN recs :
             /\ recs[m] = hashes[start_index(s) + m - 1]
             /\ start_index(s) + m - 1 \in Touches(s)
  BY StoresSlice
<1>4. /\ start_index(s) \in Nat /\ end_index(s) \in Nat /\ start_index(s) <= end_index(s)
      /\ Touches(s) \subseteq Cell
  BY <1>1, TouchesWithin
<1>5. {hashes[c] : c \in SortSlice(o)} = Home(j, o)
  BY <1>1 DEF SlicesInv
<1>6. \A m \in DOMAIN recs : recs[m] \in Home(j, o)
  BY <1>2, <1>3, <1>5
<1>7. recs \in Seq(Nonce)
  BY <1>2, <1>6, HomeTyped, OfNonces
<1>8. NoneTwice(recs)
  <2> SUFFICES ASSUME NEW m \in DOMAIN recs, NEW n \in DOMAIN recs, recs[m] = recs[n]
               PROVE  m = n
    BY DEF NoneTwice
  <2>1. /\ m \in Int /\ n \in Int
        /\ start_index(s) + m - 1 \in Cell /\ start_index(s) + n - 1 \in Cell
        /\ hashes[start_index(s) + m - 1] = hashes[start_index(s) + n - 1]
    BY <1>3, <1>4
  <2>2. start_index(s) + m - 1 = start_index(s) + n - 1
    BY <2>1 DEF Filled
  <2> QED
    BY <1>4, <2>1, <2>2
<1>9. ASSUME "short" \notin Faults
      PROVE  /\ {recs[m] : m \in DOMAIN recs} = Home(j, o)
             /\ Len(recs) = end_index(s) - start_index(s)
  <2> DEFINE len == end_index(s) - start_index(s)
  <2>1. DOMAIN recs = 1 .. len /\ len \in Nat
    BY <1>3, <1>4, <1>9
  <2>2. Len(recs) = len
    <3> HIDE DEF len
    <3>1. Len(recs) \in Nat /\ DOMAIN recs = 1 .. Len(recs)
      BY LenProperties
    <3>2. 1 .. Len(recs) = 1 .. len
      BY <2>1, <3>1
    <3> QED
      BY <2>1, <3>1, <3>2, IntervalEnd
  <2>3. ASSUME NEW c \in SortSlice(o)
        PROVE  \E m \in DOMAIN recs : recs[m] = hashes[c]
    <3> DEFINE m == c - start_index(s) + 1
    <3>1. m \in 1 .. len /\ start_index(s) + m - 1 = c
      BY <1>2, <1>4, <2>3 DEF Touches
    <3> QED
      BY <1>3, <2>1, <3>1
  <2> QED
    BY <1>5, <1>6, <2>2, <2>3
<1> QED
  BY <1>2, <1>3, <1>6, <1>7, <1>8, <1>9

LEMMA KnownWritten ==
  ASSUME KnownInv, NEW b, NEW recs \in Seq(Nonce),
         NEW i \in 0 .. (iterations - 1), NEW o \in 0 .. (sort_threads - 1),
         b = i * sort_threads + o, NoneTwice(recs), \A m \in DOMAIN recs : recs[m] \in Home(i, o),
         bucket' = BucketsWith(b, recs)
  PROVE  KnownInv'
<1> SUFFICES ASSUME NEW c \in DOMAIN bucket' PROVE Known(c)'
  BY DEF KnownInv
<1>1. CASE c = b
  <2>1. bucket'[b] = recs
    BY DEF BucketsWith
  <2> QED
    BY <1>1, <2>1 DEF Known, Home, SortSlice, NoneTwice
<1>2. CASE c # b
  <2>1. c \in DOMAIN bucket /\ bucket'[c] = bucket[c]
    BY <1>2 DEF BucketsWith
  <2> QED
    BY <2>1 DEF KnownInv, Known, NoneTwice, Home, SortSlice
<1> QED
  BY <1>1, <1>2

LEMMA OnlyWritersWrite ==
  ASSUME IInv, [Next]_vars
  PROVE  bucket' = bucket \/ \E s \in Slot : OpenBucket(s) \/ WriteBucket(s)
  BY DEF Next, Step, Main, Worker, Over, Malloc, LeaveLoop, Create, NoArgument, Crash, Join,
     HashingDone, SortingDone, WritingWriteDone, WritingSortDone, Free, HashRecord, HashReturn,
     NullStore, QSort, vars, shared, own

LEMMA FilledWhileWriting ==
  ASSUME IInv, FillInv, NEW s \in Slot, Writer(s), thread[s] # "none"
  PROVE  Filled /\ pc \in WriterRole /\ pc # "crashed"
<1>1. pc \in WriterRole
  BY BucketOfRound
<1> QED
  BY <1>1 DEF FillInv, Later, WriterRole

LEMMA NextKnown ==
  ASSUME IInv, FillInv, DirectoryInv, Aligned, KnownInv, [Next]_vars
  PROVE  KnownInv'
<1>1. CASE bucket' = bucket
  BY <1>1 DEF KnownInv, Known, NoneTwice, Home, SortSlice
<1>2. ASSUME NEW s \in Slot, OpenBucket(s), bucket' # bucket PROVE KnownInv'
  <2>1. Writer(s) /\ thread[s] # "none" /\ bucket' = BucketsWith(bucket_no(s), <<>>)
    BY <1>2 DEF OpenBucket
  <2>2. CountInv
    BY <2>1, FilledWhileWriting DEF DirectoryInv
  <2>3. PICK o \in 0 .. (sort_threads - 1) :
          j \in 0 .. (iterations - 1) /\ bucket_no(s) = j * sort_threads + o
    BY <2>1, <2>2, WriterHome
  <2>4. <<>> \in Seq(Nonce) /\ NoneTwice(<<>>) /\ \A m \in DOMAIN <<>> : <<>>[m] \in Home(j, o)
    BY DEF NoneTwice
  <2> QED
    BY <2>1, <2>3, <2>4, KnownWritten
<1>3. ASSUME NEW s \in Slot, WriteBucket(s) PROVE KnownInv'
  <2>1. Writer(s) /\ thread[s] # "none"
    BY <1>3 DEF WriteBucket
  <2>2. CountInv /\ SlicesInv /\ Filled
    BY <2>1, FilledWhileWriting DEF DirectoryInv
  <2>3. PICK recs \in Seq(Nonce), o \in 0 .. (sort_threads - 1) :
          /\ j \in 0 .. (iterations - 1)
          /\ bucket_no(s) = j * sort_threads + o
          /\ bucket' = BucketsWith(bucket_no(s), recs)
          /\ NoneTwice(recs)
          /\ \A m \in DOMAIN recs : recs[m] \in Home(j, o)
    BY <1>3, <2>2, StoresHome
  <2> QED
    BY <2>3, KnownWritten
<1> QED
  BY <1>1, <1>2, <1>3, OnlyWritersWrite

LEMMA NextCount ==
  ASSUME IInv, CountInv, [Next]_vars, pc' # "crashed"
  PROVE  CountInv'
<1>1. /\ iterations \in Nat /\ j \in Nat /\ sort_threads \in Nat
      /\ iterations' = iterations
      /\ j * sort_threads \in Nat /\ (j + 1) * sort_threads = j * sort_threads + sort_threads
  <2>1. iterations \in Nat /\ j \in Nat /\ sort_threads \in Nat
    BY IterationsFit, ConfigAssumption DEF IInv, TypeOK
  <2> QED
    BY <2>1 DEF iterations
<1>2. CASE Malloc
  BY <1>2 DEF Malloc, CountInv, Role
<1>3. CASE LeaveLoop
  <2>1. j = iterations
    BY <1>1, <1>3 DEF LeaveLoop, CountInv
  <2> QED
    BY <1>1, <1>3, <2>1 DEF LeaveLoop, CountInv, Role
<1>4. CASE Create \/ Join
  BY <1>1, <1>4 DEF Create, Join, CountInv, Role
<1>5. CASE HashingDone
  BY <1>1, <1>5 DEF HashingDone, AllJoined, own, CountInv, Role
<1>6. CASE SortingDone
  BY <1>1, <1>6 DEF SortingDone, AllJoined, CountInv, Role
<1>7. CASE WritingWriteDone
  BY <1>1, <1>7 DEF WritingWriteDone, AllJoined, BucketsAdded, own, CountInv, Role
<1>8. CASE WritingSortDone
  BY <1>1, <1>8 DEF WritingSortDone, AllJoined, BucketsAdded, CountInv, Role
<1>9. CASE Free
  <2>1. j < iterations
    BY <1>9 DEF Free, IInv, MainInv
  <2> QED
    BY <1>1, <1>9, <2>1 DEF Free, CountInv, Role
<1>10. ASSUME NEW s \in Slot, Worker(s) PROVE CountInv'
  <2>1. UNCHANGED <<pc, no_files, j>>
    BY <1>10 DEF Worker, HashRecord, HashReturn, NullStore, Crash, QSort, OpenBucket, WriteBucket,
       shared
  <2> QED
    BY <1>1, <2>1 DEF CountInv
<1>11. CASE Over \/ UNCHANGED vars
  BY <1>1, <1>11 DEF Over, vars, shared, own, CountInv
<1> QED
  BY <1>2, <1>3, <1>4, <1>5, <1>6, <1>7, <1>8, <1>9, <1>10, <1>11
     DEF Next, Step, Main, NoArgument, Crash

(* The hashing threads leave record j * max_records + c in cell c.         *)
LEMMA HashedAtBarrier ==
  ASSUME IInv, FillInv, AllJoined("hashing")
  PROVE  \A c \in Cell : hashes[c] = j * max_records + c
<1>1. /\ pc = "hashing" /\ joined = hash_threads
      /\ \A s \in Slot : thread[s] = "none"
  BY BarrierEmpty DEF AllJoined, Role, ThreadCount
<1>2. spawned = hash_threads /\ hash_threads \in Nat \ {0} /\ max_records \in Nat
  BY <1>1, ConfigAssumption DEF IInv, MainInv, TypeOK, Role, ThreadCount
<1> SUFFICES ASSUME NEW c \in Cell PROVE hashes[c] = j * max_records + c
  OBVIOUS
<1>3. PICK t \in 0 .. (hash_threads - 1) : c \in Slice(max_records, hash_threads, t)
  BY <1>2, SlicesCover DEF Cell
<1>4. /\ t < spawned /\ thread[<<"hashing", t>>] = "none"
      /\ SliceStart(max_records, hash_threads, t) <= c
      /\ c < SliceEnd(max_records, hash_threads, t)
  BY <1>1, <1>2, <1>3, HashingSlot DEF Slice
<1>5. HashedUpTo(t, SliceEnd(max_records, hash_threads, t))
  BY <1>1, <1>4 DEF FillInv
<1> QED
  BY <1>4, <1>5 DEF HashedUpTo

LEMMA QSortSlices ==
  ASSUME IInv, SlicesInv, NEW s \in Slot, QSort(s)
  PROVE  SlicesInv'
<1>1. /\ s[1] = "sorting" /\ thread[s] = "running"
      /\ UNCHANGED <<pc, j>>
  BY DEF QSort, Running, Exit, shared
<1> DEFINE u == s[2]
<1>2. /\ pc = "sorting" /\ u \in 0 .. (sort_threads - 1) /\ s = <<"sorting", u>>
  BY <1>1, SlotShape DEF IInv, ThreadInv, ThreadCount
<1> HIDE DEF u
<1>3. PICK p \in Rearrangements(Touches(s)) :
        LET moved == [c \in Touches(s) |-> hashes[p[c]]] IN
        /\ SortedByHash(moved)
        /\ hashes' = [c \in Cell |-> IF c \in Touches(s) THEN moved[c] ELSE hashes[c]]
  BY DEF QSort
<1>4. Touches(s) = SortSlice(u) /\ Touches(s) \subseteq Cell
  BY <1>1, <1>2, SortingSlot, TouchesWithin
<1> DEFINE S == SortSlice(u)
<1>5. p \in [S -> S] /\ \A m, n \in S : m # n => p[m] # p[n]
  BY <1>3, <1>4 DEF Rearrangements
<1>6. \A c \in S : \E d \in S : p[d] = c
  <2>1. IsFiniteSet(S)
    <3>1. IsFiniteSet(Cell)
      BY FS_Interval, ConfigAssumption DEF Cell
    <3>2. S \subseteq Cell
      BY <1>4
    <3> HIDE DEF S
    <3> QED
      BY <3>1, <3>2, FS_Subset
  <2> HIDE DEF S
  <2>2. p \in Injection(S, S)
    BY <1>5, Fun_IsInj
  <2>3. p \in Surjection(S, S)
    BY <2>1, <2>2, FS_Injection
  <2> QED
    BY <2>3 DEF Surjection
<1>7. \A c \in S : hashes'[c] = hashes[p[c]]
  BY <1>3, <1>4
<1>8. {hashes'[c] : c \in S} = {hashes[c] : c \in S}
  BY <1>5, <1>6, <1>7
<1>9. ASSUME NEW o \in 0 .. (sort_threads - 1)
      PROVE  {hashes'[c] : c \in SortSlice(o)} = {hashes[c] : c \in SortSlice(o)}
  <2>1. CASE o = u
    BY <1>8, <2>1
  <2>2. CASE o # u
    <3>1. SortSlice(o) \cap SortSlice(u) = {} /\ SortSlice(o) \subseteq Cell
      <4>1. max_records \in Nat /\ sort_threads \in Nat \ {0}
        BY ConfigAssumption
      <4> QED
        BY <1>2, <2>2, <4>1, SlicesDisjoint, SliceWithin DEF SortSlice, Cell
    <3>2. \A c \in SortSlice(o) : hashes'[c] = hashes[c]
      BY <1>3, <1>4, <3>1
    <3> QED
      BY <3>2
  <2> QED
    BY <2>1, <2>2
<1>10. ASSUME NEW o \in 0 .. (sort_threads - 1)
       PROVE  {hashes'[c] : c \in SortSlice(o)} = Home(j, o)
  BY <1>2, <1>9, <1>10 DEF SlicesInv
<1> HIDE DEF S
<1>11. \A o : Home(j, o)' = Home(j, o) /\ SortSlice(o)' = SortSlice(o)
  BY <1>1 DEF Home, SortSlice
<1> QED
  BY <1>1, <1>10, <1>11 DEF SlicesInv

LEMMA NextSlices ==
  ASSUME IInv, FillInv, SlicesInv, [Next]_vars
  PROVE  SlicesInv'
<1>1. CASE HashingDone
  <2>1. hashes' = hashes /\ j' = j /\ AllJoined("hashing")
    BY <1>1 DEF HashingDone, own
  <2>2. ASSUME NEW o \in 0 .. (sort_threads - 1)
        PROVE  {hashes[c] : c \in SortSlice(o)} = {j * max_records + c : c \in SortSlice(o)}
    <3>1. \A c \in SortSlice(o) : hashes[c] = j * max_records + c
      <4>1. SortSlice(o) \subseteq Cell
        <5>1. max_records \in Nat /\ sort_threads \in Nat \ {0}
          BY ConfigAssumption
        <5> QED
          BY <5>1, SliceWithin DEF SortSlice, Cell
      <4> QED
        BY <2>1, <4>1, HashedAtBarrier
    <3> QED
      BY <3>1
  <2> QED
    BY <2>1, <2>2 DEF SlicesInv, Home, SortSlice
<1>2. ASSUME NEW s \in Slot, QSort(s) PROVE SlicesInv'
  BY <1>2, QSortSlices
<1>3. ASSUME NEW s \in Slot, HashRecord(s) \/ HashReturn(s) \/ NullStore(s) PROVE SlicesInv'
  <2>1. s[1] = "hashing" /\ thread[s] = "running" /\ pc' \in {pc, "crashed"}
    BY <1>3 DEF HashRecord, HashReturn, NullStore, Crash, Running, shared
  <2>2. pc = "hashing"
    BY <2>1 DEF IInv, ThreadInv
  <2> QED
    BY <2>1, <2>2 DEF SlicesInv, WriterRole
<1>4. CASE Malloc \/ LeaveLoop \/ NoArgument \/ WritingWriteDone \/ Free
  <2>1. pc' \notin WriterRole \cup {"sorting"}
    BY <1>4 DEF Malloc, LeaveLoop, NoArgument, Crash, WritingWriteDone, Free, WriterRole
  <2> QED
    BY <2>1 DEF SlicesInv
<1>5. CASE Create \/ Join \/ SortingDone \/ WritingSortDone \/ Over \/ UNCHANGED vars
           \/ \E s \in Slot : OpenBucket(s) \/ WriteBucket(s)
  <2>1. /\ UNCHANGED <<hashes, j>>
        /\ pc' \in {"sorting"} \cup WriterRole => pc \in {"sorting"} \cup WriterRole
    BY <1>5 DEF Create, Join, SortingDone, WritingSortDone, AllJoined, Over, vars, shared, own,
       OpenBucket, WriteBucket, WriterRole
  <2> QED
    BY <2>1 DEF SlicesInv, Home, SortSlice
<1> QED
  BY <1>1, <1>2, <1>3, <1>4, <1>5 DEF Next, Step, Main, Worker

(* The files that are not written to stay as complete as they are.         *)
Spared(b) == b \in DOMAIN bucket => b \in DOMAIN bucket' /\ bucket'[b] = bucket[b]

LEMMA CompleteSpared ==
  ASSUME NEW b, Complete(bucket, b), Spared(b)
  PROVE  Complete(bucket', b)
<1>1. "open" \notin Faults => b \in DOMAIN bucket
  BY DEF Complete
<1>2. CASE Faults = {}
  <2>1. b \in DOMAIN bucket' /\ bucket'[b] = bucket[b]
    BY <1>1, <1>2 DEF Spared
  <2> QED
    BY <2>1 DEF Complete, Whole
<1>3. CASE Faults # {}
  BY <1>1, <1>3 DEF Complete, Spared
<1> QED
  BY <1>2, <1>3

(* The steps of main between the phases.                                   *)
LEMMA BetweenComplete ==
  ASSUME IInv, CompleteInv, Malloc \/ LeaveLoop \/ HashingDone \/ SortingDone \/ Free
  PROVE  CompleteInv'
<1>1. /\ bucket' = bucket /\ no_files' = no_files /\ no_files \in Nat
      /\ pc # "writing_sort"
      /\ pc' \in WriterRole => spawned' = 0
      /\ pc' = "writing_sort" => k' = 0
  BY DEF Malloc, LeaveLoop, HashingDone, SortingDone, Free, AllJoined, WriterRole, own,
     IInv, TypeOK
<1>2. round_start = no_files
  BY <1>1 DEF round_start
<1>3. round_start' = no_files
  <2>1. write_threads * 0 = 0
    BY ConfigAssumption
  <2> QED
    BY <1>1, <2>1 DEF round_start
<1>4. \A b \in 0 .. (round_start' - 1) : Complete(bucket', b)
  BY <1>1, <1>2, <1>3 DEF CompleteInv
<1>5. \A n \in 0 .. (ThreadCount(pc') - 1) : ~(n < 0)
  OBVIOUS
<1> QED
  BY <1>1, <1>4, <1>5 DEF CompleteInv

(* A step of a thread, or of main creating or joining one.                 *)
LEMMA CompleteKept ==
  ASSUME IInv, CompleteInv, pc' = pc, no_files' = no_files, k' = k,
         \A b \in 0 .. (round_start - 1) : Spared(b),
         pc \in WriterRole =>
           \A n \in 0 .. (ThreadCount(pc) - 1) :
             n < spawned' /\ thread'[<<pc, n>>] \notin {"running", "writing"} =>
               \/ /\ n < spawned /\ thread[<<pc, n>>] \notin {"running", "writing"}
                  /\ Spared(round_start + n)
               \/ Complete(bucket', round_start + n)
  PROVE  CompleteInv'
<1>1. round_start' = round_start
  BY DEF round_start
<1>2. \A b \in 0 .. (round_start - 1) : Complete(bucket', b)
  BY CompleteSpared DEF CompleteInv
<1>3. ASSUME pc \in WriterRole, NEW n \in 0 .. (ThreadCount(pc) - 1),
             n < spawned', thread'[<<pc, n>>] \notin {"running", "writing"}
      PROVE  Complete(bucket', round_start + n)
  <2>1. CASE /\ n < spawned /\ thread[<<pc, n>>] \notin {"running", "writing"}
             /\ Spared(round_start + n)
    <3>1. Complete(bucket, round_start + n)
      BY <1>3, <2>1 DEF CompleteInv
    <3> QED
      BY <2>1, <3>1, CompleteSpared
  <2> QED
    BY <1>3, <2>1
<1> QED
  BY <1>1, <1>2, <1>3 DEF CompleteInv

LEMMA CreateComplete ==
  ASSUME IInv, CompleteInv, Create
  PROVE  CompleteInv'
<1>1. /\ pc \in Role /\ spawned \in Nat /\ spawned' = spawned + 1 /\ spawned < ThreadCount(pc)
      /\ thread' = [thread EXCEPT ![<<pc, spawned>>] = "running"]
      /\ ThreadCount(pc) \in Nat
      /\ UNCHANGED <<pc, no_files, k, bucket>>
  BY ThreadCountPositive DEF Create, MoreToCreate, IInv, TypeOK
<1>2. ASSUME NEW n \in 0 .. (ThreadCount(pc) - 1), n < spawned',
             thread'[<<pc, n>>] \notin {"running", "writing"}
      PROVE  n < spawned /\ thread[<<pc, n>>] \notin {"running", "writing"}
  <2>1. <<pc, n>> \in Slot
    BY <1>1, SlotBuilt
  <2>2. n # spawned
    BY <1>1, <1>2, <2>1 DEF IInv, TypeOK
  <2>3. n < spawned
    BY <1>1, <1>2, <2>2
  <2>4. <<pc, n>> # <<pc, spawned>>
    BY <2>2
  <2> QED
    BY <1>1, <1>2, <2>1, <2>3, <2>4 DEF IInv, TypeOK
<1>3. \A b : Spared(b)
  BY <1>1 DEF Spared
<1> QED
  BY <1>1, <1>2, <1>3, CompleteKept

LEMMA JoinComplete ==
  ASSUME IInv, CompleteInv, Join
  PROVE  CompleteInv'
<1>1. /\ pc \in Role /\ thread[<<pc, joined>>] = "exited"
      /\ thread' = [thread EXCEPT ![<<pc, joined>>] = "none"]
      /\ UNCHANGED <<pc, spawned, no_files, k, bucket>>
  BY DEF Join
<1>2. ASSUME NEW n \in 0 .. (ThreadCount(pc) - 1),
             thread'[<<pc, n>>] \notin {"running", "writing"}
      PROVE  thread[<<pc, n>>] \notin {"running", "writing"}
  <2>1. <<pc, n>> \in Slot
    BY <1>1, SlotBuilt
  <2> QED
    BY <1>1, <1>2, <2>1 DEF IInv, TypeOK
<1>3. \A b : Spared(b)
  BY <1>1 DEF Spared
<1> QED
  BY <1>1, <1>2, <1>3, CompleteKept

LEMMA WorkerComplete ==
  ASSUME IInv, CompleteInv, NEW s \in Slot,
         HashRecord(s) \/ HashReturn(s) \/ QSort(s)
  PROVE  CompleteInv'
<1>1. /\ s[1] \in {"hashing", "sorting"} /\ thread[s] = "running"
      /\ UNCHANGED <<pc, no_files, k, bucket>>
  BY DEF HashRecord, HashReturn, QSort, Running, shared
<1>2. pc \notin WriterRole
  BY <1>1 DEF IInv, ThreadInv, WriterRole
<1>3. \A b : Spared(b)
  BY <1>1 DEF Spared
<1> QED
  BY <1>1, <1>2, <1>3, CompleteKept

(* A writer touches no file but its own.                                   *)
LEMMA WriterSpares ==
  ASSUME IInv, NEW s \in Slot, OpenBucket(s) \/ WriteBucket(s)
  PROVE  /\ \A b \in 0 .. (round_start - 1) : Spared(b)
         /\ \A n \in Nat : n # s[2] => Spared(round_start + n)
         /\ round_start \in Nat /\ s[2] \in Nat /\ bucket_no(s) = round_start + s[2]
         /\ s = <<pc, s[2]>> /\ pc \in WriterRole
<1>1. Writer(s) /\ thread[s] # "none"
  BY DEF OpenBucket, WriteBucket
<1>2. /\ bucket_no(s) = round_start + s[2] /\ s = <<pc, s[2]>> /\ pc \in WriterRole
      /\ s[2] \in 0 .. (spawned - 1)
  BY <1>1, BucketOfRound
<1>3. round_start \in Nat /\ s[2] \in Nat
  BY <1>2, RoundStartTyped DEF IInv
<1>4. \A b : b # bucket_no(s) => Spared(b)
  BY DEF OpenBucket, WriteBucket, BucketsWith, Spared
<1>5. ASSUME NEW b \in 0 .. (round_start - 1) PROVE b # bucket_no(s)
  BY <1>2, <1>3, <1>5
<1>6. ASSUME NEW n \in Nat, n # s[2] PROVE round_start + n # bucket_no(s)
  BY <1>2, <1>3, <1>6
<1> QED
  BY <1>2, <1>3, <1>4, <1>5, <1>6

LEMMA WriterComplete ==
  ASSUME IInv, CompleteInv, NEW s \in Slot, OpenBucket(s) \/ WriteBucket(s),
         thread'[s] \notin {"running", "writing"} => Complete(bucket', bucket_no(s))
  PROVE  CompleteInv'
<1>1. /\ UNCHANGED <<pc, no_files, k, spawned>>
      /\ \E v \in {"writing", "exited"} : thread' = [thread EXCEPT ![s] = v]
  BY DEF OpenBucket, WriteBucket, Exit
<1>2. /\ \A b \in 0 .. (round_start - 1) : Spared(b)
      /\ \A n \in Nat : n # s[2] => Spared(round_start + n)
      /\ bucket_no(s) = round_start + s[2]
      /\ s = <<pc, s[2]>> /\ pc \in WriterRole
  BY WriterSpares
<1>3. ASSUME NEW n \in 0 .. (ThreadCount(pc) - 1),
             n < spawned', thread'[<<pc, n>>] \notin {"running", "writing"}
      PROVE  \/ /\ n < spawned /\ thread[<<pc, n>>] \notin {"running", "writing"}
                /\ Spared(round_start + n)
             \/ Complete(bucket', round_start + n)
  <2>1. CASE n = s[2]
    BY <1>2, <1>3, <2>1
  <2>2. CASE n # s[2]
    <3>1. <<pc, n>> \in Slot
      BY <1>2, <1>3, SlotBuilt DEF WriterRole, Role
    <3>2. <<pc, n>> # s
      BY <1>2, <2>2
    <3>3. thread'[<<pc, n>>] = thread[<<pc, n>>]
      BY <1>1, <3>1, <3>2 DEF IInv, TypeOK
    <3> QED
      BY <1>1, <1>2, <1>3, <2>2, <3>3
  <2> QED
    BY <2>1, <2>2
<1> QED
  BY <1>1, <1>2, <1>3, CompleteKept

LEMMA OpenComplete ==
  ASSUME IInv, CompleteInv, NEW s \in Slot, OpenBucket(s)
  PROVE  CompleteInv'
<1>1. thread'[s] \notin {"running", "writing"} => "open" \in Faults
  BY DEF OpenBucket, IInv, TypeOK
<1>2. "open" \in Faults => Complete(bucket', bucket_no(s))
  BY DEF Complete
<1> QED
  BY <1>1, <1>2, WriterComplete

LEMMA WriteComplete ==
  ASSUME IInv, FillInv, CountInv, SlicesInv, Aligned, CompleteInv, NEW s \in Slot, WriteBucket(s)
  PROVE  CompleteInv'
<1>1. Writer(s) /\ thread[s] # "none"
  BY DEF WriteBucket
<1>2. Filled
  BY <1>1, FilledWhileWriting
<1>3. PICK recs \in Seq(Nonce), o \in 0 .. (sort_threads - 1) :
        /\ j \in 0 .. (iterations - 1)
        /\ bucket_no(s) = j * sort_threads + o
        /\ bucket' = BucketsWith(bucket_no(s), recs)
        /\ "short" \notin Faults =>
             /\ {recs[m] : m \in DOMAIN recs} = Home(j, o)
             /\ Len(recs) = SliceEnd(max_records, sort_threads, o)
                              - SliceStart(max_records, sort_threads, o)
  BY <1>2, StoresHome
<1>4. bucket_no(s) \in DOMAIN bucket' /\ bucket'[bucket_no(s)] = recs
  BY <1>3 DEF BucketsWith
<1>5. Complete(bucket', bucket_no(s))
  BY <1>3, <1>4 DEF Complete, Whole
<1> QED
  BY <1>5, WriterComplete

(* When the threads of a round are joined all its buckets are written.     *)
LEMMA RoundComplete ==
  ASSUME IInv, CompleteInv, NEW r \in WriterRole, AllJoined(r)
  PROVE  \A b \in 0 .. (round_start + ThreadCount(r) - 1) : Complete(bucket, b)
<1>1. /\ pc = r /\ r \in Role /\ joined = ThreadCount(r) /\ joined <= spawned
      /\ spawned <= ThreadCount(r) /\ ThreadCount(r) \in Nat /\ spawned \in Nat
  BY ThreadCountPositive DEF AllJoined, IInv, MainInv, TypeOK, WriterRole, Role
<1>2. \A s \in Slot : thread[s] = "none"
  BY <1>1, BarrierEmpty
<1>3. round_start \in Nat
  BY RoundStartTyped DEF IInv
<1> SUFFICES ASSUME NEW b \in 0 .. (round_start + ThreadCount(r) - 1) PROVE Complete(bucket, b)
  OBVIOUS
<1>4. CASE b < round_start
  <2>1. b \in 0 .. (round_start - 1)
    BY <1>3, <1>4
  <2> QED
    BY <2>1 DEF CompleteInv
<1>5. CASE b >= round_start
  <2> DEFINE n == b - round_start
  <2>1. n \in 0 .. (ThreadCount(pc) - 1) /\ n < spawned /\ b = round_start + n
    BY <1>1, <1>3, <1>5
  <2> HIDE DEF n
  <2>2. <<pc, n>> \in Slot
    BY <1>1, <2>1, SlotBuilt
  <2>3. thread[<<pc, n>>] \notin {"running", "writing"}
    BY <1>2, <2>2
  <2> QED
    BY <1>1, <2>1, <2>3 DEF CompleteInv
<1> QED
  BY <1>3, <1>4, <1>5

LEMMA WritingWriteComplete ==
  ASSUME IInv, CompleteInv, WritingWriteDone
  PROVE  CompleteInv'
<1>1. /\ pc = "writing_write" /\ pc' = "free" /\ bucket' = bucket
      /\ no_files' = no_files + sort_threads
  BY DEF WritingWriteDone, AllJoined, BucketsAdded
<1>2. /\ round_start' = no_files + sort_threads /\ round_start = no_files
      /\ no_files \in Nat /\ sort_threads \in Nat
  BY <1>1, ConfigAssumption DEF round_start, IInv, TypeOK
<1>3. \A b \in 0 .. (no_files + sort_threads - 1) : Complete(bucket, b)
  BY <1>2, RoundComplete, WriterCounts DEF WritingWriteDone, WriterRole
<1>4. \A b \in 0 .. (round_start' - 1) : Complete(bucket', b)
  BY <1>1, <1>2, <1>3
<1> QED
  BY <1>1, <1>4 DEF CompleteInv, WriterRole

LEMMA WritingSortComplete ==
  ASSUME IInv, CompleteInv, WritingSortDone, RoundsEven
  PROVE  CompleteInv'
<1>1. /\ pc = "writing_sort" /\ bucket' = bucket /\ k' = k + 1 /\ spawned' = 0
      /\ \/ k + 1 < write_iter /\ pc' = pc /\ no_files' = no_files
         \/ k + 1 >= write_iter /\ pc' = "free" /\ no_files' = no_files + sort_threads
  BY DEF WritingSortDone, AllJoined, BucketsAdded, NextRound
<1>2. /\ k \in Nat /\ k < write_iter /\ no_files \in Nat
      /\ write_threads < sort_threads /\ write_threads \in Nat \ {0} /\ sort_threads \in Nat
  BY <1>1, ConfigAssumption DEF IInv, MainInv, TypeOK
<1>3. round_start = no_files + write_threads * k /\ round_start \in Nat
  BY <1>1, RoundStartTyped DEF round_start, IInv
<1>4. \A b \in 0 .. (round_start + write_threads - 1) : Complete(bucket, b)
  BY RoundComplete, WriterCounts DEF WritingSortDone, WriterRole
<1>5. /\ write_threads * (k + 1) = write_threads * k + write_threads
      /\ write_threads * k \in Nat
  BY <1>2
<1>6. CASE pc' = pc
  <2>1. round_start' = round_start + write_threads
    <3>1. round_start' = no_files + write_threads * (k + 1)
      BY <1>1, <1>6 DEF round_start
    <3> QED
      BY <1>2, <1>3, <1>5, <3>1
  <2>2. \A b \in 0 .. (round_start' - 1) : Complete(bucket', b)
    <3>1. round_start' - 1 = round_start + write_threads - 1
      BY <1>2, <1>3, <2>1
    <3> QED
      BY <1>1, <1>4, <3>1
  <2>3. \A n \in 0 .. (ThreadCount(pc') - 1) : ~(n < spawned')
    BY <1>1, <1>2, WriterCounts
  <2> QED
    BY <2>2, <2>3 DEF CompleteInv
<1>7. CASE k + 1 >= write_iter /\ pc' = "free" /\ no_files' = no_files + sort_threads
  <2>1. write_iter \in Nat /\ sort_threads = write_threads * write_iter
    BY <1>2 DEF write_iter, RoundsEven
  <2>2. k + 1 = write_iter
    BY <1>2, <1>7, <2>1
  <2>3. round_start' = no_files + sort_threads
    BY <1>7 DEF round_start
  <2>4. round_start + write_threads = no_files + sort_threads
    BY <1>2, <1>3, <1>5, <2>1, <2>2
  <2>5. \A b \in 0 .. (round_start' - 1) : Complete(bucket', b)
    <3>1. round_start' - 1 = round_start + write_threads - 1
      BY <1>2, <1>3, <2>3, <2>4
    <3> QED
      BY <1>1, <1>4, <3>1
  <2> QED
    BY <1>7, <2>5 DEF CompleteInv, WriterRole
<1> QED
  BY <1>1, <1>6, <1>7

LEMMA NextDirectory ==
  ASSUME IInv, FillInv, DirectoryInv, [Next]_vars
  PROVE  DirectoryInv'
<1> SUFFICES ASSUME Aligned, pc' # "crashed" PROVE CountInv' /\ SlicesInv' /\ CompleteInv'
  BY DEF DirectoryInv, Aligned
<1>1. CASE UNCHANGED vars
  <2>1. CountInv /\ SlicesInv /\ CompleteInv
    BY <1>1 DEF DirectoryInv, vars, shared
  <2>2. CountInv' /\ SlicesInv'
    BY <1>1, <2>1, NextCount, NextSlices
  <2>3. CompleteInv'
    BY <1>1, <2>1 DEF CompleteInv, vars, shared, own, round_start
  <2> QED
    BY <2>2, <2>3
<1>2. CASE Over
  BY <1>1, <1>2 DEF Over
<1>3. CASE Main
  <2>1. pc # "crashed"
    BY <1>3 DEF Main, Malloc, LeaveLoop, Create, NoArgument, Crash, Join, HashingDone,
       SortingDone, WritingWriteDone, WritingSortDone, Free, AllJoined, Role
  <2>2. CountInv /\ SlicesInv /\ CompleteInv
    BY <2>1 DEF DirectoryInv
  <2>3. CountInv' /\ SlicesInv'
    BY <2>2, NextCount, NextSlices
  <2>4. RoundsEven
    BY DEF Aligned, RoundsEven
  <2>5. CompleteInv'
    BY <1>3, <2>2, <2>4, BetweenComplete, CreateComplete, JoinComplete,
       WritingWriteComplete, WritingSortComplete DEF Main, NoArgument, Crash
  <2> QED
    BY <2>3, <2>5
<1>4. ASSUME NEW s \in Slot, Worker(s)
      PROVE  CountInv' /\ SlicesInv' /\ CompleteInv'
  <2>1. pc # "crashed"
    <3>1. thread[s] # "none"
      BY <1>4 DEF Worker, HashRecord, HashReturn, NullStore, QSort, OpenBucket,
         WriteBucket, Running
    <3> QED
      BY <3>1, SlotShape DEF IInv, ThreadInv, Role
  <2>2. CountInv /\ SlicesInv /\ CompleteInv
    BY <2>1 DEF DirectoryInv
  <2>3. CountInv' /\ SlicesInv'
    BY <2>2, NextCount, NextSlices
  <2>4. CompleteInv'
    BY <1>4, <2>2, WorkerComplete, OpenComplete, WriteComplete DEF Worker, NullStore, Crash
  <2> QED
    BY <2>3, <2>4
<1> QED
  BY <1>1, <1>2, <1>3, <1>4 DEF Next, Step

(* The start of a run in a directory where files of earlier runs may be.   *)
Started ==
  /\ pc = "malloc" /\ spawned = 0 /\ joined = 0 /\ no_files = 0
  /\ j = 0 /\ k = 0
  /\ thread = [s \in Slot |-> "none"]
  /\ arg = [s \in Slot |-> [x |-> 0, k |-> 0, bucket_start |-> 0]]
  /\ cursor = [s \in Slot |-> 0]
  /\ hashes = [c \in Cell |-> Garbage]
  /\ memory = "freed"

LEMMA StartedInv ==
  ASSUME Started, \A b \in DOMAIN bucket : b \in Nat /\ bucket[b] \in Seq(Nonce \cup {Garbage})
  PROVE  IInv /\ FillInv /\ DirectoryInv
<1>1. TypeOK
  <2>1. /\ arg \in [Slot -> Argument] /\ cursor \in [Slot -> Nat]
        /\ thread \in [Slot -> {"none", "running", "writing", "exited"}]
        /\ hashes \in [Cell -> Nonce \cup {Garbage}]
    BY DEF Started, Argument
  <2> QED
    BY <2>1 DEF Started, TypeOK
<1>2. MainInv
  BY DEF Started, MainInv, Role
<1>3. ThreadInv
  BY DEF Started, ThreadInv
<1>4. FillInv
  BY DEF Started, FillInv, Later
<1>5. CountInv
  <2>1. 0 * sort_threads = 0 /\ 0 <= iterations
    BY ConfigAssumption, IterationsFit
  <2> QED
    BY <2>1 DEF Started, CountInv
<1>6. SlicesInv
  BY DEF Started, SlicesInv, WriterRole
<1>7. CompleteInv
  <2>1. round_start = 0
    BY DEF Started, round_start
  <2> QED
    BY <2>1 DEF Started, CompleteInv, WriterRole
<1> QED
  BY <1>1, <1>2, <1>3, <1>4, <1>5, <1>6, <1>7 DEF IInv, DirectoryInv

LEMMA StartedSorts ==
  ASSUME Started, BucketsSorted
  PROVE  SortInv
  BY DEF Started, SortInv, WriterRole

(* The number of a cell, or of a bucket, tells the iteration.              *)
LEMMA SamePlace ==
  ASSUME NEW m \in Nat \ {0}, NEW h \in Nat, NEW i \in Nat,
         NEW c \in 0 .. (m - 1), NEW d \in 0 .. (m - 1), h * m + c = i * m + d
  PROVE  h = i /\ c = d
<1>1. h * m \in Nat /\ i * m \in Nat /\ (h + 1) * m = h * m + m /\ (i + 1) * m = i * m + m
  OBVIOUS
<1>2. CASE h < i
  <2>1. (h + 1) * m <= i * m
    BY <1>2, TimesMonotone, h + 1 \in Nat, h + 1 <= i
  <2> QED
    BY <1>1, <2>1
<1>3. CASE i < h
  <2>1. (i + 1) * m <= h * m
    BY <1>3, TimesMonotone, i + 1 \in Nat, i + 1 <= h
  <2> QED
    BY <1>1, <2>1
<1>4. CASE h = i
  BY <1>1, <1>4
<1> QED
  BY <1>2, <1>3, <1>4

(* No nonce belongs into two buckets.                                      *)
LEMMA HomesApart ==
  ASSUME NEW h \in 0 .. (iterations - 1), NEW o \in 0 .. (sort_threads - 1),
         NEW i \in 0 .. (iterations - 1), NEW p \in 0 .. (sort_threads - 1),
         NEW v \in Home(h, o), v \in Home(i, p)
  PROVE  h = i /\ o = p
<1>1. max_records \in Nat \ {0} /\ sort_threads \in Nat \ {0} /\ h \in Nat /\ i \in Nat
  BY ConfigAssumption, IterationsFit
<1>2. PICK c \in SortSlice(o) : v = h * max_records + c
  BY DEF Home
<1>3. PICK d \in SortSlice(p) : v = i * max_records + d
  BY DEF Home
<1>4. c \in 0 .. (max_records - 1) /\ d \in 0 .. (max_records - 1)
  BY HomeTyped DEF Cell
<1>5. h = i /\ c = d
  BY <1>1, <1>2, <1>3, <1>4, SamePlace
<1>6. o = p
  BY <1>1, <1>2, <1>3, <1>5, SlicesDisjoint DEF SortSlice
<1> QED
  BY <1>5, <1>6

(* When the iterations are whole, every nonce belongs into one.            *)
LEMMA HomesCover ==
  ASSUME iterations * max_records = total_hash_count, NEW v \in Nonce
  PROVE  \E i \in 0 .. (iterations - 1), o \in 0 .. (sort_threads - 1) : v \in Home(i, o)
<1> DEFINE i == v \div max_records
           c == v % max_records
<1>1. max_records \in Nat \ {0} /\ sort_threads \in Nat \ {0} /\ iterations \in Nat
  BY ConfigAssumption, IterationsFit
<1>2. v \in Nat /\ v < iterations * max_records
  BY ConfigAssumption DEF Nonce
<1>3. i \in Nat /\ c \in 0 .. (max_records - 1) /\ v = i * max_records + c
  BY <1>1, <1>2
<1> HIDE DEF i, c
<1>4. i < iterations
  <2>1. CASE iterations <= i
    <3>1. iterations * max_records <= i * max_records
      BY <1>1, <1>3, <2>1, TimesMonotone
    <3> QED
      BY <1>1, <1>2, <1>3, <3>1
  <2> QED
    BY <1>1, <1>3, <2>1
<1>5. PICK o \in 0 .. (sort_threads - 1) : c \in SortSlice(o)
  BY <1>1, <1>3, SlicesCover DEF SortSlice
<1>6. v \in Home(i, o)
  BY <1>3, <1>5 DEF Home
<1> QED
  BY <1>1, <1>3, <1>4, <1>6

(* The directory the external sort takes over.                             *)
LEMMA BucketNumber ==
  ASSUME NEW i \in 0 .. (iterations - 1), NEW o \in 0 .. (sort_threads - 1)
  PROVE  i * sort_threads + o \in 0 .. (iterations * sort_threads - 1)
<1>1. sort_threads \in Nat \ {0} /\ iterations \in Nat /\ i \in Nat
  BY ConfigAssumption, IterationsFit
<1>2. (i + 1) * sort_threads <= iterations * sort_threads
  BY <1>1, TimesMonotone, i + 1 \in Nat, i + 1 <= iterations
<1>3. /\ (i + 1) * sort_threads = i * sort_threads + sort_threads /\ i * sort_threads \in Nat
      /\ iterations * sort_threads \in Nat
  BY <1>1
<1> QED
  BY <1>1, <1>2, <1>3

LEMMA KnownPlaces ==
  ASSUME KnownInv
  PROVE  /\ \A b \in DOMAIN bucket :
              /\ b \in 0 .. (iterations * sort_threads - 1)
              /\ bucket[b] \in Seq(Nonce)
         /\ \A b, c \in DOMAIN bucket : \A m \in DOMAIN bucket[b], n \in DOMAIN bucket[c] :
              bucket[b][m] = bucket[c][n] => b = c /\ m = n
<1>1. ASSUME NEW b \in DOMAIN bucket
      PROVE  b \in 0 .. (iterations * sort_threads - 1) /\ bucket[b] \in Seq(Nonce)
  BY BucketNumber DEF KnownInv, Known
<1>2. ASSUME NEW b \in DOMAIN bucket, NEW c \in DOMAIN bucket,
             NEW m \in DOMAIN bucket[b], NEW n \in DOMAIN bucket[c], bucket[b][m] = bucket[c][n]
      PROVE  b = c /\ m = n
  <2>1. PICK h \in 0 .. (iterations - 1), o \in 0 .. (sort_threads - 1) :
          /\ b = h * sort_threads + o /\ NoneTwice(bucket[b])
          /\ \A e \in DOMAIN bucket[b] : bucket[b][e] \in Home(h, o)
    BY DEF KnownInv, Known
  <2>2. PICK i \in 0 .. (iterations - 1), p \in 0 .. (sort_threads - 1) :
          /\ c = i * sort_threads + p
          /\ \A e \in DOMAIN bucket[c] : bucket[c][e] \in Home(i, p)
    BY DEF KnownInv, Known
  <2>3. bucket[b][m] \in Home(h, o) /\ bucket[b][m] \in Home(i, p)
    BY <1>2, <2>1, <2>2
  <2>4. h = i /\ o = p
    BY <2>3, HomesApart
  <2>5. b = c
    BY <2>1, <2>2, <2>4
  <2> QED
    BY <1>2, <2>1, <2>5 DEF NoneTwice
<1> QED
  BY <1>1, <1>2

LEMMA DirectoryDone ==
  ASSUME IInv, DirectoryInv, Aligned, pc = "ExternalSort"
  PROVE  /\ no_files = iterations * sort_threads
         /\ \A b \in 0 .. (no_files - 1) : Complete(bucket, b)
<1>1. CountInv /\ CompleteInv
  BY DEF DirectoryInv
<1>2. no_files = iterations * sort_threads
  BY <1>1 DEF CountInv
<1>3. round_start = no_files
  BY DEF round_start, IInv, TypeOK
<1> QED
  BY <1>1, <1>2, <1>3 DEF CompleteInv

(* When every call succeeded it holds every nonce, in buckets of one size. *)
LEMMA AllThere ==
  ASSUME Faults = {}, iterations * max_records = total_hash_count,
         \A b \in 0 .. (iterations * sort_threads - 1) : Complete(bucket, b), NEW v \in Nonce
  PROVE  \E b \in 0 .. (iterations * sort_threads - 1) :
           b \in DOMAIN bucket /\ \E m \in DOMAIN bucket[b] : bucket[b][m] = v
<1>1. PICK i \in 0 .. (iterations - 1), o \in 0 .. (sort_threads - 1) : v \in Home(i, o)
  BY HomesCover
<1> DEFINE b == i * sort_threads + o
<1>2. b \in 0 .. (iterations * sort_threads - 1)
  BY BucketNumber
<1> HIDE DEF b
<1>3. b \in DOMAIN bucket /\ Whole(bucket, b)
  BY <1>2 DEF Complete
<1>4. PICK h \in 0 .. (iterations - 1), p \in 0 .. (sort_threads - 1) :
        /\ b = h * sort_threads + p
        /\ {bucket[b][m] : m \in DOMAIN bucket[b]} = Home(h, p)
  BY <1>3 DEF Whole
<1>5. h = i /\ p = o
  <2>1. sort_threads \in Nat \ {0} /\ h \in Nat /\ i \in Nat
    BY ConfigAssumption, IterationsFit
  <2>2. h * sort_threads + p = i * sort_threads + o
    BY <1>4 DEF b
  <2> QED
    BY <2>1, <2>2, SamePlace
<1>6. v \in {bucket[b][m] : m \in DOMAIN bucket[b]}
  BY <1>1, <1>4, <1>5
<1> QED
  BY <1>2, <1>3, <1>6

LEMMA EvenBucket ==
  ASSUME Faults = {}, max_records % sort_threads = 0, NEW b, Complete(bucket, b)
  PROVE  b \in DOMAIN bucket /\ Len(bucket[b]) = max_records \div sort_threads
<1>1. max_records \in Nat \ {0} /\ sort_threads \in Nat \ {0}
  BY ConfigAssumption
<1>2. b \in DOMAIN bucket
  BY DEF Complete
<1>3. PICK o \in 0 .. (sort_threads - 1) :
        Len(bucket[b]) = SliceEnd(max_records, sort_threads, o)
                           - SliceStart(max_records, sort_threads, o)
  BY DEF Complete, Whole
<1> DEFINE q == max_records \div sort_threads
<1>4. q \in Nat /\ max_records = q * sort_threads
  BY <1>1
<1> HIDE DEF q
<1>5. o * q \in Int /\ (o + 1) * q = o * q + q /\ sort_threads * q = max_records
  BY <1>1, <1>4
<1>6. SliceEnd(max_records, sort_threads, o) = (o + 1) * q
  <2>1. CASE o = sort_threads - 1
    <3>1. o + 1 = sort_threads
      BY <1>1, <2>1
    <3> QED
      BY <1>5, <2>1, <3>1 DEF SliceEnd
  <2>2. CASE o # sort_threads - 1
    BY <2>2 DEF SliceEnd, PerThread, q
  <2> QED
    BY <2>1, <2>2
<1>7. SliceStart(max_records, sort_threads, o) = o * q
  BY DEF SliceStart, PerThread, q
<1> QED
  BY <1>2, <1>3, <1>4, <1>5, <1>6, <1>7 DEF q

=============================================================================
