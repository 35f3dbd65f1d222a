----------------------------- MODULE MergeProofs -----------------------------
(***************************************************************************)
(* What ExternalSort guarantees for every number of buckets and threads,   *)
(* every memory and every distribution of the records, whatever fails: its *)
(* chunks and its buffer fit in memory, its loaders keep to their chunks,  *)
(* its variables keep their types, and it never uses what nobody loaded.   *)
(* What it merges: the records come out in the order of their hashes, none *)
(* twice, and when every call succeeds exactly those that the              *)
(* specification of a sorted file asks for.                                *)
(***************************************************************************)
EXTENDS ExternalSort, FiniteSetTheorems, FunctionTheorems, SequenceTheorems, TLAPS

-----------------------------------------------------------------------------
(* Memory *)

Merging == {"load", "open_output", "merge", "drain"}

BucketCount ==
  /\ no_files \in Nat
  /\ pc \in Merging => no_files > 0

LEMMA InitBucketCount == Init => BucketCount
  BY FileCountsAssumption DEF Init, StartWith, BucketCount, Merging

LEMMA NextBucketCount == BucketCount /\ [Next]_vars => BucketCount'
<1> SUFFICES ASSUME BucketCount, [Next]_vars PROVE BucketCount'
  OBVIOUS
<1> USE DEF BucketCount, Merging
<1>1. CASE Begin
  BY <1>1 DEF Begin
<1>2. CASE CreateLoader
  BY <1>2 DEF CreateLoader
<1>3. CASE NoArgument
  BY <1>3 DEF NoArgument
<1>4. CASE JoinLoader
  BY <1>4 DEF JoinLoader
<1>5. CASE BatchDone
  BY <1>5 DEF BatchDone
<1>6. CASE OpenOutput
  BY <1>6 DEF OpenOutput
<1>7. CASE MergeStep
  BY <1>7 DEF MergeStep
<1>8. CASE WildRead
  BY <1>8 DEF WildRead
<1>9. CASE MergeDone
  BY <1>9 DEF MergeDone
<1>10. CASE Drain
  BY <1>10 DEF Drain
<1>11. CASE Loading
  BY <1>11 DEF Loading, LoadFile
<1>12. CASE UNCHANGED vars
  BY <1>12 DEF vars, shared
<1> QED
  BY <1>1, <1>2, <1>3, <1>4, <1>5, <1>6, <1>7, <1>8, <1>9, <1>10, <1>11, <1>12
     DEF Next, Step, Main, Over

LEMMA TimesMonotone ==
  ASSUME NEW a \in Nat, NEW b \in Nat, NEW c \in Nat, a <= b
  PROVE  a * c \in Nat /\ b * c \in Nat /\ a * c <= b * c
  OBVIOUS

(* Chunks share one half of the memory, the output buffer is the other.    *)
LEMMA Halves ==
  ASSUME no_files \in Nat \ {0}
  PROVE  /\ divider \in Nat /\ divider + divider <= max_records
         /\ records_per_read \in Nat /\ no_files * records_per_read <= divider
<1>1. divider \in Nat /\ divider + divider <= max_records
  BY ConfigAssumption DEF divider
<1>2. records_per_read \in Nat /\ no_files * records_per_read <= divider
  <2> HIDE DEF divider
  <2> QED
    BY <1>1 DEF records_per_read
<1> QED
  BY <1>1, <1>2

(* The chunks in memory and the output buffer never take more than -m      *)
(* granted, however many buckets there are (the divisions at the head of   *)
(* ExternalSort).                                                          *)
THEOREM MergeStaysInMemory == Spec => []MemoryBudget
<1>1. BucketCount => MemoryBudget
  <2> SUFFICES ASSUME no_files \in Nat \ {0}
               PROVE  Cardinality({f \in Files : records[f] = "live"}) * records_per_read + divider
                        <= max_records
    BY DEF BucketCount, MemoryBudget, Merging
  <2> DEFINE live == {f \in Files : records[f] = "live"}
  <2>1. IsFiniteSet(Files) /\ Cardinality(Files) = no_files
    BY FS_Interval DEF Files
  <2>2. IsFiniteSet(live) /\ Cardinality(live) \in Nat /\ Cardinality(live) <= no_files
    BY <2>1, FS_Subset, FS_CardinalityType
  <2> HIDE DEF live
  <2>3. /\ divider \in Nat /\ divider + divider <= max_records
        /\ records_per_read \in Nat /\ no_files * records_per_read <= divider
    BY Halves
  <2>4. /\ Cardinality(live) * records_per_read \in Nat
        /\ no_files * records_per_read \in Nat
        /\ Cardinality(live) * records_per_read <= no_files * records_per_read
    BY <2>2, <2>3, TimesMonotone
  <2>5. Cardinality(live) * records_per_read + divider <= max_records
    BY <2>3, <2>4, ConfigAssumption
  <2> QED
    BY <2>5 DEF live
<1> QED
  BY <1>1, InitBucketCount, NextBucketCount, PTL DEF Spec

-----------------------------------------------------------------------------
(* The buckets of the initial states *)

LEMMA HashNat ==
  ASSUME NEW a \in Nonce
  PROVE  Hash[a] \in Nat /\ a \in Nat
  BY HashAssumption, ConfigAssumption DEF Nonce

LEMMA NonceFinite ==
  ASSUME NEW S \in SUBSET Nonce
  PROVE  IsFiniteSet(S) /\ Cardinality(S) \in Nat
<1>1. IsFiniteSet(Nonce)
  BY FS_Interval, ConfigAssumption DEF Nonce
<1> QED
  BY <1>1, FS_Subset, FS_CardinalityType

(* The records of S that the merge takes before r. *)
Lower(S, r) == {q \in S : Before(q, r)}

LEMMA LowerStrict ==
  ASSUME NEW S \in SUBSET Nonce, NEW a \in S, NEW b \in S, Before(a, b)
  PROVE  Cardinality(Lower(S, a)) < Cardinality(Lower(S, b))
<1>1. Lower(S, a) \subseteq Lower(S, b)
  <2> SUFFICES ASSUME NEW q \in S, Before(q, a) PROVE Before(q, b)
    BY DEF Lower
  <2> QED
    BY HashNat DEF Before
<1>2. a \in Lower(S, b) /\ a \notin Lower(S, a)
  BY HashNat DEF Lower, Before
<1>3. /\ Lower(S, b) \in SUBSET Nonce /\ Lower(S, a) \in SUBSET Nonce
      /\ Lower(S, a) \in SUBSET Lower(S, b)
  BY <1>1 DEF Lower
<1>4. IsFiniteSet(Lower(S, b)) /\ Cardinality(Lower(S, b)) \in Nat /\ Cardinality(Lower(S, a)) \in Nat
  BY <1>3, NonceFinite
<1>5. /\ Cardinality(Lower(S, a)) <= Cardinality(Lower(S, b))
      /\ Cardinality(Lower(S, b)) = Cardinality(Lower(S, a)) => Lower(S, b) = Lower(S, a)
  BY <1>3, <1>4, FS_Subset
<1> QED
  BY <1>2, <1>4, <1>5

(* Every place of a bucket has one record: the ranks 0 .. n - 1 are taken. *)
LEMMA RankTaken ==
  ASSUME NEW S \in SUBSET Nonce, NEW m \in 1 .. Cardinality(S)
  PROVE  \E r \in S : Cardinality(Lower(S, r)) = m - 1
<1> DEFINE n == Cardinality(S)
           rank == [r \in S |-> Cardinality(Lower(S, r))]
<1>1. IsFiniteSet(S) /\ n \in Nat
  BY NonceFinite
<1>2. ASSUME NEW r \in S PROVE rank[r] \in 0 .. (n - 1)
  <2>1. Lower(S, r) \in SUBSET S /\ r \notin Lower(S, r) /\ Lower(S, r) \in SUBSET Nonce
    BY HashNat DEF Lower, Before
  <2>2. Cardinality(Lower(S, r)) \in Nat
    BY <2>1, NonceFinite
  <2>3. /\ Cardinality(Lower(S, r)) <= n
        /\ n = Cardinality(Lower(S, r)) => S = Lower(S, r)
    BY <1>1, <2>1, FS_Subset
  <2> QED
    BY <1>1, <2>1, <2>2, <2>3
<1>3. ASSUME NEW a \in S, NEW b \in S, rank[a] = rank[b] PROVE a = b
  <2>1. Before(a, b) \/ Before(b, a) \/ a = b
    BY HashNat DEF Before
  <2>2. Cardinality(Lower(S, a)) \in Nat /\ Cardinality(Lower(S, b)) \in Nat
    BY <1>1, <1>2
  <2> QED
    BY <1>3, <2>1, <2>2, LowerStrict
<1>4. rank \in [S -> 0 .. (n - 1)]
  BY <1>2
<1>5. IsFiniteSet(0 .. (n - 1)) /\ Cardinality(0 .. (n - 1)) = n
  <2> HIDE DEF n
  <2>1. 0 \in Int /\ n - 1 \in Int /\ (IF 0 > n - 1 THEN 0 ELSE (n - 1) - 0 + 1) = n
    BY <1>1
  <2> QED
    BY <2>1, FS_Interval
<1>6. rank \in Injection(S, 0 .. (n - 1))
  <2> HIDE DEF rank, n
  <2> QED
    BY <1>3, <1>4, Fun_IsInj
<1>7. rank \in Surjection(S, 0 .. (n - 1))
  <2> HIDE DEF rank
  <2> QED
    BY <1>1, <1>5, <1>6, FS_Injection
<1>8. \E r \in S : rank[r] = m - 1
  <2>1. m - 1 \in 0 .. (n - 1)
    BY <1>1
  <2> HIDE DEF rank, n
  <2> QED
    BY <1>7, <2>1 DEF Surjection
<1> QED
  BY <1>8

LEMMA InHashOrderAt ==
  ASSUME NEW S \in SUBSET Nonce, NEW m \in 1 .. Cardinality(S)
  PROVE  /\ InHashOrder(S)[m] \in S
         /\ Cardinality(Lower(S, InHashOrder(S)[m])) = m - 1
<1>1. InHashOrder(S)[m] = CHOOSE r \in S : Cardinality(Lower(S, r)) = m - 1
  BY DEF InHashOrder, Lower
<1>2. \E r \in S : Cardinality(Lower(S, r)) = m - 1
  BY RankTaken
<1> QED
  BY <1>1, <1>2

LEMMA IntervalEnd ==
  ASSUME NEW m \in Nat, NEW n \in Nat, 1 .. m = 1 .. n
  PROVE  m = n
<1>1. CASE m < n
  BY <1>1, n \in 1 .. n, n \notin 1 .. m
<1>2. CASE n < m
  BY <1>2, m \in 1 .. m, m \notin 1 .. n
<1> QED
  BY <1>1, <1>2

LEMMA InHashOrderTyped ==
  ASSUME NEW S \in SUBSET Nonce
  PROVE  /\ InHashOrder(S) \in Seq(Nonce)
         /\ Len(InHashOrder(S)) = Cardinality(S)
         /\ DOMAIN InHashOrder(S) = 1 .. Cardinality(S)
<1>1. Cardinality(S) \in Nat
  BY NonceFinite
<1>2. DOMAIN InHashOrder(S) = 1 .. Cardinality(S)
  BY DEF InHashOrder
<1>3. InHashOrder(S) \in [1 .. Cardinality(S) -> Nonce]
  <2>1. \A m \in 1 .. Cardinality(S) : InHashOrder(S)[m] \in Nonce
    BY InHashOrderAt
  <2> DEFINE nth(m) == CHOOSE r \in S : Cardinality({q \in S : Before(q, r)}) = m - 1
  <2>2. InHashOrder(S) = [m \in 1 .. Cardinality(S) |-> nth(m)]
    BY DEF InHashOrder
  <2> HIDE DEF nth
  <2> QED
    BY <2>1, <2>2
<1>4. InHashOrder(S) \in Seq(Nonce)
  <2>1. InHashOrder(S) \in UNION {[1 .. n -> Nonce] : n \in Nat}
    BY <1>1, <1>3
  <2> QED
    BY <2>1, SeqDef
<1>5. Len(InHashOrder(S)) = Cardinality(S)
  BY <1>1, <1>2, <1>4, LenProperties, IntervalEnd
<1> QED
  BY <1>2, <1>4, <1>5

LEMMA InHashOrderSorted ==
  ASSUME NEW S \in SUBSET Nonce
  PROVE  SortedByHash(InHashOrder(S))
<1> SUFFICES ASSUME NEW m \in 1 .. Cardinality(S), NEW n \in 1 .. Cardinality(S), m < n
             PROVE  Hash[InHashOrder(S)[m]] <= Hash[InHashOrder(S)[n]]
  BY InHashOrderTyped DEF SortedByHash
<1> DEFINE a == InHashOrder(S)[m]
           b == InHashOrder(S)[n]
<1>1. /\ a \in S /\ Cardinality(Lower(S, a)) = m - 1
      /\ b \in S /\ Cardinality(Lower(S, b)) = n - 1
  BY InHashOrderAt
<1> HIDE DEF a, b
<1>2. ~Before(b, a)
  BY <1>1, LowerStrict
<1>3. Hash[a] \in Nat /\ Hash[b] \in Nat
  BY <1>1, HashNat
<1>4. Hash[a] <= Hash[b]
  BY <1>2, <1>3 DEF Before
<1> QED
  BY <1>4 DEF a, b

-----------------------------------------------------------------------------
(* Least elements *)

LEMMA NatMin ==
  ASSUME NEW T \in SUBSET Nat, T # {}
  PROVE  \E x \in T : \A y \in T : x <= y
<1>1. \E x \in T : \A y \in T : ~(<<y, x>> \in OpToRel(<, Nat))
  BY NatLessThanWellFounded, WFMin
<1>2. ASSUME NEW x \in Nat, NEW y \in Nat, ~(<<y, x>> \in OpToRel(<, Nat))
      PROVE  x <= y
  <2>1. <<y, x>> \in Nat \X Nat
    OBVIOUS
  <2>2. ~(<<y, x>>[1] < <<y, x>>[2])
    BY <1>2, <2>1 DEF OpToRel
  <2> QED
    BY <2>2
<1> QED
  BY <1>1, <1>2

-----------------------------------------------------------------------------
(* The batches of loader threads *)

LEMMA BatchFacts ==
  ASSUME no_files \in Nat \ {0}
  PROVE  /\ loops \in Nat \ {0} /\ batch_size \in Nat \ {0}
         /\ loops * batch_size \in Nat /\ loops * batch_size <= no_files
<1>1. write_threads \in Nat \ {0}
  BY ConfigAssumption
<1>2. CASE no_files < write_threads
  BY <1>2 DEF loops, batch_size
<1>3. CASE ~(no_files < write_threads)
  <2>1. loops = no_files \div write_threads /\ batch_size = write_threads
    BY <1>3 DEF loops, batch_size
  <2>2. /\ no_files \div write_threads \in Nat \ {0}
        /\ (no_files \div write_threads) * write_threads <= no_files
    BY <1>1, <1>3
  <2> QED
    BY <1>1, <2>1, <2>2
<1> QED
  BY <1>2, <1>3

(* The first bucket of a batch. *)
LEMMA FirstOfBatch ==
  ASSUME no_files \in Nat \ {0}, batch \in Nat, batch < loops
  PROVE  /\ write_threads * batch \in Nat
         /\ write_threads * batch = batch * batch_size
         /\ MoreBatches => write_threads * (batch + 1) = write_threads * batch + batch_size
         /\ ~MoreBatches => loops * batch_size = write_threads * batch + batch_size
<1>1. write_threads \in Nat \ {0} /\ loops \in Nat \ {0} /\ batch_size \in Nat \ {0}
  BY ConfigAssumption, BatchFacts
<1>2. ~MoreBatches => loops = batch + 1
  BY <1>1 DEF MoreBatches
<1>3. CASE no_files < write_threads
  <2>1. loops = 1 /\ batch = 0 /\ batch_size = no_files /\ ~MoreBatches
    BY <1>3 DEF loops, batch_size, MoreBatches
  <2> QED
    BY <1>1, <2>1
<1>4. CASE ~(no_files < write_threads)
  <2>1. batch_size = write_threads
    BY <1>4 DEF batch_size
  <2>2. /\ write_threads * batch \in Nat
        /\ write_threads * batch = batch * write_threads
        /\ write_threads * (batch + 1) = write_threads * batch + write_threads
        /\ (batch + 1) * write_threads = write_threads * batch + write_threads
    BY <1>1
  <2> QED
    BY <1>2, <2>1, <2>2
<1> QED
  BY <1>3, <1>4

-----------------------------------------------------------------------------
(* The inductive invariant *)

Started == {"load", "open_output", "merge", "drain", "delete_bins"}

Buckets ==
  /\ no_files \in Nat
  /\ DOMAIN bucket = Files /\ \A f \in Files : bucket[f] \in Seq(Nonce)

ControlInv ==
  /\ pc \in {"ExternalSort", "load", "open_output", "merge", "drain"} \cup Ended
  /\ spawned \in Nat /\ joined \in Nat /\ batch \in Nat
  /\ out_open \in BOOLEAN
  /\ sorted \in Seq(Nonce) /\ output \in Seq(Nonce)
  /\ pc = "ExternalSort" => spawned = 0 /\ joined = 0
  /\ pc \in Started => no_files > 0
  /\ pc = "load" => batch < loops /\ spawned <= batch_size /\ joined <= spawned
  /\ pc \in {"ExternalSort", "load", "open_output"} => sorted = <<>> /\ output = <<>>
  /\ pc \in {"merge", "drain"} => out_open \/ "open" \in Faults
  /\ pc = "delete_bins" => sorted = <<>>

(* A loader thread assigns inputs[f], and records[f] unless fopen failed.  *)
Fresh(f) == inputs[f] = "uninit" /\ records[f] = "uninit"
Loaded(f) == inputs[f] # "uninit" /\ (records[f] = "uninit" => "open" \in Faults)

(* The loaders of this batch that are joined, those that were created, and *)
(* the ones still to come; after the last batch all it reached are loaded. *)
LoaderAt(f, done, begun) ==
  /\ f < done => loader[f] = "none" /\ Loaded(f)
  /\ f >= done /\ f < begun => \/ loader[f] = "running" /\ Fresh(f)
                               \/ loader[f] = "exited" /\ Loaded(f)
  /\ f >= begun => loader[f] = "none" /\ Fresh(f)

LoaderInv ==
  /\ loader \in [Files -> {"none", "running", "exited"}]
  /\ inputs \in [Files -> {"uninit", "null", "open"}]
  /\ pc = "load" => \A f \in Files : LoaderAt(f, file_no(joined), file_no(spawned))
  /\ pc # "load" =>
       \A f \in Files : IF f < loops * batch_size THEN Loaded(f) ELSE Fresh(f)

(* A bucket is read in whole chunks, and given up when less than one is    *)
(* left.                                                                   *)
ChunkOf(f) ==
  /\ \E q \in Nat : read[f] = q * records_per_read
  /\ read[f] <= Len(bucket[f])
  /\ records[f] = "live" => records_per_read <= read[f]
  /\ records[f] = "uninit" => read[f] = 0
  /\ records[f] = "null" => Len(bucket[f]) - read[f] < records_per_read

ChunkInv ==
  /\ records \in [Files -> {"uninit", "null", "live"}]
  /\ read \in [Files -> Nat]
  /\ \A f \in Files : ChunkOf(f)

IdxInv ==
  /\ idx \in [Files -> Nat]
  /\ \A f \in Files : idx[f] < records_per_read \/ idx[f] = 0
  /\ pc # "merge" => Candidates = {}

IInv ==
  /\ Buckets /\ ControlInv
  /\ pc \in Started => LoaderInv /\ ChunkInv
  /\ pc \in {"merge", "drain", "delete_bins"} => IdxInv

LEMMA SizesTyped ==
  ASSUME IInv, no_files > 0
  PROVE  /\ no_files \in Nat \ {0}
         /\ divider \in Nat /\ records_per_read \in Nat
         /\ write_threads \in Nat \ {0}
  BY Halves, ConfigAssumption DEF IInv, Buckets

(* What a non-empty set of candidates says of the chunk of a candidate.    *)
LEMMA CurrentTyped ==
  ASSUME IInv, pc = "merge", NEW f \in Candidates
  PROVE  /\ f \in Files /\ f \in Nat /\ records[f] = "live" /\ no_files \in Nat \ {0}
         /\ records_per_read \in Nat \ {0} /\ idx[f] \in 0 .. (records_per_read - 1)
         /\ read[f] \in Nat /\ records_per_read <= read[f] /\ read[f] <= Len(bucket[f])
         /\ bucket[f] \in Seq(Nonce) /\ Len(bucket[f]) \in Nat
         /\ Current(f) = bucket[f][read[f] - records_per_read + idx[f] + 1]
         /\ Current(f) \in Nonce
<1>1. f \in Files /\ records[f] = "live" /\ idx[f] < records_per_read
  BY DEF Candidates
<1>2. no_files \in Nat \ {0} /\ records_per_read \in Nat
  BY SizesTyped DEF IInv, ControlInv, Started
<1>3. f \in Nat
  BY <1>1, <1>2 DEF Files
<1>4. /\ idx[f] \in Nat /\ read[f] \in Nat
      /\ records_per_read <= read[f] /\ read[f] <= Len(bucket[f])
      /\ bucket[f] \in Seq(Nonce)
  BY <1>1 DEF IInv, Started, IdxInv, ChunkInv, ChunkOf, Buckets
<1>5. Len(bucket[f]) \in Nat
  BY <1>4, LenProperties
<1>6. read[f] - records_per_read + idx[f] + 1 \in 1 .. Len(bucket[f])
  BY <1>1, <1>2, <1>4, <1>5
<1>7. bucket[f][read[f] - records_per_read + idx[f] + 1] \in Nonce
  BY <1>4, <1>6, ElementOfSeq
<1> QED
  BY <1>1, <1>2, <1>3, <1>4, <1>5, <1>7 DEF Current

(* The loop over i finds a bucket with a least hash, the first one.        *)
LEMMA SmallIdx ==
  ASSUME IInv, pc = "merge", Candidates # {}
  PROVE  /\ small_idx \in Candidates
         /\ \A g \in Candidates : Hash[Current(small_idx)] <= Hash[Current(g)]
         /\ \A g \in Candidates :
              \/ Hash[Current(small_idx)] < Hash[Current(g)]
              \/ Hash[Current(small_idx)] = Hash[Current(g)] /\ small_idx <= g
<1> DEFINE H == {Hash[Current(f)] : f \in Candidates}
<1>1. \A f \in Candidates : Hash[Current(f)] \in Nat /\ f \in Nat
  BY CurrentTyped, HashNat
<1>2. PICK h \in H : \A y \in H : h <= y
  <2>1. H \in SUBSET Nat /\ H # {}
    BY <1>1
  <2> HIDE DEF H
  <2> QED
    BY <2>1, NatMin
<1> DEFINE U == {f \in Candidates : Hash[Current(f)] = h}
<1>3. PICK f \in U : \A g \in U : f <= g
  <2>1. U \in SUBSET Nat /\ U # {}
    BY <1>1, <1>2
  <2> HIDE DEF U, H
  <2> QED
    BY <2>1, NatMin
<1>4. \A g \in Candidates :
        \/ Hash[Current(f)] < Hash[Current(g)]
        \/ Hash[Current(f)] = Hash[Current(g)] /\ f <= g
  <2> SUFFICES ASSUME NEW g \in Candidates
               PROVE  \/ Hash[Current(f)] < Hash[Current(g)]
                      \/ Hash[Current(f)] = Hash[Current(g)] /\ f <= g
    OBVIOUS
  <2>1. Hash[Current(f)] = h /\ h <= Hash[Current(g)] /\ h \in Nat /\ Hash[Current(g)] \in Nat
    BY <1>1, <1>2, <1>3
  <2>2. CASE Hash[Current(g)] = h
    BY <1>3, <2>1, <2>2
  <2> QED
    BY <2>1, <2>2
<1>5. \E e \in Candidates : \A g \in Candidates :
        \/ Hash[Current(e)] < Hash[Current(g)]
        \/ Hash[Current(e)] = Hash[Current(g)] /\ e <= g
  BY <1>3, <1>4
<1>6. /\ small_idx \in Candidates
      /\ \A g \in Candidates :
           \/ Hash[Current(small_idx)] < Hash[Current(g)]
           \/ Hash[Current(small_idx)] = Hash[Current(g)] /\ small_idx <= g
  <2> DEFINE Least(e) == \A g \in Candidates :
               \/ Hash[Current(e)] < Hash[Current(g)]
               \/ Hash[Current(e)] = Hash[Current(g)] /\ e <= g
  <2>1. \E e \in Candidates : Least(e)
    BY <1>5
  <2>2. small_idx = CHOOSE e \in Candidates : Least(e)
    BY DEF small_idx
  <2>3. small_idx \in Candidates /\ Least(small_idx)
    <3> HIDE DEF Least
    <3> QED
      BY <2>1, <2>2
  <2> QED
    BY <2>3
<1> QED
  <2> SUFFICES ASSUME NEW g \in Candidates
               PROVE  Hash[Current(small_idx)] <= Hash[Current(g)]
    BY <1>6
  <2>1. Hash[Current(small_idx)] \in Nat /\ Hash[Current(g)] \in Nat
    BY <1>1, <1>6
  <2> QED
    BY <1>6, <2>1

-----------------------------------------------------------------------------
(* The invariant is inductive *)

LEMMA InitIInv == Init => IInv
<1> SUFFICES ASSUME Init PROVE IInv
  OBVIOUS
<1>1. PICK n \in FileCounts : StartWith(n)
  BY DEF Init
<1>2. no_files \in Nat
  BY <1>1, FileCountsAssumption DEF StartWith
<1>3. PICK home \in [Nonce -> Files] :
        bucket = [f \in Files |-> InHashOrder({r \in Nonce : home[r] = f})]
  BY <1>1 DEF StartWith
<1>4. ASSUME NEW f \in Files PROVE bucket[f] \in Seq(Nonce)
  <2>1. {r \in Nonce : home[r] = f} \in SUBSET Nonce
    OBVIOUS
  <2> QED
    BY <1>3, <2>1, InHashOrderTyped
<1>5. Buckets
  BY <1>2, <1>3, <1>4 DEF Buckets
<1>6. ControlInv
  <2>1. /\ pc = "ExternalSort" /\ spawned = 0 /\ joined = 0 /\ batch = 0
        /\ out_open = FALSE /\ sorted = <<>> /\ output = <<>>
    BY <1>1 DEF Init, InitOwn, StartWith
  <2>2. <<>> \in Seq(Nonce)
    BY EmptySeq
  <2> QED
    BY <2>1, <2>2 DEF ControlInv, Started
<1> QED
  BY <1>1, <1>5, <1>6 DEF IInv, StartWith, Started

(* Nobody writes a bucket any more, or counts them anew.                   *)
LEMMA BucketsUnchanged == [Next]_vars => bucket' = bucket /\ no_files' = no_files
  BY DEF Next, Step, Main, Loading, Over, vars, shared, Begin, CreateLoader, NoArgument,
     JoinLoader, BatchDone, OpenOutput, LoadFile, MergeStep, WildRead, MergeDone, Drain

LEMMA BeginStep == IInv /\ Begin => IInv'
<1> SUFFICES ASSUME IInv, Begin PROVE IInv'
  OBVIOUS
<1>1. no_files' = no_files /\ bucket' = bucket /\ no_files \in Nat
  BY DEF Begin, IInv, Buckets
<1>2. Buckets'
  BY <1>1 DEF IInv, Buckets, Files
<1>3. pc' = "load" => no_files \in Nat \ {0}
  BY <1>1 DEF Begin
<1>4. ControlInv'
  <2>1. pc' = "load" => batch' = 0 /\ loops' = loops /\ loops \in Nat \ {0}
                        /\ batch_size' = batch_size /\ batch_size \in Nat \ {0}
    BY <1>1, <1>3, BatchFacts DEF Begin, loops, batch_size
  <2> QED
    BY <1>3, <2>1 DEF IInv, ControlInv, Begin, Started, Ended
<1>5. ASSUME pc' = "load" PROVE LoaderInv' /\ ChunkInv'
  <2>1. /\ loader' = [f \in Files |-> "none"]
        /\ inputs' = [f \in Files |-> "uninit"]
        /\ records' = [f \in Files |-> "uninit"]
        /\ read' = [f \in Files |-> 0]
        /\ batch' = 0 /\ spawned' = 0 /\ joined' = 0
        /\ Files' = Files
    BY <1>1 DEF Begin, IInv, ControlInv, Files
  <2>2. records_per_read' = records_per_read /\ records_per_read \in Nat
    BY <1>1, <1>3, <1>5, Halves DEF records_per_read, divider
  <2>3. ASSUME NEW f \in Files PROVE ChunkOf(f)'
    <3>1. 0 = 0 * records_per_read /\ 0 \in Nat
      BY <2>2
    <3>2. Len(bucket[f]) \in Nat
      BY LenProperties DEF IInv, Buckets
    <3> QED
      BY <1>1, <2>1, <2>2, <3>1, <3>2 DEF ChunkOf
  <2>4. ASSUME NEW f \in Files PROVE LoaderAt(f, file_no(joined), file_no(spawned))'
    <3>1. f \in Nat
      BY <1>1 DEF Files
    <3>2. write_threads * 0 + 0 = 0
      BY ConfigAssumption
    <3>3. file_no(joined)' = 0 /\ file_no(spawned)' = 0
      BY <2>1, <3>2 DEF file_no
    <3> QED
      BY <2>1, <3>1, <3>3 DEF LoaderAt, Fresh
  <2> QED
    BY <1>5, <2>1, <2>3, <2>4 DEF LoaderInv, ChunkInv
<1> QED
  BY <1>2, <1>4, <1>5 DEF IInv, Started, Begin

(* What stays as it is when main or a loader leaves files and sizes alone. *)
LEMMA SizesKept ==
  ASSUME UNCHANGED <<bucket, no_files>>
  PROVE  /\ Files' = Files /\ loops' = loops /\ batch_size' = batch_size
         /\ records_per_read' = records_per_read /\ divider' = divider
         /\ Buckets => Buckets'
  BY DEF Files, loops, batch_size, records_per_read, divider, Buckets

LEMMA ChunksKept ==
  ASSUME UNCHANGED <<bucket, no_files, records, read>>, ChunkInv
  PROVE  ChunkInv'
<1>1. Files' = Files /\ records_per_read' = records_per_read
  BY SizesKept
<1> QED
  BY <1>1 DEF ChunkInv, ChunkOf

(* Where this batch of loader threads begins.                              *)
LEMMA FileNumbers ==
  ASSUME IInv, pc = "load"
  PROVE  \E first \in Nat : \A n \in Nat : file_no(n) = first + n
<1>1. write_threads * batch \in Nat
  BY ConfigAssumption DEF IInv, ControlInv
<1> QED
  BY <1>1 DEF file_no

LEMMA CreateLoaderStep == IInv /\ CreateLoader => IInv'
<1> SUFFICES ASSUME IInv, CreateLoader PROVE IInv'
  OBVIOUS
<1>1. /\ pc = "load" /\ pc' = pc /\ spawned' = spawned + 1 /\ spawned < batch_size
      /\ loader' = [loader EXCEPT ![file_no(spawned)] = "running"]
      /\ UNCHANGED <<joined, bucket, no_files, batch, inputs, records, read,
                     idx, sorted, out_open, output>>
  BY DEF CreateLoader, MoreLoaders
<1>2. /\ Files' = Files /\ loops' = loops /\ batch_size' = batch_size /\ Buckets'
      /\ loops \in Nat /\ batch_size \in Nat /\ no_files \in Nat
  BY <1>1, SizesKept, BatchFacts DEF IInv, ControlInv, Started, Buckets
<1>3. ControlInv'
  BY <1>1, <1>2 DEF IInv, ControlInv, Started
<1>4. ChunkInv'
  BY <1>1, ChunksKept DEF IInv, Started
<1>5. PICK first \in Nat : \A n \in Nat : file_no(n) = first + n
  BY <1>1, FileNumbers
<1>6. \A n \in Nat : file_no(n)' = first + n
  BY <1>1, <1>5 DEF file_no
<1>7. ASSUME NEW f \in Files PROVE LoaderAt(f, file_no(joined), file_no(spawned))'
  <2>1. /\ LoaderAt(f, file_no(joined), file_no(spawned))
        /\ loader \in [Files -> {"none", "running", "exited"}]
        /\ f \in Nat /\ spawned \in Nat /\ joined \in Nat /\ joined <= spawned
    BY <1>1, <1>2 DEF IInv, Started, LoaderInv, ControlInv, Files
  <2>2. Loaded(f)' <=> Loaded(f)
    BY <1>1 DEF Loaded
  <2>3. Fresh(f)' <=> Fresh(f)
    BY <1>1 DEF Fresh
  <2>4. LoaderAt(f, first + joined, first + spawned)
    BY <1>5, <2>1
  <2>5. file_no(joined)' = first + joined /\ file_no(spawned)' = first + spawned + 1
    BY <1>1, <1>6, <2>1
  <2>6. CASE f = first + spawned
    BY <1>1, <1>5, <2>1, <2>2, <2>3, <2>4, <2>5, <2>6 DEF LoaderAt
  <2>7. CASE f # first + spawned
    <3>1. loader'[f] = loader[f]
      BY <1>1, <1>5, <2>1, <2>7
    <3> QED
      BY <1>5, <2>1, <2>2, <2>3, <2>4, <2>5, <2>7, <3>1 DEF LoaderAt
  <2> QED
    BY <2>6, <2>7
<1>8. LoaderInv'
  BY <1>1, <1>2, <1>7 DEF IInv, Started, LoaderInv
<1> QED
  BY <1>1, <1>2, <1>3, <1>4, <1>8 DEF IInv, Started

LEMMA JoinLoaderStep == IInv /\ JoinLoader => IInv'
<1> SUFFICES ASSUME IInv, JoinLoader PROVE IInv'
  OBVIOUS
<1>1. /\ pc = "load" /\ pc' = pc /\ joined' = joined + 1
      /\ spawned = batch_size /\ joined < batch_size
      /\ loader[file_no(joined)] = "exited"
      /\ loader' = [loader EXCEPT ![file_no(joined)] = "none"]
      /\ UNCHANGED <<spawned, bucket, no_files, batch, inputs, records, read,
                     idx, sorted, out_open, output>>
  BY DEF JoinLoader
<1>2. /\ Files' = Files /\ loops' = loops /\ batch_size' = batch_size /\ Buckets'
      /\ loops \in Nat /\ batch_size \in Nat /\ no_files \in Nat
  BY <1>1, SizesKept, BatchFacts DEF IInv, ControlInv, Started, Buckets
<1>3. ControlInv'
  BY <1>1, <1>2 DEF IInv, ControlInv, Started
<1>4. ChunkInv'
  BY <1>1, ChunksKept DEF IInv, Started
<1>5. PICK first \in Nat : \A n \in Nat : file_no(n) = first + n
  BY <1>1, FileNumbers
<1>6. \A n \in Nat : file_no(n)' = first + n
  BY <1>1, <1>5 DEF file_no
<1>7. ASSUME NEW f \in Files PROVE LoaderAt(f, file_no(joined), file_no(spawned))'
  <2>1. /\ LoaderAt(f, file_no(joined), file_no(spawned))
        /\ loader \in [Files -> {"none", "running", "exited"}]
        /\ f \in Nat /\ spawned \in Nat /\ joined \in Nat /\ joined < spawned
    BY <1>1, <1>2 DEF IInv, Started, LoaderInv, ControlInv, Files
  <2>2. Loaded(f)' <=> Loaded(f)
    BY <1>1 DEF Loaded
  <2>3. Fresh(f)' <=> Fresh(f)
    BY <1>1 DEF Fresh
  <2>4. LoaderAt(f, first + joined, first + spawned)
    BY <1>5, <2>1
  <2>5. file_no(joined)' = first + joined + 1 /\ file_no(spawned)' = first + spawned
    BY <1>1, <1>6, <2>1
  <2>6. CASE f = first + joined
    <3>1. loader'[f] = "none" /\ loader[f] = "exited"
      BY <1>1, <1>5, <2>1, <2>6
    <3> QED
      BY <2>1, <2>2, <2>3, <2>4, <2>5, <2>6, <3>1 DEF LoaderAt
  <2>7. CASE f # first + joined
    <3>1. loader'[f] = loader[f]
      BY <1>1, <1>5, <2>1, <2>7
    <3> QED
      BY <1>5, <2>1, <2>2, <2>3, <2>4, <2>5, <2>7, <3>1 DEF LoaderAt
  <2> QED
    BY <2>6, <2>7
<1>8. LoaderInv'
  BY <1>1, <1>2, <1>7 DEF IInv, Started, LoaderInv
<1> QED
  BY <1>1, <1>2, <1>3, <1>4, <1>8 DEF IInv, Started

(* The next batch begins where this one ends; after the last one every     *)
(* bucket below loops * batch_size has been through a loader.              *)
LEMMA BatchDoneStep == IInv /\ BatchDone => IInv'
<1> SUFFICES ASSUME IInv, BatchDone PROVE IInv'
  OBVIOUS
<1>1. /\ pc = "load" /\ joined = batch_size /\ batch' = batch + 1
      /\ spawned' = 0 /\ joined' = 0
      /\ pc' = IF MoreBatches THEN "load" ELSE "open_output"
      /\ UNCHANGED <<bucket, no_files, loader, inputs, records, read,
                     idx, sorted, out_open, output>>
  BY DEF BatchDone
<1>2. /\ Files' = Files /\ loops' = loops /\ batch_size' = batch_size /\ Buckets'
      /\ loops \in Nat \ {0} /\ batch_size \in Nat \ {0} /\ no_files \in Nat \ {0}
      /\ batch \in Nat /\ batch < loops /\ spawned = batch_size /\ spawned \in Nat
  BY <1>1, SizesKept, BatchFacts DEF IInv, ControlInv, Started, Buckets
<1>3. ControlInv'
  BY <1>1, <1>2 DEF IInv, ControlInv, Started, MoreBatches
<1>4. ChunkInv'
  BY <1>1, ChunksKept DEF IInv, Started
<1> DEFINE end == write_threads * batch + batch_size
<1>5. /\ file_no(joined) = end /\ file_no(spawned) = end /\ end \in Nat
      /\ MoreBatches => file_no(joined)' = end /\ file_no(spawned)' = end
      /\ ~MoreBatches => loops * batch_size = end
  <2>1. /\ write_threads * batch \in Nat
        /\ MoreBatches => write_threads * (batch + 1) = end
        /\ ~MoreBatches => loops * batch_size = end
    BY <1>2, FirstOfBatch
  <2>2. file_no(joined)' = write_threads * (batch + 1) + 0
        /\ file_no(spawned)' = write_threads * (batch + 1) + 0
    BY <1>1 DEF file_no
  <2>3. write_threads * (batch + 1) \in Int
    BY <1>2, ConfigAssumption
  <2> QED
    BY <1>1, <1>2, <2>1, <2>2, <2>3 DEF file_no
<1> HIDE DEF end
<1>6. ASSUME NEW f \in Files
      PROVE  /\ f \in Nat
             /\ f < end => loader[f] = "none" /\ Loaded(f)
             /\ f >= end => loader[f] = "none" /\ Fresh(f)
  <2>1. LoaderAt(f, end, end) /\ f \in Nat
    BY <1>1, <1>2, <1>5 DEF IInv, Started, LoaderInv, Files
  <2> QED
    BY <1>5, <2>1 DEF LoaderAt
<1>7. ASSUME NEW f \in Files
      PROVE  (Loaded(f)' <=> Loaded(f)) /\ (Fresh(f)' <=> Fresh(f)) /\ loader'[f] = loader[f]
  BY <1>1 DEF Loaded, Fresh
<1>8. LoaderInv'
  <2>1. CASE MoreBatches
    <3>1. ASSUME NEW f \in Files PROVE LoaderAt(f, file_no(joined), file_no(spawned))'
      BY <1>5, <1>6, <1>7, <2>1 DEF LoaderAt
    <3> QED
      BY <1>1, <1>2, <2>1, <3>1 DEF IInv, Started, LoaderInv
  <2>2. CASE ~MoreBatches
    <3>1. loops' * batch_size' = end
      BY <1>2, <1>5, <2>2
    <3>2. ASSUME NEW f \in Files
          PROVE  IF f < loops' * batch_size' THEN Loaded(f)' ELSE Fresh(f)'
      BY <1>5, <1>6, <1>7, <3>1
    <3> QED
      BY <1>1, <1>2, <2>2, <3>2 DEF IInv, Started, LoaderInv
  <2> QED
    BY <2>1, <2>2
<1> QED
  BY <1>1, <1>2, <1>3, <1>4, <1>8 DEF IInv, Started

(* The chunk a loader reads, or gives up.                                  *)
LEMMA LoadFileStep ==
  ASSUME IInv, NEW f \in DOMAIN loader, LoadFile(f)
  PROVE  IInv'
<1>1. /\ pc = "load" /\ loader[f] = "running"
      /\ loader' = [loader EXCEPT ![f] = "exited"]
      /\ UNCHANGED <<spawned, joined, bucket, no_files, batch, idx, sorted, out_open, output>>
      /\ pc' = pc \/ pc' = "failed"
  BY DEF LoadFile
<1>2. /\ Files' = Files /\ loops' = loops /\ batch_size' = batch_size /\ Buckets'
      /\ records_per_read' = records_per_read
  BY <1>1, SizesKept DEF IInv
<1>3. f \in Files /\ Exists(f) /\ no_files \in Nat \ {0} /\ records_per_read \in Nat
  BY <1>1, SizesTyped DEF IInv, Started, LoaderInv, Exists, Buckets, ControlInv
<1>4. ControlInv'
  BY <1>1, <1>2 DEF IInv, ControlInv, Started, Ended
<1>5. CASE pc' = "failed"
  BY <1>2, <1>4, <1>5 DEF IInv, Started
<1>6. CASE pc' = pc
  <2>1. /\ inputs \in [Files -> {"uninit", "null", "open"}]
        /\ loader \in [Files -> {"none", "running", "exited"}]
        /\ records \in [Files -> {"uninit", "null", "live"}] /\ read \in [Files -> Nat]
        /\ Len(bucket[f]) \in Nat
    BY <1>1, <1>3, LenProperties DEF IInv, Started, LoaderInv, ChunkInv, Buckets
  <2>2. PICK first \in Nat : \A n \in Nat : file_no(n) = first + n
    BY <1>1, FileNumbers
  <2>3. /\ file_no(joined)' = file_no(joined) /\ file_no(spawned)' = file_no(spawned)
        /\ file_no(joined) \in Nat /\ file_no(spawned) \in Nat
    BY <1>1, <2>2 DEF file_no, IInv, ControlInv
  <2>4. /\ LoaderAt(f, file_no(joined), file_no(spawned)) /\ f \in Nat
        /\ ChunkOf(f)
    BY <1>1, <1>3 DEF IInv, Started, LoaderInv, ChunkInv, Files
  <2>5. f >= file_no(joined) /\ f < file_no(spawned) /\ Fresh(f)
    BY <1>1, <2>3, <2>4 DEF LoaderAt
  <2> DEFINE NoFile == "open" \in Faults /\ inputs' = [inputs EXCEPT ![f] = "null"]
                       /\ UNCHANGED <<records, read>>
             Whole == inputs' = [inputs EXCEPT ![f] = "open"] /\ Full(f)
                      /\ records' = [records EXCEPT ![f] = "live"]
                      /\ read' = [read EXCEPT ![f] = records_per_read]
             Partial == inputs' = [inputs EXCEPT ![f] = "open"] /\ ~Full(f)
                        /\ records' = [records EXCEPT ![f] = "null"] /\ UNCHANGED read
  <2>6. NoFile \/ Whole \/ Partial
    BY <1>1, <1>3, <1>6 DEF LoadFile
  <2>7. /\ inputs' \in [Files -> {"uninit", "null", "open"}]
        /\ records' \in [Files -> {"uninit", "null", "live"}] /\ read' \in [Files -> Nat]
        /\ \A g \in Files : g # f =>
             inputs'[g] = inputs[g] /\ records'[g] = records[g] /\ read'[g] = read[g]
    <3>1. CASE NoFile
      BY <2>1, <3>1
    <3>2. CASE Whole
      BY <1>3, <2>1, <3>2
    <3>3. CASE Partial
      BY <2>1, <3>3
    <3> QED
      BY <2>6, <3>1, <3>2, <3>3
  <2>8. Loaded(f)' /\ ChunkOf(f)'
    <3>1. /\ read[f] = 0 /\ records[f] = "uninit" /\ inputs[f] = "uninit"
      BY <2>4, <2>5 DEF ChunkOf, Fresh
    <3>2. 0 = 0 * records_per_read /\ records_per_read = 1 * records_per_read
      BY <1>3
    <3>3. CASE NoFile
      BY <1>1, <1>2, <1>3, <2>1, <2>4, <3>1, <3>3 DEF Loaded, ChunkOf
    <3>4. CASE Whole
      <4>1. /\ inputs'[f] = "open" /\ records'[f] = "live" /\ read'[f] = records_per_read
            /\ bucket'[f] = bucket[f] /\ records_per_read <= Len(bucket[f])
        BY <1>1, <1>3, <2>1, <3>1, <3>4 DEF Full
      <4>2. \E q \in Nat : read'[f] = q * records_per_read
        BY <3>2, <4>1
      <4> QED
        BY <1>2, <1>3, <4>1, <4>2 DEF Loaded, ChunkOf
    <3>5. CASE Partial
      BY <1>1, <1>2, <1>3, <2>1, <3>1, <3>2, <3>5 DEF Loaded, ChunkOf, Full
    <3> QED
      BY <2>6, <3>3, <3>4, <3>5
  <2>9. ASSUME NEW g \in Files
        PROVE  LoaderAt(g, file_no(joined), file_no(spawned))' /\ ChunkOf(g)'
    <3>1. LoaderAt(g, file_no(joined), file_no(spawned)) /\ ChunkOf(g) /\ g \in Nat
      BY <1>1, <1>3 DEF IInv, Started, LoaderInv, ChunkInv, Files
    <3>2. CASE g = f
      <4>1. loader'[f] = "exited"
        BY <1>1, <1>3, <2>1
      <4> QED
        BY <2>3, <2>4, <2>5, <2>8, <3>2, <4>1 DEF LoaderAt
    <3>3. CASE g # f
      <4>1. loader'[g] = loader[g] /\ (Loaded(g)' <=> Loaded(g)) /\ (Fresh(g)' <=> Fresh(g))
        BY <1>1, <2>1, <2>7, <3>3 DEF Loaded, Fresh
      <4>2. ChunkOf(g)'
        BY <1>1, <1>2, <2>7, <3>1, <3>3 DEF ChunkOf
      <4> QED
        BY <2>3, <3>1, <4>1, <4>2 DEF LoaderAt
    <3> QED
      BY <3>2, <3>3
  <2>10. LoaderInv' /\ ChunkInv'
    <3>1. loader' \in [Files -> {"none", "running", "exited"}]
      BY <1>1, <2>1
    <3> QED
      BY <1>1, <1>2, <1>6, <2>7, <2>9, <3>1 DEF LoaderInv, ChunkInv
  <2> QED
    BY <1>1, <1>2, <1>4, <1>6, <2>10 DEF IInv, Started
<1> QED
  BY <1>1, <1>5, <1>6

LEMMA OpenOutputStep == IInv /\ OpenOutput => IInv'
<1> SUFFICES ASSUME IInv, OpenOutput PROVE IInv'
  OBVIOUS
<1>1. /\ pc = "open_output" /\ idx' = [f \in Files |-> 0] /\ sorted' = <<>>
      /\ UNCHANGED <<spawned, joined, bucket, no_files, batch, loader, inputs,
                     records, read, output>>
      /\ \/ pc' = "crashed" /\ UNCHANGED out_open
         \/ pc' = "merge" /\ out_open' = TRUE
         \/ pc' = "merge" /\ out_open' = FALSE /\ "open" \in Faults
  BY DEF OpenOutput
<1>2. /\ Files' = Files /\ loops' = loops /\ batch_size' = batch_size /\ Buckets'
      /\ records_per_read' = records_per_read /\ records_per_read \in Nat
  BY <1>1, SizesKept, SizesTyped DEF IInv, ControlInv, Started
<1>3. ControlInv'
  BY <1>1, <1>2 DEF IInv, ControlInv, Started, Ended
<1>4. ASSUME pc' = "merge" PROVE LoaderInv' /\ ChunkInv' /\ IdxInv'
  <2>1. ChunkInv'
    BY <1>1, ChunksKept DEF IInv, Started
  <2>2. LoaderInv'
    BY <1>1, <1>2, <1>4 DEF IInv, Started, LoaderInv, Loaded, Fresh
  <2>3. IdxInv'
    BY <1>1, <1>2, <1>4 DEF IdxInv
  <2> QED
    BY <2>1, <2>2, <2>3
<1> QED
  BY <1>1, <1>2, <1>3, <1>4 DEF IInv, Started

(* One turn of the merge takes the next record of bucket f: within the     *)
(* chunk, with another chunk behind it, or with none.                      *)
Within(f) ==
  /\ idx[f] + 1 < records_per_read
  /\ idx' = [idx EXCEPT ![f] = @ + 1] /\ UNCHANGED <<records, read>>

Refilled(f) ==
  /\ idx[f] + 1 = records_per_read /\ Full(f)
  /\ idx' = [idx EXCEPT ![f] = 0]
  /\ read' = [read EXCEPT ![f] = @ + records_per_read] /\ UNCHANGED records

GivenUp(f) ==
  /\ idx[f] + 1 = records_per_read /\ ~Full(f)
  /\ idx' = [idx EXCEPT ![f] = 0]
  /\ records' = [records EXCEPT ![f] = "null"] /\ UNCHANGED read

LEMMA MergeStepCases ==
  ASSUME IInv, MergeStep
  PROVE  /\ pc = "merge" /\ small_idx \in Candidates
         /\ UNCHANGED <<spawned, joined, bucket, no_files, batch, loader, inputs, out_open>>
         /\ \/ /\ pc' = "crashed" /\ ~out_open
               /\ UNCHANGED <<idx, sorted, records, read, output>>
            \/ /\ pc' = "merge"
               /\ Within(small_idx) \/ Refilled(small_idx) \/ GivenUp(small_idx)
               /\ \/ sorted' = Append(sorted, Current(small_idx)) /\ UNCHANGED output
                  \/ sorted' = <<>> /\ Flush(Append(sorted, Current(small_idx)))
<1> DEFINE f == small_idx
<1>1. pc = "merge" /\ Candidates # {}
  BY DEF MergeStep
<1>2. f \in Candidates
  BY <1>1, SmallIdx
<1>3. /\ records_per_read \in Nat \ {0} /\ idx[f] \in 0 .. (records_per_read - 1)
  BY <1>1, <1>2, CurrentTyped
<1> HIDE DEF f
<1>4. ASSUME IF idx[f] + 1 = records_per_read
             THEN Refill(f) /\ idx' = [idx EXCEPT ![f] = 0]
             ELSE idx' = [idx EXCEPT ![f] = @ + 1] /\ UNCHANGED <<records, read>>
      PROVE  Within(f) \/ Refilled(f) \/ GivenUp(f)
  BY <1>3, <1>4 DEF Within, Refilled, GivenUp, Refill
<1> QED
  BY <1>1, <1>2, <1>4 DEF MergeStep, f

LEMMA FlushTyped ==
  ASSUME output \in Seq(Nonce), NEW recs \in Seq(Nonce), Flush(recs)
  PROVE  output' \in Seq(Nonce)
<1>1. CASE output' = output \o recs
  BY <1>1, ConcatProperties
<1>2. CASE \E n \in 0 .. (Len(recs) - 1) : output' = output \o SubSeq(recs, 1, n)
  <2>1. PICK n \in 0 .. (Len(recs) - 1) : output' = output \o SubSeq(recs, 1, n)
    BY <1>2
  <2>2. Len(recs) \in Nat
    BY LenProperties
  <2>3. \A i \in 1 .. n : recs[i] \in Nonce
    BY <2>2, ElementOfSeq
  <2>4. SubSeq(recs, 1, n) \in Seq(Nonce)
    BY <2>2, <2>3, SubSeqProperties
  <2> QED
    BY <2>1, <2>4, ConcatProperties
<1> QED
  BY <1>1, <1>2 DEF Flush

LEMMA MergeStepStep == IInv /\ MergeStep => IInv'
<1> SUFFICES ASSUME IInv, MergeStep PROVE IInv'
  OBVIOUS
<1>0. PICK f \in Candidates : f = small_idx
  BY MergeStepCases
<1>1. /\ pc = "merge" /\ f \in Candidates
      /\ UNCHANGED <<spawned, joined, bucket, no_files, batch, loader, inputs, out_open>>
      /\ \/ /\ pc' = "crashed" /\ ~out_open
            /\ UNCHANGED <<idx, sorted, records, read, output>>
         \/ /\ pc' = "merge"
            /\ Within(f) \/ Refilled(f) \/ GivenUp(f)
            /\ \/ sorted' = Append(sorted, Current(f)) /\ UNCHANGED output
               \/ sorted' = <<>> /\ Flush(Append(sorted, Current(f)))
  BY <1>0, MergeStepCases
<1>2. /\ f \in Files /\ records[f] = "live"
      /\ records_per_read \in Nat \ {0} /\ idx[f] \in 0 .. (records_per_read - 1)
      /\ read[f] \in Nat /\ records_per_read <= read[f] /\ read[f] <= Len(bucket[f])
      /\ Len(bucket[f]) \in Nat /\ Current(f) \in Nonce
  BY <1>1, CurrentTyped
<1>3. /\ Files' = Files /\ loops' = loops /\ batch_size' = batch_size /\ Buckets'
      /\ records_per_read' = records_per_read
  BY <1>1, SizesKept DEF IInv
<1>4. sorted' \in Seq(Nonce) /\ output' \in Seq(Nonce)
  <2>1. sorted \in Seq(Nonce) /\ output \in Seq(Nonce)
    BY DEF IInv, ControlInv
  <2>2. Append(sorted, Current(f)) \in Seq(Nonce)
    BY <1>2, <2>1, AppendProperties
  <2>3. CASE sorted' = sorted /\ output' = output
    BY <2>1, <2>3
  <2>4. CASE sorted' = Append(sorted, Current(f)) /\ output' = output
    BY <2>1, <2>2, <2>4
  <2>5. CASE sorted' = <<>> /\ Flush(Append(sorted, Current(f)))
    BY <2>1, <2>2, <2>5, FlushTyped, EmptySeq
  <2> QED
    BY <1>1, <2>3, <2>4, <2>5
<1>5. ControlInv'
  BY <1>1, <1>3, <1>4 DEF IInv, ControlInv, Started, Ended
<1>6. CASE pc' = "crashed"
  BY <1>3, <1>5, <1>6 DEF IInv, Started
<1>7. CASE pc' = "merge"
  <2>1. Within(f) \/ Refilled(f) \/ GivenUp(f)
    BY <1>1, <1>7
  <2>2. /\ records \in [Files -> {"uninit", "null", "live"}] /\ read \in [Files -> Nat]
        /\ idx \in [Files -> Nat]
        /\ \A g \in Files : idx[g] < records_per_read \/ idx[g] = 0
        /\ \A g \in Files : ChunkOf(g)
    BY <1>1 DEF IInv, Started, ChunkInv, IdxInv
  <2>3. /\ records' \in [Files -> {"uninit", "null", "live"}] /\ read' \in [Files -> Nat]
        /\ idx' \in [Files -> Nat]
        /\ records'[f] \in {"live", "null"}
        /\ idx'[f] < records_per_read
        /\ \A g \in Files : g # f =>
             idx'[g] = idx[g] /\ records'[g] = records[g] /\ read'[g] = read[g]
    <3>1. CASE Within(f)
      BY <1>2, <2>2, <3>1 DEF Within
    <3>2. CASE Refilled(f)
      BY <1>2, <2>2, <3>2 DEF Refilled
    <3>3. CASE GivenUp(f)
      BY <1>2, <2>2, <3>3 DEF GivenUp
    <3> QED
      BY <2>1, <3>1, <3>2, <3>3
  <2>4. ChunkOf(f)'
    <3>1. ChunkOf(f)
      BY <1>2, <2>2
    <3>2. CASE Within(f)
      BY <1>1, <1>2, <1>3, <3>1, <3>2 DEF Within, ChunkOf
    <3>3. CASE Refilled(f)
      <4>1. /\ read'[f] = read[f] + records_per_read /\ records'[f] = "live"
            /\ Len(bucket[f]) - read[f] >= records_per_read
        BY <1>2, <2>2, <3>3 DEF Refilled, Full
      <4>2. PICK q \in Nat : read[f] = q * records_per_read
        BY <3>1 DEF ChunkOf
      <4>3. (q + 1) * records_per_read = q * records_per_read + records_per_read
        BY <1>2
      <4>4. read'[f] = (q + 1) * records_per_read /\ q + 1 \in Nat
        BY <4>1, <4>2, <4>3
      <4>5. \E p \in Nat : read'[f] = p * records_per_read
        BY <4>4
      <4> QED
        BY <1>1, <1>2, <1>3, <4>1, <4>5 DEF ChunkOf
    <3>4. CASE GivenUp(f)
      <4>1. /\ read'[f] = read[f] /\ records'[f] = "null"
            /\ Len(bucket[f]) - read[f] < records_per_read
        BY <1>2, <2>2, <3>4 DEF GivenUp, Full
      <4> QED
        BY <1>1, <1>2, <1>3, <3>1, <4>1 DEF ChunkOf
    <3> QED
      BY <2>1, <3>2, <3>3, <3>4
  <2>5. ASSUME NEW g \in Files PROVE ChunkOf(g)'
    <3>1. CASE g = f
      BY <2>4, <3>1
    <3>2. CASE g # f
      BY <1>1, <1>3, <2>2, <2>3, <3>2 DEF ChunkOf
    <3> QED
      BY <3>1, <3>2
  <2>6. ChunkInv'
    BY <1>3, <2>3, <2>5 DEF ChunkInv
  <2>7. IdxInv'
    BY <1>3, <1>7, <2>2, <2>3 DEF IdxInv
  <2>8. LoaderInv'
    <3>1. ASSUME NEW g \in Files
          PROVE  (Loaded(g) => Loaded(g)') /\ (Fresh(g) => Fresh(g)')
      BY <1>1, <1>2, <2>3 DEF Loaded, Fresh
    <3> QED
      BY <1>1, <1>3, <1>7, <3>1 DEF IInv, Started, LoaderInv
  <2> QED
    BY <1>3, <1>5, <1>7, <2>6, <2>7, <2>8 DEF IInv, Started
<1> QED
  BY <1>1, <1>6, <1>7

(* The steps that end the merge, or the process, load and merge nothing.   *)
LEMMA EndingStep ==
  ASSUME IInv, NoArgument \/ WildRead \/ MergeDone \/ Drain
  PROVE  IInv'
<1>1. /\ UNCHANGED <<spawned, joined, bucket, no_files, batch, loader, inputs,
                     records, read, idx>>
      /\ pc' \in {"crashed", "undefined", "drain", "delete_bins"}
      /\ pc' \in {"drain", "delete_bins"} => pc \in {"merge", "drain"}
  BY DEF NoArgument, WildRead, MergeDone, Drain, own
<1>2. /\ Files' = Files /\ loops' = loops /\ batch_size' = batch_size /\ Buckets'
      /\ records_per_read' = records_per_read
  BY <1>1, SizesKept DEF IInv
<1>3. sorted' \in Seq(Nonce) /\ output' \in Seq(Nonce) /\ out_open' \in BOOLEAN
  <2>1. sorted \in Seq(Nonce) /\ output \in Seq(Nonce) /\ out_open \in BOOLEAN
    BY DEF IInv, ControlInv
  <2>2. CASE Drain
    BY <2>1, <2>2, FlushTyped, EmptySeq DEF Drain
  <2> QED
    BY <2>1, <2>2 DEF NoArgument, WildRead, MergeDone, own
<1>4. ControlInv'
  <2>1. pc' = "delete_bins" => sorted' = <<>>
    BY DEF NoArgument, WildRead, MergeDone, Drain
  <2>2. pc' = "drain" => out_open' = out_open /\ pc = "merge"
    BY DEF NoArgument, WildRead, MergeDone, Drain, own
  <2> QED
    BY <1>1, <1>2, <1>3, <2>1, <2>2 DEF IInv, ControlInv, Started, Ended
<1>5. ASSUME pc' \in {"drain", "delete_bins"} PROVE LoaderInv' /\ ChunkInv' /\ IdxInv'
  <2>1. pc \in {"merge", "drain"}
    BY <1>1, <1>5
  <2>2. ChunkInv'
    BY <1>1, <2>1, ChunksKept DEF IInv, Started
  <2>3. LoaderInv'
    BY <1>1, <1>2, <1>5, <2>1 DEF IInv, Started, LoaderInv, Loaded, Fresh
  <2>4. Candidates = {}
    <3>1. CASE pc = "drain"
      BY <3>1 DEF IInv, IdxInv
    <3>2. CASE pc = "merge"
      BY <1>5, <3>2 DEF NoArgument, WildRead, MergeDone, Drain
    <3> QED
      BY <2>1, <3>1, <3>2
  <2>5. Candidates' = Candidates
    BY <1>1, <1>2 DEF Candidates
  <2>6. IdxInv'
    BY <1>1, <1>2, <2>1, <2>4, <2>5 DEF IInv, IdxInv
  <2> QED
    BY <2>2, <2>3, <2>6
<1> QED
  BY <1>1, <1>2, <1>4, <1>5 DEF IInv, Started

LEMMA StutterStep == IInv /\ UNCHANGED vars => IInv'
<1> SUFFICES ASSUME IInv, UNCHANGED vars PROVE IInv'
  OBVIOUS
<1>1. UNCHANGED <<pc, spawned, joined, bucket, no_files, batch, loader, inputs, records,
                  read, idx, sorted, out_open, output>>
  BY DEF vars, shared, own
<1>2. /\ Files' = Files /\ loops' = loops /\ batch_size' = batch_size
      /\ records_per_read' = records_per_read
  BY <1>1, SizesKept
<1>3. /\ Buckets' = Buckets /\ ControlInv' = ControlInv /\ Candidates' = Candidates
  BY <1>1, <1>2 DEF Buckets, ControlInv, Candidates
<1>4. ChunkInv => ChunkInv'
  BY <1>1, ChunksKept
<1>5. LoaderInv => LoaderInv'
  BY <1>1, <1>2 DEF LoaderInv, LoaderAt, Loaded, Fresh, file_no
<1>6. IdxInv => IdxInv'
  BY <1>1, <1>2, <1>3 DEF IdxInv
<1> QED
  BY <1>1, <1>3, <1>4, <1>5, <1>6 DEF IInv

LEMMA NextIInv == IInv /\ [Next]_vars => IInv'
<1> SUFFICES ASSUME IInv, [Next]_vars PROVE IInv'
  OBVIOUS
<1>1. CASE Main
  BY <1>1, BeginStep, CreateLoaderStep, JoinLoaderStep, BatchDoneStep, OpenOutputStep,
     MergeStepStep, EndingStep DEF Main
<1>2. CASE Loading
  BY <1>2, LoadFileStep DEF Loading
<1>3. CASE Over \/ UNCHANGED vars
  BY <1>3, StutterStep DEF Over
<1> QED
  BY <1>1, <1>2, <1>3 DEF Next, Step

LEMMA IInvAlways == Spec => []IInv
  BY InitIInv, NextIInv, PTL DEF Spec

-----------------------------------------------------------------------------
(* The results *)

(* Every chunk position lies in its bucket and in its chunk: the merge     *)
(* never uses a record beyond what fread returned.                         *)
THEOREM MergeTypeCorrect == Spec => []TypeOK
<1>1. IInv => TypeOK
  <2> SUFFICES ASSUME IInv PROVE TypeOK
    OBVIOUS
  <2>1. ASSUME pc \in Started
        PROVE  /\ loader \in [Files -> {"none", "running", "exited"}]
               /\ inputs \in [Files -> {"uninit", "null", "open"}]
               /\ records \in [Files -> {"uninit", "null", "live"}]
               /\ read \in [Files -> Nat]
               /\ \A f \in Files : read[f] <= Len(bucket[f])
    BY <2>1 DEF IInv, LoaderInv, ChunkInv, ChunkOf
  <2>2. ASSUME pc \in {"merge", "drain", "delete_bins"}
        PROVE  idx \in [Files -> 0 .. records_per_read]
    <3>1. records_per_read \in Nat
      BY <2>2, SizesTyped DEF IInv, ControlInv, Started
    <3>2. /\ idx \in [Files -> Nat]
          /\ \A f \in Files : idx[f] < records_per_read \/ idx[f] = 0
      BY <2>2 DEF IInv, IdxInv
    <3> QED
      BY <3>1, <3>2
  <2> QED
    BY <2>1, <2>2 DEF IInv, ControlInv, Buckets, TypeOK, Started
<1> QED
  BY <1>1, IInvAlways, PTL

(* The circumstances the code does not provide for.                        *)
Excused ==
  no_files = 0 \/ ~WholeBatches \/ DOMAIN bucket # Files \/ Faults # {}

LEMMA ExcusedKept == [Next]_vars /\ Excused => Excused'
<1> SUFFICES ASSUME [Next]_vars, Excused PROVE Excused'
  OBVIOUS
<1>1. bucket' = bucket /\ no_files' = no_files
  BY BucketsUnchanged
<1>2. Files' = Files /\ loops' = loops /\ batch_size' = batch_size
  BY <1>1, SizesKept
<1> QED
  BY <1>1, <1>2 DEF Excused, WholeBatches

(* A bucket no loader reached lies beyond the last full batch.             *)
LEMMA UnreachedExcused ==
  ASSUME IInv, pc \in {"merge", "drain"}, NEW f \in Files,
         records[f] = "uninit" \/ inputs[f] = "uninit"
  PROVE  Excused
<1>1. CASE f < loops * batch_size
  <2>1. Loaded(f)
    BY <1>1 DEF IInv, Started, LoaderInv
  <2> QED
    BY <2>1 DEF Loaded, Excused
<1>2. CASE ~(f < loops * batch_size)
  <2>1. no_files \in Nat \ {0} /\ loops * batch_size \in Nat
    BY SizesTyped, BatchFacts DEF IInv, ControlInv, Started
  <2>2. f < no_files /\ f \in Nat
    BY <2>1 DEF Files
  <2> QED
    BY <1>2, <2>1, <2>2 DEF Excused, WholeBatches
<1> QED
  BY <1>1, <1>2

LEMMA NextDefined == IInv /\ Defined /\ [Next]_vars => Defined'
<1> SUFFICES ASSUME IInv, Defined, [Next]_vars, pc' \in {"crashed", "undefined"}
             PROVE  Excused
  BY ExcusedKept DEF Defined, Excused
<1>1. CASE pc \in {"crashed", "undefined"}
  BY <1>1 DEF Defined, Excused
<1>2. CASE Begin
  BY <1>2 DEF Begin, Excused
<1>3. CASE NoArgument \/ OpenOutput
  BY <1>3 DEF NoArgument, OpenOutput, Excused
<1>4. CASE CreateLoader \/ JoinLoader \/ BatchDone \/ MergeDone \/ Loading
  BY <1>4 DEF CreateLoader, JoinLoader, BatchDone, MergeDone, Loading, LoadFile
<1>5. CASE MergeStep
  <2>1. pc = "merge" /\ ~out_open
    BY <1>5, MergeStepCases
  <2> QED
    BY <2>1 DEF IInv, ControlInv, Excused
<1>6. CASE WildRead
  BY <1>6, UnreachedExcused DEF WildRead
<1>7. CASE Drain
  <2>1. CASE out_open
    BY <1>7, <2>1, UnreachedExcused DEF Drain
  <2>2. CASE ~out_open
    BY <1>7, <2>2 DEF Drain, IInv, ControlInv, Excused
  <2> QED
    BY <2>1, <2>2
<1>8. CASE Over \/ UNCHANGED vars
  BY <1>1, <1>8 DEF Over, vars, shared
<1> QED
  BY <1>2, <1>3, <1>4, <1>5, <1>6, <1>7, <1>8 DEF Next, Step, Main

(* hashgen.c tests few of the results it uses; without a failing call, and *)
(* with a number of buckets the loader threads share out evenly, that does *)
(* no harm: no NULL and no uninitialised pointer is used.                  *)
THEOREM MergeDefined == Spec => []Defined
<1>1. Init => Defined
  BY DEF Init, StartWith, Defined
<1> QED
  BY <1>1, NextDefined, IInvAlways, PTL DEF Spec

-----------------------------------------------------------------------------
(* Sequences *)

LEMMA ImageOf ==
  ASSUME NEW s \in Seq(Nonce)
  PROVE  /\ Len(s) \in Nat /\ DOMAIN s = 1 .. Len(s)
         /\ Image(s) = {s[m] : m \in 1 .. Len(s)}
         /\ \A m \in 1 .. Len(s) : s[m] \in Nonce /\ s[m] \in Image(s)
  BY LenProperties, ElementOfSeq DEF Image

LEMMA PrefixOf ==
  ASSUME NEW s \in Seq(Nonce), NEW n \in 0 .. Len(s)
  PROVE  /\ SubSeq(s, 1, n) \in Seq(Nonce) /\ Len(SubSeq(s, 1, n)) = n
         /\ \A m \in 1 .. n : m \in 1 .. Len(s) /\ SubSeq(s, 1, n)[m] = s[m]
<1>1. Len(s) \in Nat
  BY LenProperties
<1>2. \A m \in 1 .. n : s[m] \in Nonce
  BY <1>1, ElementOfSeq
<1> QED
  BY <1>1, <1>2, SubSeqProperties

(* No record occurs at two places of s.                                    *)
OnlyOnce(s) == \A m, n \in DOMAIN s : m # n => s[m] # s[n]

LEMMA PrefixKeeps ==
  ASSUME NEW s \in Seq(Nonce), NEW n \in 0 .. Len(s)
  PROVE  /\ SortedByHash(s) => SortedByHash(SubSeq(s, 1, n))
         /\ OnlyOnce(s) => OnlyOnce(SubSeq(s, 1, n))
         /\ Image(SubSeq(s, 1, n)) \subseteq Image(s)
<1> DEFINE t == SubSeq(s, 1, n)
<1>1. t \in Seq(Nonce) /\ Len(t) = n /\ \A m \in 1 .. n : m \in 1 .. Len(s) /\ t[m] = s[m]
  BY PrefixOf
<1> HIDE DEF t
<1>2. /\ DOMAIN t = 1 .. n /\ Image(t) = {t[m] : m \in 1 .. n}
      /\ DOMAIN s = 1 .. Len(s) /\ Image(s) = {s[m] : m \in 1 .. Len(s)}
  BY <1>1, ImageOf
<1>3. /\ SortedByHash(s) => SortedByHash(t)
      /\ OnlyOnce(s) => OnlyOnce(t)
      /\ Image(t) \subseteq Image(s)
  BY <1>1, <1>2 DEF SortedByHash, OnlyOnce
<1> QED
  BY <1>3 DEF t

LEMMA AppendKeeps ==
  ASSUME NEW s \in Seq(Nonce), NEW r \in Nonce
  PROVE  /\ Append(s, r) \in Seq(Nonce) /\ Image(Append(s, r)) = Image(s) \cup {r}
         /\ SortedByHash(s) /\ (\A q \in Image(s) : Hash[q] <= Hash[r])
              => SortedByHash(Append(s, r))
         /\ OnlyOnce(s) /\ r \notin Image(s) => OnlyOnce(Append(s, r))
<1> DEFINE t == Append(s, r)
<1>1. /\ t \in Seq(Nonce) /\ Len(t) = Len(s) + 1 /\ Len(s) \in Nat
      /\ \A m \in 1 .. Len(s) : t[m] = s[m] /\ s[m] \in Image(s)
      /\ t[Len(s) + 1] = r
  BY AppendProperties, ImageOf
<1> HIDE DEF t
<1>2. /\ DOMAIN t = 1 .. (Len(s) + 1) /\ Image(t) = {t[m] : m \in 1 .. (Len(s) + 1)}
      /\ DOMAIN s = 1 .. Len(s) /\ Image(s) = {s[m] : m \in 1 .. Len(s)}
  BY <1>1, ImageOf
<1>3. \A m \in 1 .. (Len(s) + 1) : m \in 1 .. Len(s) \/ m = Len(s) + 1
  BY <1>1
<1>4. Image(t) = Image(s) \cup {r}
  <2>1. Image(t) \subseteq Image(s) \cup {r}
    BY <1>1, <1>2, <1>3
  <2>2. Image(s) \subseteq Image(t)
    BY <1>1, <1>2
  <2>3. r \in Image(t)
    BY <1>1, <1>2
  <2> QED
    BY <2>1, <2>2, <2>3
<1>5. ASSUME SortedByHash(s), \A q \in Image(s) : Hash[q] <= Hash[r]
      PROVE  SortedByHash(t)
  <2> SUFFICES ASSUME NEW m \in 1 .. (Len(s) + 1), NEW n \in 1 .. (Len(s) + 1), m < n
               PROVE  Hash[t[m]] <= Hash[t[n]]
    BY <1>2 DEF SortedByHash
  <2>1. m \in 1 .. Len(s)
    BY <1>1
  <2>2. CASE n \in 1 .. Len(s)
    BY <1>1, <1>2, <1>5, <2>1, <2>2 DEF SortedByHash
  <2>3. CASE n = Len(s) + 1
    BY <1>1, <1>5, <2>1, <2>3
  <2> QED
    BY <1>3, <2>2, <2>3
<1>6. ASSUME OnlyOnce(s), r \notin Image(s)
      PROVE  OnlyOnce(t)
  <2> SUFFICES ASSUME NEW m \in 1 .. (Len(s) + 1), NEW n \in 1 .. (Len(s) + 1), m # n
               PROVE  t[m] # t[n]
    BY <1>2 DEF OnlyOnce
  <2>1. CASE m \in 1 .. Len(s) /\ n \in 1 .. Len(s)
    BY <1>1, <1>2, <1>6, <2>1 DEF OnlyOnce
  <2>2. CASE m \in 1 .. Len(s) /\ n = Len(s) + 1
    BY <1>1, <1>6, <2>2
  <2>3. CASE n \in 1 .. Len(s) /\ m = Len(s) + 1
    BY <1>1, <1>6, <2>3
  <2> QED
    BY <1>3, <2>1, <2>2, <2>3
<1> QED
  BY <1>1, <1>4, <1>5, <1>6 DEF t

(* A part of the output buffer, behind what the file holds, is a part of   *)
(* both together.                                                          *)
LEMMA PrefixOfConcat ==
  ASSUME NEW s \in Seq(Nonce), NEW t \in Seq(Nonce), NEW n \in 0 .. Len(t)
  PROVE  \E k \in 0 .. Len(s \o t) : s \o SubSeq(t, 1, n) = SubSeq(s \o t, 1, k)
<1>1. /\ Len(s) \in Nat /\ Len(t) \in Nat
      /\ s \o t \in Seq(Nonce) /\ Len(s \o t) = Len(s) + Len(t)
      /\ \A m \in 1 .. Len(s) + Len(t) : (s \o t)[m] = IF m <= Len(s) THEN s[m] ELSE t[m - Len(s)]
  BY LenProperties, ConcatProperties
<1> DEFINE u == SubSeq(t, 1, n)
           k == Len(s) + n
           v == SubSeq(s \o t, 1, k)
<1>2. u \in Seq(Nonce) /\ Len(u) = n /\ \A m \in 1 .. n : u[m] = t[m]
  BY PrefixOf
<1>3. k \in 0 .. Len(s \o t)
  BY <1>1
<1>4. v \in Seq(Nonce) /\ Len(v) = k /\ \A m \in 1 .. k : v[m] = (s \o t)[m]
  <2> HIDE DEF k
  <2> QED
    BY <1>1, <1>3, PrefixOf
<1> HIDE DEF u, v
<1>5. /\ s \o u \in Seq(Nonce) /\ Len(s \o u) = k
      /\ \A m \in 1 .. k : (s \o u)[m] = IF m <= Len(s) THEN s[m] ELSE u[m - Len(s)]
  BY <1>2, ConcatProperties
<1>6. \A m \in 1 .. k : (s \o u)[m] = v[m]
  <2> SUFFICES ASSUME NEW m \in 1 .. k PROVE (s \o u)[m] = v[m]
    OBVIOUS
  <2>1. CASE m <= Len(s)
    BY <1>1, <1>4, <1>5, <2>1
  <2>2. CASE ~(m <= Len(s))
    <3>1. m - Len(s) \in 1 .. n
      BY <1>1, <2>2
    <3> QED
      BY <1>1, <1>2, <1>4, <1>5, <2>2, <3>1
  <2> QED
    BY <2>1, <2>2
<1>7. s \o u = v
  BY <1>3, <1>4, <1>5, <1>6, SeqEqual
<1> QED
  BY <1>3, <1>7 DEF u, v

-----------------------------------------------------------------------------
(* What a step does to the merged records *)

LEMMA MergedTyped ==
  ASSUME IInv
  PROVE  merged \in Seq(Nonce) /\ output \in Seq(Nonce) /\ sorted \in Seq(Nonce)
  BY ConcatProperties DEF IInv, ControlInv, merged

(* A full disk cuts a flush short, and what was in the buffer is lost.     *)
CutShort ==
  /\ "short" \in Faults
  /\ \E n \in 0 .. Len(merged) : merged' = SubSeq(merged, 1, n)

LEMMA MergedByMergeStep ==
  ASSUME IInv, MergeStep, pc' = "merge"
  PROVE  merged' = Append(merged, Current(small_idx)) \/ CutShort
<1> DEFINE r == Current(small_idx)
           grown == Append(sorted, r)
<1>1. /\ small_idx \in Candidates /\ pc = "merge"
      /\ \/ sorted' = grown /\ UNCHANGED output
         \/ sorted' = <<>> /\ Flush(grown)
  BY MergeStepCases
<1>2. r \in Nonce /\ merged \in Seq(Nonce) /\ output \in Seq(Nonce) /\ sorted \in Seq(Nonce)
  BY <1>1, CurrentTyped, MergedTyped
<1> HIDE DEF r
<1>3. /\ grown \in Seq(Nonce) /\ grown = sorted \o <<r>> /\ <<r>> \in Seq(Nonce)
      /\ Len(grown) = Len(sorted) + 1 /\ Len(sorted) \in Nat
      /\ \A m \in 1 .. Len(sorted) : grown[m] = sorted[m]
  BY <1>2, AppendProperties, AppendIsConcat, LenProperties
<1>4. output \o grown = Append(merged, r)
  BY <1>2, <1>3, AppendIsConcat, ConcatAssociative DEF merged
<1> HIDE DEF grown
<1>5. CASE sorted' = grown /\ UNCHANGED output
  BY <1>4, <1>5 DEF merged, r
<1>6. CASE sorted' = <<>> /\ output' = output \o grown
  BY <1>2, <1>3, <1>4, <1>6, ConcatEmptySeq, ConcatProperties DEF merged, r
<1>7. ASSUME NEW n \in 0 .. (Len(grown) - 1), sorted' = <<>>, "short" \in Faults,
             output' = output \o SubSeq(grown, 1, n)
      PROVE  CutShort
  <2>1. n \in 0 .. Len(sorted) /\ n \in 0 .. Len(grown)
    BY <1>3
  <2>2. SubSeq(grown, 1, n) = SubSeq(sorted, 1, n)
    <3>1. /\ SubSeq(grown, 1, n) \in Seq(Nonce) /\ SubSeq(sorted, 1, n) \in Seq(Nonce)
          /\ Len(SubSeq(grown, 1, n)) = n /\ Len(SubSeq(sorted, 1, n)) = n
          /\ \A m \in 1 .. n : SubSeq(grown, 1, n)[m] = SubSeq(sorted, 1, n)[m]
      BY <1>2, <1>3, <2>1, PrefixOf
    <3> QED
      BY <3>1, SeqEqual
  <2>3. SubSeq(sorted, 1, n) \in Seq(Nonce)
    BY <1>2, <2>1, PrefixOf
  <2>4. merged' = output \o SubSeq(sorted, 1, n)
    <3>1. output \o SubSeq(sorted, 1, n) \in Seq(Nonce)
      BY <1>2, <2>3, ConcatProperties
    <3> QED
      BY <1>7, <2>2, <3>1, ConcatEmptySeq DEF merged
  <2> QED
    BY <1>2, <1>7, <2>1, <2>4, PrefixOfConcat DEF CutShort, merged
<1> QED
  BY <1>1, <1>5, <1>6, <1>7 DEF Flush

LEMMA MergedByDrain ==
  ASSUME IInv, Drain
  PROVE  merged' = merged \/ CutShort
<1>1. output \in Seq(Nonce) /\ sorted \in Seq(Nonce) /\ merged \in Seq(Nonce)
  BY MergedTyped
<1>2. CASE ~out_open
  BY <1>2 DEF Drain, merged
<1>3. CASE out_open /\ sorted = <<>>
  BY <1>3 DEF Drain, merged
<1>4. CASE sorted' = <<>> /\ output' = output \o sorted
  BY <1>1, <1>4, ConcatEmptySeq DEF merged
<1>5. ASSUME NEW n \in 0 .. (Len(sorted) - 1), sorted' = <<>>, "short" \in Faults,
             output' = output \o SubSeq(sorted, 1, n)
      PROVE  CutShort
  <2>1. n \in 0 .. Len(sorted)
    BY <1>1, LenProperties
  <2>2. SubSeq(sorted, 1, n) \in Seq(Nonce)
    BY <1>1, <2>1, PrefixOf
  <2>3. merged' = output \o SubSeq(sorted, 1, n)
    <3>1. output \o SubSeq(sorted, 1, n) \in Seq(Nonce)
      BY <1>1, <2>2, ConcatProperties
    <3> QED
      BY <1>5, <3>1, ConcatEmptySeq DEF merged
  <2> QED
    BY <1>1, <1>5, <2>1, <2>3, PrefixOfConcat DEF CutShort, merged
<1> QED
  BY <1>2, <1>3, <1>4, <1>5 DEF Drain, Flush

(* Every other step leaves them alone.                                     *)
LEMMA MergedKept ==
  ASSUME IInv, [Next]_vars, ~(MergeStep /\ pc' = "merge"), ~Drain
  PROVE  merged' = merged
<1>1. CASE OpenOutput
  BY <1>1 DEF OpenOutput, IInv, ControlInv, merged
<1>2. CASE MergeStep
  BY <1>2, MergeStepCases DEF merged
<1>3. CASE Begin \/ CreateLoader \/ NoArgument \/ JoinLoader \/ BatchDone \/ WildRead
           \/ MergeDone \/ Loading \/ Over \/ UNCHANGED vars
  BY <1>3 DEF Begin, CreateLoader, NoArgument, JoinLoader, BatchDone, WildRead,
     MergeDone, Loading, LoadFile, Over, vars, shared, own, merged
<1> QED
  BY <1>1, <1>2, <1>3 DEF Next, Step, Main

-----------------------------------------------------------------------------
(* How far the merge has come in every bucket *)

Merging2 == {"merge", "drain", "delete_bins"}

(* The number of records of bucket f that are merged.                      *)
Taken(f) ==
  IF records[f] = "live" THEN read[f] - records_per_read + idx[f] ELSE read[f]

TakenRecords == UNION {{bucket[f][m] : m \in 1 .. Taken(f)} : f \in Files}

LEMMA TakenTyped ==
  ASSUME IInv, pc \in Merging2, NEW f \in Files
  PROVE  /\ Taken(f) \in Nat /\ Taken(f) <= read[f] /\ read[f] \in Nat
         /\ read[f] <= Len(bucket[f]) /\ Len(bucket[f]) \in Nat
         /\ bucket[f] \in Seq(Nonce)
<1>1. records_per_read \in Nat
  BY SizesTyped DEF Merging2, IInv, ControlInv, Started
<1>2. /\ ChunkOf(f) /\ read[f] \in Nat /\ idx[f] \in Nat
      /\ idx[f] < records_per_read \/ idx[f] = 0
  BY DEF Merging2, IInv, Started, ChunkInv, IdxInv
<1>3. bucket[f] \in Seq(Nonce) /\ Len(bucket[f]) \in Nat
  BY LenProperties DEF IInv, Buckets
<1> QED
  BY <1>1, <1>2, <1>3 DEF Taken, ChunkOf

(* A step of the merge takes the next record of one bucket.                *)
LEMMA TakenByMergeStep ==
  ASSUME IInv, MergeStep, pc' = "merge", NEW f \in Candidates, f = small_idx
  PROVE  /\ Current(f) = bucket[f][Taken(f) + 1] /\ Taken(f) + 1 <= read[f]
         /\ Taken(f)' = Taken(f) + 1
         /\ \A g \in Files : g # f => Taken(g)' = Taken(g)
         /\ Candidates' \subseteq Candidates
         /\ \A g \in Candidates' : g # f => Current(g)' = Current(g)
         /\ f \in Candidates' => /\ Taken(f) + 2 \in 1 .. Len(bucket[f])
                                 /\ Current(f)' = bucket[f][Taken(f) + 2]
<1>1. /\ pc = "merge" /\ UNCHANGED <<bucket, no_files>>
      /\ Within(f) \/ Refilled(f) \/ GivenUp(f)
  BY MergeStepCases
<1>2. /\ f \in Files /\ records[f] = "live"
      /\ records_per_read \in Nat \ {0} /\ idx[f] \in 0 .. (records_per_read - 1)
      /\ read[f] \in Nat /\ records_per_read <= read[f] /\ read[f] <= Len(bucket[f])
      /\ Len(bucket[f]) \in Nat
      /\ Current(f) = bucket[f][read[f] - records_per_read + idx[f] + 1]
  BY <1>1, CurrentTyped
<1>3. /\ Taken(f) = read[f] - records_per_read + idx[f] /\ Taken(f) \in Nat
      /\ read[f] \in Int /\ records_per_read \in Int /\ idx[f] \in Int
  BY <1>2 DEF Taken
<1>4. /\ records \in [Files -> {"uninit", "null", "live"}] /\ read \in [Files -> Nat]
      /\ idx \in [Files -> Nat]
  BY <1>1 DEF IInv, Started, ChunkInv, IdxInv
<1>5. Files' = Files /\ records_per_read' = records_per_read
  BY <1>1, SizesKept
<1>6. \A g \in Files : g # f =>
        idx'[g] = idx[g] /\ records'[g] = records[g] /\ read'[g] = read[g]
  BY <1>1, <1>2, <1>4 DEF Within, Refilled, GivenUp
<1>7. \A g \in Files : g # f => Taken(g)' = Taken(g) /\ Current(g)' = Current(g)
  BY <1>1, <1>5, <1>6 DEF Taken, Current
<1>8. f \in Candidates /\ \A g \in Files : g # f => (g \in Candidates' <=> g \in Candidates)
  BY <1>5, <1>6 DEF Candidates
<1>9. Candidates' \subseteq Candidates
  BY <1>5, <1>8 DEF Candidates
<1>10. /\ Taken(f)' = Taken(f) + 1
       /\ f \in Candidates' => /\ Taken(f) + 2 \in 1 .. Len(bucket[f])
                               /\ Current(f)' = bucket[f][Taken(f) + 2]
  <2>1. CASE Within(f)
    <3>1. idx'[f] = idx[f] + 1 /\ records'[f] = "live" /\ read'[f] = read[f]
      BY <1>2, <1>4, <2>1 DEF Within
    <3>2. idx[f] + 1 < records_per_read
      BY <2>1 DEF Within
    <3>3. Taken(f)' = Taken(f) + 1
      BY <1>2, <1>3, <1>5, <3>1 DEF Taken
    <3>4. read[f] - records_per_read + (idx[f] + 1) + 1 = Taken(f) + 2
      BY <1>3
    <3>5. Current(f)' = bucket[f][Taken(f) + 2]
      BY <1>1, <1>5, <3>1, <3>4 DEF Current
    <3>6. Taken(f) + 2 <= read[f]
      BY <1>2, <1>3, <3>2
    <3>7. Taken(f) + 2 \in 1 .. Len(bucket[f])
      BY <1>2, <1>3, <3>6
    <3> QED
      BY <3>3, <3>5, <3>7
  <2>2. CASE Refilled(f)
    <3>1. /\ idx'[f] = 0 /\ records'[f] = "live" /\ read'[f] = read[f] + records_per_read
          /\ Len(bucket[f]) - read[f] >= records_per_read
      BY <1>2, <1>4, <2>2 DEF Refilled, Full
    <3>2. idx[f] + 1 = records_per_read
      BY <2>2 DEF Refilled
    <3>3. Taken(f)' = Taken(f) + 1
      BY <1>2, <1>3, <1>5, <3>1, <3>2 DEF Taken
    <3>4. (read[f] + records_per_read) - records_per_read + 0 + 1 = Taken(f) + 2
      BY <1>3, <3>2
    <3>5. Current(f)' = bucket[f][Taken(f) + 2]
      BY <1>1, <1>5, <3>1, <3>4 DEF Current
    <3>6. Taken(f) + 1 = read[f]
      BY <1>3, <3>2
    <3>7. Taken(f) + 2 <= Len(bucket[f])
      BY <1>2, <1>3, <3>1, <3>6
    <3>8. Taken(f) + 2 \in 1 .. Len(bucket[f])
      BY <1>2, <1>3, <3>7
    <3> QED
      BY <3>1, <3>3, <3>5, <3>8
  <2>3. CASE GivenUp(f)
    <3>1. /\ records'[f] = "null" /\ read'[f] = read[f] /\ idx[f] + 1 = records_per_read
      BY <1>2, <1>4, <2>3 DEF GivenUp
    <3>2. Taken(f)' = Taken(f) + 1
      BY <1>2, <1>3, <3>1 DEF Taken
    <3>3. f \notin Candidates'
      BY <3>1 DEF Candidates
    <3> QED
      BY <3>2, <3>3
  <2> QED
    BY <1>1, <2>1, <2>2, <2>3
<1>11. Current(f) = bucket[f][Taken(f) + 1] /\ Taken(f) + 1 <= read[f]
  BY <1>2, <1>3
<1>12. \A g \in Candidates' : g \in Files
  BY <1>5 DEF Candidates
<1> QED
  BY <1>7, <1>9, <1>10, <1>11, <1>12

LEMMA TakenRecordsGrow ==
  ASSUME IInv, MergeStep, pc' = "merge"
  PROVE  TakenRecords' = TakenRecords \cup {Current(small_idx)}
<1>1. PICK f \in Candidates : f = small_idx
  BY MergeStepCases
<1>2. /\ Current(f) = bucket[f][Taken(f) + 1] /\ Taken(f)' = Taken(f) + 1
      /\ \A g \in Files : g # f => Taken(g)' = Taken(g)
  BY <1>1, TakenByMergeStep
<1>3. pc = "merge" /\ bucket' = bucket /\ no_files' = no_files
  BY MergeStepCases
<1>4. Files' = Files /\ f \in Files
  BY <1>1, <1>3, SizesKept DEF Candidates
<1>5. \A g \in Files : Taken(g) \in Nat
  BY <1>3, TakenTyped DEF Merging2
<1> DEFINE r == bucket[f][Taken(f) + 1]
<1>6. ASSUME NEW q \in TakenRecords' PROVE q \in TakenRecords \cup {r}
  <2>1. PICK g \in Files : \E m \in 1 .. Taken(g)' : q = bucket[g][m]
    BY <1>3, <1>4 DEF TakenRecords
  <2>2. PICK m \in 1 .. Taken(g)' : q = bucket[g][m]
    BY <2>1
  <2>3. m \in 1 .. Taken(g) \/ (g = f /\ m = Taken(f) + 1)
    BY <1>2, <1>5
  <2> QED
    BY <2>2, <2>3 DEF TakenRecords
<1>7. ASSUME NEW q \in TakenRecords \cup {r} PROVE q \in TakenRecords'
  <2>1. PICK g \in Files : \E m \in 1 .. Taken(g)' : q = bucket[g][m]
    <3>1. CASE q = r
      <4>1. Taken(f) + 1 \in 1 .. Taken(f)'
        BY <1>2, <1>4, <1>5
      <4> QED
        BY <1>4, <3>1, <4>1
    <3>2. CASE q \in TakenRecords
      <4>1. PICK g \in Files : \E m \in 1 .. Taken(g) : q = bucket[g][m]
        BY <3>2 DEF TakenRecords
      <4>2. \A m \in 1 .. Taken(g) : m \in 1 .. Taken(g)'
        BY <1>2, <1>5
      <4> QED
        BY <4>1, <4>2
    <3> QED
      BY <3>1, <3>2
  <2> QED
    BY <1>3, <1>4, <2>1 DEF TakenRecords
<1> QED
  BY <1>1, <1>2, <1>6, <1>7

(* The end of the merge, and of the process, takes no record.              *)
LEMMA TakenKept ==
  ASSUME UNCHANGED <<bucket, no_files, records, read, idx>>
  PROVE  TakenRecords' = TakenRecords
<1>1. Files' = Files /\ records_per_read' = records_per_read
  BY SizesKept
<1>2. \A f \in Files : Taken(f)' = Taken(f)
  BY <1>1 DEF Taken
<1> QED
  BY <1>1, <1>2 DEF TakenRecords

-----------------------------------------------------------------------------
(* The order of the merge *)

LEMMA InitSorted == Init => BucketsSorted
<1> SUFFICES ASSUME Init, NEW f \in DOMAIN bucket PROVE SortedByHash(bucket[f])
  BY DEF BucketsSorted
<1>1. PICK n \in FileCounts : StartWith(n)
  BY DEF Init
<1>2. PICK home \in [Nonce -> Files] :
        bucket = [g \in Files |-> InHashOrder({r \in Nonce : home[r] = g})]
  BY <1>1 DEF StartWith
<1>3. {r \in Nonce : home[r] = f} \in SUBSET Nonce
  OBVIOUS
<1> QED
  BY <1>2, <1>3, InHashOrderSorted

(* The steps after which main merges on.                                   *)
LEMMA StepsToMerge ==
  ASSUME [Next]_vars, pc' = "merge"
  PROVE  OpenOutput \/ (MergeStep /\ pc = "merge") \/ UNCHANGED vars
  BY DEF Next, Step, Main, Loading, Over, Ended, Begin, CreateLoader, NoArgument,
     JoinLoader, BatchDone, LoadFile, MergeStep, WildRead, MergeDone, Drain

LEMMA NothingMerged ==
  ASSUME IInv, OpenOutput
  PROVE  merged' = <<>> /\ Image(merged)' = {}
<1>1. merged' = <<>>
  BY DEF OpenOutput, IInv, ControlInv, merged
<1>2. Image(<<>>) = {}
  BY DEF Image
<1> QED
  BY <1>1, <1>2 DEF Image

(* A step of the merge adds at most one record, the least current one.     *)
LEMMA MergedGrows ==
  ASSUME IInv, MergeStep, pc' = "merge", NEW r, r = Current(small_idx)
  PROVE  /\ r \in Nonce /\ merged \in Seq(Nonce) /\ merged' \in Seq(Nonce)
         /\ Image(merged') \subseteq Image(merged) \cup {r}
         /\ Faults = {} => merged' = Append(merged, r) /\ Image(merged') = Image(merged) \cup {r}
         /\ SortedByHash(merged) /\ (\A q \in Image(merged) : Hash[q] <= Hash[r])
              => SortedByHash(merged')
         /\ OnlyOnce(merged) /\ r \notin Image(merged) => OnlyOnce(merged')
<1>1. small_idx \in Candidates /\ pc = "merge"
  BY MergeStepCases
<1>2. r \in Nonce /\ merged \in Seq(Nonce)
  BY <1>1, CurrentTyped, MergedTyped
<1>3. CASE merged' = Append(merged, r)
  BY <1>2, <1>3, AppendKeeps
<1>4. CASE CutShort
  <2>1. PICK n \in 0 .. Len(merged) : merged' = SubSeq(merged, 1, n)
    BY <1>4 DEF CutShort
  <2>2. "short" \in Faults
    BY <1>4 DEF CutShort
  <2> QED
    BY <1>2, <2>1, <2>2, PrefixOf, PrefixKeeps
<1> QED
  BY <1>3, <1>4, MergedByMergeStep

(* Any other step leaves of them what it left or a prefix.                 *)
LEMMA MergedShrinks ==
  ASSUME IInv, [Next]_vars, ~(MergeStep /\ pc' = "merge")
  PROVE  /\ Image(merged') \subseteq Image(merged)
         /\ Faults = {} => merged' = merged
         /\ SortedByHash(merged) => SortedByHash(merged')
         /\ OnlyOnce(merged) => OnlyOnce(merged')
<1>1. CASE merged' = merged
  BY <1>1
<1>2. CASE CutShort
  <2>1. PICK n \in 0 .. Len(merged) : merged' = SubSeq(merged, 1, n)
    BY <1>2 DEF CutShort
  <2>2. "short" \in Faults
    BY <1>2 DEF CutShort
  <2> QED
    BY <2>1, <2>2, MergedTyped, PrefixKeeps
<1> QED
  BY <1>1, <1>2, MergedByDrain, MergedKept

LEMMA InitMergeOrder == Init => MergeOrder
<1> SUFFICES ASSUME Init PROVE MergeOrder
  OBVIOUS
<1>1. pc = "ExternalSort" /\ merged \in Seq(Nonce) /\ merged = <<>>
  BY InitIInv, MergedTyped DEF Init, InitOwn, StartWith, merged
<1>2. SortedByHash(<<>>)
  BY DEF SortedByHash
<1> QED
  BY <1>1, <1>2 DEF MergeOrder

LEMMA NextMergeOrder == IInv /\ MergeOrder /\ [Next]_vars => MergeOrder'
<1> SUFFICES ASSUME IInv, MergeOrder, [Next]_vars, BucketsSorted' PROVE
      /\ SortedByHash(merged')
      /\ pc' = "merge" =>
           \A r \in Image(merged') : \A g \in Candidates' : Hash[r] <= Hash[Current(g)']
  BY DEF MergeOrder, SortedByHash, Image
<1>1. bucket' = bucket /\ no_files' = no_files /\ BucketsSorted
  BY BucketsUnchanged DEF BucketsSorted, SortedByHash
<1>2. /\ SortedByHash(merged)
      /\ pc = "merge" => \A r \in Image(merged), g \in Candidates : Hash[r] <= Hash[Current(g)]
  BY <1>1 DEF MergeOrder
<1>3. CASE MergeStep /\ pc' = "merge"
  <2>1. PICK f \in Candidates : f = small_idx
    BY <1>3, MergeStepCases
  <2>2. /\ pc = "merge" /\ \A g \in Candidates : Hash[Current(f)] <= Hash[Current(g)]
        /\ f \in Files /\ Current(f) \in Nonce
    BY <1>3, <2>1, SmallIdx, CurrentTyped, MergeStepCases
  <2>3. \A g \in Candidates : Hash[Current(g)] \in Nat
    BY <2>2, CurrentTyped, HashNat
  <2>4. /\ merged \in Seq(Nonce) /\ Image(merged') \subseteq Image(merged) \cup {Current(f)}
        /\ SortedByHash(merged')
    BY <1>2, <1>3, <2>1, <2>2, MergedGrows
  <2>5. ASSUME NEW r \in Image(merged') PROVE Hash[r] \in Nat /\ Hash[r] <= Hash[Current(f)]
    <3>1. CASE r = Current(f)
      BY <2>3, <3>1
    <3>2. CASE r \in Image(merged)
      <4>1. r \in Nonce
        BY <2>4, <3>2, ImageOf
      <4> QED
        BY <1>2, <2>2, <3>2, <4>1, HashNat
    <3> QED
      BY <2>4, <3>1, <3>2
  <2>6. ASSUME NEW g \in Candidates'
        PROVE  Hash[Current(g)'] \in Nat /\ Hash[Current(f)] <= Hash[Current(g)']
    <3>1. /\ Current(f) = bucket[f][Taken(f) + 1] /\ Candidates' \subseteq Candidates
          /\ g # f => Current(g)' = Current(g)
          /\ g = f => /\ Taken(f) + 2 \in 1 .. Len(bucket[f])
                      /\ Current(f)' = bucket[f][Taken(f) + 2]
      BY <1>3, <2>1, TakenByMergeStep
    <3>2. CASE g # f
      BY <2>2, <2>3, <3>1, <3>2
    <3>3. CASE g = f
      <4>1. /\ Taken(f) \in Nat /\ Len(bucket[f]) \in Nat /\ bucket[f] \in Seq(Nonce)
        BY <2>2, TakenTyped DEF Merging2
      <4>2. /\ Taken(f) + 1 \in 1 .. Len(bucket[f]) /\ Taken(f) + 2 \in 1 .. Len(bucket[f])
            /\ Taken(f) + 1 < Taken(f) + 2
        BY <3>1, <3>3, <4>1
      <4>3. f \in DOMAIN bucket /\ DOMAIN bucket[f] = 1 .. Len(bucket[f])
        BY <2>2, <4>1, LenProperties DEF IInv, Buckets
      <4>4. Hash[bucket[f][Taken(f) + 1]] <= Hash[bucket[f][Taken(f) + 2]]
        BY <1>1, <4>2, <4>3 DEF BucketsSorted, SortedByHash
      <4>5. bucket[f][Taken(f) + 2] \in Nonce
        BY <4>1, <4>2, ElementOfSeq
      <4> QED
        BY <3>1, <3>3, <4>4, <4>5, HashNat
    <3> QED
      BY <3>2, <3>3
  <2>7. Hash[Current(f)] \in Nat
    BY <2>2, HashNat
  <2>8. ASSUME NEW r \in Image(merged'), NEW g \in Candidates' PROVE Hash[r] <= Hash[Current(g)']
    BY <2>5, <2>6, <2>7
  <2> QED
    BY <2>4, <2>8
<1>4. CASE ~(MergeStep /\ pc' = "merge")
  <2>1. SortedByHash(merged')
    BY <1>2, <1>4, MergedShrinks
  <2>2. ASSUME pc' = "merge", NEW r \in Image(merged'), NEW g \in Candidates'
        PROVE  Hash[r] <= Hash[Current(g)']
    <3>1. CASE OpenOutput
      BY <2>2, <3>1, NothingMerged DEF Image
    <3>2. CASE UNCHANGED vars
      <4>1. Current(g)' = Current(g) /\ Candidates' = Candidates /\ pc = "merge"
        BY <1>1, <2>2, <3>2, SizesKept DEF vars, own, shared, Current, Candidates
      <4>2. r \in Image(merged)
        BY <1>4, <2>2, MergedShrinks
      <4> QED
        BY <1>2, <2>2, <4>1, <4>2
    <3> QED
      BY <1>4, <2>2, <3>1, <3>2, StepsToMerge
  <2> QED
    BY <2>1, <2>2
<1> QED
  BY <1>3, <1>4

(* The output file is sorted at every moment, and what a loaded chunk      *)
(* still holds sorts behind it: not only when all goes well, but when      *)
(* chunks are given up, inputs cannot be opened or writes are cut short.   *)
THEOREM OutputInOrder == Spec => []MergeOrder
  BY InitMergeOrder, NextMergeOrder, IInvAlways, PTL DEF Spec

-----------------------------------------------------------------------------
(* Each record once *)

(* Every record lies in one bucket, at one place.                          *)
Distinct ==
  \A f, g \in Files : \A m \in 1 .. Len(bucket[f]), n \in 1 .. Len(bucket[g]) :
    bucket[f][m] = bucket[g][n] => f = g /\ m = n

LEMMA InitDistinct == Init => Distinct
<1> SUFFICES ASSUME Init, NEW f \in Files, NEW g \in Files,
                    NEW m \in 1 .. Len(bucket[f]), NEW n \in 1 .. Len(bucket[g]),
                    bucket[f][m] = bucket[g][n]
             PROVE  f = g /\ m = n
  BY DEF Distinct
<1>1. PICK k \in FileCounts : StartWith(k)
  BY DEF Init
<1>2. PICK home \in [Nonce -> Files] :
        bucket = [e \in Files |-> InHashOrder({r \in Nonce : home[r] = e})]
  BY <1>1 DEF StartWith
<1> DEFINE S(e) == {r \in Nonce : home[r] = e}
<1>3. \A e \in Files : /\ S(e) \in SUBSET Nonce /\ bucket[e] = InHashOrder(S(e))
                       /\ Len(bucket[e]) = Cardinality(S(e))
  BY <1>2, InHashOrderTyped
<1>4. bucket[f][m] \in S(f) /\ Cardinality(Lower(S(f), bucket[f][m])) = m - 1
  <2> HIDE DEF S
  <2> QED
    BY <1>3, InHashOrderAt
<1>5. bucket[g][n] \in S(g) /\ Cardinality(Lower(S(g), bucket[g][n])) = n - 1
  <2> HIDE DEF S
  <2> QED
    BY <1>3, InHashOrderAt
<1>6. f = g
  BY <1>4, <1>5
<1>7. Cardinality(S(f)) \in Nat
  <2> HIDE DEF S
  <2> QED
    BY <1>3, NonceFinite
<1>8. m - 1 = n - 1 /\ m \in Int /\ n \in Int
  BY <1>3, <1>4, <1>5, <1>6, <1>7
<1> QED
  BY <1>6, <1>8

(* After its first chunk is read a bucket is one chunk further.            *)
FirstInv ==
  pc \in {"load", "open_output"} =>
    \A f \in Files : read[f] = IF records[f] = "live" THEN records_per_read ELSE 0

OnceInv ==
  /\ Distinct /\ FirstInv /\ OnlyOnce(merged)
  /\ pc \in Merging2 => /\ Image(merged) \subseteq TakenRecords
                        /\ Faults = {} => TakenRecords \subseteq Image(merged)

LEMMA InitOnceInv == Init => OnceInv
<1> SUFFICES ASSUME Init PROVE OnceInv
  OBVIOUS
<1>1. pc = "ExternalSort" /\ merged \in Seq(Nonce) /\ merged = <<>>
  BY InitIInv, MergedTyped DEF Init, InitOwn, StartWith, merged
<1>2. OnlyOnce(<<>>)
  BY DEF OnlyOnce
<1> QED
  BY <1>1, <1>2, InitDistinct DEF OnceInv, FirstInv, Merging2

LEMMA NextFirstInv == IInv /\ FirstInv /\ [Next]_vars => FirstInv'
<1> SUFFICES ASSUME IInv, FirstInv, [Next]_vars, pc' \in {"load", "open_output"}
             PROVE  \A f \in Files' :
                      read'[f] = IF records'[f] = "live" THEN records_per_read' ELSE 0
  BY DEF FirstInv
<1>1. /\ Files' = Files /\ records_per_read' = records_per_read
      /\ no_files' = no_files /\ bucket' = bucket
  BY BucketsUnchanged, SizesKept
<1>2. CASE Begin
  BY <1>1, <1>2 DEF Begin
<1>3. CASE CreateLoader \/ JoinLoader \/ BatchDone \/ UNCHANGED vars
  BY <1>1, <1>3 DEF CreateLoader, JoinLoader, BatchDone, vars, shared, own, FirstInv
<1>4. CASE Loading
  <2>1. PICK e \in DOMAIN loader : LoadFile(e)
    BY <1>4 DEF Loading
  <2>2. pc = "load" /\ loader[e] = "running" /\ pc' = pc
    BY <2>1 DEF LoadFile
  <2>3. /\ records \in [Files -> {"uninit", "null", "live"}] /\ read \in [Files -> Nat]
        /\ e \in Files /\ no_files \in Nat \ {0}
    BY <2>2, SizesTyped DEF IInv, ControlInv, Started, LoaderInv, ChunkInv
  <2>4. records[e] = "uninit"
    <3>1. LoaderAt(e, file_no(joined), file_no(spawned)) /\ e \in Nat
      BY <2>2, <2>3 DEF IInv, Started, LoaderInv, Files
    <3>2. PICK first \in Nat : \A n \in Nat : file_no(n) = first + n
      BY <2>2, FileNumbers
    <3>3. joined \in Nat /\ spawned \in Nat
      BY DEF IInv, ControlInv
    <3>4. file_no(joined) = first + joined /\ file_no(spawned) = first + spawned
      BY <3>2, <3>3
    <3> QED
      BY <2>2, <3>1, <3>3, <3>4 DEF LoaderAt, Fresh
  <2>5. \/ UNCHANGED <<records, read>>
        \/ /\ records' = [records EXCEPT ![e] = "live"]
           /\ read' = [read EXCEPT ![e] = records_per_read]
        \/ records' = [records EXCEPT ![e] = "null"] /\ UNCHANGED read
    BY <2>1 DEF LoadFile
  <2> SUFFICES ASSUME NEW f \in Files
               PROVE  read'[f] = IF records'[f] = "live" THEN records_per_read ELSE 0
    BY <1>1
  <2>6. read[f] = IF records[f] = "live" THEN records_per_read ELSE 0
    BY <2>2 DEF FirstInv
  <2> QED
    BY <2>3, <2>4, <2>5, <2>6
<1>5. CASE NoArgument \/ OpenOutput \/ MergeStep \/ WildRead \/ MergeDone \/ Drain \/ Over
  BY <1>5 DEF NoArgument, OpenOutput, MergeStep, WildRead, MergeDone, Drain, Over, Ended,
     vars, shared
<1> QED
  BY <1>2, <1>3, <1>4, <1>5 DEF Next, Step, Main

(* Main merges, drains, and returns.                                       *)
LEMMA StepsToMerging2 ==
  ASSUME IInv, [Next]_vars, pc' \in Merging2
  PROVE  \/ OpenOutput
         \/ MergeStep /\ pc = "merge" /\ pc' = "merge"
         \/ /\ pc \in Merging2 /\ ~(MergeStep /\ pc' = "merge")
            /\ UNCHANGED <<bucket, no_files, records, read, idx>>
<1>1. CASE MergeStep
  BY <1>1, MergeStepCases DEF Merging2
<1>2. CASE MergeDone \/ Drain \/ Over \/ UNCHANGED vars
  BY <1>1, <1>2 DEF MergeDone, Drain, Over, vars, shared, own, Ended, Merging2
<1>3. CASE Begin \/ CreateLoader \/ NoArgument \/ JoinLoader \/ BatchDone \/ WildRead \/ Loading
  BY <1>3 DEF Begin, CreateLoader, NoArgument, JoinLoader, BatchDone, WildRead, Loading,
     LoadFile, Merging2
<1> QED
  BY <1>1, <1>2, <1>3 DEF Next, Step, Main

(* Nothing is taken before the merge begins.                               *)
LEMMA NothingTaken ==
  ASSUME IInv, FirstInv, OpenOutput, pc' = "merge"
  PROVE  TakenRecords' = {}
<1>1. /\ pc = "open_output" /\ idx' = [f \in Files |-> 0]
      /\ UNCHANGED <<bucket, no_files, records, read>>
  BY DEF OpenOutput
<1>2. Files' = Files /\ records_per_read' = records_per_read /\ records_per_read \in Nat
  BY <1>1, SizesKept, SizesTyped DEF IInv, ControlInv, Started
<1>3. ASSUME NEW f \in Files PROVE Taken(f)' = 0
  <2>1. read[f] = IF records[f] = "live" THEN records_per_read ELSE 0
    BY <1>1 DEF FirstInv
  <2> QED
    BY <1>1, <1>2, <2>1 DEF Taken
<1> QED
  BY <1>2, <1>3 DEF TakenRecords

LEMMA NextOnceInv == IInv /\ OnceInv /\ [Next]_vars => OnceInv'
<1> SUFFICES ASSUME IInv, OnceInv, [Next]_vars PROVE OnceInv'
  OBVIOUS
<1>1. bucket' = bucket /\ no_files' = no_files /\ Files' = Files
  BY BucketsUnchanged, SizesKept
<1>2. Distinct' /\ FirstInv'
  BY <1>1, NextFirstInv DEF OnceInv, Distinct
<1>3. CASE MergeStep /\ pc' = "merge"
  <2>1. PICK f \in Candidates : f = small_idx
    BY <1>3, MergeStepCases
  <2>2. pc = "merge" /\ f \in Files
    BY <1>3, <2>1, MergeStepCases, CurrentTyped
  <2>3. Current(f) \notin Image(merged)
    <3>1. SUFFICES Current(f) \notin TakenRecords
      BY <2>2 DEF OnceInv, Merging2
    <3> SUFFICES ASSUME NEW g \in Files, NEW m \in 1 .. Taken(g), Current(f) = bucket[g][m]
                 PROVE  FALSE
      BY DEF TakenRecords
    <3>2. /\ Taken(g) \in Nat /\ Taken(g) <= Len(bucket[g]) /\ Len(bucket[g]) \in Nat
          /\ Taken(f) \in Nat /\ Len(bucket[f]) \in Nat /\ read[f] <= Len(bucket[f])
          /\ read[f] \in Nat
      BY <2>2, TakenTyped DEF Merging2
    <3>3. Current(f) = bucket[f][Taken(f) + 1] /\ Taken(f) + 1 <= read[f]
      BY <1>3, <2>1, TakenByMergeStep
    <3>4. m \in 1 .. Len(bucket[g]) /\ Taken(f) + 1 \in 1 .. Len(bucket[f])
      BY <3>2, <3>3
    <3>5. g = f /\ m = Taken(f) + 1
      <4> DEFINE t == Taken(f) + 1
      <4>1. t \in 1 .. Len(bucket[f]) /\ bucket[g][m] = bucket[f][t] /\ f \in Files
        BY <2>2, <3>3, <3>4
      <4> HIDE DEF t
      <4>2. g = f /\ m = t
        BY <3>4, <4>1 DEF OnceInv, Distinct
      <4> QED
        BY <4>2 DEF t
    <3> QED
      BY <3>2, <3>5
  <2>4. /\ Image(merged') \subseteq Image(merged) \cup {Current(f)}
        /\ Faults = {} => Image(merged') = Image(merged) \cup {Current(f)}
        /\ OnlyOnce(merged')
    BY <1>3, <2>1, <2>3, MergedGrows DEF OnceInv
  <2>5. TakenRecords' = TakenRecords \cup {Current(f)}
    BY <1>3, <2>1, TakenRecordsGrow
  <2>6. /\ Image(merged) \subseteq TakenRecords
        /\ Faults = {} => TakenRecords \subseteq Image(merged)
    BY <2>2 DEF OnceInv, Merging2
  <2> QED
    BY <1>2, <2>4, <2>5, <2>6 DEF OnceInv, Image, OnlyOnce
<1>4. CASE ~(MergeStep /\ pc' = "merge")
  <2>1. /\ OnlyOnce(merged') /\ Image(merged') \subseteq Image(merged)
        /\ Faults = {} => merged' = merged
    BY <1>4, MergedShrinks DEF OnceInv
  <2>2. ASSUME pc' \in Merging2
        PROVE  /\ Image(merged') \subseteq TakenRecords'
               /\ Faults = {} => TakenRecords' \subseteq Image(merged')
    <3>1. CASE OpenOutput
      <4>1. pc' = "merge"
        BY <2>2, <3>1 DEF OpenOutput, Merging2
      <4> QED
        BY <3>1, <4>1, NothingMerged, NothingTaken DEF OnceInv, Image
    <3>2. CASE pc \in Merging2 /\ UNCHANGED <<bucket, no_files, records, read, idx>>
      BY <2>1, <3>2, TakenKept DEF OnceInv
    <3> QED
      BY <1>4, <2>2, <3>1, <3>2, StepsToMerging2
  <2> QED
    BY <1>2, <2>1, <2>2 DEF OnceInv, Image, OnlyOnce
<1> QED
  BY <1>3, <1>4

LEMMA OnceInvAlways == Spec => []OnceInv
  BY InitOnceInv, NextOnceInv, IInvAlways, PTL DEF Spec

(* No record is in the output twice, whatever fails: the position in the   *)
(* chunk, the position in the file and the flushes never get out of step.  *)
THEOREM MergedOnce == Spec => []NoDuplicates
<1>1. OnceInv => NoDuplicates
  BY DEF OnceInv, OnlyOnce, NoDuplicates
<1> QED
  BY <1>1, OnceInvAlways, PTL

-----------------------------------------------------------------------------
(* All of it *)

LEMMA WholeChunksBound ==
  ASSUME NEW R \in Nat \ {0}, NEW L \in Nat, NEW q \in Nat, q * R <= L
  PROVE  /\ (L \div R) * R \in Nat /\ (L \div R) * R <= L
         /\ q * R <= (L \div R) * R
         /\ L - q * R < R => (L \div R) * R = q * R
<1> DEFINE d == L \div R
<1>1. d \in Nat /\ d * R <= L /\ L < d * R + R
  OBVIOUS
<1> HIDE DEF d
<1>2. /\ d * R \in Nat /\ q * R \in Nat
      /\ (d + 1) * R = d * R + R /\ (q + 1) * R = q * R + R
  BY <1>1
<1>3. q <= d
  <2> SUFFICES ASSUME d + 1 <= q PROVE FALSE
    BY <1>1
  <2>1. (d + 1) * R <= q * R
    BY <1>1, TimesMonotone
  <2> QED
    BY <1>1, <1>2, <2>1
<1>4. q * R <= d * R
  BY <1>1, <1>3, TimesMonotone
<1>5. ASSUME L - q * R < R PROVE d = q
  <2> SUFFICES ASSUME q + 1 <= d PROVE FALSE
    BY <1>1, <1>3
  <2>1. (q + 1) * R <= d * R
    BY <1>1, TimesMonotone
  <2> QED
    BY <1>1, <1>2, <1>5, <2>1
<1>6. /\ d * R \in Nat /\ d * R <= L /\ q * R <= d * R
      /\ L - q * R < R => d * R = q * R
  BY <1>1, <1>2, <1>4, <1>5
<1> QED
  BY <1>6 DEF d

(* What is merged of a bucket is a part of its whole chunks, and all of    *)
(* them once the bucket is no candidate any more.                          *)
LEMMA TakenOfWhole ==
  ASSUME IInv, Faults = {}, pc \in Merging2, NEW f \in Files
  PROVE  /\ Taken(f) \in Nat /\ WholeChunks(f) \in Nat /\ WholeChunks(f) <= Len(bucket[f])
         /\ IF f < loops * batch_size
            THEN /\ read[f] <= WholeChunks(f) /\ Taken(f) <= WholeChunks(f)
                 /\ f \notin Candidates => Taken(f) = WholeChunks(f)
            ELSE Taken(f) = 0 /\ f \notin Candidates
<1>1. records_per_read \in Nat
  BY SizesTyped DEF Merging2, IInv, ControlInv, Started
<1>2. /\ ChunkOf(f) /\ read[f] \in Nat /\ idx[f] \in Nat
      /\ idx[f] < records_per_read \/ idx[f] = 0
      /\ records[f] \in {"uninit", "null", "live"}
      /\ IF f < loops * batch_size THEN Loaded(f) ELSE Fresh(f)
  BY DEF Merging2, IInv, Started, LoaderInv, ChunkInv, IdxInv
<1>3. /\ Len(bucket[f]) \in Nat /\ Taken(f) \in Nat /\ Taken(f) <= read[f]
      /\ read[f] <= Len(bucket[f])
  BY TakenTyped
<1>4. PICK q \in Nat : read[f] = q * records_per_read
  BY <1>2 DEF ChunkOf
<1>5. CASE records_per_read = 0
  <2>1. WholeChunks(f) = 0 /\ read[f] = 0
    BY <1>4, <1>5 DEF WholeChunks
  <2>2. f \notin Candidates
    BY <1>2, <1>5 DEF Candidates
  <2> QED
    BY <1>3, <2>1, <2>2
<1>6. CASE records_per_read \in Nat \ {0}
  <2>1. /\ WholeChunks(f) = (Len(bucket[f]) \div records_per_read) * records_per_read
        /\ q * records_per_read <= Len(bucket[f])
    BY <1>3, <1>4, <1>6 DEF WholeChunks
  <2>2. /\ WholeChunks(f) \in Nat /\ WholeChunks(f) <= Len(bucket[f])
        /\ read[f] <= WholeChunks(f)
        /\ Len(bucket[f]) - read[f] < records_per_read => WholeChunks(f) = read[f]
    BY <1>3, <1>4, <1>6, <2>1, WholeChunksBound
  <2>3. CASE f < loops * batch_size
    <3>1. records[f] # "uninit"
      BY <1>2, <2>3 DEF Loaded
    <3>2. CASE records[f] = "live"
      BY <1>2, <1>3, <1>6, <2>2, <2>3, <3>2 DEF Candidates
    <3>3. CASE records[f] = "null"
      BY <1>2, <1>3, <2>2, <2>3, <3>3 DEF ChunkOf, Taken
    <3> QED
      BY <1>2, <3>1, <3>2, <3>3
  <2>4. CASE ~(f < loops * batch_size)
    <3>1. records[f] = "uninit" /\ read[f] = 0
      BY <1>2, <2>4 DEF Fresh, ChunkOf
    <3> QED
      BY <1>3, <2>2, <2>4, <3>1 DEF Candidates
  <2> QED
    BY <2>3, <2>4
<1> QED
  BY <1>1, <1>5, <1>6

LEMMA TakenToMerge ==
  ASSUME IInv, Faults = {}, pc \in Merging2
  PROVE  /\ TakenRecords \subseteq ToMerge
         /\ Candidates = {} => TakenRecords = ToMerge
<1>1. ASSUME NEW r \in TakenRecords PROVE r \in ToMerge
  <2>1. PICK f \in Files : \E m \in 1 .. Taken(f) : r = bucket[f][m]
    BY <1>1 DEF TakenRecords
  <2>2. PICK m \in 1 .. Taken(f) : r = bucket[f][m]
    BY <2>1
  <2>3. f < loops * batch_size /\ m \in 1 .. WholeChunks(f)
    BY TakenOfWhole
  <2> QED
    BY <2>2, <2>3 DEF ToMerge
<1>2. ASSUME Candidates = {}, NEW r \in ToMerge PROVE r \in TakenRecords
  <2>1. PICK f \in {g \in Files : g < loops * batch_size} :
          \E m \in 1 .. WholeChunks(f) : r = bucket[f][m]
    BY <1>2 DEF ToMerge
  <2>2. Taken(f) = WholeChunks(f)
    BY <1>2, TakenOfWhole
  <2> QED
    BY <2>1, <2>2 DEF TakenRecords
<1> QED
  BY <1>1, <1>2

LEMMA ExactFromOnceInv == IInv /\ OnceInv => MergedExactly
<1> SUFFICES ASSUME IInv, OnceInv, Faults = {}, pc = "delete_bins"
             PROVE  Image(output) = ToMerge
  BY DEF MergedExactly
<1>1. sorted = <<>> /\ Candidates = {}
  BY DEF IInv, ControlInv, IdxInv
<1>2. merged = output
  BY <1>1, MergedTyped, ConcatEmptySeq DEF merged
<1>3. Image(merged) = TakenRecords
  BY DEF OnceInv, Merging2
<1> QED
  BY <1>1, <1>2, <1>3, TakenToMerge DEF Merging2

(* When every call succeeds, the output holds the whole chunks of the      *)
(* buckets that were loaded, all of them and nothing else.                 *)
THEOREM OutputExact == Spec => []MergedExactly
  BY ExactFromOnceInv, IInvAlways, OnceInvAlways, PTL

-----------------------------------------------------------------------------
(* Refinement *)

(* What is still to come, and whether the caller has its answer.           *)
left == ToMerge \ Image(merged)

answer ==
  CASE pc = "delete_bins" -> "success"
    [] pc \in Ended \ {"delete_bins"} -> "failure"
    [] OTHER -> "none"

LEMMA ToMergeKept == [Next]_vars => ToMerge' = ToMerge
<1> SUFFICES ASSUME [Next]_vars PROVE ToMerge' = ToMerge
  OBVIOUS
<1>1. /\ bucket' = bucket /\ Files' = Files /\ loops' = loops
      /\ batch_size' = batch_size /\ records_per_read' = records_per_read
  BY BucketsUnchanged, SizesKept
<1> QED
  BY <1>1 DEF ToMerge, WholeChunks

(* The record a step of the merge takes is a least one of those to come:   *)
(* in a loaded chunk the current record is the least, and a bucket without *)
(* one is finished.                                                        *)
LEMMA LeastToCome ==
  ASSUME IInv, OnceInv, BucketsSorted, Faults = {}, pc = "merge", Candidates # {}
  PROVE  /\ Current(small_idx) \in left
         /\ \A q \in left : Hash[Current(small_idx)] <= Hash[q]
<1>1. PICK f \in Candidates : f = small_idx
  BY SmallIdx
<1>2. /\ \A g \in Candidates : Hash[Current(f)] <= Hash[Current(g)]
      /\ \A g \in Candidates : Current(g) \in Nonce
  BY <1>1, SmallIdx, CurrentTyped
<1>3. Image(merged) = TakenRecords
  BY DEF OnceInv, Merging2
<1>4. ASSUME NEW g \in Candidates
      PROVE  /\ g \in Files /\ Current(g) = bucket[g][Taken(g) + 1]
             /\ Taken(g) \in Nat /\ Taken(g) + 1 <= WholeChunks(g)
             /\ WholeChunks(g) \in Nat /\ WholeChunks(g) <= Len(bucket[g])
             /\ g < loops * batch_size
  <2>1. /\ g \in Files /\ records[g] = "live"
        /\ records_per_read \in Nat \ {0} /\ idx[g] \in 0 .. (records_per_read - 1)
        /\ read[g] \in Nat /\ records_per_read <= read[g]
        /\ Current(g) = bucket[g][read[g] - records_per_read + idx[g] + 1]
    BY CurrentTyped
  <2>2. Taken(g) = read[g] - records_per_read + idx[g]
    BY <2>1 DEF Taken
  <2>3. /\ g < loops * batch_size /\ Taken(g) \in Nat
        /\ read[g] <= WholeChunks(g) /\ WholeChunks(g) \in Nat
        /\ WholeChunks(g) <= Len(bucket[g])
    BY <2>1, TakenOfWhole DEF Merging2
  <2>4. Current(g) = bucket[g][Taken(g) + 1] /\ Taken(g) + 1 <= read[g]
    BY <2>1, <2>2
  <2> QED
    BY <2>1, <2>3, <2>4
<1>5. Current(f) \in left
  <2>1. Current(f) \in ToMerge
    BY <1>4 DEF ToMerge
  <2>2. Current(f) \notin TakenRecords
    <3> SUFFICES ASSUME NEW g \in Files, NEW m \in 1 .. Taken(g), Current(f) = bucket[g][m]
                 PROVE  FALSE
      BY DEF TakenRecords
    <3>1. /\ Taken(g) \in Nat /\ Taken(g) <= Len(bucket[g]) /\ Len(bucket[g]) \in Nat
          /\ Len(bucket[f]) \in Nat /\ f \in Files
      BY <1>4, TakenTyped DEF Merging2
    <3> DEFINE t == Taken(f) + 1
    <3>2. /\ m \in 1 .. Len(bucket[g]) /\ t \in 1 .. Len(bucket[f])
          /\ bucket[g][m] = bucket[f][t]
      BY <1>4, <3>1
    <3> HIDE DEF t
    <3>3. g = f /\ m = t
      BY <3>1, <3>2 DEF OnceInv, Distinct
    <3> QED
      BY <1>4, <3>3 DEF t
  <2> QED
    BY <1>3, <2>1, <2>2 DEF left
<1>6. ASSUME NEW q \in left PROVE Hash[Current(f)] <= Hash[q]
  <2>1. PICK g \in {e \in Files : e < loops * batch_size} :
          \E m \in 1 .. WholeChunks(g) : q = bucket[g][m]
    BY <1>6 DEF left, ToMerge
  <2>2. PICK m \in 1 .. WholeChunks(g) : q = bucket[g][m]
    BY <2>1
  <2>3. m \notin 1 .. Taken(g)
    BY <1>3, <1>6, <2>2 DEF left, TakenRecords
  <2>4. /\ Taken(g) \in Nat /\ WholeChunks(g) \in Nat /\ WholeChunks(g) <= Len(bucket[g])
        /\ g \notin Candidates => Taken(g) = WholeChunks(g)
        /\ bucket[g] \in Seq(Nonce) /\ Len(bucket[g]) \in Nat
    BY TakenOfWhole, TakenTyped DEF Merging2
  <2>5. g \in Candidates /\ Taken(g) + 1 <= m /\ m \in 1 .. Len(bucket[g])
    BY <2>3, <2>4
  <2> DEFINE t == Taken(g) + 1
  <2>6. t \in 1 .. Len(bucket[g]) /\ Current(g) = bucket[g][t] /\ t <= m
    BY <1>4, <2>4, <2>5
  <2> HIDE DEF t
  <2>7. bucket[g][t] \in Nonce /\ q \in Nonce
    BY <2>2, <2>4, <2>5, <2>6, ElementOfSeq
  <2>8. Hash[bucket[g][t]] <= Hash[q]
    <3>1. g \in DOMAIN bucket /\ DOMAIN bucket[g] = 1 .. Len(bucket[g])
      BY <2>4, LenProperties DEF IInv, Buckets
    <3>2. CASE t < m
      BY <2>2, <2>5, <2>6, <3>1, <3>2 DEF BucketsSorted, SortedByHash
    <3>3. CASE t = m
      BY <2>2, <2>7, <3>3, HashNat
    <3> QED
      BY <2>5, <2>6, <3>2, <3>3
  <2> QED
    BY <1>2, <2>5, <2>6, <2>7, <2>8, HashNat
<1> QED
  BY <1>1, <1>5, <1>6

LEMMA BucketsStaySorted == Spec => []BucketsSorted
<1>1. BucketsSorted /\ [Next]_vars => BucketsSorted'
  BY BucketsUnchanged DEF BucketsSorted, SortedByHash
<1> QED
  BY <1>1, InitSorted, PTL DEF Spec

LEMMA InitSorts == Init => Sort!Init
<1> SUFFICES ASSUME Init PROVE Sort!Init
  OBVIOUS
<1>1. pc = "ExternalSort" /\ merged = <<>>
  BY InitIInv, MergedTyped DEF Init, InitOwn, StartWith, merged
<1> QED
  BY <1>1 DEF Sort!Init, Ended

LEMMA MergeStepEmits ==
  ASSUME IInv, OnceInv, BucketsSorted, Faults = {}, [Next]_vars, MergeStep, pc' = "merge"
  PROVE  Sort!Emit
<1> DEFINE r == Current(small_idx)
<1>1. pc = "merge" /\ Candidates # {}
  BY MergeStepCases
<1>2. r \in left /\ \A q \in left : Hash[r] <= Hash[q]
  BY <1>1, LeastToCome
<1> HIDE DEF r
<1>3. merged' = Append(merged, r) /\ Image(merged') = Image(merged) \cup {r}
  BY MergedGrows DEF r
<1>4. left' = left \ {r}
  <2>1. Image(merged)' = Image(merged) \cup {r}
    BY <1>3 DEF Image
  <2> QED
    BY <2>1, ToMergeKept DEF left
<1> QED
  BY <1>1, <1>2, <1>3, <1>4 DEF Sort!Emit, left, Ended

LEMMA RestSorts ==
  ASSUME IInv, OnceInv, Faults = {}, [Next]_vars, ~(MergeStep /\ pc' = "merge")
  PROVE  Sort!Next \/ UNCHANGED Sort!vars
<1>1. merged' = merged /\ left' = left
  <2>1. merged' = merged
    BY MergedShrinks
  <2>2. Image(merged)' = Image(merged)
    BY <2>1 DEF Image
  <2> QED
    BY <2>1, <2>2, ToMergeKept DEF left
<1>2. \/ answer' = answer
      \/ answer = "none" /\ answer' = "failure"
      \/ answer = "none" /\ answer' = "success" /\ Drain /\ pc = "drain"
  <2> USE DEF answer, Ended
  <2>1. CASE MergeStep
    BY <2>1, MergeStepCases
  <2>2. CASE Drain
    BY <2>2 DEF Drain
  <2>3. CASE Begin \/ CreateLoader \/ NoArgument \/ JoinLoader \/ BatchDone \/ OpenOutput
    BY <2>3 DEF Begin, CreateLoader, NoArgument, JoinLoader, BatchDone, OpenOutput
  <2>4. CASE WildRead \/ MergeDone \/ Loading \/ Over \/ UNCHANGED vars
    BY <2>4 DEF WildRead, MergeDone, Loading, LoadFile, Over, vars, shared
  <2> QED
    BY <2>1, <2>2, <2>3, <2>4 DEF Next, Step, Main
<1>3. CASE answer' = answer
  BY <1>1, <1>3 DEF Sort!vars, left, answer
<1>4. CASE answer = "none" /\ answer' = "failure"
  <2>1. Len(merged) \in Nat /\ SubSeq(merged, 1, Len(merged)) = merged
    <3>1. merged \in Seq(Nonce) /\ Len(merged) \in Nat
      BY MergedTyped, LenProperties
    <3>2. /\ SubSeq(merged, 1, Len(merged)) \in Seq(Nonce)
          /\ Len(SubSeq(merged, 1, Len(merged))) = Len(merged)
          /\ \A m \in 1 .. Len(merged) : SubSeq(merged, 1, Len(merged))[m] = merged[m]
      BY <3>1, PrefixOf
    <3> QED
      BY <3>1, <3>2, SeqEqual
  <2> DEFINE n == Len(merged)
  <2>2. n \in 0 .. Len(merged) /\ merged' = SubSeq(merged, 1, n)
    BY <1>1, <2>1
  <2>3. left' = left \cup {merged[m] : m \in (n + 1) .. Len(merged)}
    BY <1>1, <2>1
  <2> HIDE DEF n
  <2>4. Sort!Fail
    BY <1>4, <2>2, <2>3 DEF Sort!Fail, left, answer
  <2> QED
    BY <2>4 DEF Sort!Next
<1>5. CASE answer = "none" /\ answer' = "success" /\ Drain /\ pc = "drain"
  <2>1. Candidates = {} /\ Image(merged) = TakenRecords
    BY <1>5 DEF IInv, IdxInv, OnceInv, Merging2
  <2>2. left = {}
    BY <1>5, <2>1, TakenToMerge DEF left, Merging2
  <2>3. Sort!Finish
    BY <1>1, <1>5, <2>2 DEF Sort!Finish, left, answer
  <2> QED
    BY <2>3 DEF Sort!Next
<1> QED
  BY <1>2, <1>3, <1>4, <1>5

(* When every call succeeds, each step of the merge is a step of the       *)
(* sorted file: it appends a least one of all the records that remain, in  *)
(* whatever bucket and chunk, read or not, and ends when none remains.     *)
THEOREM MergeSorts ==
  ASSUME Faults = {}
  PROVE  Spec => Sort!Init /\ [][Sort!Next]_(Sort!vars)
<1>1. IInv /\ OnceInv /\ BucketsSorted /\ [Next]_vars => [Sort!Next]_(Sort!vars)
  <2> SUFFICES ASSUME IInv, OnceInv, BucketsSorted, [Next]_vars
               PROVE  Sort!Next \/ UNCHANGED Sort!vars
    OBVIOUS
  <2>1. CASE MergeStep /\ pc' = "merge"
    BY <2>1, MergeStepEmits DEF Sort!Next
  <2>2. CASE ~(MergeStep /\ pc' = "merge")
    BY <2>2, RestSorts
  <2> QED
    BY <2>1, <2>2
<1> QED
  BY <1>1, InitSorts, IInvAlways, OnceInvAlways, BucketsStaySorted, PTL DEF Spec

=============================================================================
