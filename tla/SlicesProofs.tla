---------------------------- MODULE SlicesProofs ----------------------------
(***************************************************************************)
(* What the slice computation of hashgen.c guarantees for every number of  *)
(* records and every number of threads, divisible or not: the slices stay  *)
(* inside the array, no two of them overlap, and together they leave no    *)
(* record out.                                                             *)
(***************************************************************************)
EXTENDS Slices, TLAPS

(* Integer division rounds down: T slices of M / T records fit in M. *)
LEMMA DivisionFits ==
  ASSUME NEW M \in Nat, NEW T \in Nat \ {0}
  PROVE  /\ PerThread(M, T) \in Nat
         /\ T * PerThread(M, T) <= M
  BY DEF PerThread

(* Multiplying by a natural number keeps the order. *)
LEMMA TimesMonotone ==
  ASSUME NEW a \in Nat, NEW b \in Nat, NEW c \in Nat, a <= b
  PROVE  a * c <= b * c
  OBVIOUS

(* The bounds every worker of hashgen.c computes are an interval of the     *)
(* shared array: start_index <= end_index <= max_records.                   *)
LEMMA SliceWithin ==
  ASSUME NEW M \in Nat, NEW T \in Nat \ {0}, NEW t \in 0 .. (T - 1)
  PROVE  /\ SliceStart(M, T, t) \in Nat
         /\ SliceEnd(M, T, t) \in Nat
         /\ SliceStart(M, T, t) <= SliceEnd(M, T, t)
         /\ SliceEnd(M, T, t) <= M
         /\ Slice(M, T, t) \subseteq 0 .. (M - 1)
<1> DEFINE P == PerThread(M, T)
<1>1. P \in Nat /\ T * P <= M
  BY DivisionFits
<1>2. t * P \in Nat /\ (t + 1) * P \in Nat /\ T * P \in Nat
  BY <1>1
<1>3. t * P <= (t + 1) * P /\ (t + 1) * P <= T * P
  <2> HIDE DEF P
  <2>1. t \in Nat /\ t + 1 \in Nat /\ T \in Nat /\ t <= t + 1 /\ t + 1 <= T
    OBVIOUS
  <2> QED
    BY <1>1, <2>1, TimesMonotone
<1>4. t * P <= M
  BY <1>1, <1>2, <1>3
<1> QED
  BY <1>1, <1>2, <1>3, <1>4 DEF Slice, SliceStart, SliceEnd

(* Two workers of one phase never share a record of the array. *)
THEOREM SlicesDisjoint ==
  ASSUME NEW M \in Nat, NEW T \in Nat \ {0},
         NEW s \in 0 .. (T - 1), NEW t \in 0 .. (T - 1), s # t
  PROVE  Slice(M, T, s) \cap Slice(M, T, t) = {}
<1> DEFINE P == PerThread(M, T)
<1>1. P \in Nat
  BY DivisionFits
<1>2. ASSUME NEW a \in 0 .. (T - 1), NEW b \in 0 .. (T - 1), a < b
      PROVE  SliceEnd(M, T, a) <= SliceStart(M, T, b)
  <2>1. a + 1 \in Nat /\ b \in Nat /\ a + 1 <= b
    BY <1>2
  <2>2. (a + 1) * P <= b * P
    BY <1>1, <2>1, TimesMonotone
  <2>3. a # T - 1
    BY <1>2
  <2> QED
    BY <2>2, <2>3 DEF SliceEnd, SliceStart
<1>3. /\ SliceStart(M, T, s) \in Nat /\ SliceEnd(M, T, s) \in Nat
      /\ SliceStart(M, T, t) \in Nat /\ SliceEnd(M, T, t) \in Nat
  BY SliceWithin
<1>4. CASE s < t
  BY <1>2, <1>3, <1>4 DEF Slice
<1>5. CASE t < s
  BY <1>2, <1>3, <1>5 DEF Slice
<1> QED
  BY <1>4, <1>5

(* No record of the array is left out by the workers of one phase, whatever *)
(* the remainder of M / T.                                                  *)
THEOREM SlicesCover ==
  ASSUME NEW M \in Nat, NEW T \in Nat \ {0}, NEW i \in 0 .. (M - 1)
  PROVE  \E t \in 0 .. (T - 1) : i \in Slice(M, T, t)
<1> DEFINE P == PerThread(M, T)
<1>1. P \in Nat /\ T * P <= M
  BY DivisionFits
<1>2. CASE i >= (T - 1) * P
  <2>1. i \in Slice(M, T, T - 1)
    BY <1>1, <1>2 DEF Slice, SliceStart, SliceEnd
  <2> QED
    BY <2>1
<1>3. CASE i < (T - 1) * P
  <2>1. P > 0
    BY <1>1, <1>3
  <2> DEFINE t == i \div P
  <2>2. t \in Nat /\ t * P <= i /\ i < (t + 1) * P
    BY <1>1, <2>1
  <2>3. t < T - 1
    <3>1. SUFFICES ASSUME t >= T - 1 PROVE FALSE
      BY <2>2
    <3>2. (T - 1) * P <= t * P
      BY <1>1, <2>2, <3>1, TimesMonotone
    <3> QED
      BY <1>1, <1>3, <2>2, <3>2
  <2>4. i \in Slice(M, T, t)
    BY <1>1, <2>2, <2>3 DEF Slice, SliceStart, SliceEnd
  <2> QED
    BY <2>2, <2>3, <2>4
<1> QED
  BY <1>1, <1>2, <1>3

(* Dividing a multiple gives back the factor.                               *)
LEMMA ExactDivision ==
  ASSUME NEW a \in Nat \ {0}, NEW b \in Nat
  PROVE  (a * b) \div a = b /\ (b * a) \div a = b
<1>1. a * b \in Nat /\ a * b = b * a
  OBVIOUS
<1> DEFINE d == (a * b) \div a
<1>2. d \in Nat /\ d * a <= a * b /\ a * b < d * a + a
  BY <1>1
<1> HIDE DEF d
<1>3. (d + 1) * a = d * a + a /\ (b + 1) * a = b * a + a /\ d * a \in Nat
  BY <1>2
<1>4. ~(d + 1 <= b)
  <2> SUFFICES ASSUME d + 1 <= b PROVE FALSE
    OBVIOUS
  <2>1. (d + 1) * a <= b * a
    BY <1>2, TimesMonotone
  <2> QED
    BY <1>1, <1>2, <1>3, <2>1
<1>5. ~(b + 1 <= d)
  <2> SUFFICES ASSUME b + 1 <= d PROVE FALSE
    OBVIOUS
  <2>1. (b + 1) * a <= d * a
    BY <1>2, TimesMonotone
  <2> QED
    BY <1>1, <1>2, <1>3, <2>1
<1>6. d = b
  BY <1>2, <1>4, <1>5
<1> QED
  BY <1>1, <1>6 DEF d

(* The slice of writer t of W in round k, when S \div W rounds share out the *)
(* array.                                                                   *)
Segment(M, S, W) == M \div (S \div W)
RoundStart(M, S, W, k, t) == k * Segment(M, S, W) + SliceStart(Segment(M, S, W), W, t)
RoundEnd(M, S, W, k, t) == k * Segment(M, S, W) + SliceEnd(Segment(M, S, W), W, t)

(* When nothing is left over, the slices of round k are those of the        *)
(* sorting threads k * W .. k * W + W - 1.                                  *)
LEMMA RoundsAlign ==
  ASSUME NEW M \in Nat \ {0}, NEW S \in Nat \ {0}, NEW W \in Nat \ {0},
         W < S, S % W = 0, M % S = 0,
         NEW k \in 0 .. (S \div W - 1), NEW t \in 0 .. (W - 1)
  PROVE  /\ k * W + t \in 0 .. (S - 1)
         /\ RoundStart(M, S, W, k, t) = SliceStart(M, S, k * W + t)
         /\ RoundEnd(M, S, W, k, t) = SliceEnd(M, S, k * W + t)
<1> DEFINE P == M \div S
           I == S \div W
           segment == Segment(M, S, W)
           i == k * W + t
<1>1. P \in Nat /\ M = S * P /\ I \in Nat \ {0} /\ S = W * I /\ k \in Nat /\ k < I /\ t \in Nat
  OBVIOUS
<1>2. PerThread(M, S) = P
  BY DEF PerThread
<1> HIDE DEF P, I
<1>3. W * P \in Nat /\ M = I * (W * P)
  BY <1>1
<1>4. segment = W * P
  BY <1>1, <1>3, ExactDivision DEF I, Segment
<1> HIDE DEF segment
<1>5. PerThread(segment, W) = P
  BY <1>1, <1>4, ExactDivision DEF PerThread
<1>6. i \in 0 .. (S - 1)
  <2>1. (k + 1) * W <= I * W
    BY <1>1, TimesMonotone, k + 1 \in Nat, k + 1 <= I
  <2>2. (k + 1) * W = k * W + W /\ k * W \in Nat /\ I * W = W * I
    BY <1>1
  <2> QED
    BY <1>1, <2>1, <2>2
<1>7. /\ k * segment + t * P = i * P
      /\ k * segment + (t + 1) * P = (i + 1) * P
  BY <1>1, <1>4
<1>8. k * segment + SliceStart(segment, W, t) = SliceStart(M, S, i)
  BY <1>2, <1>5, <1>7 DEF SliceStart
<1>9. k * segment + SliceEnd(segment, W, t) = (i + 1) * P
  <2>1. CASE t = W - 1
    <3>1. t + 1 = W
      BY <1>1, <2>1
    <3>2. (t + 1) * P = segment
      BY <1>4, <3>1
    <3> QED
      BY <1>7, <2>1, <3>2 DEF SliceEnd
  <2>2. CASE t # W - 1
    BY <1>5, <1>7, <2>2 DEF SliceEnd
  <2> QED
    BY <2>1, <2>2
<1>10. SliceEnd(M, S, i) = (i + 1) * P
  <2>1. CASE i = S - 1
    <3>1. i + 1 = S
      BY <2>1
    <3>2. (i + 1) * P = M
      BY <1>1, <3>1
    <3> QED
      BY <2>1, <3>2 DEF SliceEnd
  <2>2. CASE i # S - 1
    BY <1>2, <2>2 DEF SliceEnd
  <2> QED
    BY <2>1, <2>2
<1> QED
  BY <1>6, <1>8, <1>9, <1>10 DEF segment, RoundStart, RoundEnd

=============================================================================
