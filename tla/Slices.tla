------------------------------- MODULE Slices -------------------------------
(***************************************************************************)
(* How hashgen.c cuts an array of M records among T threads: every thread  *)
(* takes M / T records and the last one also takes the remainder.  The     *)
(* same computation is written out in hashing, sorting, writing_write and, *)
(* inside one write segment, in writing_sort.                              *)
(***************************************************************************)
EXTENDS Integers

PerThread(M, T) == M \div T

(* Variants that a slip in the source would give; see the README.           *)
SliceEnd_NoRemainder(M, T, t) == (t + 1) * PerThread(M, T)
SliceEnd_Inclusive(M, T, t) == IF t = T - 1 THEN M + 1 ELSE (t + 1) * PerThread(M, T)

SliceStart(M, T, t) == t * PerThread(M, T)

SliceEnd(M, T, t) == IF t = T - 1 THEN M ELSE (t + 1) * PerThread(M, T)

(* The indices one thread's loop, qsort or fwrite touches. *)
Slice(M, T, t) == SliceStart(M, T, t) .. (SliceEnd(M, T, t) - 1)

=============================================================================
