--------------------------- MODULE MCTwoPrograms ---------------------------
(***************************************************************************)
(* Instances of TwoPrograms for TLC.                                       *)
(***************************************************************************)
EXTENDS TwoPrograms

(* A hash order unrelated to the nonces, with some equal hashes.           *)
MCHash == [n \in Nonce |-> (5 * n) % 7]

Counts(t, o, i, failing) == [hash |-> t, sort |-> o, write |-> i, faults |-> failing]

(* Both kinds of writers, with and without remainders; and failing calls.  *)
MCOptions ==
  {Counts(3, 1, 1, {}), Counts(1, 1, 2, {}), Counts(2, 2, 1, {}), Counts(2, 2, 2, {}),
   Counts(1, 2, 3, {}), Counts(1, 3, 2, {}), Counts(1, 2, 4, {}),
   Counts(1, 1, 2, {"malloc"}), Counts(1, 1, 2, {"open"}), Counts(1, 2, 1, {"short"})}

(* Options with which nothing has a remainder.                             *)
MCEven == {Counts(1, 2, 2, {})}

(* Options with which a write slice straddles two sorted ones.             *)
MCStraddling == {Counts(1, 2, 3, {})}

MCEmptyDirectory == {[bucket |-> <<>>, output |-> <<>>]}

(* An empty directory, and one with the buckets of an earlier, longer run, *)
(* one of them not sorted, and with its output.                            *)
MCLeftovers ==
  MCEmptyDirectory \cup
  {[bucket |-> [b \in 0 .. 4 |-> IF b = 4 THEN <<1, 2>> ELSE <<b>>], output |-> <<3, 0>>]}

=============================================================================
