------------------------------ MODULE MCHashgen -----------------------------
(***************************************************************************)
(* Instances of Hashgen for TLC.                                           *)
(***************************************************************************)
EXTENDS Hashgen

(* A hash order unrelated to the nonces, with some equal hashes.           *)
MCHash == [n \in Nonce |-> (5 * n) % 11]

(* What runs with four threads more may leave: eight buckets of two        *)
(* records, one of them just opened; the last of these buckets, when the   *)
(* run was killed while it removed them; nothing, when it returned.        *)
FourSorters(b) ==
  IF MCHash[2 * b] <= MCHash[2 * b + 1] THEN <<2 * b, 2 * b + 1>> ELSE <<2 * b + 1, 2 * b>>

MCOtherRuns ==
  {[bucket |-> [b \in 0 .. 5 |-> IF b = 4 THEN <<>> ELSE FourSorters(b)],
    removed |-> 0, output |-> <<>>],
   [bucket |-> [b \in 3 .. 7 |-> FourSorters(b)],
    removed |-> 3, output |-> E!InHashOrder(Nonce)],
   [bucket |-> <<>>,
    removed |-> 8, output |-> E!InHashOrder(Nonce)]}

=============================================================================
