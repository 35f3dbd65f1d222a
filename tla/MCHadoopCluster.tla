-------------------------- MODULE MCHadoopCluster --------------------------
(***************************************************************************)
(* An instance of HadoopCluster for TLC.                                   *)
(***************************************************************************)
EXTENDS HadoopCluster

(* A hash order unrelated to the nonces, with equal hashes. *)
MCHash == [n \in 0 .. 2 |-> (2 * n) % 3]

MCPartOf == [k \in 0 .. 2 |-> k % 2]

MCValues == <<1, 3>>

=============================================================================
