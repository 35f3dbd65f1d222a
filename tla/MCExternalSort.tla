--------------------------- MODULE MCExternalSort ---------------------------
(***************************************************************************)
(* Instances of ExternalSort for TLC.                                      *)
(***************************************************************************)
EXTENDS ExternalSort

(* Two nonces share a hash.  The initial states distribute the nonces over *)
(* the buckets in every way, so one hash function is enough.               *)
MCHash == [n \in Nonce |-> IF n = 1 THEN 0 ELSE n]

=============================================================================
