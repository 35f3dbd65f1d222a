----------------------------- MODULE MCGenerate -----------------------------
(***************************************************************************)
(* Instances of Generate for TLC.                                          *)
(***************************************************************************)
EXTENDS Generate

(* Hashes that neither follow the order of the nonces nor are all          *)
(* different: nonces 0 and 5 share one, as do 1 and 6, ...                 *)
MCHash == [n \in Nonce |-> (3 * n) % 5]

=============================================================================
