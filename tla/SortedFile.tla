----------------------------- MODULE SortedFile -----------------------------
(***************************************************************************)
(* What the user of the output file is promised, without buckets, buffers  *)
(* or threads.  A run puts the records into the file one by one in the     *)
(* order of their hashes, each exactly once, and succeeds when none        *)
(* remains.  A run that fails leaves a prefix of that, and another run     *)
(* starts from nothing.                                                    *)
(***************************************************************************)
EXTENDS Integers, Sequences

CONSTANT Hash

VARIABLES
  remaining,  \* the records that are not merged yet
  merged,     \* the records that are, in order
  outcome     \* "none" while a run is going on, then "success" or "failure"

vars == <<remaining, merged, outcome>>

Init == merged = <<>> /\ outcome = "none"

Emit ==
  /\ outcome = "none"
  /\ \E r \in remaining :
       /\ \A q \in remaining : Hash[r] <= Hash[q]
       /\ merged' = Append(merged, r)
       /\ remaining' = remaining \ {r}
  /\ UNCHANGED outcome

Finish ==
  /\ outcome = "none" /\ remaining = {}
  /\ outcome' = "success"
  /\ UNCHANGED <<remaining, merged>>

(* What was only in memory is lost.                                        *)
Fail ==
  /\ outcome = "none"
  /\ outcome' = "failure"
  /\ \E n \in 0 .. Len(merged) :
       /\ merged' = SubSeq(merged, 1, n)
       /\ remaining' = remaining \cup {merged[m] : m \in (n + 1) .. Len(merged)}

Restart ==
  /\ outcome # "none"
  /\ outcome' = "none"
  /\ merged' = <<>>
  /\ remaining' = remaining \cup {merged[m] : m \in DOMAIN merged}

Next == Emit \/ Finish \/ Fail \/ Restart

(* A run that is not disturbed comes to its end.                           *)
Spec == Init /\ [][Next]_vars /\ WF_vars(Emit \/ Finish)

=============================================================================
