------------------------- MODULE PublicationPromise -------------------------
(***************************************************************************)
(* What a publication promises, whatever is lost, repeated or done by hand *)
(* in between: it is done only when the reviewed candidate, and nothing    *)
(* else, was merged; it is abandoned only when it was not merged, and then *)
(* stays unmerged; and both are final, except that a publication that was  *)
(* stopped before it was recorded as done is looked at again.              *)
(***************************************************************************)

VARIABLES
  phase,   \* "active", "attention", "done" (verified), "finished", "abandoned"
  repo     \* "untouched", "written", "merged"

vars == <<phase, repo>>

Init == phase = "active" /\ repo = "untouched"

\* The branch or the pull request appears; a publication that was abandoned
\* before any effect has none.
Write ==
  /\ repo = "untouched" /\ phase \in {"active", "attention"}
  /\ repo' = "written"
  /\ UNCHANGED phase

Merge ==
  /\ repo = "written" /\ phase \in {"active", "attention"}
  /\ repo' = "merged"
  /\ UNCHANGED phase

Verify == phase = "active" /\ repo = "merged" /\ phase' = "done" /\ UNCHANGED repo
Finish == phase = "done" /\ phase' = "finished" /\ UNCHANGED repo
Fail == phase \in {"active", "done"} /\ phase' = "attention" /\ UNCHANGED repo
Reconcile == phase = "attention" /\ phase' = "active" /\ UNCHANGED repo
Abandon == phase = "attention" /\ repo # "merged" /\ phase' = "abandoned" /\ UNCHANGED repo

Next == Write \/ Merge \/ Verify \/ Finish \/ Fail \/ Reconcile \/ Abandon

Spec == Init /\ [][Next]_vars
=============================================================================
