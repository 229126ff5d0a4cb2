--------------------------- MODULE MCTaskDispatch ---------------------------
(* Instances of TaskDispatch for TLC: two cards, of which gcard is the one a *)
(* configuration may gate on the approval of its plan.                       *)
EXTENDS TaskDispatch, TLC

CONSTANTS plain, gcard, triage, u

(* No card comes before another where all or none are gated. *)
CardSymmetry == Permutations(Cards)
=============================================================================
