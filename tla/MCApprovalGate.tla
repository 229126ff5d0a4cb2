--------------------------- MODULE MCApprovalGate ---------------------------
(* Instances of ApprovalGate for TLC.  Calls c1 and c2 belong to one chat    *)
(* thread and are alike, k runs under a label nobody is asked for.  All use  *)
(* one tool, so that an always-allow on one of them lets the others through. *)
EXTENDS ApprovalGate, TLC

CONSTANTS c1, c2, k, send, t1

MCToolOf == [c \in Calls |-> send]
MCThreadOf == [c \in Calls |-> IF c = k THEN NoThread ELSE t1]
MCOriginOf == [c \in Calls |-> IF c = k THEN "unknown" ELSE "web_chat"]

ChatSymmetry == Permutations({c1, c2})
=============================================================================
