--------------------------- MODULE MCSealPipeline ---------------------------
(* Instances of SealPipeline for TLC: chunks of one token each. *)
EXTENDS SealPipeline

CONSTANTS l1, l2, w1, w2

MCTokensOf == [l \in Leaves |-> 1]
=============================================================================
