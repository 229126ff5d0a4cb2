----------------------------- MODULE MCJobQueue -----------------------------
(* Instances of JobQueue for TLC.  Rows a1 and a2 are extracts of the same   *)
(* chunk, b an extract of another, r the re-embed chain, s a seal.          *)
EXTENDS JobQueue, TLC

CONSTANTS a1, a2, b, r, s, w1, w2

MCKindOf == [j \in Jobs |-> CASE j = r -> "reembed_backfill"
                              [] j = s -> "seal"
                              [] OTHER -> "extract_chunk"]

MCKeyOf == [j \in Jobs |-> IF j \in {a1, a2} THEN "extract:a" ELSE j]

WorkerSymmetry == Permutations({w1, w2})
=============================================================================
