---------------------------- MODULE SummaryTree -----------------------------
(***************************************************************************)
(* What the seal pipeline is for: every node of the tree is on the open    *)
(* frontier until it is folded into one summary, which takes its place     *)
(* there.  A batch of nodes is taken to be summarised, no node is in two   *)
(* batches, and a batch is folded as it was taken.  The nodes that joined  *)
(* a buffer while its batch was being summarised may be lost with it; they *)
(* are in no other batch and in no summary.  Nothing leaves the frontier   *)
(* in any other way and nothing comes back to it.                          *)
(***************************************************************************)
CONSTANT Nodes

VARIABLES
    frontier,   \* the nodes waiting to be summarised
    batches,    \* the sets of them that are being summarised
    foldedInto  \* foldedInto[x]: the summaries x is a child of

Init ==
    /\ frontier = {} /\ batches = {}
    /\ foldedInto = [x \in Nodes |-> {}]

Open == frontier \ UNION batches

(* A new node is put on the frontier. *)
Hold(x) ==
    /\ x \notin frontier /\ foldedInto[x] = {}
    /\ frontier' = frontier \cup {x}
    /\ UNCHANGED <<batches, foldedInto>>

(* The nodes S are taken to be summarised... *)
Take(S) ==
    /\ S # {} /\ S \subseteq Open
    /\ batches' = batches \cup {S}
    /\ UNCHANGED <<frontier, foldedInto>>

(* ... and are not, for now... *)
PutBack(S) ==
    /\ batches' = batches \ {S}
    /\ UNCHANGED <<frontier, foldedInto>>

(* ... or become the children of the new summary s; the nodes late are lost. *)
Fold(S, late, s) ==
    /\ S \in batches /\ late \subseteq Open
    /\ s \notin frontier /\ foldedInto[s] = {}
    /\ batches' = batches \ {S}
    /\ frontier' = (frontier \ (S \cup late)) \cup {s}
    /\ foldedInto' = [x \in Nodes |-> IF x \in S THEN {s} ELSE foldedInto[x]]

Next ==
    \/ \E x \in Nodes : Hold(x)
    \/ \E S \in SUBSET Open : Take(S)
    \/ \E S \in batches : PutBack(S)
    \/ \E S \in batches, late \in SUBSET Open, s \in Nodes : Fold(S, late, s)

Spec == Init /\ [][Next]_<<frontier, batches, foldedInto>>
=============================================================================
