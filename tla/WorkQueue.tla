----------------------------- MODULE WorkQueue ------------------------------
(***************************************************************************)
(* What the job queue promises its producers, with workers, leases,        *)
(* retries and crashes left out: a job is outstanding from its enqueue     *)
(* until it is completed or given up, no two outstanding jobs have the     *)
(* same key, a completed job is over, and a job given up comes back only   *)
(* when all of them are asked for again.  JobQueue implements it.          *)
(***************************************************************************)
CONSTANTS Jobs, KeyOf, NoKey

VARIABLES outstanding, completed, givenUp

SameKey(j, k) == j # k /\ KeyOf[j] # NoKey /\ KeyOf[j] = KeyOf[k]

KeysDistinct(S) == \A j, k \in S : ~SameKey(j, k)

Init == outstanding = {} /\ completed = {} /\ givenUp = {}

Accept(j) ==
    /\ j \notin outstanding \cup completed \cup givenUp
    /\ KeysDistinct(outstanding \cup {j})
    /\ outstanding' = outstanding \cup {j}
    /\ UNCHANGED <<completed, givenUp>>

Complete(j) ==
    /\ j \in outstanding
    /\ outstanding' = outstanding \ {j}
    /\ completed' = completed \cup {j}
    /\ UNCHANGED givenUp

GiveUp(j) ==
    /\ j \in outstanding
    /\ outstanding' = outstanding \ {j}
    /\ givenUp' = givenUp \cup {j}
    /\ UNCHANGED completed

AskAgain ==
    /\ KeysDistinct(outstanding \cup givenUp)
    /\ outstanding' = outstanding \cup givenUp
    /\ givenUp' = {}
    /\ UNCHANGED completed

Next == (\E j \in Jobs : Accept(j) \/ Complete(j) \/ GiveUp(j)) \/ AskAgain

Spec == Init /\ [][Next]_<<outstanding, completed, givenUp>>
=============================================================================
