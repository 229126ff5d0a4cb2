------------------------------ MODULE Consent -------------------------------
(***************************************************************************)
(* What the approval gate promises the user, with waiters, timers, chat    *)
(* threads and restarts left out: a request gets at most one ruling and    *)
(* keeps it; a call is performed at most once, and only when it was        *)
(* granted itself, when its tool carries a standing consent, or when it    *)
(* comes from a caller that needs none; a standing consent starts from a   *)
(* call of that tool that was granted.  ApprovalGate implements it.        *)
(***************************************************************************)
CONSTANTS Calls, Tools, ToolOf, NeedsNone

VARIABLES ruling, performed, standing

Init == /\ ruling = [c \in Calls |-> "none"]
        /\ performed = {}
        /\ standing \in SUBSET Tools

(* Several requests may be denied at once: expiry denies all that are late. *)
Deny(S) ==
    /\ \A c \in S : ruling[c] = "none"
    /\ ruling' = [c \in Calls |-> IF c \in S THEN "denied" ELSE ruling[c]]
    /\ UNCHANGED <<performed, standing>>

Grant(c) ==
    /\ ruling[c] = "none"
    /\ ruling' = [ruling EXCEPT ![c] = "granted"]
    /\ UNCHANGED <<performed, standing>>

Perform(c) ==
    /\ c \notin performed
    /\ \/ ruling[c] = "granted"
       \/ ToolOf[c] \in standing
       \/ c \in NeedsNone
    /\ performed' = performed \cup {c}
    /\ UNCHANGED <<ruling, standing>>

Stand(c) ==
    /\ ruling[c] = "granted"
    /\ standing' = standing \cup {ToolOf[c]}
    /\ UNCHANGED <<ruling, performed>>

Next ==
    \/ \E S \in SUBSET Calls : Deny(S)
    \/ \E c \in Calls : Grant(c) \/ Perform(c) \/ Stand(c)

Spec == Init /\ [][Next]_<<ruling, performed, standing>>
=============================================================================
