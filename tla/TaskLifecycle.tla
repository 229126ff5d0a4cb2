--------------------------- MODULE TaskLifecycle ----------------------------
(***************************************************************************)
(* What the dispatcher promises about the cards of a board when nobody     *)
(* moves them by hand: a card goes from todo over its approval to in       *)
(* progress and on to done or blocked, one run at a time works on it, only *)
(* its run reports on it, and only a run that is over but not accounted    *)
(* for sends it back.  A card a user has taken over is out of the promise, *)
(* but for the cap on cards in progress.  TaskDispatch implements it as    *)
(* long as board operations do not overlap and no live run is taken for    *)
(* dead.                                                                   *)
(***************************************************************************)
CONSTANTS Cards, Runs, Statuses

VARIABLES
    status,
    worker,     \* the runs that work on each card
    open,       \* cards with a run that has not been accounted for
    taken       \* cards users have taken over

Init ==
    /\ status \in [Cards -> {"absent", "todo"}]
    /\ worker = [c \in Cards |-> {}]
    /\ open = {} /\ taken = {}

Moves(c, from, to) ==
    /\ status[c] \in from
    /\ status' = [status EXCEPT ![c] = to]

Free == \A c \in Cards : status[c] # "in_progress"

Park(c) == Moves(c, {"todo"}, "awaiting") /\ UNCHANGED <<worker, open, taken>>

Decide(c) ==
    /\ Moves(c, {"awaiting"}, "ready") \/ Moves(c, {"awaiting"}, "rejected")
    /\ UNCHANGED <<worker, open, taken>>

Drop(c) == Moves(c, {"todo", "ready"}, "rejected") /\ UNCHANGED <<worker, open, taken>>

Claim(c) ==
    /\ Free /\ worker[c] = {} /\ c \notin open
    /\ Moves(c, {"todo", "ready"}, "in_progress")
    /\ UNCHANGED <<worker, open, taken>>

Open(c) ==
    /\ status[c] = "in_progress" /\ worker[c] = {}
    /\ open' = open \cup {c}
    /\ UNCHANGED <<status, worker, taken>>

Start(c, r) ==
    /\ status[c] = "in_progress" /\ worker[c] = {}
    /\ worker' = [worker EXCEPT ![c] = {r}]
    /\ UNCHANGED <<status, open, taken>>

Report(c) ==
    /\ worker[c] # {}
    /\ \E s \in {"done", "blocked"} : status' = [status EXCEPT ![c] = s]
    /\ UNCHANGED <<worker, open, taken>>

Finish(c) ==
    /\ worker[c] # {}
    /\ worker' = [worker EXCEPT ![c] = {}]
    /\ open' = open \ {c}
    /\ UNCHANGED <<status, taken>>

(* A run ends, but is not accounted for. *)
Lose(c) ==
    /\ worker[c] # {}
    /\ worker' = [worker EXCEPT ![c] = {}]
    /\ UNCHANGED <<status, open, taken>>

(* A crash stops every run, and may cut off the return of one card. *)
Crash ==
    /\ worker' = [c \in Cards |-> {}]
    /\ open' = open \/ \E c \in open : open' = open \ {c}
    /\ UNCHANGED <<status, taken>>

(* A return that fails leaves the card where it is. *)
Forget(c) ==
    /\ c \in open /\ worker[c] = {}
    /\ open' = open \ {c}
    /\ UNCHANGED <<status, worker, taken>>

Return(c) ==
    /\ c \in open /\ worker[c] = {}
    /\ \E s \in {"todo", "blocked"} : status' = [status EXCEPT ![c] = s]
    /\ open' = open \ {c}
    /\ UNCHANGED <<worker, taken>>

TakeOver(c) ==
    /\ taken' = taken \cup {c}
    /\ worker' = [worker EXCEPT ![c] = {}]
    /\ open' = open \ {c}
    /\ UNCHANGED status

Hand(c) ==
    /\ c \in taken
    /\ \E s \in Statuses : /\ s = "in_progress" => Free
                           /\ status' = [status EXCEPT ![c] = s]
    /\ UNCHANGED <<worker, open, taken>>

Next ==
    \/ Crash
    \/ \E c \in Cards : \/ Park(c) \/ Decide(c) \/ Drop(c) \/ Claim(c) \/ Open(c)
                        \/ Report(c) \/ Finish(c) \/ Lose(c) \/ Return(c) \/ Forget(c)
                        \/ TakeOver(c) \/ Hand(c)
                        \/ \E r \in Runs : Start(c, r)

Spec == Init /\ [][Next]_<<status, worker, open, taken>>
=============================================================================
