---------------------------- MODULE ApprovalGate ----------------------------
(***************************************************************************)
(* The approval gate: tool calls with an external effect park until the    *)
(* user decides, the time to live runs out, the turn is aborted or the     *)
(* process ends (approval/gate.rs, store.rs, rpc.rs; the caller in          *)
(* agent/harness/engine/tools.rs).                                          *)
(*                                                                         *)
(* A call makes at most one request, so a call stands for its request id.  *)
(* One SQL statement, one lock section or one await is one step: decide    *)
(* sweeps what is late, updates its row if that is still undecided, and    *)
(* then looks for the waiter.  The update does not test the expiry again.  *)
(***************************************************************************)
EXTENDS Naturals, FiniteSets

CONSTANTS
    Calls, Tools, Threads,
    ToolOf,         \* the tool of a call
    ThreadOf,       \* its chat thread, or NoThread outside a chat
    OriginOf,       \* the origin its turn is labelled with
    NoThread, NoCall,
    MaxDeciders,    \* bound on decisions between their two statements
    MaxAborts,      \* bound on aborted turns
    MaxErrors,      \* bound on failing statements
    MaxRestarts     \* bound on ends of the process

Origins == {"web_chat", "external_channel", "cron", "subconscious",
            "subconscious_tainted", "cli", "unknown"}
Trusted == {"cron", "subconscious", "cli"}
Rejected == {"subconscious_tainted", "unknown"}

ASSUME GateAssumption ==
    /\ ToolOf \in [Calls -> Tools]
    /\ NoThread \notin Threads
    /\ NoCall \notin Calls
    /\ ThreadOf \in [Calls -> Threads \cup {NoThread}]
    /\ OriginOf \in [Calls -> Origins]
    /\ MaxDeciders \in Nat /\ MaxAborts \in Nat /\ MaxErrors \in Nat /\ MaxRestarts \in Nat

VARIABLES
    row,        \* the request's row: absent, pending, or its decision
    late,       \* requests past their expires_at
    executed,   \* rows whose executed_at is set
    autoApprove,\* the user's always-allow list, persisted
    pc,         \* where the call is in intercept_audited and its caller
    waiters,    \* requests whose sender is in the waiters map
    sent,       \* what was sent on a request's channel
    asking,     \* the decisions between their sweep and their update
    deciding,   \* a decide that committed its row and has not returned
    route,      \* thread -> request of the parked call
    aborts, errors, restarts

store == <<row, late, executed>>
memory == <<waiters, sent, asking, deciding, route>>
vars == <<row, late, executed, autoApprove, pc, waiters, sent, asking, deciding, route,
          aborts, errors, restarts>>

Decisions == {"once", "always", "deny"}
Grants(d) == d \in {"once", "always"}

(* "cut" was aborted while its tool ran, "gone" while it waited; "blind" was *)
(* refused because a statement failed; "lost" went down with the process.    *)
Waiting == {"registered", "parked", "expiring", "denying", "rereading"}
Performed == {"running", "finished", "cut", "lost"}
Ended == {"refused", "blind", "gone", "forgotten", "finished", "cut", "lost"}
Steps == {"idle", "running"} \cup Waiting \cup Ended

Init ==
    /\ row = [c \in Calls |-> "absent"]
    /\ late = {}
    /\ executed = {}
    /\ autoApprove \in SUBSET Tools
    /\ pc = [c \in Calls |-> "idle"]
    /\ waiters = {}
    /\ sent = [c \in Calls |-> "none"]
    /\ asking = [c \in Calls |-> {}]
    /\ deciding = [c \in Calls |-> "none"]
    /\ route = [t \in Threads |-> NoCall]
    /\ aborts = 0 /\ errors = 0 /\ restarts = 0

Goto(c, s) == pc' = [pc EXCEPT ![c] = s]
Fails == errors < MaxErrors /\ errors' = errors + 1
Unbounded == UNCHANGED <<aborts, errors, restarts>>

(* Removes whatever request the thread points to, the call's own or not. *)
RouteCleared(c) == [t \in Threads |-> IF t = ThreadOf[c] THEN NoCall ELSE route[t]]

(* intercept_audited up to the waiter: list, origin, then registration. *)
Shortcut(c) == ToolOf[c] \in autoApprove \/ OriginOf[c] \in Trusted

PassThrough(c) ==
    /\ pc[c] = "idle"
    /\ Shortcut(c)
    /\ Goto(c, "running")
    /\ UNCHANGED <<store, autoApprove, memory>> /\ Unbounded

RejectOrigin(c) ==
    /\ pc[c] = "idle"
    /\ ~Shortcut(c)
    /\ OriginOf[c] \in Rejected
    /\ Goto(c, "refused")
    /\ UNCHANGED <<store, autoApprove, memory>> /\ Unbounded

(* Mutant: no waiter is registered. *)
AwaitedNever(c) == waiters

Awaited(c) == waiters \cup {c}

Register(c) ==
    /\ pc[c] = "idle"
    /\ ~Shortcut(c)
    /\ OriginOf[c] \notin Rejected
    /\ Goto(c, "registered")
    /\ waiters' = Awaited(c)
    /\ route' = [t \in Threads |-> IF t = ThreadOf[c] THEN c ELSE route[t]]
    /\ UNCHANGED <<store, autoApprove, sent, asking, deciding>> /\ Unbounded

InsertPending(c) ==
    /\ pc[c] = "registered"
    /\ row' = [row EXCEPT ![c] = "pending"]
    /\ Goto(c, "parked")
    /\ UNCHANGED <<late, executed, autoApprove, memory>> /\ Unbounded

InsertFails(c) ==
    /\ pc[c] = "registered"
    /\ Fails
    /\ Goto(c, "blind")
    /\ waiters' = waiters \ {c}
    /\ route' = RouteCleared(c)
    /\ UNCHANGED <<store, autoApprove, sent, asking, deciding, aborts, restarts>>

(* Mutant: a way out that returns before clear_thread. *)
LeaveEarly(c, s) == Goto(c, s) /\ UNCHANGED route

(* The end of intercept_audited: the thread is cleared on every way out. *)
Leave(c, s) == Goto(c, s) /\ route' = RouteCleared(c)

(* Mutant: anything on the channel lets the call run. *)
OutcomeOfAny(d) == "running"

Outcome(d) == IF Grants(d) THEN "running" ELSE "refused"

Receive(c) ==
    /\ pc[c] = "parked"
    /\ sent[c] # "none"
    /\ Leave(c, Outcome(sent[c]))
    /\ UNCHANGED <<store, autoApprove, waiters, sent, asking, deciding>> /\ Unbounded

(* Mutant: a decided row is left to its decider. *)
TimedOutUndecided(c) == sent[c] = "none" /\ row[c] = "pending"

TimedOut(c) == sent[c] = "none"

(* The timer fires before anything was sent; the waiter is evicted. *)
TimerFires(c) ==
    /\ pc[c] = "parked"
    /\ TimedOut(c)
    /\ Goto(c, "expiring")
    /\ waiters' = waiters \ {c}
    /\ UNCHANGED <<store, autoApprove, sent, asking, deciding, route>> /\ Unbounded

(* expire_stale_with_now denies every late row. *)
Stale == {c \in late : row[c] = "pending"}

Swept == [c \in Calls |-> IF c \in Stale THEN "denied" ELSE row[c]]

(* Mutant: the update overwrites a decision. *)
RuledAnew(c, d) ==
    IF row[c] = "absent" THEN row
    ELSE [row EXCEPT ![c] = IF Grants(d) THEN "approved" ELSE "denied"]

(* Mutant: the row keeps the decision as it was sent. *)
RuledRaw(c, d) == IF row[c] = "pending" THEN [row EXCEPT ![c] = d] ELSE row

(* The UPDATE of store::decide, WHERE decided_at IS NULL. *)
Ruled(c, d) ==
    IF row[c] = "pending"
    THEN [row EXCEPT ![c] = IF Grants(d) THEN "approved" ELSE "denied"]
    ELSE row

(* The timed-out call denies its own request: the sweep, then the update. *)
TimeoutSweeps(c) ==
    /\ pc[c] = "expiring"
    /\ row' = Swept
    /\ Goto(c, "denying")
    /\ UNCHANGED <<late, executed, autoApprove, memory>> /\ Unbounded

TimeoutDenies(c) ==
    /\ pc[c] = "denying"
    /\ row' = Ruled(c, "deny")
    /\ IF row[c] = "pending" THEN Leave(c, "refused")
                             ELSE Goto(c, "rereading") /\ UNCHANGED route
    /\ UNCHANGED <<late, executed, autoApprove, waiters, sent, asking, deciding>> /\ Unbounded

(* Mutants: the row is not read again, or any decision on it is honoured. *)
HonouredNever(c) == "refused"
HonouredAlways(c) == "running"

Honoured(c) == IF row[c] = "approved" THEN "running" ELSE "refused"

Reread(c) ==
    /\ pc[c] = "rereading"
    /\ Leave(c, Honoured(c))
    /\ UNCHANGED <<store, autoApprove, waiters, sent, asking, deciding>> /\ Unbounded

(* A statement fails; of the update's two, the SELECT fails after it took effect. *)
TimeoutBlind(c) ==
    /\ pc[c] \in {"expiring", "denying", "rereading"}
    /\ Fails
    /\ row' = row \/ (pc[c] = "denying" /\ row' = Ruled(c, "deny"))
    /\ Leave(c, "blind")
    /\ UNCHANGED <<late, executed, autoApprove, waiters, sent, asking, deciding,
                   aborts, restarts>>

(* gate.decide, from the RPC with any id or from a chat reply by its route: the
   sweep.  A decide that finds its row decided has nothing left to do, and
   several that bring one decision count as one. *)
Ask(c, d) ==
    /\ Cardinality({a \in Calls \X Decisions : a[2] \in asking[a[1]]}) < MaxDeciders
    /\ row' = Swept
    /\ asking' = IF Swept[c] \in {"absent", "pending"}
                   THEN [asking EXCEPT ![c] = @ \cup {d}] ELSE asking
    /\ UNCHANGED <<late, executed, autoApprove, pc, waiters, sent, deciding, route>>
    /\ Unbounded

AskRpc == \E c \in Calls, d \in Decisions : row[c] # "absent" /\ Ask(c, d)

Reply(t) == route[t] # NoCall /\ \E d \in {"once", "deny"} : Ask(route[t], d)

(* ... and the update, which other deciders or the timer may have preceded. *)
Decide(c, d) ==
    /\ d \in asking[c]
    /\ asking' = [asking EXCEPT ![c] = @ \ {d}]
    /\ row' = Ruled(c, d)
    /\ deciding' = IF row[c] = "pending" THEN [deciding EXCEPT ![c] = d] ELSE deciding
    /\ UNCHANGED <<late, executed, autoApprove, pc, waiters, sent, route>> /\ Unbounded

(* The UPDATE committed and the SELECT after it failed: nobody is woken. *)
DecideFails(c, d) ==
    /\ d \in asking[c]
    /\ row[c] = "pending"
    /\ Fails
    /\ asking' = [asking EXCEPT ![c] = @ \ {d}]
    /\ row' = Ruled(c, d)
    /\ UNCHANGED <<late, executed, autoApprove, pc, waiters, sent, deciding, route,
                   aborts, restarts>>

Wake(c) ==
    /\ deciding[c] \in Decisions
    /\ waiters' = waiters \ {c}
    /\ sent' = IF c \in waiters THEN [sent EXCEPT ![c] = deciding[c]] ELSE sent
    /\ deciding' = [deciding EXCEPT ![c] = IF @ = "always" THEN "saving" ELSE "none"]
    /\ UNCHANGED <<store, autoApprove, pc, asking, route>> /\ Unbounded

SaveAlways(c) ==
    /\ deciding[c] = "saving"
    /\ deciding' = [deciding EXCEPT ![c] = "none"]
    /\ autoApprove' = autoApprove \cup {ToolOf[c]}
    /\ UNCHANGED <<store, pc, waiters, sent, asking, route>> /\ Unbounded

SaveFails(c) ==
    /\ deciding[c] = "saving"
    /\ Fails
    /\ deciding' = [deciding EXCEPT ![c] = "none"]
    /\ UNCHANGED <<store, autoApprove, pc, waiters, sent, asking, route, aborts, restarts>>

Elapse(c) ==
    /\ row[c] = "pending"
    /\ c \notin late
    /\ late' = late \cup {c}
    /\ UNCHANGED <<row, executed, autoApprove, pc, memory>> /\ Unbounded

ListPending ==
    /\ Stale # {}
    /\ row' = Swept
    /\ UNCHANGED <<late, executed, autoApprove, pc, memory>> /\ Unbounded

(* record_execution: a decided row, and the first write wins. *)
Recorded(c) == IF row[c] \in {"approved", "denied"} THEN executed \cup {c} ELSE executed

ToolReturns(c) ==
    /\ pc[c] = "running"
    /\ Goto(c, "finished")
    /\ executed' = IF row[c] # "absent" THEN Recorded(c) ELSE executed
    /\ UNCHANGED <<row, late, autoApprove, memory>> /\ Unbounded

RecordFails(c) ==
    /\ pc[c] = "running"
    /\ row[c] # "absent"
    /\ Fails
    /\ Goto(c, "finished")
    /\ UNCHANGED <<store, autoApprove, memory, aborts, restarts>>

(* The turn's task is aborted at an await: the future is dropped as it is. *)
Abort(c) ==
    /\ pc[c] \in {"parked", "running"}
    /\ aborts < MaxAborts
    /\ aborts' = aborts + 1
    /\ Goto(c, IF pc[c] = "parked" THEN "gone" ELSE "cut")
    /\ UNCHANGED <<store, autoApprove, memory, errors, restarts>>

Restart ==
    /\ restarts < MaxRestarts
    /\ restarts' = restarts + 1
    /\ pc' = [c \in Calls |-> CASE pc[c] \in Waiting -> "forgotten"
                                [] pc[c] = "running" -> "lost"
                                [] OTHER -> pc[c]]
    /\ waiters' = {}
    /\ sent' = [c \in Calls |-> "none"]
    /\ asking' = [c \in Calls |-> {}]
    /\ deciding' = [c \in Calls |-> "none"]
    /\ route' = [t \in Threads |-> NoCall]
    /\ UNCHANGED <<store, autoApprove, aborts, errors>>

CallStep(c) ==
    \/ PassThrough(c) \/ RejectOrigin(c) \/ Register(c) \/ InsertPending(c)
    \/ Receive(c) \/ TimerFires(c) \/ TimeoutSweeps(c) \/ TimeoutDenies(c) \/ Reread(c)
    \/ ToolReturns(c)

Fault(c) ==
    \/ InsertFails(c) \/ TimeoutBlind(c) \/ (\E d \in Decisions : DecideFails(c, d))
    \/ SaveFails(c) \/ RecordFails(c) \/ Abort(c)

Next ==
    \/ \E c \in Calls : CallStep(c) \/ Fault(c) \/ Wake(c) \/ SaveAlways(c) \/ Elapse(c)
    \/ \E c \in Calls, d \in Decisions : Decide(c, d)
    \/ AskRpc \/ (\E t \in Threads : Reply(t)) \/ ListPending \/ Restart

Spec == Init /\ [][Next]_vars

(* A call that can run is polled, the timer of a parked call fires, and a *)
(* decide that committed goes on.                                          *)
FairSpec == Spec /\ \A c \in Calls : WF_vars(CallStep(c)) /\ WF_vars(Wake(c) \/ SaveAlways(c))

-----------------------------------------------------------------------------

TypeOK ==
    /\ row \in [Calls -> {"absent", "pending", "approved", "denied"}]
    /\ late \in SUBSET Calls
    /\ executed \in SUBSET Calls
    /\ autoApprove \in SUBSET Tools
    /\ pc \in [Calls -> Steps]
    /\ waiters \in SUBSET Calls
    /\ sent \in [Calls -> {"none"} \cup Decisions]
    /\ asking \in [Calls -> SUBSET Decisions]
    /\ deciding \in [Calls -> {"none", "saving"} \cup Decisions]
    /\ route \in [Threads -> Calls \cup {NoCall}]
    /\ aborts \in 0..MaxAborts /\ errors \in 0..MaxErrors /\ restarts \in 0..MaxRestarts

(* The outcome a call acted on is the decision its durable row shows: a call *)
(* that asked ran only on an approved row, and one refused for a decision    *)
(* never has an approved row, whichever of the timer and the user was first  *)
(* (gate.rs:485-533).                                                        *)
OutcomeMatchesRow ==
    \A c \in Calls :
        /\ pc[c] \in Performed /\ row[c] # "absent" => row[c] = "approved"
        /\ pc[c] = "refused" => row[c] # "approved"

(* Only an approved call that really ran has an execution stamp, although    *)
(* record_execution itself accepts any decided row (store.rs:329-378).       *)
ExecutedWasApproved ==
    \A c \in executed : row[c] = "approved" /\ pc[c] = "finished"

(* An approval on the row of a parked call is on its way to it: there is no  *)
(* moment at which decide finds no waiter although the call still waits      *)
(* (gate.rs:384-393).  A failed statement is the exception; the timer heals. *)
ApprovalReachesCall ==
    \A c \in Calls :
        pc[c] = "parked" /\ row[c] = "approved" /\ errors = 0
            => deciding[c] \in Decisions \/ Grants(sent[c])

(* A thread points to a call that still waits, or to one whose turn was      *)
(* aborted while it waited: every other way out of the gate clears it, the   *)
(* late approval included (gate.rs:501-537).                                 *)
RouteIsWaiting ==
    \A t \in Threads :
        route[t] # NoCall => /\ ThreadOf[route[t]] = t
                             /\ pc[route[t]] \in Waiting \cup {"gone"}

(* A parked call comes out by a decision, its timer, an abort or a restart,  *)
(* even when the decision's SELECT failed after its UPDATE.                  *)
ParkedCallsEnd == \A c \in Calls : pc[c] = "parked" ~> pc[c] # "parked"

(* An approval given while the call is parked is not lost: the call runs     *)
(* unless its turn or the process ended first or the store failed.           *)
ApprovalIsHonoured ==
    \A c \in Calls :
        pc[c] = "parked" /\ row[c] = "approved"
            ~> pc[c] \in Performed \cup {"gone", "forgotten", "blind"}

(* The abstract view of the rows and calls. *)
Ruling == [c \in Calls |-> CASE row[c] = "approved" -> "granted"
                             [] row[c] = "denied" -> "denied"
                             [] OTHER -> "none"]

Promise == INSTANCE Consent WITH
    NeedsNone <- {c \in Calls : OriginOf[c] \in Trusted},
    ruling <- Ruling,
    performed <- {c \in Calls : pc[c] \in Performed},
    standing <- autoApprove

(* Every step of the gate is a step the user agreed to. *)
KeepsConsent == Promise!Spec
=============================================================================
