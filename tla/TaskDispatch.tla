---------------------------- MODULE TaskDispatch ----------------------------
(***************************************************************************)
(* One task board and the autonomous runs of its cards: the poller and the *)
(* triage arm dispatch cards, runs settle them, stale runs are reclaimed,  *)
(* users and agents edit the board (agent/task_dispatcher/, todos/ops.rs,  *)
(* todos/runs.rs, the card steps of agent/triage/escalation.rs).           *)
(*                                                                         *)
(* Every board operation reads the whole file and writes the whole file    *)
(* back: its read and its write are two steps, and only claim_card holds   *)
(* the board lock across them.  The run records have a lock of their own   *)
(* and change in one step.  A section is the code between two awaits:      *)
(* Sections of them may overlap, as on the threads of the runtime.         *)
(***************************************************************************)
EXTENDS Naturals, FiniteSets

CONSTANTS
    Cards, NoCard,
    Poller,         \* the board poller
    Triages,        \* triage turns that act on a card
    Users,          \* RPC and tool calls that edit the board by hand
    MaxRuns,        \* runs are 1..MaxRuns, used in order
    Gated,          \* cards whose plan a human must approve
    MaxReclaims,    \* RunLimits::max_reclaim_count
    AgentStatuses,  \* the statuses a run's own agent may give its card
    Sections,       \* how many synchronous sections may overlap
    OutlivesTtl,    \* a run may still work when its claim TTL ends
    TornReclaim,    \* the process may end inside a reclaim
    FailingSteps,   \* subset of {"create", "beat", "save", "record"}
    MaxMoved,       \* bound on cards that users move by hand
    MaxFaults       \* bound on ends of the process and failing steps

Runs == 1..MaxRuns
Statuses == {"absent", "todo", "awaiting", "ready", "in_progress", "blocked",
             "done", "rejected"}
Task(r) == <<"task", r>>
Canceller(r) == <<"cancel", r>>
Tasks == {Task(r) : r \in Runs}
Dispatchers == {Poller} \cup Triages
Actors == Dispatchers \cup Users \cup Tasks \cup {Canceller(r) : r \in Runs}

ASSUME DispatchAssumption ==
    /\ MaxRuns \in Nat /\ MaxReclaims \in Nat /\ MaxFaults \in Nat
    /\ MaxMoved \in Nat /\ Sections \in Nat \ {0}
    /\ NoCard \notin Cards /\ IsFiniteSet(Cards)
    /\ IsFiniteSet(Triages) /\ IsFiniteSet(Users)
    /\ Poller \notin Triages
    /\ Users \cap Dispatchers = {}
    /\ (Users \cup Dispatchers) \cap {<<k, r>> : k \in {"task", "cancel"}, r \in Runs} = {}
    /\ Gated \subseteq Cards
    /\ AgentStatuses \subseteq {"todo", "in_progress", "blocked", "done"}
    /\ {OutlivesTtl, TornReclaim} \subseteq BOOLEAN
    /\ FailingSteps \subseteq {"create", "beat", "save", "record"}

VARIABLES
    board,      \* the board file: the status of every card
    rec,        \* the runs file
    op,         \* what each actor is in the middle of
    beating,    \* runs whose heartbeat task ticks
    registry,   \* ACTIVE_RUNS
    headless,   \* runs without a session thread: never registered
    moved,      \* cards a user has moved by hand
    faults

files == <<board, rec>>
memory == <<op, beating, registry, headless>>
vars == <<board, rec, op, beating, registry, headless, moved, faults>>

NoBoard == [c \in {} |-> "absent"]
Idle == [at |-> "idle", card |-> NoCard, run |-> 0, want |-> "none",
         then |-> "idle", draft |-> NoBoard, left |-> {}]
NoRecord == [card |-> NoCard, state |-> "none", fresh |-> FALSE]

Init ==
    /\ board \in [Cards -> {"absent", "todo"}]
    /\ rec = [r \in Runs |-> NoRecord]
    /\ op = [a \in Actors |-> IF a \in Tasks THEN [Idle EXCEPT !.at = "unused"] ELSE Idle]
    /\ beating = {} /\ registry = {} /\ headless = {} /\ moved = {}
    /\ faults = 0

(* Places between two synchronous sections. *)
Resting == {"idle", "chosen", "unused", "live", "off"}
Turn(a) == Cardinality({b \in Actors \ {a} : op[b].at \notin Resting}) < Sections

Active(r) == rec[r].state = "active"
Goto(a, l) == op' = [op EXCEPT ![a].at = l]
Begin(a, o) == op' = [op EXCEPT ![a] = o]
Faultless == UNCHANGED <<moved, faults>>
Fails(step) == step \in FailingSteps /\ faults < MaxFaults /\ faults' = faults + 1

(* Mutant: the cap is left to the caller. *)
CappedNever(b) == TRUE

(* enforce_single_in_progress sees the copy that is going to be written. *)
Capped(b) == Cardinality({c \in Cards : b[c] = "in_progress"}) <= 1

With(c, s) == [board EXCEPT ![c] = s]
Editing(c, s, l) == [Idle EXCEPT !.at = "edits", !.card = c, !.want = s, !.then = l]

Resume(o) ==
    IF o.then \in {"idle", "off"} THEN [Idle EXCEPT !.at = o.then]
    ELSE [o EXCEPT !.at = o.then, !.then = "idle", !.draft = NoBoard,
                   !.want = IF o.then = "records" THEN @ ELSE "none"]

(* ops::edit: every caller goes on after an error. *)
Edit(a) ==
    /\ op[a].at = "edits"
    /\ Turn(a)
    /\ LET b == With(op[a].card, op[a].want)
       IN IF board[op[a].card] # "absent" /\ Capped(b)
          THEN Begin(a, [op[a] EXCEPT !.at = "saves", !.draft = b])
          ELSE Begin(a, Resume(op[a]))
    /\ UNCHANGED <<files, beating, registry, headless>> /\ Faultless

(* The save of an edit, or, at "claims", of claim_card under its lock. *)
Save(a) ==
    /\ op[a].at \in {"saves", "claims"}
    /\ Turn(a)
    /\ board' = op[a].draft
    /\ Begin(a, Resume(op[a]))
    /\ UNCHANGED <<rec, beating, registry, headless>> /\ Faultless

(* After a claim that is not saved the dispatch ends, except that a failed  *)
(* parking goes on to the main claim.                                       *)
Unsaved(o) == IF o.at = "saves" THEN Resume(o)
              ELSE IF o.then = "claimed" THEN Idle
              ELSE [o EXCEPT !.at = "claiming", !.draft = NoBoard]

SaveFails(a) ==
    /\ op[a].at \in {"saves", "claims"}
    /\ Turn(a)
    /\ Fails("save")
    /\ Begin(a, Unsaved(op[a]))
    /\ UNCHANGED <<files, beating, registry, headless, moved>>

---------------------------------------------------------------------------
(* The poller: reclaim, then pick. *)
(* Mutant: completion finds the run by its id alone. *)
ClosedAgain(r, s) == [rec EXCEPT ![r].state = s]

Closed(r, s) == IF Active(r) THEN [rec EXCEPT ![r].state = s] ELSE rec

Reclaims(c, f) == Cardinality({r \in Runs : f[r].card = c /\ f[r].state = "reclaimed"})
(* Mutant: the count is compared as the module's comment has it. *)
GivesUpAbove(c, f) == Reclaims(c, f) > MaxReclaims

GivesUp(c, f) == Reclaims(c, f) >= MaxReclaims

(* Mutant: a run that nobody works on is not looked for. *)
StaleNever(r) == FALSE

Stale(r) == Active(r) /\ ~rec[r].fresh

FindStale ==
    /\ op[Poller].at = "idle"
    /\ Turn(Poller)
    /\ Begin(Poller, [Idle EXCEPT !.at = "reclaims", !.left = {r \in Runs : Stale(r)}])
    /\ UNCHANGED <<files, beating, registry, headless>> /\ Faultless

ReclaimRun(r) ==
    /\ op[Poller].at = "reclaims"
    /\ Turn(Poller)
    /\ r \in op[Poller].left
    /\ rec' = Closed(r, "reclaimed")
    /\ LET left == op[Poller].left \ {r}
           c == rec[r].card
           s == IF GivesUp(c, rec') THEN "blocked" ELSE "todo"
       IN Begin(Poller, IF Active(r)
                        THEN [Editing(c, s, "reclaims") EXCEPT !.left = left]
                        ELSE [op[Poller] EXCEPT !.left = left])
    /\ UNCHANGED <<board, beating, registry, headless>> /\ Faultless

(* A run whose record cannot be saved is passed over until the next tick. *)
ReclaimFails(r) ==
    /\ op[Poller].at = "reclaims"
    /\ Turn(Poller)
    /\ r \in op[Poller].left /\ Active(r)
    /\ Fails("record")
    /\ Begin(Poller, [op[Poller] EXCEPT !.left = @ \ {r}])
    /\ UNCHANGED <<files, beating, registry, headless, moved>>

Unused == {r \in Runs : op[Task(r)].at = "unused"}

(* Bound: a dispatch starts only if a run is left for it. *)
RunLeft == Cardinality(Unused) >
    Cardinality({d \in Dispatchers : op[d].at \in {"chosen", "claiming", "claims", "claimed"}})

Picks == IF \E c \in Cards : board[c] = "in_progress" THEN {}
         ELSE {c \in Cards : board[c] \in {"todo", "ready"}}

Pick(c) ==
    /\ op[Poller].at = "reclaims" /\ op[Poller].left = {}
    /\ Turn(Poller)
    /\ c \in Picks /\ RunLeft
    /\ Begin(Poller, [Idle EXCEPT !.at = "chosen", !.card = c])
    /\ UNCHANGED <<files, beating, registry, headless>> /\ Faultless

PickNothing ==
    /\ op[Poller].at = "reclaims" /\ op[Poller].left = {}
    /\ Turn(Poller)
    /\ Picks = {} \/ ~RunLeft
    /\ Begin(Poller, Idle)
    /\ UNCHANGED <<files, beating, registry, headless>> /\ Faultless

(* A triage turn dispatches the card of its trigger, or rejects it. *)
TriageActs(d, c) ==
    /\ op[d].at = "idle"
    /\ Turn(d)
    /\ board[c] # "absent" /\ RunLeft
    /\ Begin(d, [Idle EXCEPT !.at = "chosen", !.card = c])
    /\ UNCHANGED <<files, beating, registry, headless>> /\ Faultless

TriageDrops(d, c) ==
    /\ op[d].at = "idle"
    /\ Turn(d)
    /\ board[c] \in {"todo", "ready", "awaiting"}
    /\ Begin(d, Editing(c, "rejected", "idle"))
    /\ UNCHANGED <<files, beating, registry, headless>> /\ Faultless

---------------------------------------------------------------------------
(* dispatch_card *)
Locked(d) == \E e \in Dispatchers \ {d} : op[e].at = "claims"

Claiming(d, b, l) == [op[d] EXCEPT !.at = "claims", !.draft = b, !.then = l]

(* Mutant: the setting is not read. *)
NeedsApprovalNever(c) == FALSE

NeedsApproval(c) == c \in Gated

Park(d) ==
    /\ op[d].at = "chosen" /\ NeedsApproval(op[d].card)
    /\ Turn(d) /\ ~Locked(d)
    /\ LET b == With(op[d].card, "awaiting")
       IN IF board[op[d].card] = "todo" /\ Capped(b)
          THEN Begin(d, Claiming(d, b, "idle"))
          ELSE Goto(d, "claiming")
    /\ UNCHANGED <<files, beating, registry, headless>> /\ Faultless

(* Mutant: a card in progress is claimed again. *)
ClaimableAgain == {"todo", "ready", "in_progress"}

Claimable == {"todo", "ready"}

Claim(d) ==
    /\ \/ op[d].at = "claiming"
       \/ op[d].at = "chosen" /\ ~NeedsApproval(op[d].card)
    /\ Turn(d) /\ ~Locked(d)
    /\ LET b == With(op[d].card, "in_progress")
       IN Begin(d, IF board[op[d].card] \in Claimable /\ Capped(b)
                   THEN Claiming(d, b, "claimed") ELSE Idle)
    /\ UNCHANGED <<files, beating, registry, headless>> /\ Faultless

Created(d, r) ==
    /\ op[d].at = "claimed"
    /\ Turn(d)
    /\ r \in Unused /\ \A s \in Unused : r <= s
    /\ op' = [op EXCEPT ![d] = [@ EXCEPT !.at = "created", !.run = r],
                        ![Task(r)] = [Idle EXCEPT !.at = "off"]]

CreateRun(d, r) ==
    /\ Created(d, r)
    /\ rec' = [rec EXCEPT ![r] = [card |-> op[d].card, state |-> "active", fresh |-> TRUE]]
    /\ beating' = beating \cup {r}
    /\ UNCHANGED <<board, registry, headless>> /\ Faultless

(* The run goes on without a record, and its heartbeat ends at once. *)
CreateFails(d, r) ==
    /\ Created(d, r)
    /\ Fails("create")
    /\ UNCHANGED <<files, beating, registry, headless, moved>>

(* The session thread is stamped on the card, with the rest of the board. *)
Stamp(d) ==
    /\ op[d].at = "created"
    /\ Turn(d)
    /\ Begin(d, IF board[op[d].card] = "absent" THEN [op[d] EXCEPT !.at = "stamped"]
                ELSE [op[d] EXCEPT !.at = "saves", !.draft = board, !.then = "stamped"])
    /\ UNCHANGED <<files, beating, registry, headless>> /\ Faultless

NoSession(d) ==
    /\ op[d].at = "created"
    /\ Turn(d)
    /\ Goto(d, "stamped")
    /\ headless' = headless \cup {op[d].run}
    /\ UNCHANGED <<files, beating, registry>> /\ Faultless

(* Registration precedes start_tx.send. *)
Spawn(d) ==
    /\ op[d].at = "stamped"
    /\ Turn(d)
    /\ LET r == op[d].run
       IN /\ op' = [op EXCEPT ![d] = Idle, ![Task(r)] =
                        [Idle EXCEPT !.at = "live", !.card = op[d].card, !.run = r]]
          /\ registry' = IF r \in headless THEN registry ELSE registry \cup {r}
    /\ UNCHANGED <<files, beating, headless>> /\ Faultless

---------------------------------------------------------------------------
(* The run, its write-back, and the cancel of its session. *)
AgentMoves(r, s) ==
    /\ op[Task(r)].at = "live"
    /\ Turn(Task(r))
    /\ Begin(Task(r), [Editing(op[Task(r)].card, s, "live") EXCEPT !.run = r])
    /\ UNCHANGED <<files, beating, registry, headless>> /\ Faultless

RunEnds(r, s) ==
    /\ op[Task(r)].at = "live"
    /\ Turn(Task(r))
    /\ Begin(Task(r), [op[Task(r)] EXCEPT !.at = "returns", !.want = s])
    /\ beating' = beating \ {r}
    /\ UNCHANGED <<files, registry, headless>> /\ Faultless

(* Mutant: the run writes back whoever took its entry. *)
StillOursAlways(r) == TRUE

StillOurs(r) == r \in registry \cup headless

Take(r) ==
    /\ op[Task(r)].at = "returns"
    /\ Turn(Task(r))
    /\ Goto(Task(r), IF StillOurs(r) THEN "settles" ELSE "off")
    /\ registry' = registry \ {r}
    /\ UNCHANGED <<files, beating, headless>> /\ Faultless

SelfBlocked(o) == o.want = "done" /\ board[o.card] = "blocked"

WriteBack(r) ==
    /\ op[Task(r)].at = "settles"
    /\ Turn(Task(r))
    /\ LET o == op[Task(r)]
       IN Begin(Task(r), [o EXCEPT !.at = IF SelfBlocked(o) THEN "records" ELSE "edits",
                                   !.then = "records"])
    /\ UNCHANGED <<files, beating, registry, headless>> /\ Faultless

(* Mutant: the record takes the status of the card. *)
OutcomeIsStatus(o) == o.want

Outcome(o) == IF o.want = "done" THEN "success" ELSE "failed"

Record(a) ==
    /\ op[a].at = "records"
    /\ Turn(a)
    /\ rec' = Closed(op[a].run, Outcome(op[a]))
    /\ Begin(a, [Idle EXCEPT !.at = "off"])
    /\ UNCHANGED <<board, beating, registry, headless>> /\ Faultless

(* A record that cannot be saved stays open, and only that is logged. *)
RecordFails(a) ==
    /\ op[a].at = "records"
    /\ Turn(a)
    /\ Fails("record")
    /\ Begin(a, [Idle EXCEPT !.at = "off"])
    /\ UNCHANGED <<files, beating, registry, headless, moved>>

(* abort stops a run at its next await: one inside a board edit finishes it, *)
(* one that has returned has no await left.                                  *)
Aborted(o) == IF o.at = "live" THEN [Idle EXCEPT !.at = "off"]
              ELSE IF o.then = "live" THEN [o EXCEPT !.then = "off"]
              ELSE o

Cancel(r) ==
    /\ r \in registry
    /\ Turn(Canceller(r))
    /\ registry' = registry \ {r}
    /\ beating' = beating \ {r}
    /\ op' = [op EXCEPT ![Task(r)] = Aborted(@), ![Canceller(r)] =
                  [Editing(op[Task(r)].card, "blocked", "records") EXCEPT !.run = r]]
    /\ UNCHANGED <<files, headless>> /\ Faultless

---------------------------------------------------------------------------
(* Users: a card is moved by hand at most once (a bound). *)
UserActs(u, c) ==
    /\ op[u].at = "idle"
    /\ Turn(u)
    /\ c \notin moved /\ Cardinality(moved) < MaxMoved
    /\ moved' = moved \cup {c}

UserEdits(u, c, s) ==
    /\ UserActs(u, c)
    /\ board[c] # "absent" /\ s # "absent"
    /\ Begin(u, Editing(c, s, "idle"))
    /\ UNCHANGED <<files, beating, registry, headless, faults>>

(* add, and remove, which has no cap to check. *)
UserWrites(u, c, s) ==
    /\ UserActs(u, c)
    /\ (board[c] = "absent") # (s = "absent")
    /\ Capped(With(c, s))
    /\ Begin(u, [Idle EXCEPT !.at = "saves", !.draft = With(c, s)])
    /\ UNCHANGED <<files, beating, registry, headless, faults>>

Decide(u, c, s) ==
    /\ op[u].at = "idle"
    /\ Turn(u)
    /\ board[c] = "awaiting"
    /\ Begin(u, Editing(c, s, "idle"))
    /\ UNCHANGED <<files, beating, registry, headless>> /\ Faultless

---------------------------------------------------------------------------
(* Time and faults.  A heartbeat ticks every 30 s and is stale after 300 s, *)
(* so a run that beats or is being written back does not go stale, unless   *)
(* its claim reaches the TTL of 3600 s.                                      *)
Silent(r) == r \notin beating /\ op[Task(r)].at \in Resting /\ op[Canceller(r)].at \in Resting

Age(r) ==
    /\ Active(r) /\ rec[r].fresh
    /\ OutlivesTtl \/ Silent(r)
    /\ rec' = [rec EXCEPT ![r].fresh = FALSE]
    /\ UNCHANGED <<board, memory>> /\ Faultless

BeatFails(r) ==
    /\ r \in beating
    /\ Fails("beat")
    /\ beating' = beating \ {r}
    /\ UNCHANGED <<files, op, registry, headless, moved>>

Restart ==
    /\ faults < MaxFaults /\ faults' = faults + 1
    /\ TornReclaim \/ op[Poller].then # "reclaims"
    /\ op' = [a \in Actors |-> IF a \in Tasks /\ op[a].at # "unused"
                               THEN [Idle EXCEPT !.at = "off"]
                               ELSE IF a \in Tasks THEN op[a] ELSE Idle]
    /\ beating' = {} /\ registry' = {} /\ headless' = {}
    /\ UNCHANGED <<files, moved>>

---------------------------------------------------------------------------
Dispatch(d) == Park(d) \/ Claim(d) \/ Stamp(d) \/ NoSession(d) \/ Spawn(d)
               \/ \E r \in Runs : CreateRun(d, r) \/ CreateFails(d, r)
Poll == FindStale \/ PickNothing \/ (\E r \in Runs : ReclaimRun(r) \/ ReclaimFails(r))
        \/ (\E c \in Cards : Pick(c))
Triage(d) == \E c \in Cards : TriageActs(d, c) \/ TriageDrops(d, c)
Run(r) == Take(r) \/ WriteBack(r) \/ Cancel(r)
          \/ (\E s \in AgentStatuses : AgentMoves(r, s))
          \/ (\E s \in {"done", "blocked"} : RunEnds(r, s))
User(u) == \E c \in Cards :
    \/ \E s \in Statuses : UserEdits(u, c, s) \/ UserWrites(u, c, s)
    \/ \E s \in {"ready", "rejected"} : Decide(u, c, s)

Next ==
    \/ Poll
    \/ \E d \in Dispatchers : Dispatch(d)
    \/ \E d \in Triages : Triage(d)
    \/ \E r \in Runs : Run(r) \/ Age(r) \/ BeatFails(r)
    \/ \E a \in Actors : Edit(a) \/ Save(a) \/ SaveFails(a) \/ Record(a) \/ RecordFails(a)
    \/ \E u \in Users : User(u)
    \/ Restart

Spec == Init /\ [][Next]_vars

(* The board operations as todos/ops.rs describes them, each atomic: from the *)
(* first look at a card to the save nobody else is in one, whatever else      *)
(* overlaps.  The code does not enforce it: dispatch_claim_lost shows what    *)
(* happens without.                                                           *)
OnBoard(a) == op[a].at \in {"edits", "saves", "claims", "claiming"}
EditsApart == \A a, b \in Actors : OnBoard(a) /\ OnBoard(b) => a = b

ApartSpec == Init /\ [][Next /\ EditsApart']_vars

(* What has begun goes on, the poller ticks, runs end, and time passes.  SF *)
(* where a section must get its turn again and again: the runtime polls     *)
(* every task that is ready.                                                 *)
FairSpec ==
    /\ ApartSpec
    /\ SF_vars(Poll)
    /\ \A d \in Dispatchers : SF_vars(Dispatch(d))
    /\ \A a \in Actors : WF_vars(Edit(a) \/ Save(a) \/ Record(a))
    /\ \A r \in Runs : /\ SF_vars(\E s \in {"done", "blocked"} : RunEnds(r, s))
                       /\ WF_vars(Take(r) \/ WriteBack(r))
                       /\ WF_vars(Age(r))
---------------------------------------------------------------------------
Places == Resting \cup {"reclaims", "edits", "saves", "claims", "claiming", "claimed",
                        "created", "stamped", "returns", "settles", "records"}
Resumes == {"idle", "reclaims", "claimed", "stamped", "live", "off", "records"}
Boards == [Cards -> Statuses]
Ops == [at : Places, then : Resumes, card : Cards \cup {NoCard}, run : Runs \cup {0},
        want : Statuses \cup {"none"}, draft : Boards \cup {NoBoard}, left : SUBSET Runs]
RunStates == {"none", "active", "success", "failed", "reclaimed"}

(* Every variable has its type. *)
TypeOK ==
    /\ board \in Boards
    /\ rec \in [Runs -> [card : Cards \cup {NoCard}, state : RunStates, fresh : BOOLEAN]]
    /\ op \in [Actors -> Ops]
    /\ beating \subseteq Runs /\ registry \subseteq Runs /\ headless \subseteq Runs
    /\ moved \subseteq Cards
    /\ faults \in 0..MaxFaults

(* At most one card of the board is in progress, whatever reads and writes *)
(* of the file overlap: every writer checks the copy it writes.            *)
OneInProgress ==
    \A c, e \in Cards : board[c] = "in_progress" /\ board[e] = "in_progress" => c = e

(* Once a cancel owns a run's write-back the run's own task never writes   *)
(* back: whoever takes the registry entry does, exactly once.              *)
OneWriteBack ==
    \A r \in Runs : op[Canceller(r)].at # "idle" =>
        /\ op[Task(r)].at \notin {"settles", "records"}
        /\ op[Task(r)].then # "records"

(* A closed record keeps its outcome: a run reclaimed under its task, or   *)
(* cancelled, is not closed again by the late write-back.                  *)
OutcomeFinal ==
    [][\A r \in Runs : rec[r].state \in {"success", "failed", "reclaimed"}
            => rec'[r].state = rec[r].state]_vars

(* A card that nobody moves by hand is reclaimed at most MaxReclaims times. *)
ReclaimsBounded == \A c \in Cards \ moved : Reclaims(c, rec) <= MaxReclaims

(* No card has two active runs: the claim makes it safe that the poller    *)
(* and a triage turn both dispatch it.                                     *)
OneActiveRun ==
    \A r, s \in Runs : Active(r) /\ Active(s) /\ rec[r].card = rec[s].card => r = s

(* A card whose plan a human must approve starts only from ready, however   *)
(* often it is parked, rejected, run and reclaimed.                         *)
GatedRunsApproved ==
    [][\A c \in Gated : board[c] # "in_progress" /\ board'[c] = "in_progress"
                         => board[c] = "ready"]_vars

(* A card in progress whose run has an active record leaves that column:   *)
(* its run settles it, or the record goes stale and is reclaimed.          *)
TrackedCardsSettle ==
    \A c \in Cards : (board[c] = "in_progress" /\ \E r \in Runs : Active(r) /\ rec[r].card = c)
                     ~> board[c] # "in_progress"

(* With everybody at rest, a card in progress has a run with an active      *)
(* record: nothing else brings the card out of that column.                *)
InProgressIsTracked ==
    (\A a \in Actors : op[a].at \in {"idle", "unused", "off"}) =>
        \A c \in Cards : board[c] = "in_progress" => \E r \in Runs : Active(r) /\ rec[r].card = c

(* The promise of TaskLifecycle about the cards no user has moved.  Once a *)
(* cancel has taken a run's entry it is the cancel that works on the card. *)
Holder(r) == IF op[Canceller(r)].at = "idle" THEN Task(r) ELSE Canceller(r)

Works(o, c) == o.at \notin {"idle", "unused", "off"} /\ o.card = c

Workers(c) == IF c \in moved THEN {} ELSE {r \in Runs : Works(op[Holder(r)], c)}

Reclaiming(c) == op[Poller].then = "reclaims" /\ op[Poller].card = c

Unaccounted == {c \in Cards \ moved :
                   Reclaiming(c) \/ \E r \in Runs : Active(r) /\ rec[r].card = c}

Life == INSTANCE TaskLifecycle WITH
            status <- board, worker <- [c \in Cards |-> Workers(c)],
            open <- Unaccounted, taken <- moved

KeepsLifecycle == Life!Spec

=============================================================================
