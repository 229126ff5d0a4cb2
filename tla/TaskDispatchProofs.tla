------------------------- MODULE TaskDispatchProofs -------------------------
(***************************************************************************)
(* What TaskDispatch guarantees for any cards, runs, writers and faults,   *)
(* and whatever number of sections overlap.                                *)
(***************************************************************************)
EXTENDS TaskDispatch, FiniteSetTheorems, TLAPS

USE DispatchAssumption DEF Runs

(* What an actor is in the middle of is well formed: a status to set is a   *)
(* status, a copy to save passed the cap, and who goes on to spawn a run    *)
(* holds one.                                                               *)
GoodOp(o) ==
    /\ o \in Ops
    /\ o.at \in {"returns", "settles", "edits"} => o.want \in Statuses
    /\ o.at \in {"saves", "claims"} => o.draft \in Boards /\ Capped(o.draft)
    /\ o.at \in {"created", "stamped"} \/ o.then = "stamped" => o.run \in Runs

Reports(o) == o.at \in {"settles", "records"} \/ o.then = "records"

(* Who owns a run: nobody, then one dispatcher, then its task, and a cancel  *)
(* only after it took the registry entry.                                   *)
Owned(r) ==
    /\ r \in registry => r \notin headless /\ ~Reports(op[Task(r)])
    /\ op[Canceller(r)].at # "idle" =>
           r \notin registry \cup headless /\ ~Reports(op[Task(r)])
    /\ \A d \in Dispatchers : op[d].run = r =>
           /\ r \notin registry /\ op[Canceller(r)].at = "idle"
           /\ \A e \in Dispatchers : op[e].run = r => e = d
    /\ op[Task(r)].at = "unused" =>
           /\ r \notin registry /\ op[Canceller(r)].at = "idle"
           /\ rec[r].state = "none"
           /\ \A d \in Dispatchers : op[d].run # r

OpsGood == \A a \in Actors : GoodOp(op[a])
RunsOwned == \A r \in Runs : Owned(r)
IInv == TypeOK /\ Capped(board) /\ OpsGood /\ RunsOwned

---------------------------------------------------------------------------
(* The actors are all different. *)
LEMMA ActorFacts ==
    /\ Dispatchers \subseteq Actors /\ Users \subseteq Actors /\ Poller \in Dispatchers
    /\ Triages \subseteq Dispatchers
    /\ \A r \in Runs : /\ Task(r) \in Actors /\ Canceller(r) \in Actors
                       /\ Task(r) \in Tasks /\ Canceller(r) \notin Tasks
                       /\ Task(r) \notin Users \cup Dispatchers
                       /\ Canceller(r) \notin Users \cup Dispatchers
    /\ \A r, s \in Runs : /\ Task(r) # Canceller(s)
                          /\ Task(r) = Task(s) => r = s
                          /\ Canceller(r) = Canceller(s) => r = s
    /\ Users \cap Dispatchers = {}
    /\ \A a \in Users \cup Dispatchers : a \notin Tasks
  BY DEF Actors, Dispatchers, Tasks, Task, Canceller

(* No copy with every card out of that column exceeds the cap. *)
LEMMA NoneCapped ==
    ASSUME NEW b, \A c \in Cards : b[c] # "in_progress" PROVE Capped(b)
<1>1. {c \in Cards : b[c] = "in_progress"} = {}
  OBVIOUS
<1>2. QED
  BY <1>1, FS_EmptySet DEF Capped

(* The cap, as the writers count it, leaves room for one card. *)
LEMMA CappedMeansOne ==
    ASSUME NEW b, Capped(b), NEW c \in Cards, NEW e \in Cards,
           b[c] = "in_progress", b[e] = "in_progress"
    PROVE  c = e
<1> DEFINE S == {x \in Cards : b[x] = "in_progress"}
<1>1. IsFiniteSet(S) /\ IsFiniteSet(S \ {c})
  BY FS_Subset
<1>2. Cardinality(S \ {c}) = Cardinality(S) - 1
  BY <1>1, FS_RemoveElement
<1>3. Cardinality(S) \in Nat /\ Cardinality(S \ {c}) \in Nat
  BY <1>1, FS_CardinalityType
<1>4. Cardinality(S \ {c}) = 0
  BY <1>2, <1>3 DEF Capped
<1>5. S \ {c} = {}
  BY <1>1, <1>4, FS_EmptySet
<1>6. QED
  BY <1>5

LEMMA Drafts ==
    ASSUME TypeOK, NEW c, NEW s \in Statuses PROVE With(c, s) \in Boards
  BY DEF TypeOK, With, Boards

LEMMA OpsMember ==
    ASSUME NEW l \in Places, NEW t \in Resumes, NEW c \in Cards \cup {NoCard},
           NEW r \in Runs \cup {0}, NEW s \in Statuses \cup {"none"},
           NEW b \in Boards \cup {NoBoard}, NEW S \in SUBSET Runs
    PROVE  [at |-> l, then |-> t, card |-> c, run |-> r, want |-> s, draft |-> b,
            left |-> S] \in Ops
  BY DEF Ops

LEMMA IdleGood ==
    ASSUME NEW l \in Resting PROVE GoodOp(Idle) /\ GoodOp([Idle EXCEPT !.at = l])
  BY DEF GoodOp, Idle, Ops, Places, Resumes, Resting

LEMMA EditingGood ==
    ASSUME NEW c \in Cards \cup {NoCard}, NEW s \in Statuses,
           NEW l \in Resumes \ {"stamped"}, NEW r \in Runs \cup {0}, NEW S \in SUBSET Runs
    PROVE  GoodOp([Editing(c, s, l) EXCEPT !.run = r, !.left = S])
  BY DEF GoodOp, Editing, Idle, Ops, Places, Resumes

LEMMA ResumeGood ==
    ASSUME NEW o, GoodOp(o)
    PROVE  /\ GoodOp(Resume(o))
           /\ Resume(o).run \in {0, o.run}
           /\ Reports(Resume(o)) => Reports(o)
           /\ Resume(o).at # "unused"
<1>1. CASE o.then \in {"idle", "off"}
  BY <1>1, IdleGood DEF Resume, GoodOp, Ops, Places, Idle, Reports, Resting
<1>2. CASE o.then \notin {"idle", "off"}
  <2>1. Resume(o) = [o EXCEPT !.at = o.then, !.then = "idle", !.draft = NoBoard,
                     !.want = IF o.then = "records" THEN o.want ELSE "none"]
    BY <1>2 DEF Resume
  <2>2. o \in Ops /\ o.then \in {"reclaims", "claimed", "stamped", "live", "records"}
    BY <1>2 DEF GoodOp, Ops, Resumes
  <2>3. /\ Resume(o).at = o.then /\ Resume(o).then = "idle" /\ Resume(o).run = o.run
        /\ Resume(o).card = o.card /\ Resume(o).left = o.left /\ Resume(o).draft = NoBoard
        /\ Resume(o).want \in {o.want, "none"}
    BY <2>1, <2>2 DEF Ops
  <2>4. Resume(o) = [at |-> Resume(o).at, then |-> Resume(o).then, card |-> Resume(o).card,
                     run |-> Resume(o).run, want |-> Resume(o).want,
                     draft |-> Resume(o).draft, left |-> Resume(o).left]
    BY <2>1, <2>2 DEF Ops
  <2>5. Resume(o) \in Ops
    <3>1. o.card \in Cards \cup {NoCard} /\ o.run \in Runs \cup {0} /\ o.left \in SUBSET Runs
          /\ o.want \in Statuses \cup {"none"}
      BY <2>2 DEF Ops
    <3>2. Resume(o).at \in Places /\ Resume(o).then \in Resumes
          /\ Resume(o).want \in Statuses \cup {"none"}
      BY <2>2, <2>3, <3>1 DEF Places, Resumes, Resting
    <3> HIDE DEF Runs
    <3>3. QED
      BY <2>3, <2>4, <3>1, <3>2, OpsMember DEF Resumes
  <2>6. QED
    BY <2>2, <2>3, <2>5 DEF GoodOp, Reports
<1>3. QED
  BY <1>1, <1>2

---------------------------------------------------------------------------
(* Steps in which one actor moves and no run changes hands. *)
OpsKept == op' \in [Actors -> Ops] /\ OpsGood' /\ RunsOwned'

LEMMA LocalStep ==
    ASSUME IInv, NEW a \in Actors, NEW o, GoodOp(o), op' = [op EXCEPT ![a] = o],
           UNCHANGED <<registry, headless>>,
           \A r \in Runs : rec[r].state = "none" => rec'[r].state = "none",
           a \in Dispatchers => o.run \in {0, op[a].run},
           \A r \in Runs : a = Canceller(r) => op[a].at # "idle",
           \A r \in Runs : a = Task(r) => o.at # "unused" /\ (Reports(o) => Reports(op[a]))
    PROVE  OpsKept
<1>1. op \in [Actors -> Ops] /\ o \in Ops
  BY DEF IInv, TypeOK, GoodOp
<1>2. \A b \in Actors : op'[b] = IF b = a THEN o ELSE op[b]
  BY <1>1
<1>3. OpsGood'
  <2> SUFFICES ASSUME NEW b \in Actors PROVE GoodOp(op'[b])
    BY DEF OpsGood, GoodOp, Capped, Boards
  <2>1. QED
    BY <1>2 DEF IInv, OpsGood
<1>4. ASSUME NEW r \in Runs PROVE Owned(r)'
  <2>1. Owned(r) /\ Task(r) \in Actors /\ Canceller(r) \in Actors /\ Task(r) # Canceller(r)
    BY ActorFacts DEF IInv, RunsOwned
  <2>2. \A d \in Dispatchers : op'[d].run \in {0, op[d].run}
    BY <1>2, ActorFacts
  <2>3. \A d \in Dispatchers : op'[d].run = r => op[d].run = r
    BY <2>2
  <2>4. op'[Canceller(r)].at # "idle" => op[Canceller(r)].at # "idle"
    BY <1>2, <2>1
  <2>5. Reports(op'[Task(r)]) => Reports(op[Task(r)])
    BY <1>2, <2>1
  <2>6. op'[Task(r)].at = "unused" => op[Task(r)].at = "unused"
    BY <1>2, <2>1
  <2>7. (r \in registry)' = (r \in registry) /\ (r \in headless)' = (r \in headless)
    OBVIOUS
  <2> HIDE DEF Runs
  <2>8. QED
    BY <2>1, <2>3, <2>4, <2>5, <2>6, <2>7 DEF Owned, Reports
<1>5. QED
  BY <1>1, <1>3, <1>4 DEF OpsKept, RunsOwned

LEMMA OuterStep ==
    ASSUME IInv, NEW a \in Dispatchers \cup Users, NEW o, GoodOp(o), op' = [op EXCEPT ![a] = o],
           UNCHANGED <<registry, headless>>,
           \A r \in Runs : rec[r].state = "none" => rec'[r].state = "none",
           o.run \in {0, op[a].run}
    PROVE  OpsKept
<1> HIDE DEF Runs
<1>1. a \in Actors /\ \A r \in Runs : a # Canceller(r) /\ a # Task(r)
  BY ActorFacts
<1>2. QED
  BY <1>1, LocalStep

LEMMA OuterOnly ==
    ASSUME IInv, NEW a \in Dispatchers \cup Users, NEW o, GoodOp(o), op' = [op EXCEPT ![a] = o],
           UNCHANGED <<files, beating, registry, headless, faults>>, moved' \subseteq Cards,
           o.run \in {0, op[a].run}
    PROVE  IInv'
<1>1. OpsKept
  BY OuterStep DEF files
<1>2. QED
  BY <1>1 DEF OpsKept, IInv, TypeOK, files, Capped

LEMMA OpFacts ==
    ASSUME IInv, NEW a \in Actors
    PROVE  /\ GoodOp(op[a]) /\ op[a] \in Ops
           /\ op[a].at \in Places /\ op[a].then \in Resumes /\ op[a].left \subseteq Runs
           /\ op[a].run \in Runs \cup {0} /\ op[a].card \in Cards \cup {NoCard}
           /\ op[a].want \in Statuses \cup {"none"}
  BY DEF IInv, OpsGood, GoodOp, Ops

(* The poller's steps. *)
LEMMA PollStep == ASSUME IInv, Poll PROVE IInv'
<1>0. Poller \in Dispatchers \cup Users /\ Poller \in Actors
  BY ActorFacts
<1>1. CASE FindStale
  <2> DEFINE o == [Idle EXCEPT !.at = "reclaims", !.left = {r \in Runs : Stale(r)}]
  <2>1. GoodOp(o) /\ o.run = 0
    BY DEF GoodOp, Idle, Ops, Places, Resumes
  <2>2. QED
    BY <1>0, <1>1, <2>1, OuterOnly DEF FindStale, Begin, Faultless, IInv, TypeOK
<1>2. CASE PickNothing
  BY <1>0, <1>2, IdleGood, OuterOnly DEF PickNothing, Begin, Faultless, IInv, TypeOK, Idle, Resting
<1>3. ASSUME NEW c \in Cards, Pick(c) PROVE IInv'
  <2> DEFINE o == [Idle EXCEPT !.at = "chosen", !.card = c]
  <2>1. GoodOp(o) /\ o.run = 0
    BY DEF GoodOp, Idle, Ops, Places, Resumes, Resting
  <2>2. QED
    BY <1>0, <1>3, <2>1, OuterOnly DEF Pick, Begin, Faultless, IInv, TypeOK
<1>4. ASSUME NEW r \in Runs, ReclaimRun(r) PROVE IInv'
  <2> DEFINE left == op[Poller].left \ {r}
             s == IF GivesUp(rec[r].card, rec') THEN "blocked" ELSE "todo"
             e == [Editing(rec[r].card, s, "reclaims") EXCEPT !.left = left]
             k == [op[Poller] EXCEPT !.left = left]
             o == IF Active(r) THEN e ELSE k
  <2>1. left \in SUBSET Runs /\ rec[r].card \in Cards \cup {NoCard} /\ s \in Statuses
    BY <1>0, OpFacts DEF IInv, TypeOK, Statuses
  <2>2. GoodOp(e) /\ e.run = 0
    <3> HIDE DEF s, left
    <3>1. QED
      BY <2>1 DEF GoodOp, Editing, Idle, Ops, Places, Resumes
  <2>3. GoodOp(k) /\ k.run = op[Poller].run
    <3> HIDE DEF left
    <3>1. op[Poller].at = "reclaims" /\ GoodOp(op[Poller])
      BY <1>0, <1>4, OpFacts DEF ReclaimRun
    <3>2. QED
      BY <2>1, <3>1 DEF GoodOp, Ops
  <2>4. op' = [op EXCEPT ![Poller] = o]
    BY <1>4 DEF ReclaimRun, Begin
  <2>5. UNCHANGED <<board, beating, registry, headless, moved, faults>> /\ rec' = Closed(r, "reclaimed")
    BY <1>4 DEF ReclaimRun, Faultless
  <2>6. /\ rec' \in [Runs -> [card : Cards \cup {NoCard}, state : RunStates, fresh : BOOLEAN]]
        /\ \A q \in Runs : rec[q].state = "none" => rec'[q].state = "none"
    BY <2>5 DEF Closed, Active, IInv, TypeOK, RunStates
  <2>7. OpsKept
    <3> HIDE DEF e, k
    <3>1. GoodOp(o) /\ o.run \in {0, op[Poller].run}
      BY <2>2, <2>3
    <3> HIDE DEF o
    <3>2. QED
      BY <1>0, <2>4, <2>5, <2>6, <3>1, OuterStep
  <2>8. QED
    BY <2>5, <2>6, <2>7 DEF OpsKept, IInv, TypeOK, Capped
<1>5. ASSUME NEW r \in Runs, ReclaimFails(r) PROVE IInv'
  <2> DEFINE k == [op[Poller] EXCEPT !.left = @ \ {r}]
  <2>1. GoodOp(k) /\ k.run = op[Poller].run
    <3>1. op[Poller].at = "reclaims" /\ GoodOp(op[Poller])
      BY <1>0, <1>5, OpFacts DEF ReclaimFails
    <3>2. QED
      BY <3>1 DEF GoodOp, Ops
  <2>2. op' = [op EXCEPT ![Poller] = k] /\ faults' \in 0..MaxFaults
        /\ UNCHANGED <<board, rec, beating, registry, headless, moved>>
    BY <1>5 DEF ReclaimFails, Begin, Fails, files, IInv, TypeOK
  <2>3. OpsKept
    <3> HIDE DEF k
    <3>1. QED
      BY <1>0, <2>1, <2>2, OuterStep
  <2>4. QED
    BY <2>2, <2>3 DEF OpsKept, IInv, TypeOK, Capped
<1>6. QED
  BY <1>1, <1>2, <1>3, <1>4, <1>5 DEF Poll

(* The steps of a triage turn and of a user. *)
LEMMA OutsideStep ==
    ASSUME IInv, \/ \E d \in Triages : Triage(d)
                 \/ \E u \in Users : User(u)
    PROVE IInv'
<1>1. ASSUME NEW d \in Dispatchers \cup Users, NEW c \in Cards, NEW s \in Statuses,
             op' = [op EXCEPT ![d] = Editing(c, s, "idle")],
             UNCHANGED <<files, beating, registry, headless, faults>>, moved' \subseteq Cards
      PROVE IInv'
  <2>1. GoodOp(Editing(c, s, "idle")) /\ Editing(c, s, "idle").run = 0
    BY DEF GoodOp, Editing, Idle, Ops, Places, Resumes
  <2>2. QED
    BY <1>1, <2>1, OuterOnly
<1>2. moved \subseteq Cards
  BY DEF IInv, TypeOK
<1>3. ASSUME NEW d \in Triages, NEW c \in Cards, TriageActs(d, c) PROVE IInv'
  <2> DEFINE o == [Idle EXCEPT !.at = "chosen", !.card = c]
  <2>1. GoodOp(o) /\ o.run = 0
    BY DEF GoodOp, Idle, Ops, Places, Resumes, Resting
  <2>2. QED
    BY <1>2, <1>3, <2>1, ActorFacts, OuterOnly DEF TriageActs, Begin, Faultless
<1>4. ASSUME NEW d \in Triages, NEW c \in Cards, TriageDrops(d, c) PROVE IInv'
  BY <1>1, <1>2, <1>4, ActorFacts DEF TriageDrops, Begin, Faultless, Statuses
<1>5. ASSUME NEW u \in Users, NEW c \in Cards, NEW s \in Statuses, UserEdits(u, c, s) PROVE IInv'
  BY <1>1, <1>2, <1>5 DEF UserEdits, UserActs, Begin
<1>6. ASSUME NEW u \in Users, NEW c \in Cards, NEW s \in Statuses, UserWrites(u, c, s) PROVE IInv'
  <2> DEFINE b == With(c, s)
             o == [Idle EXCEPT !.at = "saves", !.draft = b]
  <2>1. b \in Boards /\ Capped(b)
    BY <1>6, Drafts DEF UserWrites, IInv
  <2>2. GoodOp(o) /\ o.run = 0
    <3> HIDE DEF b
    <3>1. QED
      BY <2>1 DEF GoodOp, Idle, Ops, Places, Resumes
  <2>3. QED
    BY <1>2, <1>6, <2>2, OuterOnly DEF UserWrites, UserActs, Begin
<1>7. ASSUME NEW u \in Users, NEW c \in Cards, NEW s \in {"ready", "rejected"}, Decide(u, c, s)
      PROVE IInv'
  BY <1>1, <1>2, <1>7 DEF Decide, Begin, Faultless, Statuses
<1>8. QED
  BY <1>3, <1>4, <1>5, <1>6, <1>7 DEF Triage, User

(* dispatch_card up to the claim, and the stamp of the session thread. *)
LEMMA ClaimStep ==
    ASSUME IInv, NEW d \in Dispatchers, Park(d) \/ Claim(d) \/ Stamp(d)
    PROVE  IInv'
<1> DEFINE o == op[d]
<1>1. o \in Ops /\ GoodOp(o) /\ d \in Actors /\ moved \subseteq Cards /\ board \in Boards
  BY ActorFacts, OpFacts DEF IInv, TypeOK
<1>2. ASSUME NEW b \in Boards, Capped(b), NEW l \in {"idle", "claimed"},
             op' = [op EXCEPT ![d] = Claiming(d, b, l)], ~(o.at \in {"created", "stamped"}),
             UNCHANGED <<files, beating, registry, headless>>, Faultless
      PROVE IInv'
  <2>1. Claiming(d, b, l) = [o EXCEPT !.at = "claims", !.draft = b, !.then = l]
    BY DEF Claiming
  <2> HIDE DEF o
  <2>2. GoodOp([o EXCEPT !.at = "claims", !.draft = b, !.then = l])
        /\ [o EXCEPT !.at = "claims", !.draft = b, !.then = l].run = o.run
    BY <1>1, <1>2 DEF GoodOp, Ops, Places, Resumes
  <2> USE DEF o
  <2>3. QED
    BY <1>1, <1>2, <2>1, <2>2, OuterOnly DEF Faultless
<1>3. CASE Park(d)
  <2> DEFINE b == With(o.card, "awaiting")
  <2>1. b \in Boards
    BY Drafts DEF IInv, Statuses
  <2>2. CASE board[o.card] = "todo" /\ Capped(b)
    BY <1>2, <1>3, <2>1, <2>2 DEF Park, Begin
  <2>3. CASE ~(board[o.card] = "todo" /\ Capped(b))
    <3>1. op' = [op EXCEPT ![d] = [op[d] EXCEPT !.at = "claiming"]] /\ o.at = "chosen"
      BY <1>3, <2>3 DEF Park, Goto
    <3> HIDE DEF o
    <3>2. GoodOp([o EXCEPT !.at = "claiming"]) /\ [o EXCEPT !.at = "claiming"].run = o.run
      BY <1>1, <3>1 DEF GoodOp, Ops, Places, Resumes
    <3> USE DEF o
    <3>3. QED
      BY <1>1, <1>3, <3>1, <3>2, OuterOnly DEF Park, Faultless
  <2>4. QED
    BY <2>2, <2>3
<1>4. CASE Claim(d)
  <2> DEFINE b == With(o.card, "in_progress")
  <2>1. b \in Boards
    BY Drafts DEF IInv, Statuses
  <2>2. CASE board[o.card] \in Claimable /\ Capped(b)
    BY <1>2, <1>4, <2>1, <2>2 DEF Claim, Begin
  <2>3. CASE ~(board[o.card] \in Claimable /\ Capped(b))
    <3>1. op' = [op EXCEPT ![d] = Idle]
      BY <1>4, <2>3 DEF Claim, Begin
    <3>2. GoodOp(Idle) /\ Idle.run = 0
      BY IdleGood DEF Idle, Resting
    <3>3. QED
      BY <1>1, <1>4, <3>1, <3>2, OuterOnly DEF Claim, Faultless
  <2>4. QED
    BY <2>2, <2>3
<1>5. CASE Stamp(d)
  <2> DEFINE p == [o EXCEPT !.at = "stamped"]
             q == [o EXCEPT !.at = "saves", !.draft = board, !.then = "stamped"]
  <2>1. o.at = "created" /\ o.run \in Runs /\ Capped(board)
    BY <1>1, <1>5 DEF Stamp, GoodOp, IInv
  <2>2. op' = [op EXCEPT ![d] = p] \/ op' = [op EXCEPT ![d] = q]
    BY <1>5 DEF Stamp, Begin
  <2>3. GoodOp(p) /\ p.run = o.run /\ GoodOp(q) /\ q.run = o.run
    <3> HIDE DEF o
    <3>1. QED
      BY <1>1, <2>1 DEF GoodOp, Ops, Places, Resumes
  <2> HIDE DEF p, q
  <2>4. QED
    BY <1>1, <1>5, <2>2, <2>3, OuterOnly DEF Stamp, Faultless
<1>6. QED
  BY <1>3, <1>4, <1>5

(* A run changes hands: from nobody to a dispatcher, from there to its task. *)
LEMMA HandStep ==
    ASSUME IInv, NEW d \in Dispatchers,
           \/ \E r \in Runs : CreateRun(d, r) \/ CreateFails(d, r)
           \/ NoSession(d) \/ Spawn(d)
    PROVE  IInv'
<1>1. op[d] \in Ops /\ GoodOp(op[d]) /\ d \in Actors /\ op \in [Actors -> Ops]
  BY ActorFacts, OpFacts DEF IInv, TypeOK
<1>2. \A r \in Runs : Task(r) \in Actors /\ Task(r) # d /\ Canceller(r) \in Actors
                      /\ Canceller(r) # d
                      /\ \A s \in Runs : Canceller(s) # Task(r) /\ (Task(s) = Task(r) => s = r)
  BY ActorFacts
<1>3. \A e \in Dispatchers : e \in Actors /\ \A r \in Runs : e # Task(r)
  BY ActorFacts
<1>4. ASSUME NEW r \in Runs, Created(d, r),
             UNCHANGED <<registry, headless>>,
             \A s \in Runs \ {r} : rec'[s] = rec[s]
      PROVE OpsKept
  <2> DEFINE p == [op[d] EXCEPT !.at = "created", !.run = r]
             q == [Idle EXCEPT !.at = "off"]
  <2>1. op[Task(r)].at = "unused" /\ op[d].at = "claimed"
    BY <1>4 DEF Created, Unused
  <2>2. GoodOp(p) /\ p.run = r /\ p \in Ops
    BY <1>1, <2>1 DEF GoodOp, Ops, Places, Resumes
  <2>3. GoodOp(q) /\ q.at = "off" /\ q.run = 0 /\ ~Reports(q) /\ q \in Ops
    BY IdleGood DEF Idle, Resting, Reports, GoodOp
  <2>4. op' = [op EXCEPT ![d] = p, ![Task(r)] = q]
    BY <1>4 DEF Created
  <2> HIDE DEF p, q
  <2>5. \A a \in Actors : op'[a] = IF a = d THEN p ELSE IF a = Task(r) THEN q ELSE op[a]
    BY <1>1, <1>2, <2>4
  <2>6. op' \in [Actors -> Ops] /\ OpsGood'
    BY <1>1, <2>2, <2>3, <2>4, <2>5 DEF OpsGood, IInv
  <2>7. ASSUME NEW s \in Runs PROVE Owned(s)'
    <3>1. Owned(s) /\ Owned(r)
      BY DEF IInv, RunsOwned
    <3>2. op'[Canceller(s)] = op[Canceller(s)]
      BY <1>2, <2>5
    <3>3. \A e \in Dispatchers : op'[e] = IF e = d THEN p ELSE op[e]
      BY <1>3, <2>5
    <3>4. op'[Task(s)] = IF s = r THEN q ELSE op[Task(s)]
      BY <1>2, <2>5
    <3> HIDE DEF Runs
    <3>5. CASE s = r
      BY <1>4, <2>1, <2>2, <2>3, <3>1, <3>2, <3>3, <3>4, <3>5 DEF Owned
    <3>6. CASE s # r
      BY <1>4, <2>1, <2>2, <2>3, <3>1, <3>2, <3>3, <3>4, <3>6 DEF Owned
    <3>7. QED
      BY <3>5, <3>6
  <2>8. QED
    BY <2>6, <2>7 DEF OpsKept, RunsOwned
<1>5. ASSUME NEW r \in Runs, CreateRun(d, r) PROVE IInv'
  <2>1. rec' \in [Runs -> [card : Cards \cup {NoCard}, state : RunStates, fresh : BOOLEAN]]
        /\ \A s \in Runs \ {r} : rec'[s] = rec[s]
    BY <1>1, <1>5 DEF CreateRun, IInv, TypeOK, RunStates, Ops
  <2>2. OpsKept
    BY <1>4, <1>5, <2>1 DEF CreateRun
  <2>3. QED
    BY <1>5, <2>1, <2>2 DEF CreateRun, Faultless, OpsKept, IInv, TypeOK, Capped
<1>6. ASSUME NEW r \in Runs, CreateFails(d, r) PROVE IInv'
  <2>1. OpsKept
    BY <1>4, <1>6 DEF CreateFails, files
  <2>2. QED
    BY <1>6, <2>1 DEF CreateFails, Fails, files, OpsKept, IInv, TypeOK, Capped
<1>7. CASE NoSession(d)
  <2> DEFINE h == op[d].run
             p == [op[d] EXCEPT !.at = "stamped"]
  <2>1. op[d].at = "created" /\ h \in Runs
    BY <1>1, <1>7 DEF NoSession, GoodOp
  <2>2. GoodOp(p) /\ p.run = h /\ p \in Ops
    BY <1>1, <2>1 DEF GoodOp, Ops, Places, Resumes, Resting
  <2>3. op' = [op EXCEPT ![d] = p]
    BY <1>7 DEF NoSession, Goto
  <2> HIDE DEF p, h
  <2>4. \A a \in Actors : op'[a] = IF a = d THEN p ELSE op[a]
    BY <1>1, <2>3
  <2>5. op' \in [Actors -> Ops] /\ OpsGood'
    BY <1>1, <2>2, <2>3, <2>4 DEF OpsGood, IInv
  <2>6. UNCHANGED <<board, rec, beating, registry, moved, faults>> /\ headless' = headless \cup {h}
    BY <1>7 DEF NoSession, Faultless, files, h
  <2>7. ASSUME NEW s \in Runs PROVE Owned(s)'
    <3>1. Owned(s) /\ Owned(h)
      BY <2>1 DEF IInv, RunsOwned
    <3>2. op'[Canceller(s)] = op[Canceller(s)] /\ op'[Task(s)] = op[Task(s)]
      BY <1>2, <2>4
    <3>3. \A e \in Dispatchers : op'[e].run = op[e].run
      BY <1>3, <2>2, <2>4 DEF h
    <3>4. h \notin registry /\ op[Canceller(h)].at = "idle"
      BY <3>1 DEF Owned, h
    <3> HIDE DEF Runs
    <3>5. QED
      BY <2>6, <3>1, <3>2, <3>3, <3>4 DEF Owned
  <2>8. QED
    BY <2>1, <2>5, <2>6, <2>7 DEF OpsKept, RunsOwned, IInv, TypeOK, Capped
<1>8. CASE Spawn(d)
  <2> DEFINE h == op[d].run
             q == [Idle EXCEPT !.at = "live", !.card = op[d].card, !.run = h]
  <2>1. op[d].at = "stamped" /\ h \in Runs
    BY <1>1, <1>8 DEF Spawn, GoodOp
  <2>2. GoodOp(q) /\ q.at = "live" /\ ~Reports(q) /\ q \in Ops
    BY <1>1, <2>1 DEF GoodOp, Ops, Places, Resumes, Resting, Idle, Reports
  <2>3. GoodOp(Idle) /\ Idle.run = 0 /\ Idle \in Ops
    BY IdleGood DEF Resting, Idle, GoodOp
  <2>4. op' = [op EXCEPT ![d] = Idle, ![Task(h)] = q]
    BY <1>8 DEF Spawn
  <2>5. UNCHANGED <<board, rec, beating, headless, moved, faults>>
        /\ registry' = IF h \in headless THEN registry ELSE registry \cup {h}
    BY <1>8 DEF Spawn, Faultless, files
  <2> HIDE DEF q, h
  <2>6. \A a \in Actors : op'[a] = IF a = d THEN Idle ELSE IF a = Task(h) THEN q ELSE op[a]
    BY <1>1, <1>2, <2>1, <2>4
  <2>7. op' \in [Actors -> Ops] /\ OpsGood'
    BY <1>1, <2>2, <2>3, <2>4, <2>6 DEF OpsGood, IInv
  <2>8. ASSUME NEW s \in Runs PROVE Owned(s)'
    <3>1. Owned(s) /\ Owned(h)
      BY <2>1 DEF IInv, RunsOwned
    <3>2. op'[Canceller(s)] = op[Canceller(s)]
      BY <1>2, <2>1, <2>6
    <3>3. op'[Task(s)] = IF s = h THEN q ELSE op[Task(s)]
      BY <1>2, <2>1, <2>6
    <3>4. \A e \in Dispatchers : op'[e] = IF e = d THEN Idle ELSE op[e]
      BY <1>3, <2>1, <2>6
    <3>5. \A e \in Dispatchers : op'[e].run = s => op[e].run = s /\ e # d
      BY <2>3, <3>4
    <3>6. /\ h \notin registry /\ op[Canceller(h)].at = "idle"
          /\ \A e \in Dispatchers : op[e].run = h => e = d
      BY <3>1 DEF Owned, h
    <3> HIDE DEF Runs
    <3>7. CASE s = h
      BY <2>2, <2>5, <3>1, <3>2, <3>3, <3>5, <3>6, <3>7 DEF Owned
    <3>8. CASE s # h
      BY <2>5, <3>1, <3>2, <3>3, <3>5, <3>8 DEF Owned
    <3>9. QED
      BY <3>7, <3>8
  <2>9. QED
    BY <2>1, <2>5, <2>7, <2>8 DEF OpsKept, RunsOwned, IInv, TypeOK, Capped
<1>9. QED
  BY <1>5, <1>6, <1>7, <1>8

(* Closing a record keeps the file well formed and opens none. *)
LEMMA ClosedFacts ==
    ASSUME TypeOK, NEW x \in Runs \cup {0}, NEW s \in RunStates
    PROVE  /\ Closed(x, s) \in [Runs -> [card : Cards \cup {NoCard}, state : RunStates,
                                         fresh : BOOLEAN]]
           /\ \A q \in Runs : rec[q].state # "active" => Closed(x, s)[q].state = rec[q].state
<1>1. CASE Active(x) /\ x \in Runs
  BY <1>1 DEF Closed, Active, TypeOK
<1>2. CASE Active(x) /\ x \notin Runs
  <2>1. [rec EXCEPT ![x].state = s] = rec
    BY <1>2 DEF TypeOK
  <2>2. QED
    BY <1>2, <2>1 DEF Closed, TypeOK
<1>3. CASE ~Active(x)
  BY <1>3 DEF Closed, TypeOK
<1>4. QED
  BY <1>1, <1>2, <1>3

(* The edits, saves and records of any actor. *)
LEMMA ActorStep ==
    ASSUME IInv, NEW a \in Actors,
           Edit(a) \/ Save(a) \/ SaveFails(a) \/ Record(a) \/ RecordFails(a)
    PROVE  IInv'
<1> DEFINE o == op[a]
<1>1. o \in Ops /\ GoodOp(o) /\ TypeOK /\ board \in Boards /\ Capped(board)
  BY OpFacts DEF IInv, TypeOK
<1>2. GoodOp(Resume(o)) /\ Resume(o).run \in {0, o.run} /\ Resume(o).at # "unused"
      /\ (Reports(Resume(o)) => Reports(o))
  BY <1>1, ResumeGood
<1>3. CASE Edit(a)
  <2> DEFINE b == With(o.card, o.want)
             p == [o EXCEPT !.at = "saves", !.draft = b]
             n == IF board[o.card] # "absent" /\ Capped(b) THEN p ELSE Resume(o)
  <2>1. b \in Boards /\ o.at = "edits"
    BY <1>1, <1>3, Drafts DEF Edit, GoodOp
  <2>2. Capped(b) => GoodOp(p)
    <3> HIDE DEF o, b
    <3>1. QED
      BY <1>1, <2>1 DEF GoodOp, Ops, Places
  <2>3. p.run = o.run /\ p.at = "saves" /\ p.then = o.then
    <3> HIDE DEF o, b
    <3>1. QED
      BY <1>1 DEF Ops
  <2>4. op' = [op EXCEPT ![a] = n]
    BY <1>3 DEF Edit, Begin
  <2>5. UNCHANGED <<files, beating, registry, headless, moved, faults>>
    BY <1>3 DEF Edit, Faultless
  <2> HIDE DEF p
  <2>6. GoodOp(n) /\ n.run \in {0, o.run} /\ n.at # "unused" /\ (Reports(n) => Reports(o))
    BY <1>2, <2>2, <2>3 DEF Reports
  <2> HIDE DEF n
  <2>7. OpsKept
    BY <2>1, <2>4, <2>5, <2>6, LocalStep DEF files
  <2>8. QED
    BY <2>5, <2>7 DEF OpsKept, IInv, TypeOK, files, Capped
<1>4. CASE Save(a)
  <2>1. o.at \in {"saves", "claims"} /\ board' = o.draft /\ op' = [op EXCEPT ![a] = Resume(o)]
        /\ UNCHANGED <<rec, beating, registry, headless, moved, faults>>
    BY <1>4 DEF Save, Begin, Faultless
  <2>2. board' \in Boards /\ Capped(board')
    BY <1>1, <2>1 DEF GoodOp
  <2>3. OpsKept
    BY <1>2, <2>1, LocalStep
  <2>4. QED
    BY <2>1, <2>2, <2>3 DEF OpsKept, IInv, TypeOK, Capped
<1>5. CASE Record(a) \/ RecordFails(a)
  <2> DEFINE n == [Idle EXCEPT !.at = "off"]
  <2>1. o.at = "records" /\ (rec' = Closed(o.run, Outcome(o)) \/ rec' = rec)
        /\ op' = [op EXCEPT ![a] = n]
        /\ UNCHANGED <<board, beating, registry, headless, moved>> /\ faults' \in 0..MaxFaults
    BY <1>1, <1>5 DEF Record, RecordFails, Fails, Begin, Faultless, files, TypeOK
  <2>2. GoodOp(n) /\ n.run = 0 /\ n.at = "off" /\ ~Reports(n)
    BY IdleGood DEF Idle, Resting, Reports
  <2>3. o.run \in Runs \cup {0} /\ Outcome(o) \in RunStates
    BY <1>1 DEF Ops, Outcome, RunStates
  <2>4. /\ rec' \in [Runs -> [card : Cards \cup {NoCard}, state : RunStates, fresh : BOOLEAN]]
        /\ \A q \in Runs : rec[q].state = "none" => rec'[q].state = "none"
    <3> DEFINE x == o.run
               s == Outcome(o)
    <3>1. x \in Runs \cup {0} /\ s \in RunStates /\ (rec' = Closed(x, s) \/ rec' = rec)
          /\ TypeOK
      BY <1>1, <2>1, <2>3
    <3> HIDE DEF o, x, s, Runs
    <3>2. /\ Closed(x, s) \in [Runs -> [card : Cards \cup {NoCard}, state : RunStates,
                                        fresh : BOOLEAN]]
          /\ \A q \in Runs : rec[q].state # "active" => Closed(x, s)[q].state = rec[q].state
      BY <3>1, ClosedFacts
    <3>3. QED
      BY <3>1, <3>2 DEF TypeOK
  <2> HIDE DEF n
  <2>5. OpsKept
    BY <2>1, <2>2, <2>4, LocalStep
  <2>6. QED
    BY <2>1, <2>4, <2>5 DEF OpsKept, IInv, TypeOK, Capped
<1>6. CASE SaveFails(a)
  <2> DEFINE n == Unsaved(o)
             k == [o EXCEPT !.at = "claiming", !.draft = NoBoard]
  <2>1. o.at \in {"saves", "claims"} /\ op' = [op EXCEPT ![a] = n]
        /\ UNCHANGED <<files, beating, registry, headless, moved>>
        /\ faults < MaxFaults /\ faults' = faults + 1
    BY <1>6 DEF SaveFails, Begin, Fails
  <2>2. GoodOp(k) /\ k.run = o.run /\ k.at = "claiming" /\ k.then = o.then
    <3> HIDE DEF o
    <3>1. QED
      BY <1>1 DEF GoodOp, Ops, Places
  <2>3. GoodOp(Idle) /\ Idle.run = 0 /\ Idle.at = "idle" /\ ~Reports(Idle)
    BY IdleGood DEF Idle, Resting, Reports
  <2>4. n \in {Resume(o), Idle, k}
    BY DEF Unsaved
  <2> HIDE DEF n, k
  <2>5. GoodOp(n) /\ n.run \in {0, o.run} /\ n.at # "unused" /\ (Reports(n) => Reports(o))
    BY <1>2, <2>2, <2>3, <2>4 DEF Reports
  <2>6. OpsKept
    BY <2>1, <2>5, LocalStep DEF files
  <2>7. QED
    BY <2>1, <2>6 DEF OpsKept, IInv, TypeOK, files, Capped
<1>7. QED
  BY <1>3, <1>4, <1>5, <1>6

(* The task of a run, up to its write-back. *)
LEMMA TaskStep ==
    ASSUME IInv, NEW r \in Runs,
           \/ WriteBack(r)
           \/ \E s \in AgentStatuses : AgentMoves(r, s)
           \/ \E s \in {"done", "blocked"} : RunEnds(r, s)
    PROVE  IInv'
<1> DEFINE o == op[Task(r)]
<1>1. o \in Ops /\ GoodOp(o) /\ Task(r) \in Actors /\ moved \subseteq Cards
      /\ Task(r) \notin Dispatchers /\ \A s \in Runs : Task(r) # Canceller(s)
  BY ActorFacts, OpFacts DEF IInv, TypeOK
<1>2. ASSUME NEW n, GoodOp(n), op' = [op EXCEPT ![Task(r)] = n], n.at # "unused",
             Reports(n) => Reports(o), UNCHANGED <<files, registry, headless, moved, faults>>,
             beating' \subseteq beating
      PROVE IInv'
  <2>1. OpsKept
    BY <1>1, <1>2, LocalStep DEF files
  <2>2. QED
    BY <1>2, <2>1 DEF OpsKept, IInv, TypeOK, files, Capped
<1>3. CASE WriteBack(r)
  <2> DEFINE n == [o EXCEPT !.at = IF SelfBlocked(o) THEN "records" ELSE "edits",
                            !.then = "records"]
  <2>1. op' = [op EXCEPT ![Task(r)] = n] /\ o.at = "settles"
    BY <1>3 DEF WriteBack, Begin
  <2>2. GoodOp(n) /\ n.at # "unused" /\ Reports(o)
    <3> HIDE DEF o
    <3>1. QED
      BY <1>1, <2>1 DEF GoodOp, Ops, Places, Resumes, Reports
  <2> HIDE DEF n
  <2>3. QED
    BY <1>2, <1>3, <2>1, <2>2 DEF WriteBack, Faultless
<1>4. ASSUME NEW s \in AgentStatuses, AgentMoves(r, s) PROVE IInv'
  <2> DEFINE n == [Editing(o.card, s, "live") EXCEPT !.run = r]
  <2>1. op' = [op EXCEPT ![Task(r)] = n]
    BY <1>4 DEF AgentMoves, Begin
  <2>2. o.card \in Cards \cup {NoCard} /\ s \in {"todo", "in_progress", "blocked", "done"}
    BY <1>1 DEF Ops
  <2>3. GoodOp(n) /\ n.at # "unused" /\ ~Reports(n)
    <3> HIDE DEF o
    <3>1. QED
      BY <2>2 DEF GoodOp, Editing, Idle, Ops, Places, Resumes, Statuses, Reports
  <2> HIDE DEF n
  <2>4. QED
    BY <1>2, <1>4, <2>1, <2>3 DEF AgentMoves, Faultless
<1>5. ASSUME NEW s \in {"done", "blocked"}, RunEnds(r, s) PROVE IInv'
  <2> DEFINE n == [o EXCEPT !.at = "returns", !.want = s]
  <2>1. op' = [op EXCEPT ![Task(r)] = n] /\ o.at = "live"
    BY <1>5 DEF RunEnds, Begin
  <2>2. GoodOp(n) /\ n.at # "unused" /\ (Reports(n) => Reports(o))
    <3> HIDE DEF o
    <3>1. QED
      BY <1>1, <2>1 DEF GoodOp, Ops, Places, Resumes, Statuses, Reports
  <2> HIDE DEF n
  <2>3. QED
    BY <1>2, <1>5, <2>1, <2>2 DEF RunEnds, Faultless, files
<1>6. QED
  BY <1>3, <1>4, <1>5

(* Whoever takes the registry entry owns the write-back. *)
LEMMA TakeStep ==
    ASSUME IInv, NEW r \in Runs, Take(r) PROVE IInv'
<1> DEFINE o == op[Task(r)]
           n == [o EXCEPT !.at = IF StillOurs(r) THEN "settles" ELSE "off"]
<1>1. o \in Ops /\ GoodOp(o) /\ o.at = "returns" /\ Task(r) \in Actors
  BY ActorFacts, OpFacts DEF Take
<1>2. op' = [op EXCEPT ![Task(r)] = n] /\ registry' = registry \ {r}
      /\ UNCHANGED <<board, rec, beating, headless, moved, faults>>
  BY DEF Take, Goto, Faultless, files
<1>3. GoodOp(n) /\ n.at # "unused" /\ n.then = o.then
      /\ (n.at \in {"settles", "records"} => StillOurs(r))
  <2> HIDE DEF o
  <2>1. QED
    BY <1>1 DEF GoodOp, Ops, Places, Resting
<1> HIDE DEF n
<1>4. \A a \in Actors : op'[a] = IF a = Task(r) THEN n ELSE op[a]
  BY <1>1, <1>2 DEF IInv, TypeOK
<1>5. op' \in [Actors -> Ops] /\ OpsGood'
  BY <1>2, <1>3, <1>4 DEF IInv, TypeOK, OpsGood, GoodOp
<1>6. ASSUME NEW s \in Runs PROVE Owned(s)'
  <2>1. Owned(s)
    BY DEF IInv, RunsOwned
  <2>2. op'[Canceller(s)] = op[Canceller(s)]
        /\ op'[Task(s)] = (IF s = r THEN n ELSE op[Task(s)])
        /\ \A d \in Dispatchers : op'[d] = op[d]
    BY <1>4, ActorFacts
  <2>3. op'[Task(s)].at = "unused" => op[Task(s)].at = "unused"
    BY <1>3, <2>2
  <2> HIDE DEF Runs
  <2>4. CASE s = r
    <3>1. op[Canceller(s)].at # "idle" => ~Reports(n)
      BY <1>3, <2>1, <2>4 DEF Owned, Reports, StillOurs
    <3>2. QED
      BY <1>2, <2>1, <2>2, <2>3, <2>4, <3>1 DEF Owned
  <2>5. CASE s # r
    BY <1>2, <2>1, <2>2, <2>3, <2>5 DEF Owned
  <2>6. QED
    BY <2>4, <2>5
<1>7. QED
  BY <1>2, <1>5, <1>6 DEF IInv, TypeOK, RunsOwned, Capped

LEMMA CancelStep ==
    ASSUME IInv, NEW r \in Runs, Cancel(r) PROVE IInv'
<1> DEFINE o == op[Task(r)]
           n == Aborted(o)
           k == [Editing(o.card, "blocked", "records") EXCEPT !.run = r]
<1>1. o \in Ops /\ GoodOp(o) /\ Task(r) \in Actors /\ Canceller(r) \in Actors
      /\ Task(r) # Canceller(r) /\ Owned(r) /\ o.at # "unused" /\ ~Reports(o)
      /\ r \notin headless
  BY ActorFacts, OpFacts DEF Cancel, IInv, RunsOwned, Owned
<1>2. op' = [op EXCEPT ![Task(r)] = n, ![Canceller(r)] = k] /\ registry' = registry \ {r}
      /\ r \in registry /\ beating' = beating \ {r}
      /\ UNCHANGED <<board, rec, headless, moved, faults>>
  BY DEF Cancel, Faultless, files
<1>3. GoodOp(n) /\ n.at # "unused" /\ ~Reports(n)
  <2> HIDE DEF o
  <2>1. CASE o.at = "live"
    BY <1>1, <2>1, IdleGood DEF Aborted, Idle, Resting, Reports
  <2>2. CASE o.at # "live" /\ o.then = "live"
    <3>1. Aborted(o) = [o EXCEPT !.then = "off"]
      BY <2>2 DEF Aborted
    <3>2. QED
      BY <1>1, <2>2, <3>1 DEF GoodOp, Ops, Resumes, Reports
  <2>3. CASE o.at # "live" /\ o.then # "live"
    BY <1>1, <2>3 DEF Aborted
  <2>4. QED
    BY <2>1, <2>2, <2>3
<1>4. GoodOp(k)
  <2>1. o.card \in Cards \cup {NoCard}
    BY <1>1 DEF Ops
  <2> HIDE DEF o
  <2>2. QED
    BY <2>1 DEF GoodOp, Editing, Idle, Ops, Places, Resumes, Statuses
<1> HIDE DEF n, k
<1>5. \A a \in Actors : op'[a] = IF a = Task(r) THEN n ELSE IF a = Canceller(r) THEN k ELSE op[a]
  BY <1>1, <1>2 DEF IInv, TypeOK
<1>6. op' \in [Actors -> Ops] /\ OpsGood'
  BY <1>2, <1>3, <1>4, <1>5 DEF IInv, TypeOK, OpsGood, GoodOp
<1>7. ASSUME NEW s \in Runs PROVE Owned(s)'
  <2>1. Owned(s)
    BY DEF IInv, RunsOwned
  <2>2. op'[Canceller(s)] = (IF s = r THEN k ELSE op[Canceller(s)])
        /\ op'[Task(s)] = (IF s = r THEN n ELSE op[Task(s)])
        /\ \A d \in Dispatchers : op'[d] = op[d]
    BY <1>1, <1>5, ActorFacts
  <2> HIDE DEF Runs
  <2>3. CASE s = r
    BY <1>1, <1>2, <1>3, <2>1, <2>2, <2>3 DEF Owned
  <2>4. CASE s # r
    BY <1>2, <2>1, <2>2, <2>4 DEF Owned
  <2>5. QED
    BY <2>3, <2>4
<1>8. QED
  BY <1>2, <1>6, <1>7 DEF IInv, TypeOK, RunsOwned, Capped

(* Time and faults: after a restart nobody owns anything. *)
LEMMA FaultStep ==
    ASSUME IInv, Restart \/ \E r \in Runs : Age(r) \/ BeatFails(r)
    PROVE  IInv'
<1>1. CASE Restart
  <2> DEFINE off == [Idle EXCEPT !.at = "off"]
  <2>1. GoodOp(Idle) /\ GoodOp(off) /\ Idle.run = 0 /\ Idle.at = "idle" /\ ~Reports(Idle)
        /\ off.at = "off" /\ ~Reports(off)
    BY IdleGood DEF Idle, Resting, Reports
  <2>2. op' = [a \in Actors |-> IF a \in Tasks /\ op[a].at # "unused" THEN off
                               ELSE IF a \in Tasks THEN op[a] ELSE Idle]
    BY <1>1 DEF Restart
  <2>3. UNCHANGED <<board, rec, moved>> /\ beating' = {} /\ registry' = {} /\ headless' = {}
        /\ faults' = faults + 1 /\ faults < MaxFaults
    BY <1>1 DEF Restart, files
  <2> HIDE DEF off
  <2>4. op' \in [Actors -> Ops] /\ OpsGood'
    BY <2>1, <2>2 DEF IInv, TypeOK, OpsGood, GoodOp
  <2>5. ASSUME NEW r \in Runs PROVE Owned(r)'
    <3>1. Owned(r) /\ Task(r) \in Actors /\ Canceller(r) \in Actors
          /\ Task(r) \in Tasks /\ Canceller(r) \notin Tasks
      BY ActorFacts DEF IInv, RunsOwned
    <3>2. op'[Canceller(r)] = Idle /\ (op'[Task(r)].at = "unused" => op[Task(r)].at = "unused")
      BY <2>1, <2>2, <3>1
    <3>3. \A d \in Dispatchers : op'[d].run = 0
      BY <2>1, <2>2, ActorFacts
    <3>4. r # 0
      OBVIOUS
    <3> HIDE DEF Runs
    <3>5. QED
      BY <2>1, <2>3, <3>1, <3>2, <3>3, <3>4 DEF Owned
  <2>6. QED
    BY <2>3, <2>4, <2>5 DEF IInv, TypeOK, RunsOwned, Capped
<1>2. ASSUME NEW r \in Runs, Age(r) PROVE IInv'
  <2>1. UNCHANGED <<board, op, beating, registry, headless, moved, faults>>
        /\ rec' = [rec EXCEPT ![r].fresh = FALSE]
    BY <1>2 DEF Age, memory, Faultless
  <2>2. /\ rec' \in [Runs -> [card : Cards \cup {NoCard}, state : RunStates, fresh : BOOLEAN]]
        /\ \A q \in Runs : rec'[q].state = rec[q].state
    BY <2>1 DEF IInv, TypeOK
  <2>3. \A q \in Runs : Owned(q)'
    BY <2>1, <2>2 DEF IInv, RunsOwned, Owned, Reports
  <2>4. QED
    BY <2>1, <2>2, <2>3 DEF IInv, TypeOK, OpsGood, GoodOp, RunsOwned, Capped
<1>3. ASSUME NEW r \in Runs, BeatFails(r) PROVE IInv'
  <2>1. UNCHANGED <<board, rec, op, registry, headless, moved>> /\ beating' \subseteq beating
        /\ faults < MaxFaults /\ faults' = faults + 1
    BY <1>3 DEF BeatFails, Fails, files
  <2>2. \A q \in Runs : Owned(q)'
    BY <2>1 DEF IInv, RunsOwned, Owned, Reports
  <2>3. QED
    BY <2>1, <2>2 DEF IInv, TypeOK, OpsGood, GoodOp, RunsOwned, Capped
<1>4. QED
  BY <1>1, <1>2, <1>3

LEMMA Initially == ASSUME Init PROVE IInv
<1>1. TypeOK
  BY DEF Init, TypeOK, Boards, Statuses, NoRecord, RunStates, Idle, Ops, Places, Resumes, Resting
<1>2. Capped(board)
  BY NoneCapped DEF Init
<1>3. ASSUME NEW a \in Actors PROVE GoodOp(op[a]) /\ ~Reports(op[a]) /\ op[a].run = 0
                                   /\ op[a].at \in {"idle", "unused"}
                                   /\ (a \notin Tasks => op[a].at = "idle")
  BY IdleGood DEF Init, Resting, Idle, Reports
<1>4. ASSUME NEW r \in Runs PROVE Owned(r)
  <2>1. r # 0 /\ registry = {} /\ headless = {} /\ rec[r].state = "none"
    BY DEF Init, NoRecord
  <2>2. op[Canceller(r)].at = "idle" /\ \A d \in Dispatchers : op[d].run = 0
    BY <1>3, ActorFacts
  <2> HIDE DEF Runs
  <2>3. QED
    BY <2>1, <2>2 DEF Owned
<1>5. QED
  BY <1>1, <1>2, <1>3, <1>4 DEF IInv, OpsGood, RunsOwned

LEMMA Inductive == IInv /\ [Next]_vars => IInv'
<1> SUFFICES ASSUME IInv, [Next]_vars PROVE IInv'
  OBVIOUS
<1>1. ASSUME NEW d \in Dispatchers, Dispatch(d) PROVE IInv'
  <2>1. CASE Park(d) \/ Claim(d) \/ Stamp(d)
    BY <2>1, ClaimStep
  <2>2. CASE NoSession(d) \/ Spawn(d) \/ \E r \in Runs : CreateRun(d, r) \/ CreateFails(d, r)
    BY <2>2, HandStep
  <2>3. QED
    BY <1>1, <2>1, <2>2 DEF Dispatch
<1>2. ASSUME NEW r \in Runs, Run(r) PROVE IInv'
  BY <1>2, TakeStep, CancelStep, TaskStep DEF Run
<1>3. CASE UNCHANGED vars
  <2>1. UNCHANGED <<board, rec, op, beating, registry, headless, moved, faults>>
    BY <1>3 DEF vars, files, memory
  <2>2. \A r \in Runs : Owned(r)'
    BY <2>1 DEF IInv, RunsOwned, Owned, Reports
  <2>3. QED
    BY <2>1, <2>2 DEF IInv, TypeOK, OpsGood, GoodOp, RunsOwned, Capped
<1>4. QED
  BY <1>1, <1>2, <1>3, PollStep, OutsideStep, ActorStep, FaultStep DEF Next

(* The invariant holds in every behaviour. *)
THEOREM DispatchInvariant == Spec => []IInv
<1>1. QED
  BY Initially, Inductive, PTL DEF Spec

(* Every variable keeps its type (all of dispatch_card, the poller, the runs *)
(* file and the board operations).                                          *)
THEOREM TypeCorrect == Spec => []TypeOK
<1>1. IInv => TypeOK
  BY DEF IInv
<1>2. QED
  BY <1>1, DispatchInvariant, PTL

(* However many unlocked reads and writes of the board overlap, no two of   *)
(* its cards are in progress (enforce_single_in_progress).                  *)
THEOREM OneAtATime == Spec => []OneInProgress
<1>1. IInv => OneInProgress
  BY CappedMeansOne DEF IInv, OneInProgress
<1>2. QED
  BY <1>1, DispatchInvariant, PTL

(* A run is written back by its task or by its cancel, never by both        *)
(* (take_active_run, cancel_session).                                       *)
THEOREM WrittenBackOnce == Spec => []OneWriteBack
<1>1. IInv => OneWriteBack
  BY DEF IInv, RunsOwned, Owned, Reports, OneWriteBack
<1>2. QED
  BY <1>1, DispatchInvariant, PTL

(* Once closed, a run's record keeps its outcome: complete_run and            *)
(* create_run never overwrite a reclaimed or settled one.                    *)
THEOREM ClosedForGood == Spec => OutcomeFinal
<1> DEFINE Kept == \A r \in Runs : rec[r].state \in {"success", "failed", "reclaimed"}
                                      => rec'[r].state = rec[r].state
<1>1. IInv /\ [Next]_vars => Kept
  <2> SUFFICES ASSUME IInv, [Next]_vars PROVE Kept
    OBVIOUS
  <2>1. CASE UNCHANGED rec
    BY <2>1
  <2>2. ASSUME NEW r \in Runs, ReclaimRun(r) PROVE Kept
    <3>1. rec' = Closed(r, "reclaimed") /\ TypeOK
      BY <2>2 DEF ReclaimRun, IInv
    <3>2. r \in Runs \cup {0} /\ "reclaimed" \in RunStates
      BY DEF RunStates
    <3> HIDE DEF Runs
    <3>3. \A q \in Runs : rec[q].state # "active"
                            => Closed(r, "reclaimed")[q].state = rec[q].state
      BY <3>1, <3>2, ClosedFacts
    <3>4. QED
      BY <3>1, <3>3
  <2>3. ASSUME NEW d \in Dispatchers, NEW r \in Runs, CreateRun(d, r) PROVE Kept
    <3>1. op[Task(r)].at = "unused" /\ Owned(r)
      BY <2>3 DEF CreateRun, Created, Unused, IInv, RunsOwned
    <3>2. rec[r].state = "none"
      BY <3>1 DEF Owned
    <3>3. QED
      BY <2>3, <3>2 DEF CreateRun, IInv, TypeOK
  <2>4. ASSUME NEW a \in Actors, Record(a) PROVE Kept
    <3>1. rec' = Closed(op[a].run, Outcome(op[a])) /\ TypeOK
      BY <2>4 DEF Record, IInv
    <3> DEFINE x == op[a].run
               s == Outcome(op[a])
    <3>2. x \in Runs \cup {0} /\ s \in RunStates
      BY OpFacts DEF Outcome, RunStates
    <3> HIDE DEF x, s, Runs
    <3>3. \A q \in Runs : rec[q].state # "active" => Closed(x, s)[q].state = rec[q].state
      BY <3>1, <3>2, ClosedFacts
    <3>4. rec' = Closed(x, s)
      BY <3>1 DEF x, s
    <3>5. QED
      BY <3>3, <3>4
  <2>5. ASSUME NEW r \in Runs, Age(r) PROVE Kept
    BY <2>5 DEF Age, IInv, TypeOK
  <2>6. QED
    BY <2>1, <2>2, <2>3, <2>4, <2>5 DEF Next, vars, Poll, FindStale, PickNothing, Pick,
       Dispatch, Park, Claim, Stamp, NoSession, Spawn, CreateFails, Triage, TriageActs,
       TriageDrops, Run, Take, WriteBack, Cancel, AgentMoves, RunEnds, BeatFails, Edit, Save, SaveFails,
       ReclaimFails, RecordFails, User, UserEdits, UserWrites, Decide, Restart, files
<1>2. QED
  BY <1>1, DispatchInvariant, PTL DEF Spec, OutcomeFinal, Kept
=============================================================================
