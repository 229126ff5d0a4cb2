--------------------------- MODULE TaskLifeProofs ---------------------------
(***************************************************************************)
(* TaskDispatch implements TaskLifecycle, and no card is reclaimed more    *)
(* often than it may be, however many threads run it, while no two board   *)
(* operations overlap and no live run is taken for dead.                   *)
(***************************************************************************)
EXTENDS TaskTurnProofs

Steady ==
    /\ "beat" \notin FailingSteps
    /\ AgentStatuses \subseteq {"blocked", "done"}
    /\ MaxMoved = 0
    /\ OutlivesTtl = FALSE

(* The operations of each kind of actor. *)
UserForm(o) ==
    /\ o.at \in {"idle", "edits", "saves"} /\ o.then = "idle"
    /\ o.at # "idle" => o.card \in Cards

DispatcherForm(d, o) ==
    /\ o.at \in {"idle", "chosen", "reclaims", "edits", "saves", "claims", "claiming",
                 "claimed", "created", "stamped"}
    /\ o.then \in {"idle", "reclaims", "claimed", "stamped"}
    /\ o.then = "reclaims" => d = Poller /\ o.at \in {"edits", "saves"}
                              /\ o.want \in {"todo", "blocked"}
    /\ o.then = "claimed" => o.at = "claims"
    /\ o.then = "stamped" => o.at = "saves"
    /\ o.run # 0 <=> o.at \in {"created", "stamped"} \/ o.then = "stamped"
    /\ o.at \notin {"idle", "reclaims"} => o.card \in Cards

TaskForm(r, o) ==
    /\ o.at \in {"unused", "off", "live", "edits", "saves", "returns", "settles", "records"}
    /\ o.then \in {"idle", "live", "records"}
    /\ o.at \in {"edits", "saves"} => o.then # "idle" /\ o.want \in {"done", "blocked"}
    /\ o.then = "live" => o.at \in {"edits", "saves"}
    /\ o.at \in {"unused", "off", "live", "returns"} => o.then = "idle"
    /\ o.at \in {"returns", "settles"} => o.want \in {"done", "blocked"}
    /\ o.at \notin {"unused", "off"} => o.card \in Cards /\ o.run = r

CancelForm(r, o) ==
    /\ o.at \in {"idle", "off", "edits", "saves", "records"}
    /\ o.then \in {"idle", "records"}
    /\ o.at \in {"edits", "saves"} => o.then = "records" /\ o.want = "blocked"
    /\ o.at \in {"idle", "off"} => o.then = "idle"
    /\ o.at \notin {"idle", "off"} => o.card \in Cards /\ o.run = r

Formed ==
    /\ \A u \in Users : UserForm(op[u])
    /\ \A d \in Dispatchers : DispatcherForm(d, op[d])
    /\ \A r \in Runs : TaskForm(r, op[Task(r)]) /\ CancelForm(r, op[Canceller(r)])

(* What an operation has read of the board, its card is still so. *)
Held == {"in_progress", "blocked", "done"}

Reads(o, b) ==
    /\ o.at \in {"edits", "saves"} /\ o.then = "idle" =>
        \/ o.want = "rejected" /\ b[o.card] \in {"todo", "ready"}
        \/ o.want \in {"ready", "rejected"} /\ b[o.card] = "awaiting"
    /\ o.at = "saves" => o.draft = IF o.then = "stamped" THEN b
                                   ELSE [b EXCEPT ![o.card] = o.want]
    /\ o.at = "claims" =>
        \/ /\ o.then = "idle" /\ b[o.card] = "todo"
           /\ o.draft = [b EXCEPT ![o.card] = "awaiting"]
        \/ /\ o.then = "claimed" /\ b[o.card] \in Claimable
           /\ o.draft = [b EXCEPT ![o.card] = "in_progress"]
    /\ o.at \in {"claimed", "created", "stamped"} \/ o.then = "stamped" =>
        b[o.card] = "in_progress"
    /\ o.then = "reclaims" => b[o.card] \in Held

UpToDate == \A a \in Actors : Reads(op[a], board)

(* A run that nobody works on stays that way. *)
Dead(r) ==
    /\ op[Task(r)].at = "off" /\ op[Canceller(r)].at \in {"idle", "off"}
    /\ r \notin registry
    /\ \A d \in Dispatchers : op[d].run # r

Beats(o) == o.at = "live" \/ o.then = "live"

(* What the registry, the heartbeats and the records say of a run. *)
Tracked(r) ==
    /\ op[Canceller(r)].at # "idle" => op[Task(r)].at \in {"off", "returns"}
    /\ Beats(op[Task(r)]) => r \in registry \cup headless
    /\ op[Task(r)].at = "returns" /\ op[Canceller(r)].at = "idle"
         => r \in registry \cup headless
    /\ op[Task(r)].at = "off" => r \notin registry
    /\ \A d \in Dispatchers : op[d].run = r => op[Task(r)].at = "off"
    /\ Active(r) =>
        /\ rec[r].card \in Cards
        /\ Beats(op[Task(r)]) => r \in beating
        /\ \A d \in Dispatchers : op[d].run = r => r \in beating
        /\ ~rec[r].fresh => Dead(r)
    /\ r \in op[Poller].left => Dead(r)

AllTracked == \A r \in Runs : Tracked(r)

(* A run serves a card from its record on, in whoever has it in hand. *)
HasInHand(r, c) == Works(op[Holder(r)], c)
Recorded(r, c) == Active(r) /\ rec[r].card = c
Serves(r, c) ==
    \/ Recorded(r, c)
    \/ HasInHand(r, c)
    \/ \E d \in Dispatchers : op[d].run = r /\ op[d].card = c

Spent(c) == MaxReclaims > 0 /\ GivesUp(c, rec)

Matched ==
    /\ \A r, s \in Runs, c \in Cards : Serves(r, c) /\ Serves(s, c) => r = s
    /\ \A r \in Runs, c, e \in Cards : Serves(r, c) /\ Serves(r, e) => c = e

(* Just claimed, or about to be sent back: nobody serves that card. *)
Takes(o) == o.at = "claimed" \/ o.then = "reclaims"

(* A run serves one card and a card is served by one run, in the columns that *)
(* no dispatch starts from; what was just claimed, or reclaimed, by none.     *)
Served ==
    /\ Matched
    /\ \A r \in Runs, c \in Cards : Serves(r, c) => board[c] \in Held /\ ~Spent(c)
    /\ \A d \in Dispatchers : Takes(op[d]) => \A r \in Runs : ~Serves(r, op[d].card)
    /\ \A d \in Dispatchers : op[d].at = "claimed" => ~Spent(op[d].card)
    /\ \A d, e \in Dispatchers :
          Takes(op[d]) /\ Takes(op[e]) /\ op[d].card = op[e].card => d = e

(* A card that has used up its reclaims waits for no dispatch, and stays     *)
(* blocked when it is sent back.                                             *)
Bounded ==
    /\ \A c \in Cards : Spent(c) => Reclaims(c, rec) <= MaxReclaims /\ board[c] \in Held
    /\ op[Poller].then = "reclaims" /\ Spent(op[Poller].card) => op[Poller].want = "blocked"

LifeInv == moved = {} /\ Formed /\ UpToDate /\ AllTracked /\ Served /\ Bounded

---------------------------------------------------------------------------
(* The cards as TaskLifecycle sees them. *)
Opened(c) == Reclaiming(c) \/ \E r \in Runs : Recorded(r, c)

Mapped == <<board, [c \in Cards |-> Workers(c)], Unaccounted, moved>>
LifeStep == [Life!Next]_Mapped

LEMMA MapIs ==
    ASSUME moved = {}
    PROVE  /\ Unaccounted = {c \in Cards : Opened(c)}
           /\ \A c \in Cards : Workers(c) = {r \in Runs : HasInHand(r, c)}
  BY DEF Unaccounted, Opened, Recorded, Workers, HasInHand

LEMMA MapIsNext ==
    ASSUME moved' = {}
    PROVE  /\ Unaccounted' = {c \in Cards : Opened(c)'}
           /\ \A c \in Cards : Workers(c)' = {r \in Runs : HasInHand(r, c)'}
  BY DEF Unaccounted, Opened, Recorded, Workers, HasInHand, Holder, Reclaiming, Active

LEMMA MapKept ==
    ASSUME moved = {}, moved' = {},
           \A r \in Runs, c \in Cards : HasInHand(r, c)' <=> HasInHand(r, c),
           \A c \in Cards : Opened(c)' <=> Opened(c)
    PROVE  /\ [c \in Cards |-> Workers(c)]' = [c \in Cards |-> Workers(c)]
           /\ Unaccounted' = Unaccounted
<1>1. [c \in Cards |-> Workers(c)]' = [c \in Cards |-> Workers(c)]
  BY MapIs, MapIsNext
<1>2. Unaccounted' = Unaccounted
  BY MapIs, MapIsNext
<1>3. QED
  BY <1>1, <1>2

(* A step that moves nothing the abstraction shows. *)
LEMMA Stutters ==
    ASSUME moved = {}, moved' = {}, board' = board,
           \A r \in Runs, c \in Cards : HasInHand(r, c)' <=> HasInHand(r, c),
           \A c \in Cards : Opened(c)' <=> Opened(c)
    PROVE  LifeStep
  BY MapKept DEF LifeStep, Mapped

---------------------------------------------------------------------------
(* The parts of the invariant that a step leaves alone. *)
LEMMA OneOp ==
    ASSUME IInv, NEW a \in Actors, NEW n, op' = [op EXCEPT ![a] = n]
    PROVE  op'[a] = n /\ \A b \in Actors \ {a} : op'[b] = op[b]
  BY DEF IInv, TypeOK

(* A step that leaves the board alone. *)
LEMMA ReadsKept ==
    ASSUME UpToDate, board' = board, NEW a \in Actors, Reads(op'[a], board),
           \A b \in Actors \ {a} : op'[b] = op[b] \/ Reads(op'[b], board)
    PROVE  UpToDate'
<1>1. \A b \in Actors : Reads(op'[b], board)
  BY DEF UpToDate
<1>2. QED
  BY <1>1 DEF UpToDate

(* Off the board, only the dispatches of cards in progress have read it. *)
LEMMA OffBoardReads ==
    ASSUME Formed, NEW a \in Actors, ~OnBoard(a)
    PROVE  /\ op[a].then \notin {"stamped", "reclaims"}
           /\ op[a].at \in {"claimed", "created", "stamped"} => a \in Dispatchers
<1>1. CASE a \in Users
  BY <1>1 DEF Formed, UserForm
<1>2. CASE a \in Dispatchers
  BY <1>2 DEF Formed, DispatcherForm, OnBoard
<1>3. ASSUME NEW r \in Runs, a = Task(r) \/ a = Canceller(r)
      PROVE  op[a].at \notin {"claimed", "created", "stamped"}
             /\ op[a].then \notin {"stamped", "reclaims"}
  BY <1>3 DEF Formed, TaskForm, CancelForm
<1>4. QED
  BY <1>1, <1>2, <1>3 DEF Actors, Tasks

(* A save of one card that no other dispatch has claimed. *)
LEMMA ReadsSaved ==
    ASSUME EditsApart, Formed, UpToDate, board \in Boards, NEW a \in Actors, OnBoard(a),
           \A b \in Actors \ {a} : op'[b] = op[b],
           NEW c, NEW s, board' = [board EXCEPT ![c] = s], Reads(op'[a], board'),
           \A d \in Dispatchers \ {a} : op[d].at \in {"claimed", "created", "stamped"}
                                          => op[d].card # c
    PROVE  UpToDate'
<1>1. ASSUME NEW b \in Actors \ {a} PROVE Reads(op[b], board')
  <2>1. ~OnBoard(b)
    BY DEF EditsApart
  <2>2. Reads(op[b], board)
    BY DEF UpToDate
  <2>3. op[b].at \in {"claimed", "created", "stamped"} => op[b].card # c
    BY <2>1, OffBoardReads
  <2>4. op[b].card # c => board'[op[b].card] = board[op[b].card]
    BY DEF Boards
  <2>5. op[b].then \notin {"stamped", "reclaims"}
    BY <2>1, OffBoardReads
  <2>6. op[b].at \notin {"edits", "saves", "claims", "claiming"}
    BY <2>1 DEF OnBoard
  <2>7. QED
    BY <2>2, <2>3, <2>4, <2>5, <2>6 DEF Reads
<1>2. \A b \in Actors : Reads(op'[b], board')
  BY <1>1
<1>3. QED
  BY <1>2 DEF UpToDate

LEMMA FormedKept ==
    ASSUME Formed,
           \A a \in Users : op'[a] = op[a] \/ UserForm(op'[a]),
           \A d \in Dispatchers : op'[d] = op[d] \/ DispatcherForm(d, op'[d]),
           \A r \in Runs :
               /\ op'[Task(r)] = op[Task(r)] \/ TaskForm(r, op'[Task(r)])
               /\ op'[Canceller(r)] = op[Canceller(r)] \/ CancelForm(r, op'[Canceller(r)])
    PROVE  Formed'
<1>1. \A a \in Users : UserForm(op'[a])
  BY DEF Formed
<1>2. \A d \in Dispatchers : DispatcherForm(d, op'[d])
  BY DEF Formed
<1>3. \A r \in Runs : TaskForm(r, op'[Task(r)]) /\ CancelForm(r, op'[Canceller(r)])
  BY DEF Formed
<1>4. QED
  BY <1>1, <1>2, <1>3 DEF Formed

(* A step that writes neither the board nor a reclaim, and lets no run serve *)
(* another card.                                                            *)
LEMMA ServedKept ==
    ASSUME Served, Bounded, board' = board,
           \A r \in Runs, c \in Cards : Serves(r, c)' => Serves(r, c),
           \A c \in Cards : Reclaims(c, rec') = Reclaims(c, rec),
           \A d \in Dispatchers :
               Takes(op'[d]) => /\ Takes(op[d]) /\ (op'[d].at = "claimed" => op[d].at = "claimed")
                                /\ op'[d].card = op[d].card /\ op[d].card \in Cards,
           op'[Poller].then = "reclaims" =>
               /\ op[Poller].then = "reclaims"
               /\ op'[Poller].card = op[Poller].card /\ op'[Poller].want = op[Poller].want
               /\ op[Poller].card \in Cards
    PROVE  Served' /\ Bounded'
<1>1. \A c \in Cards : Spent(c)' <=> Spent(c)
  BY DEF Spent, GivesUp
<1>2. Matched'
  BY DEF Served, Matched
<1>3. \A r \in Runs, c \in Cards : Serves(r, c)' => board'[c] \in Held /\ ~Spent(c)'
  BY <1>1 DEF Served
<1>4. ASSUME NEW d \in Dispatchers, Takes(op'[d]), NEW r \in Runs
      PROVE  ~Serves(r, op[d].card)'
  <2> DEFINE c == op[d].card
             e == op'[d].card
  <2>1. e \in Cards /\ e = c /\ ~Serves(r, c)
    BY <1>4 DEF Served
  <2>2. Serves(r, op[d].card)' => Serves(r, e)
    BY <2>1
  <2>3. QED
    BY <2>1, <2>2
<1>5. ASSUME NEW d \in Dispatchers, op'[d].at = "claimed" PROVE ~Spent(op[d].card)'
  <2>1. op'[d].card \in Cards /\ op'[d].card = op[d].card /\ op[d].at = "claimed"
    BY <1>5 DEF Takes
  <2>2. ~Spent(op'[d].card)
    BY <2>1 DEF Served
  <2>3. Spent(op[d].card)' => Spent(op'[d].card)
    BY <1>1, <2>1
  <2>4. QED
    BY <2>2, <2>3
<1>6. \A d, e \in Dispatchers :
          Takes(op'[d]) /\ Takes(op'[e]) /\ op'[d].card = op'[e].card => d = e
  BY DEF Served
<1>7. Served'
  BY <1>2, <1>3, <1>4, <1>5, <1>6 DEF Served, Takes
<1>8. \A c \in Cards : Spent(c)' => Reclaims(c, rec') <= MaxReclaims /\ board'[c] \in Held
  BY <1>1 DEF Bounded
<1>9. op'[Poller].then = "reclaims" /\ Spent(op[Poller].card)' => op'[Poller].want = "blocked"
  <2> SUFFICES ASSUME op'[Poller].then = "reclaims" PROVE
                 Spent(op[Poller].card)' => op'[Poller].want = "blocked"
    OBVIOUS
  <2>1. op'[Poller].card \in Cards /\ op[Poller].card = op'[Poller].card
        /\ op[Poller].want = op'[Poller].want /\ op[Poller].then = "reclaims"
    OBVIOUS
  <2>2. Spent(op[Poller].card)' => Spent(op'[Poller].card)
    BY <1>1, <2>1
  <2>3. QED
    BY <2>1, <2>2 DEF Bounded
<1>10. QED
  BY <1>7, <1>8, <1>9 DEF Bounded

(* The next states of a run whose parts do not change. *)
LEMMA OutsideServes ==
    ASSUME NEW r \in Runs, op'[Task(r)] = op[Task(r)], op'[Canceller(r)] = op[Canceller(r)],
           rec' = rec
    PROVE  /\ \A c : (HasInHand(r, c)' <=> HasInHand(r, c)) /\ (Recorded(r, c)' <=> Recorded(r, c))
           /\ Active(r)' <=> Active(r)
  BY DEF HasInHand, Holder, Recorded, Active

(* The operations of dispatchers and users in which no run changes hands. *)
LEMMA OuterParts ==
    ASSUME IInv, LifeInv, NEW a \in Dispatchers \cup Users, NEW n,
           op' = [op EXCEPT ![a] = n],
           UNCHANGED <<rec, beating, registry>>, headless \subseteq headless',
           a \in Users => UserForm(n),
           a \in Dispatchers => /\ DispatcherForm(a, n)
                                /\ n.run \in {0, op[a].run}
                                /\ n.run # 0 => n.card = op[a].card,
           a = Poller => \A r \in n.left : Dead(r)
    PROVE  /\ Formed' /\ AllTracked'
           /\ \A r \in Runs, c \in Cards : /\ HasInHand(r, c)' <=> HasInHand(r, c)
                                           /\ Recorded(r, c)' <=> Recorded(r, c)
                                           /\ Serves(r, c)' => Serves(r, c)
<1>0. Formed /\ AllTracked
  BY DEF LifeInv
<1>1. a \in Actors /\ Poller \in Dispatchers /\ Dispatchers \subseteq Actors
      /\ Users \subseteq Actors /\ Users \cap Dispatchers = {}
      /\ \A r \in Runs : Task(r) \in Actors /\ Canceller(r) \in Actors
                         /\ Task(r) # a /\ Canceller(r) # a
  BY ActorFacts
<1>2. op'[a] = n /\ \A b \in Actors \ {a} : op'[b] = op[b]
  BY <1>1, OneOp
<1>3. \A r \in Runs : op'[Task(r)] = op[Task(r)] /\ op'[Canceller(r)] = op[Canceller(r)]
  BY <1>1, <1>2
<1>4. Formed'
  BY <1>0, <1>1, <1>2, <1>3, FormedKept
<1>5. \A d \in Dispatchers : /\ op'[d].run \in {0, op[d].run}
                             /\ op'[d].run # 0 => op'[d].card = op[d].card
  BY <1>1, <1>2
<1>6. ASSUME NEW r \in Runs PROVE Tracked(r)'
  <2>1. Tracked(r) /\ r # 0
    BY <1>0, DispatchAssumption DEF AllTracked, Runs
  <2>2. Active(r)' <=> Active(r)
    BY DEF Active
  <2>3. \A d \in Dispatchers : op'[d].run = r => op[d].run = r
    BY <1>5, <2>1
  <2>4. Dead(r) => Dead(r)'
    BY <1>3, <2>3 DEF Dead
  <2>5. r \in op'[Poller].left => Dead(r)
    BY <1>1, <1>2, <2>1 DEF Tracked
  <2>6. QED
    BY <1>3, <2>1, <2>2, <2>3, <2>4, <2>5 DEF Tracked
<1>7. \A r \in Runs, c \in Cards : /\ HasInHand(r, c)' <=> HasInHand(r, c)
                                   /\ Recorded(r, c)' <=> Recorded(r, c)
  BY <1>3, OutsideServes
<1>8. \A r \in Runs, c \in Cards : Serves(r, c)' => Serves(r, c)
  <2> SUFFICES ASSUME NEW r \in Runs, NEW c \in Cards, Serves(r, c)' PROVE Serves(r, c)
    OBVIOUS
  <2>1. r # 0
    BY DispatchAssumption DEF Runs
  <2>2. \A d \in Dispatchers : op'[d].run = r /\ op'[d].card = c => op[d].run = r /\ op[d].card = c
    BY <1>5, <2>1
  <2>3. QED
    BY <1>7, <2>2 DEF Serves
<1>9. QED
  BY <1>4, <1>6, <1>7, <1>8 DEF AllTracked

LEMMA OuterQuiet ==
    ASSUME IInv, LifeInv, NEW a \in Dispatchers \cup Users, NEW n,
           op' = [op EXCEPT ![a] = n],
           UNCHANGED <<board, rec, beating, registry, moved>>, headless \subseteq headless',
           Reads(n, board),
           a \in Users => UserForm(n),
           a \in Dispatchers => /\ DispatcherForm(a, n) /\ n.at # "claimed"
                                /\ n.run \in {0, op[a].run}
                                /\ n.run # 0 => n.card = op[a].card,
           a = Poller => /\ n.then = "reclaims" <=> op[a].then = "reclaims"
                         /\ n.then = "reclaims" => n.card = op[a].card /\ n.want = op[a].want
                         /\ \A r \in n.left : Dead(r)
    PROVE  LifeInv' /\ LifeStep
<1>0. Formed /\ UpToDate /\ AllTracked /\ Served /\ Bounded /\ moved = {} /\ moved' = {}
  BY DEF LifeInv
<1>1. a \in Actors /\ Poller \in Dispatchers /\ Dispatchers \subseteq Actors
      /\ Users \subseteq Actors /\ Users \cap Dispatchers = {}
  BY ActorFacts
<1>2. op'[a] = n /\ \A b \in Actors \ {a} : op'[b] = op[b]
  BY <1>1, OneOp
<1>3. UpToDate'
  BY <1>0, <1>1, <1>2, ReadsKept
<1>4. /\ Formed' /\ AllTracked'
      /\ \A r \in Runs, c \in Cards : /\ HasInHand(r, c)' <=> HasInHand(r, c)
                                      /\ Recorded(r, c)' <=> Recorded(r, c)
                                      /\ Serves(r, c)' => Serves(r, c)
  BY OuterParts
<1>5. \A d \in Dispatchers : op[d].then = "reclaims" => d = Poller /\ op[d].card \in Cards
  BY <1>0 DEF Formed, DispatcherForm
<1>6. \A d \in Dispatchers : op'[d].then = "reclaims" => d = Poller
  BY <1>4 DEF Formed, DispatcherForm
<1>7. \A d \in Dispatchers : op[d].at = "claimed" => op[d].card \in Cards
  BY <1>0 DEF Formed, DispatcherForm
<1>8. op[Poller].then = "reclaims" <=> op'[Poller].then = "reclaims"
  BY <1>1, <1>2
<1>9. op[Poller].then = "reclaims" =>
          op'[Poller].card = op[Poller].card /\ op'[Poller].want = op[Poller].want
  BY <1>1, <1>2
<1>10. Served' /\ Bounded'
  <2>1. \A d \in Dispatchers : op'[d].at = "claimed" => op'[d] = op[d]
    BY <1>1, <1>2
  <2>2. \A d \in Dispatchers :
            Takes(op'[d]) => /\ Takes(op[d]) /\ (op'[d].at = "claimed" => op[d].at = "claimed")
                             /\ op'[d].card = op[d].card /\ op[d].card \in Cards
    BY <1>5, <1>6, <1>7, <1>8, <1>9, <2>1 DEF Takes
  <2>3. QED
    BY <1>0, <1>1, <1>4, <1>5, <1>8, <1>9, <2>2, ServedKept
<1>11. \A c \in Cards : Opened(c)' <=> Opened(c)
  BY <1>4, <1>8, <1>9 DEF Opened, Reclaiming
<1>12. QED
  BY <1>0, <1>3, <1>4, <1>10, <1>11, Stutters DEF LifeInv

(* The steps of a run, or of the cancel of its session, that neither begin *)
(* nor end its work.                                                        *)
InWork(o) == o.at \notin {"idle", "unused", "off"}

LEMMA RunParts ==
    ASSUME IInv, LifeInv, NEW r \in Runs, NEW a \in {Task(r), Canceller(r)},
           NEW n, op' = [op EXCEPT ![a] = n], UNCHANGED <<rec, headless>>,
           InWork(op[a]), InWork(n), n.card = op[a].card,
           a = Canceller(r) => CancelForm(r, n) /\ UNCHANGED <<beating, registry>>,
           a = Task(r) => /\ TaskForm(r, n) /\ (Beats(n) => Beats(op[a]))
                          /\ n.at = "returns" => Beats(op[a])
                          /\ op[Canceller(r)].at = "idle",
           registry' \in {registry, registry \ {r}}, beating' \in {beating, beating \ {r}},
           a = Task(r) /\ (Beats(n) \/ n.at = "returns") => registry' = registry,
           a = Task(r) /\ Beats(n) => beating' = beating
    PROVE  /\ Formed' /\ AllTracked'
           /\ \A d \in Dispatchers : op'[d] = op[d]
           /\ \A s \in Runs, c \in Cards : /\ HasInHand(s, c)' <=> HasInHand(s, c)
                                           /\ Recorded(s, c)' <=> Recorded(s, c)
                                           /\ Serves(s, c)' => Serves(s, c)
<1>0. Formed /\ AllTracked
  BY DEF LifeInv
<1>1. /\ a \in Actors /\ Dispatchers \subseteq Actors /\ Users \subseteq Actors
      /\ Poller \in Dispatchers /\ a \notin Dispatchers /\ a \notin Users
      /\ Task(r) # Canceller(r) /\ Task(r) \in Actors /\ Canceller(r) \in Actors
      /\ \A s \in Runs : /\ Task(s) \in Actors /\ Canceller(s) \in Actors
                         /\ s # r => Task(s) # a /\ Canceller(s) # a
  BY ActorFacts
<1>2. op'[a] = n /\ \A b \in Actors \ {a} : op'[b] = op[b]
  BY <1>1, OneOp
<1>3. \A s \in Runs \ {r} : op'[Task(s)] = op[Task(s)] /\ op'[Canceller(s)] = op[Canceller(s)]
  BY <1>1, <1>2
<1>4. (\A d \in Dispatchers : op'[d] = op[d]) /\ \A u \in Users : op'[u] = op[u]
  BY <1>1, <1>2
<1>5. \/ a = Task(r) /\ op'[Task(r)] = n /\ op'[Canceller(r)] = op[Canceller(r)]
      \/ a = Canceller(r) /\ op'[Canceller(r)] = n /\ op'[Task(r)] = op[Task(r)]
  BY <1>1, <1>2
<1>6. Formed'
  BY <1>0, <1>3, <1>4, <1>5, FormedKept
<1>7. ASSUME NEW s \in Runs PROVE Tracked(s)'
  <2>1. Tracked(s) /\ Tracked(r) /\ (Active(s)' <=> Active(s))
    BY <1>0 DEF AllTracked, Active
  <2>2. CASE s # r
    <3>1. (s \in registry' <=> s \in registry) /\ (s \in beating' <=> s \in beating)
      BY <2>2
    <3>2. Dead(s)' <=> Dead(s)
      BY <1>3, <1>4, <2>2, <3>1 DEF Dead
    <3>3. QED
      BY <1>1, <1>3, <1>4, <2>1, <2>2, <3>1, <3>2 DEF Tracked
  <2>3. CASE s = r /\ a = Task(r)
    <3>1. op[Canceller(r)].at = "idle" /\ ~Dead(r) /\ \A d \in Dispatchers : op[d].run # r
      BY <2>1, <2>3 DEF Tracked, InWork, Dead
    <3>2. op'[Task(r)] = n /\ op'[Canceller(r)].at = "idle"
      BY <1>1, <1>2, <2>3, <3>1
    <3>3. QED
      BY <1>1, <1>4, <2>1, <2>3, <3>1, <3>2 DEF Tracked, InWork
  <2>4. CASE s = r /\ a = Canceller(r)
    <3>1. op'[Task(r)] = op[Task(r)] /\ op[Task(r)].at \in {"off", "returns"} /\ ~Dead(r)
          /\ UNCHANGED <<beating, registry>> /\ op'[Canceller(r)] = n /\ n.at # "idle"
      BY <1>1, <1>5, <2>1, <2>4 DEF Tracked, InWork, Dead
    <3>2. QED
      BY <1>1, <1>4, <2>1, <2>4, <3>1 DEF Tracked
  <2>5. QED
    BY <2>2, <2>3, <2>4
<1>8. \A s \in Runs, c \in Cards : /\ HasInHand(s, c)' <=> HasInHand(s, c)
                                   /\ Recorded(s, c)' <=> Recorded(s, c)
  <2>1. \A s \in Runs \ {r} : \A c : HasInHand(s, c)' <=> HasInHand(s, c)
    BY <1>3 DEF HasInHand, Holder
  <2>2. op[Holder(r)] = op[a] /\ op'[Holder(r)'] = n
    BY <1>1, <1>2, <1>5 DEF Holder, InWork
  <2>3. \A c : HasInHand(r, c)' <=> HasInHand(r, c)
    BY <2>2 DEF HasInHand, Works, InWork
  <2>4. QED
    BY <2>1, <2>3 DEF Recorded, Active
<1>9. \A s \in Runs, c \in Cards : Serves(s, c)' => Serves(s, c)
  BY <1>4, <1>8 DEF Serves
<1>10. QED
  BY <1>4, <1>6, <1>7, <1>8, <1>9 DEF AllTracked

LEMMA RunQuiet ==
    ASSUME IInv, LifeInv, NEW r \in Runs, NEW a \in {Task(r), Canceller(r)},
           NEW n, op' = [op EXCEPT ![a] = n], Reads(n, board),
           UNCHANGED <<board, rec, headless, moved>>,
           InWork(op[a]), InWork(n), n.card = op[a].card,
           a = Canceller(r) => CancelForm(r, n) /\ UNCHANGED <<beating, registry>>,
           a = Task(r) => /\ TaskForm(r, n) /\ (Beats(n) => Beats(op[a]))
                          /\ n.at = "returns" => Beats(op[a])
                          /\ op[Canceller(r)].at = "idle",
           registry' \in {registry, registry \ {r}}, beating' \in {beating, beating \ {r}},
           a = Task(r) /\ (Beats(n) \/ n.at = "returns") => registry' = registry,
           a = Task(r) /\ Beats(n) => beating' = beating
    PROVE  LifeInv' /\ LifeStep
<1>0. Formed /\ UpToDate /\ AllTracked /\ Served /\ Bounded /\ moved = {} /\ moved' = {}
  BY DEF LifeInv
<1>1. a \in Actors /\ Poller \in Dispatchers
  BY ActorFacts
<1>2. op'[a] = n /\ \A b \in Actors \ {a} : op'[b] = op[b]
  BY <1>1, OneOp
<1>3. UpToDate'
  BY <1>0, <1>1, <1>2, ReadsKept
<1>4. /\ Formed' /\ AllTracked'
      /\ \A d \in Dispatchers : op'[d] = op[d]
      /\ \A s \in Runs, c \in Cards : /\ HasInHand(s, c)' <=> HasInHand(s, c)
                                      /\ Recorded(s, c)' <=> Recorded(s, c)
                                      /\ Serves(s, c)' => Serves(s, c)
  BY RunParts
<1>5. \A d \in Dispatchers : Takes(op[d]) => op[d].card \in Cards
  BY <1>0 DEF Formed, DispatcherForm, Takes
<1>6. Served' /\ Bounded'
  BY <1>0, <1>1, <1>4, <1>5, ServedKept DEF Takes
<1>7. \A c \in Cards : Opened(c)' <=> Opened(c)
  BY <1>1, <1>4 DEF Opened, Reclaiming
<1>8. QED
  BY <1>0, <1>3, <1>4, <1>6, <1>7, Stutters DEF LifeInv

---------------------------------------------------------------------------
(* Board edits. *)
LEMMA ResumeFacts ==
    ASSUME NEW o \in Ops
    PROVE  /\ o.then \in {"idle", "off"} => Resume(o) = [Idle EXCEPT !.at = o.then]
           /\ o.then \notin {"idle", "off"} =>
                /\ Resume(o).at = o.then /\ Resume(o).then = "idle"
                /\ Resume(o).card = o.card /\ Resume(o).run = o.run /\ Resume(o).left = o.left
                /\ Resume(o).want = IF o.then = "records" THEN o.want ELSE "none"
  BY DEF Resume, Ops

LEMMA IdleForms ==
    /\ Idle.at = "idle" /\ Idle.then = "idle" /\ Idle.run = 0 /\ Idle.left = {}
    /\ Idle = [Idle EXCEPT !.at = "idle"]
    /\ UserForm(Idle) /\ \A d : DispatcherForm(d, Idle)
    /\ \A r : CancelForm(r, Idle)
    /\ \A b : Reads(Idle, b)
  BY DEF Idle, UserForm, DispatcherForm, CancelForm, Reads

(* Who is at an edit or a save, and where it goes from there. *)
LEMMA Kinds ==
    ASSUME NEW a \in Actors
    PROVE  \/ a \in Users \ Dispatchers
           \/ a \in Dispatchers \ Users
           \/ \E r \in Runs : a = Task(r) /\ a \notin Dispatchers \cup Users
           \/ \E r \in Runs : a = Canceller(r) /\ a \notin Dispatchers \cup Users
  BY ActorFacts DEF Actors, Tasks

LEMMA EditLife ==
    ASSUME IInv, LifeInv, NEW a \in Actors, Edit(a) PROVE LifeInv' /\ LifeStep
<1> DEFINE o == op[a]
           b == With(o.card, o.want)
           p == [o EXCEPT !.at = "saves", !.draft = b]
           q == Resume(o)
<1>1. /\ o.at = "edits" /\ o \in Ops
      /\ UNCHANGED <<board, rec, beating, registry, headless, moved>>
      /\ op' = [op EXCEPT ![a] = IF board[o.card] # "absent" /\ Capped(b) THEN p ELSE q]
  BY OpFacts DEF Edit, Begin, files, Faultless
<1>2. /\ Formed /\ Reads(o, board) /\ AllTracked /\ Capped(board) /\ board \in Boards
      /\ b = [board EXCEPT ![o.card] = o.want]
  BY DEF LifeInv, UpToDate, IInv, TypeOK, With
<1>3. /\ p.at = "saves" /\ p.draft = b /\ p.card = o.card /\ p.want = o.want /\ p.run = o.run
      /\ p.then = o.then /\ p.left = o.left
  <2> HIDE DEF o, b
  <2>1. QED
    BY <1>1 DEF Ops
<1>4. \/ op' = [op EXCEPT ![a] = p]
      \/ op' = [op EXCEPT ![a] = q] /\ ~(board[o.card] # "absent" /\ Capped(b))
  BY <1>1
<1> HIDE DEF p, q, b
<1>5. o.then # "stamped" => Reads(p, board)
  BY <1>1, <1>2, <1>3 DEF Reads
<1>6. CASE a \in Users \ Dispatchers
  <2>1. UserForm(o) /\ o.then = "idle"
    BY <1>2, <1>6 DEF Formed, UserForm
  <2>2. UserForm(p) /\ q = Idle /\ UserForm(q) /\ Reads(q, board) /\ Reads(p, board)
    BY <1>1, <1>3, <1>5, <2>1, ResumeFacts, IdleForms DEF UserForm, q
  <2> HIDE DEF o
  <2>3. a # Poller
    BY <1>6, ActorFacts
  <2>4. QED
    BY <1>1, <1>4, <1>6, <2>2, <2>3, OuterQuiet
<1>7. CASE a \in Dispatchers \ Users
  <2>1. DispatcherForm(a, o) /\ o.then \in {"idle", "reclaims"} /\ o.run = 0 /\ o.card \in Cards
    BY <1>1, <1>2, <1>7 DEF Formed, DispatcherForm
  <2>2. DispatcherForm(a, p) /\ Reads(p, board)
    BY <1>1, <1>3, <1>5, <2>1 DEF DispatcherForm
  <2>3. o.then = "reclaims" => board[o.card] # "absent" /\ Capped(b)
    <3>1. o.then = "reclaims" => board[o.card] \in Held /\ o.want # "in_progress"
      BY <1>2, <2>1 DEF Reads, DispatcherForm
    <3>2. QED
      BY <1>2, <3>1, OutOfProgress DEF Held
  <2>4. a = Poller => \A r \in o.left : Dead(r)
    BY <1>1, <1>2 DEF AllTracked, Tracked, Ops
  <2>5. CASE op' = [op EXCEPT ![a] = p]
    <3> HIDE DEF o
    <3>1. a = Poller => (p.then = "reclaims" <=> op[a].then = "reclaims")
                        /\ p.card = op[a].card /\ p.want = op[a].want
                        /\ \A r \in p.left : Dead(r)
      BY <1>3, <2>4 DEF o
    <3>2. p.run = 0 /\ p.at # "claimed"
      BY <1>3, <2>1
    <3>3. QED
      BY <1>1, <1>7, <2>2, <2>5, <3>1, <3>2, OuterQuiet
  <2>6. CASE o.then = "idle" /\ op' = [op EXCEPT ![a] = q]
    <3>1. q = Idle
      BY <1>1, <2>6, ResumeFacts, IdleForms DEF q
    <3>2. QED
      BY <1>1, <1>7, <2>6, <3>1, OuterQuiet, IdleForms
  <2>7. QED
    BY <1>4, <2>1, <2>3, <2>5, <2>6
<1>8. ASSUME NEW r \in Runs, a = Task(r) PROVE LifeInv' /\ LifeStep
  <2>1. TaskForm(r, o) /\ o.then \in {"live", "records"} /\ o.card \in Cards
        /\ o.run = r /\ o.want \in {"done", "blocked"} /\ op[Canceller(r)].at = "idle"
    BY <1>1, <1>2, <1>8 DEF Formed, TaskForm, AllTracked, Tracked
  <2>2. TaskForm(r, p) /\ Reads(p, board) /\ (Beats(p) => Beats(o)) /\ InWork(p) /\ InWork(o)
    BY <1>1, <1>3, <1>5, <2>1 DEF TaskForm, Beats, InWork
  <2>3. /\ q.at = o.then /\ q.then = "idle" /\ q.card = o.card /\ q.run = r
        /\ (o.then = "records" => q.want = o.want)
    BY <1>1, <2>1, ResumeFacts DEF q
  <2>4. TaskForm(r, q) /\ Reads(q, board) /\ (Beats(q) => Beats(o)) /\ InWork(q)
    BY <2>1, <2>3 DEF TaskForm, Beats, InWork, Reads
  <2>5. Task(r) # Canceller(r)
    BY ActorFacts
  <2>6. p.card = op[a].card /\ q.card = op[a].card /\ p.at # "returns" /\ q.at # "returns"
    BY <1>3, <2>1, <2>3
  <2>7. QED
    BY <1>1, <1>4, <1>8, <2>1, <2>2, <2>4, <2>5, <2>6, RunQuiet
<1>9. ASSUME NEW r \in Runs, a = Canceller(r) PROVE LifeInv' /\ LifeStep
  <2>1. CancelForm(r, o) /\ o.then = "records" /\ o.card \in Cards /\ o.run = r
    BY <1>1, <1>2, <1>9 DEF Formed, CancelForm
  <2>2. CancelForm(r, p) /\ Reads(p, board) /\ InWork(p) /\ InWork(o)
    BY <1>1, <1>3, <1>5, <2>1 DEF CancelForm, InWork
  <2>3. q.at = "records" /\ q.then = "idle" /\ q.card = o.card /\ q.run = r
    BY <1>1, <2>1, ResumeFacts DEF q
  <2>4. CancelForm(r, q) /\ Reads(q, board) /\ InWork(q)
    BY <2>1, <2>3 DEF CancelForm, InWork, Reads
  <2>5. Task(r) # Canceller(r)
    BY ActorFacts
  <2>6. p.card = op[a].card /\ q.card = op[a].card
    BY <1>3, <2>3
  <2>7. QED
    BY <1>1, <1>4, <1>9, <2>2, <2>4, <2>5, <2>6, RunQuiet
<1>10. QED
  BY <1>6, <1>7, <1>8, <1>9, Kinds

(* What is picked, dropped and decided on. *)
LEMMA OutsideLife ==
    ASSUME Steady, IInv, LifeInv,
           \/ FindStale \/ PickNothing
           \/ \E r \in Runs : ReclaimFails(r)
           \/ \E c \in Cards : Pick(c)
           \/ \E d \in Triages : Triage(d)
           \/ \E u \in Users : User(u)
    PROVE  LifeInv' /\ LifeStep
<1>1. /\ Poller \in Dispatchers /\ Triages \subseteq Dispatchers /\ Poller \notin Triages
      /\ Poller \notin Users /\ Users \cap Dispatchers = {} /\ AllTracked /\ Formed
  BY ActorFacts, DispatchAssumption DEF LifeInv
<1>2. ASSUME NEW d \in Dispatchers, NEW c \in Cards
      PROVE  LET n == [Idle EXCEPT !.at = "chosen", !.card = c]
             IN  DispatcherForm(d, n) /\ Reads(n, board) /\ n.then = "idle" /\ n.left = {}
                 /\ n.run = 0 /\ n.at = "chosen"
  BY DEF DispatcherForm, Reads, Idle
<1>3. ASSUME NEW c \in Cards, NEW s
      PROVE  LET n == Editing(c, s, "idle")
             IN  /\ n.at = "edits" /\ n.then = "idle" /\ n.run = 0 /\ n.card = c /\ n.want = s
                 /\ UserForm(n) /\ \A d \in Dispatchers : DispatcherForm(d, n)
                 /\ s = "rejected" /\ board[c] \in {"todo", "ready", "awaiting"}
                      => Reads(n, board)
                 /\ s \in {"ready", "rejected"} /\ board[c] = "awaiting" => Reads(n, board)
  BY DEF UserForm, DispatcherForm, Reads, Idle, Editing
<1>4. op[Poller].at \in {"idle", "reclaims"} => op[Poller].then = "idle"
  BY <1>1 DEF Formed, DispatcherForm
<1>5. CASE FindStale
  <2> DEFINE n == [Idle EXCEPT !.at = "reclaims", !.left = {r \in Runs : Stale(r)}]
  <2>1. DispatcherForm(Poller, n) /\ Reads(n, board) /\ n.run = 0 /\ n.then = "idle"
        /\ n.at = "reclaims" /\ n.left = {r \in Runs : Stale(r)}
    BY DEF DispatcherForm, Reads, Idle
  <2>2. \A r \in n.left : Dead(r)
    BY <1>1, <2>1 DEF AllTracked, Tracked, Stale
  <2>3. op' = [op EXCEPT ![Poller] = n] /\ op[Poller].at = "idle"
        /\ UNCHANGED <<board, rec, beating, registry, headless, moved>>
    BY <1>5 DEF FindStale, Begin, files, Faultless
  <2> HIDE DEF n
  <2>4. QED
    BY <1>1, <1>4, <2>1, <2>2, <2>3, OuterQuiet
<1>6. CASE PickNothing
  <2>1. op' = [op EXCEPT ![Poller] = Idle] /\ op[Poller].at = "reclaims"
        /\ UNCHANGED <<board, rec, beating, registry, headless, moved>>
    BY <1>6 DEF PickNothing, Begin, files, Faultless
  <2>2. QED
    BY <1>1, <1>4, <2>1, IdleForms, OuterQuiet
<1>7. ASSUME NEW c \in Cards, Pick(c) PROVE LifeInv' /\ LifeStep
  <2> DEFINE n == [Idle EXCEPT !.at = "chosen", !.card = c]
  <2>1. op' = [op EXCEPT ![Poller] = n] /\ op[Poller].at = "reclaims"
        /\ UNCHANGED <<board, rec, beating, registry, headless, moved>>
    BY <1>7 DEF Pick, Begin, files, Faultless
  <2>2. DispatcherForm(Poller, n) /\ Reads(n, board) /\ n.then = "idle" /\ n.left = {}
        /\ n.run = 0 /\ n.at = "chosen"
    BY <1>1, <1>2
  <2> HIDE DEF n
  <2>3. QED
    BY <1>1, <1>4, <2>1, <2>2, OuterQuiet
<1>8. ASSUME NEW d \in Triages, NEW c \in Cards, TriageActs(d, c) PROVE LifeInv' /\ LifeStep
  <2> DEFINE n == [Idle EXCEPT !.at = "chosen", !.card = c]
  <2>1. op' = [op EXCEPT ![d] = n]
        /\ UNCHANGED <<board, rec, beating, registry, headless, moved>>
    BY <1>8 DEF TriageActs, Begin, files, Faultless
  <2>2. d \in Dispatchers /\ d # Poller /\ d \notin Users
    BY <1>1
  <2>3. DispatcherForm(d, n) /\ Reads(n, board) /\ n.run = 0 /\ n.at = "chosen"
    BY <1>2, <2>2
  <2> HIDE DEF n
  <2>4. QED
    BY <2>1, <2>2, <2>3, OuterQuiet
<1>9. ASSUME NEW d \in Triages, NEW c \in Cards, TriageDrops(d, c) PROVE LifeInv' /\ LifeStep
  <2> DEFINE n == Editing(c, "rejected", "idle")
  <2>1. op' = [op EXCEPT ![d] = n] /\ board[c] \in {"todo", "ready", "awaiting"}
        /\ UNCHANGED <<board, rec, beating, registry, headless, moved>>
    BY <1>9 DEF TriageDrops, Begin, files, Faultless
  <2>2. d \in Dispatchers /\ d # Poller /\ d \notin Users
    BY <1>1
  <2>3. DispatcherForm(d, n) /\ Reads(n, board) /\ n.run = 0 /\ n.at = "edits"
    BY <1>3, <2>1, <2>2
  <2> HIDE DEF n
  <2>4. QED
    BY <2>1, <2>2, <2>3, OuterQuiet
<1>10. ASSUME NEW u \in Users, NEW c \in Cards, NEW s \in {"ready", "rejected"}, Decide(u, c, s)
       PROVE LifeInv' /\ LifeStep
  <2> DEFINE n == Editing(c, s, "idle")
  <2>1. op' = [op EXCEPT ![u] = n] /\ board[c] = "awaiting"
        /\ UNCHANGED <<board, rec, beating, registry, headless, moved>>
    BY <1>10 DEF Decide, Begin, files, Faultless
  <2>2. u \notin Dispatchers /\ u # Poller
    BY <1>1
  <2>3. UserForm(n) /\ Reads(n, board)
    BY <1>3, <2>1
  <2> HIDE DEF n
  <2>4. QED
    BY <2>1, <2>2, <2>3, OuterQuiet
<1>11. ASSUME NEW r \in Runs, ReclaimFails(r) PROVE LifeInv' /\ LifeStep
  <2> DEFINE n == [op[Poller] EXCEPT !.left = @ \ {r}]
  <2>1. /\ op' = [op EXCEPT ![Poller] = n] /\ op[Poller].at = "reclaims" /\ op[Poller] \in Ops
        /\ UNCHANGED <<board, rec, beating, registry, headless, moved>>
    BY <1>11, OpFacts, ActorFacts DEF ReclaimFails, Begin, files
  <2>2. n.at = "reclaims" /\ n.then = "idle" /\ n.run = op[Poller].run
        /\ n.left = op[Poller].left \ {r} /\ n.card = op[Poller].card
    BY <1>4, <2>1 DEF Ops
  <2>3. op[Poller].run = 0
    BY <1>1, <1>4, <2>1 DEF Formed, DispatcherForm
  <2> HIDE DEF n
  <2>4. DispatcherForm(Poller, n) /\ Reads(n, board)
    BY <2>2, <2>3 DEF DispatcherForm, Reads
  <2>5. \A q \in n.left : Dead(q)
    BY <1>1, <2>1, <2>2 DEF AllTracked, Tracked, Ops
  <2>6. QED
    BY <1>1, <1>4, <2>1, <2>2, <2>3, <2>4, <2>5, OuterQuiet
<1>12. MaxMoved = 0
  BY DEF Steady
<1>13. QED
  BY <1>5, <1>6, <1>7, <1>8, <1>9, <1>10, <1>11, <1>12, NoHands
     DEF Triage, User, UserEdits, UserWrites

(* dispatch_card up to the claim, and from the record to the spawn. *)
LEMMA ClaimLife ==
    ASSUME IInv, LifeInv, NEW d \in Dispatchers,
           Park(d) \/ Claim(d) \/ Stamp(d) \/ NoSession(d)
    PROVE  LifeInv' /\ LifeStep
<1> DEFINE o == op[d]
<1>1. o \in Ops /\ DispatcherForm(d, o) /\ Reads(o, board) /\ AllTracked /\ d \notin Users
  BY ActorFacts, OpFacts DEF LifeInv, Formed, UpToDate
<1>2. d = Poller => \A r \in o.left : Dead(r)
  BY <1>1 DEF AllTracked, Tracked, Ops
<1>3. ASSUME NEW n, op' = [op EXCEPT ![d] = n],
             UNCHANGED <<board, rec, beating, registry, moved>>, headless \subseteq headless',
             o.then = "idle", n.then # "reclaims", n.at # "claimed",
             DispatcherForm(d, n), Reads(n, board), n.run \in {0, o.run},
             n.run # 0 => n.card = o.card, n.left \subseteq o.left
      PROVE  LifeInv' /\ LifeStep
  BY <1>1, <1>2, <1>3, OuterQuiet
<1>4. CASE Park(d)
  <2> DEFINE b == With(o.card, "awaiting")
             p == Claiming(d, b, "idle")
             q == [o EXCEPT !.at = "claiming"]
  <2>1. p = [o EXCEPT !.at = "claims", !.draft = b, !.then = "idle"]
        /\ b = [board EXCEPT ![o.card] = "awaiting"]
    BY DEF Claiming, With
  <2>2. o.at = "chosen"
        /\ UNCHANGED <<board, rec, beating, registry, headless, moved>>
        /\ (\/ op' = [op EXCEPT ![d] = p] /\ board[o.card] = "todo"
            \/ op' = [op EXCEPT ![d] = q])
    BY <1>4 DEF Park, Begin, Goto, files, Faultless
  <2>3. /\ p.at = "claims" /\ p.draft = b /\ p.then = "idle" /\ p.card = o.card
        /\ p.run = o.run /\ p.left = o.left
        /\ q.at = "claiming" /\ q.then = o.then /\ q.card = o.card
        /\ q.run = o.run /\ q.left = o.left
    <3> HIDE DEF o, b, p
    <3>1. QED
      BY <1>1, <2>1 DEF Ops
  <2> HIDE DEF p, q
  <2>4. o.then = "idle" /\ o.run = 0 /\ o.card \in Cards
    BY <1>1, <2>2 DEF DispatcherForm
  <2>5. DispatcherForm(d, p) /\ DispatcherForm(d, q)
    BY <2>3, <2>4 DEF DispatcherForm
  <2>6. (board[o.card] = "todo" => Reads(p, board)) /\ Reads(q, board)
    <3> HIDE DEF b
    <3>1. QED
      BY <2>1, <2>3, <2>4 DEF Reads
  <2>7. QED
    BY <1>3, <2>2, <2>3, <2>4, <2>5, <2>6
<1>5. CASE Claim(d)
  <2> DEFINE b == With(o.card, "in_progress")
             p == Claiming(d, b, "claimed")
  <2>1. p = [o EXCEPT !.at = "claims", !.draft = b, !.then = "claimed"]
        /\ b = [board EXCEPT ![o.card] = "in_progress"]
    BY DEF Claiming, With
  <2>2. o.at \in {"claiming", "chosen"}
        /\ UNCHANGED <<board, rec, beating, registry, headless, moved>>
        /\ (\/ op' = [op EXCEPT ![d] = p] /\ board[o.card] \in Claimable
            \/ op' = [op EXCEPT ![d] = Idle])
    BY <1>5 DEF Claim, Begin, files, Faultless
  <2>3. /\ p.at = "claims" /\ p.draft = b /\ p.then = "claimed" /\ p.card = o.card
        /\ p.run = o.run /\ p.left = o.left
    <3> HIDE DEF o, b, p
    <3>1. QED
      BY <1>1, <2>1 DEF Ops
  <2> HIDE DEF p
  <2>4. o.then = "idle" /\ o.run = 0 /\ o.card \in Cards
    BY <1>1, <2>2 DEF DispatcherForm
  <2>5. DispatcherForm(d, p)
    BY <2>3, <2>4 DEF DispatcherForm
  <2>6. board[o.card] \in Claimable => Reads(p, board)
    <3> HIDE DEF b
    <3>1. QED
      BY <2>1, <2>3, <2>4 DEF Reads
  <2>7. QED
    BY <1>3, <2>2, <2>3, <2>4, <2>5, <2>6, IdleForms
<1>6. CASE Stamp(d) \/ NoSession(d)
  <2> DEFINE p == [o EXCEPT !.at = "stamped"]
             q == [o EXCEPT !.at = "saves", !.draft = board, !.then = "stamped"]
  <2>1. o.at = "created" /\ UNCHANGED <<board, rec, beating, registry, moved>>
        /\ headless \subseteq headless'
        /\ (\/ op' = [op EXCEPT ![d] = p]
            \/ op' = [op EXCEPT ![d] = q])
    BY <1>6 DEF Stamp, NoSession, Begin, Goto, files, Faultless
  <2>2. /\ p.at = "stamped" /\ p.then = o.then /\ p.card = o.card
        /\ p.run = o.run /\ p.left = o.left
        /\ q.at = "saves" /\ q.draft = board /\ q.then = "stamped" /\ q.card = o.card
        /\ q.run = o.run /\ q.left = o.left
    <3> HIDE DEF o
    <3>1. QED
      BY <1>1 DEF Ops
  <2> HIDE DEF p, q
  <2>3. o.then = "idle" /\ o.run # 0 /\ o.card \in Cards /\ board[o.card] = "in_progress"
    BY <1>1, <2>1 DEF DispatcherForm, Reads
  <2>4. DispatcherForm(d, p) /\ DispatcherForm(d, q)
    BY <2>2, <2>3 DEF DispatcherForm
  <2>5. Reads(p, board) /\ Reads(q, board)
    BY <2>2, <2>3 DEF Reads
  <2>6. QED
    BY <1>3, <2>1, <2>2, <2>3, <2>4, <2>5
<1>7. QED
  BY <1>4, <1>5, <1>6

(* A run whose entry a cancel took ends without a word. *)
LEMMA TakeLost ==
    ASSUME IInv, LifeInv, NEW r \in Runs, Take(r), op[Canceller(r)].at # "idle"
    PROVE  LifeInv' /\ LifeStep
<1> DEFINE a == Task(r)
           o == op[Task(r)]
           n == [o EXCEPT !.at = "off"]
<1>0. /\ Formed /\ UpToDate /\ AllTracked /\ Served /\ Bounded /\ moved = {}
      /\ Poller \in Dispatchers /\ Dispatchers \subseteq Actors /\ Users \subseteq Actors
      /\ Owned(r) /\ o \in Ops /\ TaskForm(r, o) /\ Tracked(r)
  BY ActorFacts, OpFacts DEF LifeInv, IInv, RunsOwned, Formed, AllTracked
<1>1. /\ a \in Actors /\ a \notin Dispatchers \cup Users
      /\ \A s \in Runs : /\ Task(s) \in Actors /\ Canceller(s) \in Actors /\ Canceller(s) # a
                         /\ s # r => Task(s) # a
  BY ActorFacts
<1>2. r \notin registry \cup headless
  BY <1>0 DEF Owned
<1>3. /\ o.at = "returns" /\ op' = [op EXCEPT ![a] = n]
      /\ UNCHANGED <<board, rec, headless, moved, beating, registry>> /\ moved' = {}
  BY <1>0, <1>2 DEF Take, Goto, StillOurs, files, Faultless
<1>4. n.at = "off" /\ n.then = "idle"
  <2>1. o.then = "idle"
    BY <1>0, <1>3 DEF TaskForm
  <2> HIDE DEF o
  <2>2. QED
    BY <1>0, <2>1 DEF Ops
<1> HIDE DEF n
<1>5. op'[a] = n /\ \A b \in Actors \ {a} : op'[b] = op[b]
  BY <1>1, <1>3, OneOp
<1>6. /\ \A d \in Dispatchers : op'[d] = op[d]
      /\ \A u \in Users : op'[u] = op[u]
      /\ \A s \in Runs : op'[Canceller(s)] = op[Canceller(s)]
      /\ \A s \in Runs \ {r} : op'[Task(s)] = op[Task(s)]
  BY <1>0, <1>1, <1>5
<1>7. UpToDate'
  <2>1. Reads(n, board)
    BY <1>4 DEF Reads
  <2>2. QED
    BY <1>0, <1>1, <1>3, <1>5, <2>1, ReadsKept
<1>8. Formed'
  <2>1. TaskForm(r, n)
    BY <1>4 DEF TaskForm
  <2>2. QED
    BY <1>0, <1>5, <1>6, <2>1, FormedKept
<1>9. ASSUME NEW s \in Runs PROVE Tracked(s)'
  <2>1. Tracked(s) /\ (Active(s)' <=> Active(s)) /\ op'[Poller] = op[Poller]
    BY <1>0, <1>3, <1>6 DEF AllTracked, Active
  <2>2. CASE s = r
    <3>1. ~Dead(r) /\ \A d \in Dispatchers : op[d].run # r
      BY <1>0, <1>3 DEF Dead, Tracked
    <3>2. op'[Task(r)].at = "off" /\ ~Beats(op'[Task(r)])
      BY <1>4, <1>5 DEF Beats
    <3>3. QED
      BY <1>2, <1>3, <1>6, <2>1, <2>2, <3>1, <3>2 DEF Tracked
  <2>3. CASE s # r
    <3>1. Dead(s)' <=> Dead(s)
      BY <1>3, <1>6, <2>3 DEF Dead
    <3>2. QED
      BY <1>3, <1>6, <2>1, <2>3, <3>1 DEF Tracked
  <2>4. QED
    BY <2>2, <2>3
<1>10. \A s \in Runs, x \in Cards : /\ HasInHand(s, x)' <=> HasInHand(s, x)
                                    /\ Recorded(s, x)' <=> Recorded(s, x)
  <2>1. \A s \in Runs : Holder(s)' = Holder(s) /\ op'[Holder(s)] = op[Holder(s)]
    BY <1>6 DEF Holder
  <2>2. QED
    BY <1>3, <2>1 DEF HasInHand, Recorded, Active
<1>11. \A s \in Runs, x \in Cards : Serves(s, x)' => Serves(s, x)
  BY <1>6, <1>10 DEF Serves
<1>12. \A d \in Dispatchers : Takes(op[d]) => op[d].card \in Cards
  BY <1>0 DEF Formed, DispatcherForm, Takes
<1>13. Served' /\ Bounded'
  BY <1>0, <1>3, <1>6, <1>11, <1>12, ServedKept DEF Takes
<1>14. \A x \in Cards : Opened(x)' <=> Opened(x)
  BY <1>0, <1>6, <1>10 DEF Opened, Reclaiming
<1>15. QED
  BY <1>0, <1>3, <1>7, <1>8, <1>9, <1>10, <1>13, <1>14, Stutters DEF LifeInv, AllTracked

(* A run up to its write-back. *)
LEMMA TaskLife ==
    ASSUME Steady, IInv, LifeInv, NEW r \in Runs,
           \/ Take(r) \/ WriteBack(r)
           \/ \E s \in AgentStatuses : AgentMoves(r, s)
           \/ \E s \in {"done", "blocked"} : RunEnds(r, s)
    PROVE  LifeInv' /\ LifeStep
<1> DEFINE a == Task(r)
           o == op[Task(r)]
<1>1. o \in Ops /\ TaskForm(r, o) /\ Reads(o, board) /\ Tracked(r) /\ a # Canceller(r)
  BY ActorFacts, OpFacts DEF LifeInv, Formed, UpToDate, AllTracked
<1>2. ASSUME NEW n, op' = [op EXCEPT ![a] = n], UNCHANGED <<board, rec, headless, moved>>,
             o.at \notin {"unused", "off"}, n.at \notin {"unused", "off", "idle"},
             n.card = o.card, TaskForm(r, n), Reads(n, board), Beats(n) => Beats(o),
             n.at = "returns" => Beats(o), op[Canceller(r)].at = "idle",
             registry' \in {registry, registry \ {r}}, beating' \in {beating, beating \ {r}},
             Beats(n) \/ n.at = "returns" => registry' = registry,
             Beats(n) => beating' = beating
      PROVE  LifeInv' /\ LifeStep
  <2>1. InWork(op[a]) /\ InWork(n)
    BY <1>1, <1>2 DEF InWork, TaskForm
  <2>2. a \in {Task(r), Canceller(r)} /\ a = Task(r) /\ o = op[a]
    OBVIOUS
  <2> HIDE DEF a, o
  <2>3. QED
    BY <1>1, <1>2, <2>1, <2>2, RunQuiet
<1>3. CASE Take(r) /\ op[Canceller(r)].at = "idle"
  <2> DEFINE n == [o EXCEPT !.at = "settles"]
  <2>1. o.at = "returns" /\ UNCHANGED <<board, rec, headless, moved, beating>>
        /\ registry' = registry \ {r}
        /\ op' = [op EXCEPT ![a].at = IF StillOurs(r) THEN "settles" ELSE "off"]
    BY <1>3 DEF Take, Goto, files, Faultless
  <2>2. StillOurs(r)
    BY <1>1, <1>3, <2>1 DEF Tracked, StillOurs
  <2>3. op' = [op EXCEPT ![a] = n]
    BY <2>1, <2>2
  <2>4. n.at = "settles" /\ n.then = o.then /\ n.card = o.card /\ n.want = o.want /\ n.run = o.run
    <3> HIDE DEF o
    <3>1. QED
      BY <1>1 DEF Ops
  <2> HIDE DEF n
  <2>5. TaskForm(r, n) /\ Reads(n, board) /\ ~Beats(n)
    BY <1>1, <2>1, <2>4 DEF TaskForm, Reads, Beats
  <2>6. QED
    BY <1>2, <1>3, <2>1, <2>3, <2>4, <2>5
<1>4. CASE WriteBack(r)
  <2> DEFINE l == IF SelfBlocked(o) THEN "records" ELSE "edits"
             n == [o EXCEPT !.at = l, !.then = "records"]
  <2>1. op' = [op EXCEPT ![a] = n] /\ o.at = "settles"
        /\ UNCHANGED <<board, rec, headless, moved, beating, registry>>
    BY <1>4 DEF WriteBack, Begin, files, Faultless
  <2>2. l \in {"records", "edits"}
    OBVIOUS
  <2> HIDE DEF l
  <2>3. n.at = l /\ n.then = "records" /\ n.card = o.card /\ n.want = o.want /\ n.run = o.run
    <3> HIDE DEF o
    <3>1. QED
      BY <1>1 DEF Ops
  <2> HIDE DEF n
  <2>4. TaskForm(r, n) /\ Reads(n, board) /\ ~Beats(n) /\ op[Canceller(r)].at = "idle"
    BY <1>1, <2>1, <2>2, <2>3 DEF TaskForm, Reads, Beats, Tracked
  <2>5. QED
    BY <1>2, <2>1, <2>2, <2>3, <2>4
<1>5. ASSUME NEW s \in AgentStatuses, AgentMoves(r, s) PROVE LifeInv' /\ LifeStep
  <2> DEFINE n == [Editing(o.card, s, "live") EXCEPT !.run = r]
  <2>1. op' = [op EXCEPT ![a] = n] /\ o.at = "live"
        /\ UNCHANGED <<board, rec, headless, moved, beating, registry>>
    BY <1>5 DEF AgentMoves, Begin, files, Faultless
  <2>2. s \in {"done", "blocked"}
    BY DEF Steady
  <2>3. n.at = "edits" /\ n.then = "live" /\ n.card = o.card /\ n.want = s /\ n.run = r
    <3> HIDE DEF o
    <3>1. QED
      BY DEF Editing, Idle
  <2> HIDE DEF n
  <2>4. TaskForm(r, n) /\ Reads(n, board) /\ Beats(o) /\ op[Canceller(r)].at = "idle"
    BY <1>1, <2>1, <2>2, <2>3 DEF TaskForm, Reads, Beats, Tracked
  <2>5. QED
    BY <1>2, <2>1, <2>3, <2>4
<1>6. ASSUME NEW s \in {"done", "blocked"}, RunEnds(r, s) PROVE LifeInv' /\ LifeStep
  <2> DEFINE n == [o EXCEPT !.at = "returns", !.want = s]
  <2>1. op' = [op EXCEPT ![a] = n] /\ o.at = "live" /\ beating' = beating \ {r}
        /\ UNCHANGED <<board, rec, headless, moved, registry>>
    BY <1>6 DEF RunEnds, Begin, files, Faultless
  <2>2. n.at = "returns" /\ n.then = o.then /\ n.card = o.card /\ n.want = s /\ n.run = o.run
    <3> HIDE DEF o
    <3>1. QED
      BY <1>1 DEF Ops
  <2> HIDE DEF n
  <2>3. TaskForm(r, n) /\ Reads(n, board) /\ ~Beats(n) /\ Beats(o)
        /\ op[Canceller(r)].at = "idle"
    BY <1>1, <2>1, <2>2 DEF TaskForm, Reads, Beats, Tracked
  <2>4. QED
    BY <1>2, <2>1, <2>2, <2>3
<1>7. CASE Take(r) /\ op[Canceller(r)].at # "idle"
  BY <1>7, TakeLost
<1>8. QED
  BY <1>3, <1>4, <1>5, <1>6, <1>7

(* A save that writes one card: runs serve the cards that they served, none *)
(* leaves its columns but one that nobody serves, and a spent card stays.   *)
LEMMA WrittenServed ==
    ASSUME Served, Bounded, NEW c \in Cards, NEW s, board \in Boards,
           board' = [board EXCEPT ![c] = s], rec' = rec,
           \A r \in Runs, e \in Cards : Serves(r, e)' => Serves(r, e),
           s \in Held \/ ((\A r \in Runs : ~Serves(r, c)) /\ ~Spent(c)),
           NEW a, \A d \in Dispatchers \ {a} : op'[d] = op[d],
           \A d \in Dispatchers : Takes(op[d]) => op[d].card \in Cards,
           a \in Dispatchers => op'[a].then # "reclaims",
           a \in Dispatchers /\ op'[a].at = "claimed" =>
               /\ op'[a].card = c /\ ~Spent(c) /\ \A r \in Runs : ~Serves(r, c)
               /\ \A d \in Dispatchers : Takes(op[d]) => op[d].card # c
    PROVE  Served' /\ Bounded'
<1>1. \A e \in Cards : Spent(e)' <=> Spent(e)
  BY DEF Spent, GivesUp
<1>2. board'[c] = s /\ \A e \in Cards \ {c} : board'[e] = board[e]
  BY DEF Boards
<1>3. Matched'
  BY DEF Served, Matched
<1>4. \A r \in Runs, e \in Cards : Serves(r, e)' => board'[e] \in Held /\ ~Spent(e)'
  BY <1>1, <1>2 DEF Served
<1>5. ASSUME NEW d \in Dispatchers, Takes(op'[d])
      PROVE  \/ d = a /\ op'[d].at = "claimed" /\ op'[d].card = c
             \/ d # a /\ op'[d] = op[d] /\ Takes(op[d]) /\ op[d].card \in Cards
  BY <1>5 DEF Takes
<1>6. ASSUME NEW d \in Dispatchers, Takes(op'[d]), NEW r \in Runs PROVE ~Serves(r, op[d].card)'
  <2> DEFINE e == op'[d].card
  <2>1. e \in Cards /\ ~Serves(r, e)
    BY <1>5, <1>6 DEF Served
  <2>2. Serves(r, op[d].card)' => Serves(r, e)
    BY <2>1
  <2>3. QED
    BY <2>1, <2>2
<1>7. ASSUME NEW d \in Dispatchers, op'[d].at = "claimed" PROVE ~Spent(op[d].card)'
  <2> DEFINE e == op'[d].card
  <2>1. e \in Cards /\ ~Spent(e)
    BY <1>5, <1>7 DEF Served, Takes
  <2>2. Spent(op[d].card)' => Spent(e)
    BY <1>1, <2>1
  <2>3. QED
    BY <2>1, <2>2
<1>8. \A d, e \in Dispatchers :
          Takes(op'[d]) /\ Takes(op'[e]) /\ op'[d].card = op'[e].card => d = e
  <2> SUFFICES ASSUME NEW d \in Dispatchers, NEW e \in Dispatchers,
                      Takes(op'[d]), Takes(op'[e]), op'[d].card = op'[e].card
               PROVE  d = e
    OBVIOUS
  <2>1. QED
    BY <1>5 DEF Served
<1>9. Served'
  BY <1>3, <1>4, <1>6, <1>7, <1>8 DEF Served, Takes
<1>10. \A e \in Cards : Spent(e)' => Reclaims(e, rec') <= MaxReclaims /\ board'[e] \in Held
  BY <1>1, <1>2 DEF Bounded
<1>11. op'[Poller].then = "reclaims" /\ Spent(op[Poller].card)' => op'[Poller].want = "blocked"
  <2> SUFFICES ASSUME op'[Poller].then = "reclaims" PROVE
                 Spent(op[Poller].card)' => op'[Poller].want = "blocked"
    OBVIOUS
  <2>1. op'[Poller] = op[Poller] /\ op[Poller].card \in Cards
    BY ActorFacts DEF Takes
  <2>2. Spent(op[Poller].card)' => Spent(op'[Poller].card)
    BY <1>1, <2>1
  <2>3. QED
    BY <2>1, <2>2 DEF Bounded
<1>12. QED
  BY <1>9, <1>10, <1>11 DEF Bounded

(* Nobody serves a card that waits for a dispatch, or takes it. *)
LEMMA WaitingFacts ==
    ASSUME LifeInv, NEW c \in Cards, board[c] \in {"todo", "ready", "awaiting"}
    PROVE  /\ \A r \in Runs : ~Serves(r, c) /\ ~HasInHand(r, c) /\ ~Recorded(r, c)
           /\ ~Spent(c) /\ ~Opened(c)
           /\ \A d \in Dispatchers :
                 Takes(op[d]) \/ op[d].at \in {"created", "stamped"} => op[d].card # c
<1>1. \A r \in Runs : ~Serves(r, c)
  BY DEF LifeInv, Served, Held
<1>2. \A r \in Runs : ~HasInHand(r, c) /\ ~Recorded(r, c)
  BY <1>1 DEF Serves
<1>3. \A d \in Dispatchers :
          Takes(op[d]) \/ op[d].at \in {"created", "stamped"} => op[d].card # c
  BY ActorFacts DEF LifeInv, UpToDate, Reads, Takes, Held
<1>4. ~Reclaiming(c)
  BY <1>3, ActorFacts DEF Reclaiming, Takes
<1>5. QED
  BY <1>1, <1>2, <1>3, <1>4 DEF LifeInv, Bounded, Held, Opened

(* A card that is being sent back is in no other dispatcher's hands, nor is  *)
(* one that a run reports on in any.                                         *)
LEMMA OthersElsewhere ==
    ASSUME IInv, LifeInv, NEW a, NEW c \in Cards,
           \/ a \in Dispatchers /\ Takes(op[a]) /\ op[a].card = c
           \/ \E r \in Runs : /\ Serves(r, c)
                              /\ \A d \in Dispatchers : op[d].run # r
    PROVE  \A d \in Dispatchers \ {a} : op[d].at \in {"claimed", "created", "stamped"}
                                         => op[d].card # c
<1> SUFFICES ASSUME NEW d \in Dispatchers \ {a}, op[d].card = c,
                    op[d].at \in {"claimed", "created", "stamped"}
             PROVE  FALSE
  OBVIOUS
<1>1. Served /\ Formed
  BY DEF LifeInv
<1>2. CASE op[d].at = "claimed"
  BY <1>1, <1>2 DEF Served, Takes
<1>3. CASE op[d].at \in {"created", "stamped"}
  <2>1. DispatcherForm(d, op[d])
    BY <1>1 DEF Formed
  <2>2. op[d].run # 0
    BY <1>3, <2>1 DEF DispatcherForm
  <2>3. PICK q \in Runs : op[d].run = q
    BY <2>2, OpFacts, ActorFacts
  <2>4. Serves(q, c)
    BY <2>3 DEF Serves
  <2>5. QED
    BY <1>1, <2>3, <2>4 DEF Served, Matched
<1>4. QED
  BY <1>2, <1>3

(* The save of a card that waits: a parking, a decision, a drop or a claim. *)
LEMMA WaitingSaved ==
    ASSUME IInv, EditsApart, LifeInv, NEW a \in Dispatchers \cup Users, OnBoard(a), NEW n,
           op' = [op EXCEPT ![a] = n], UNCHANGED <<rec, beating, registry, headless, moved>>,
           NEW c \in Cards, NEW s, board' = [board EXCEPT ![c] = s],
           board[c] \in {"todo", "ready", "awaiting"}, op[a].then # "reclaims",
           Reads(n, board'), n.then = "idle", n.run = 0, n.left \subseteq op[a].left,
           n.at = "idle" \/ (a \in Dispatchers /\ n.at = "claimed" /\ n.card = c)
    PROVE  /\ LifeInv'
           /\ [e \in Cards |-> Workers(e)]' = [e \in Cards |-> Workers(e)]
           /\ Unaccounted' = Unaccounted
<1>0. /\ Formed /\ UpToDate /\ AllTracked /\ Served /\ Bounded /\ moved = {} /\ moved' = {}
      /\ board \in Boards
  BY DEF LifeInv, IInv, TypeOK
<1>1. a \in Actors /\ Poller \in Dispatchers /\ Dispatchers \subseteq Actors
      /\ Users \subseteq Actors /\ Users \cap Dispatchers = {}
  BY ActorFacts
<1>2. op'[a] = n /\ \A b \in Actors \ {a} : op'[b] = op[b]
  BY <1>1, OneOp
<1>3. /\ \A r \in Runs : ~Serves(r, c)
      /\ ~Spent(c)
      /\ \A d \in Dispatchers : Takes(op[d]) \/ op[d].at \in {"created", "stamped"}
                                => op[d].card # c
  BY WaitingFacts
<1>4. UpToDate'
  BY <1>0, <1>1, <1>2, <1>3, ReadsSaved DEF Takes
<1>6. a \in Users => UserForm(n)
  BY <1>1 DEF UserForm
<1>7. a \in Dispatchers => DispatcherForm(a, n)
  BY DEF DispatcherForm
<1>8. a = Poller => \A r \in n.left : Dead(r)
  <2>1. a = Poller => op[a].left \subseteq Runs
    BY <1>1, OpFacts
  <2>2. QED
    BY <1>0, <2>1 DEF AllTracked, Tracked
<1>9. /\ Formed' /\ AllTracked'
      /\ \A r \in Runs, e \in Cards : /\ HasInHand(r, e)' <=> HasInHand(r, e)
                                      /\ Recorded(r, e)' <=> Recorded(r, e)
                                      /\ Serves(r, e)' => Serves(r, e)
  BY <1>6, <1>7, <1>8, OuterParts
<1>10. \A d \in Dispatchers : Takes(op[d]) => op[d].card \in Cards
  BY <1>0 DEF Formed, DispatcherForm, Takes
<1>11. \A d \in Dispatchers \ {a} : op'[d] = op[d]
  BY <1>1, <1>2
<1>12. /\ a \in Dispatchers => op'[a].then # "reclaims"
       /\ a \in Dispatchers /\ op'[a].at = "claimed" =>
             op'[a].card = c /\ ~Spent(c) /\ \A r \in Runs : ~Serves(r, c)
  BY <1>2, <1>3
<1>13. Served' /\ Bounded'
  BY <1>0, <1>3, <1>9, <1>10, <1>11, <1>12, WrittenServed
<1>14. \A e \in Cards : Opened(e)' <=> Opened(e)
  <2>1. \A e \in Cards : Reclaiming(e)' <=> Reclaiming(e)
    BY <1>1, <1>2 DEF Reclaiming
  <2>2. QED
    BY <1>9, <2>1 DEF Opened
<1>15. QED
  BY <1>0, <1>4, <1>9, <1>13, <1>14, MapKept DEF LifeInv

LEMMA SaveLifeOuter ==
    ASSUME IInv, EditsApart, LifeInv, NEW a \in Dispatchers \cup Users, Save(a)
    PROVE  LifeInv' /\ LifeStep
<1> DEFINE o == op[a]
           c == o.card
           q == Resume(o)
<1>1. /\ o.at \in {"saves", "claims"} /\ OnBoard(a) /\ o \in Ops /\ board' = o.draft
      /\ op' = [op EXCEPT ![a] = q] /\ a \in Actors /\ Poller \in Dispatchers
      /\ UNCHANGED <<rec, beating, registry, headless, moved>>
  BY ActorFacts, OpFacts DEF Save, Begin, Faultless, OnBoard
<1>2. Formed /\ Reads(o, board) /\ Capped(o.draft) /\ board \in Boards /\ AllTracked
      /\ moved = {} /\ Served /\ Bounded /\ UpToDate
  BY <1>1, OpFacts DEF LifeInv, UpToDate, IInv, TypeOK, GoodOp
<1>3. /\ a \in Users => UserForm(o)
      /\ a \in Dispatchers => DispatcherForm(a, o)
      /\ o.card \in Cards
  BY <1>1, <1>2 DEF Formed, UserForm, DispatcherForm
<1>4. q.left \subseteq o.left
  BY <1>1, ResumeFacts, IdleForms DEF Idle
<1>6. CASE o.at = "saves" /\ o.then = "idle"
  <2>1. /\ board' = [board EXCEPT ![c] = o.want]
        /\ \/ o.want = "rejected" /\ board[c] \in {"todo", "ready"}
           \/ o.want \in {"ready", "rejected"} /\ board[c] = "awaiting"
    BY <1>1, <1>2, <1>6 DEF Reads
  <2>2. q = Idle
    BY <1>1, <1>6, ResumeFacts, IdleForms
  <2>3. /\ board[c] \in {"todo", "ready", "awaiting"} /\ q.left \subseteq op[a].left
        /\ q.at = "idle" /\ q.then = "idle" /\ q.run = 0 /\ Reads(q, board')
        /\ op[a].then # "reclaims"
    BY <1>4, <1>6, <2>1, <2>2, IdleForms
  <2> HIDE DEF q
  <2>4. /\ LifeInv'
        /\ [e \in Cards |-> Workers(e)]' = [e \in Cards |-> Workers(e)]
        /\ Unaccounted' = Unaccounted
    BY <1>1, <1>3, <2>1, <2>3, WaitingSaved
  <2>5. Life!Drop(c) \/ Life!Decide(c)
    BY <1>1, <2>1, <2>4 DEF Life!Drop, Life!Decide, Life!Moves
  <2>6. QED
    BY <1>3, <2>4, <2>5 DEF LifeStep, Life!Next
<1>7. CASE o.at = "claims" /\ o.then = "idle"
  <2>1. board' = [board EXCEPT ![c] = "awaiting"] /\ board[c] = "todo"
    BY <1>1, <1>2, <1>7 DEF Reads
  <2>2. q = Idle
    BY <1>1, <1>7, ResumeFacts, IdleForms
  <2>3. /\ board[c] \in {"todo", "ready", "awaiting"} /\ q.left \subseteq op[a].left
        /\ q.at = "idle" /\ q.then = "idle" /\ q.run = 0 /\ Reads(q, board')
        /\ op[a].then # "reclaims"
    BY <1>4, <1>7, <2>1, <2>2, IdleForms
  <2> HIDE DEF q
  <2>4. /\ LifeInv'
        /\ [e \in Cards |-> Workers(e)]' = [e \in Cards |-> Workers(e)]
        /\ Unaccounted' = Unaccounted
    BY <1>1, <1>3, <2>1, <2>3, WaitingSaved
  <2>5. Life!Park(c)
    BY <1>1, <2>1, <2>4 DEF Life!Park, Life!Moves
  <2>6. QED
    BY <1>3, <2>4, <2>5 DEF LifeStep, Life!Next
<1>8. CASE o.at = "claims" /\ o.then = "claimed"
  <2>1. board' = [board EXCEPT ![c] = "in_progress"] /\ board[c] \in {"todo", "ready"}
    BY <1>1, <1>2, <1>8 DEF Reads, Claimable
  <2>2. a \in Dispatchers /\ o.run = 0
    BY <1>2, <1>3, <1>8 DEF UserForm, DispatcherForm
  <2>3. q.at = "claimed" /\ q.then = "idle" /\ q.card = c /\ q.run = 0
    BY <1>1, <1>8, <2>2, ResumeFacts
  <2>4. board'[c] = "in_progress"
    BY <1>2, <1>3, <2>1 DEF Boards
  <2> HIDE DEF q
  <2>5. Reads(q, board')
    BY <2>3, <2>4 DEF Reads
  <2>6. /\ LifeInv'
        /\ [e \in Cards |-> Workers(e)]' = [e \in Cards |-> Workers(e)]
        /\ Unaccounted' = Unaccounted
    BY <1>1, <1>3, <1>4, <1>8, <2>1, <2>2, <2>3, <2>5, WaitingSaved
  <2>7. \A e \in Cards : board[e] # "in_progress"
    <3> SUFFICES ASSUME NEW e \in Cards, board[e] = "in_progress" PROVE FALSE
      OBVIOUS
    <3>1. e # c /\ o.draft[e] = "in_progress" /\ o.draft[c] = "in_progress"
      BY <1>1, <1>2, <1>3, <2>1, <2>4 DEF Boards
    <3>2. QED
      BY <1>2, <1>3, <3>1, CappedMeansOne
  <2>9. (\A r \in Runs : ~HasInHand(r, c)) /\ ~Opened(c)
    BY <1>3, <2>1, WaitingFacts
  <2>10. Workers(c) = {} /\ c \notin Unaccounted
    BY <1>2, <1>3, <2>9, MapIs
  <2>11. Life!Claim(c)
    BY <1>1, <1>3, <2>1, <2>6, <2>7, <2>10 DEF Life!Claim, Life!Moves, Life!Free
  <2>12. QED
    BY <1>3, <2>6, <2>11 DEF LifeStep, Life!Next
<1>9. CASE o.then = "stamped"
  <2>1. a \in Dispatchers \ Users /\ DispatcherForm(a, o) /\ o.run # 0 /\ o.at = "saves"
    BY <1>2, <1>3, <1>9, ActorFacts DEF UserForm, DispatcherForm
  <2>2. board' = board /\ board[c] = "in_progress"
    BY <1>1, <1>2, <1>9, <2>1 DEF Reads
  <2>3. q.at = "stamped" /\ q.then = "idle" /\ q.card = c /\ q.run = o.run
    BY <1>1, <1>9, ResumeFacts
  <2> HIDE DEF q
  <2>4. Reads(q, board) /\ DispatcherForm(a, q)
    BY <1>3, <2>1, <2>2, <2>3 DEF Reads, DispatcherForm
  <2>5. a = Poller => \A r \in q.left : Dead(r)
    BY <1>1, <1>2, <1>4 DEF AllTracked, Tracked, Ops
  <2>6. QED
    BY <1>1, <1>9, <2>1, <2>2, <2>3, <2>4, <2>5, OuterQuiet
<1>10. CASE o.then = "reclaims"
  <2>1. a = Poller /\ a \in Dispatchers \ Users /\ o.at = "saves" /\ o.run = 0
        /\ o.want \in {"todo", "blocked"}
    BY <1>1, <1>2, <1>3, <1>10, ActorFacts DEF UserForm, DispatcherForm
  <2>2. board' = [board EXCEPT ![c] = o.want]
    BY <1>1, <1>2, <1>10, <2>1 DEF Reads
  <2>3. q.at = "reclaims" /\ q.then = "idle" /\ q.card = c /\ q.run = 0
    BY <1>1, <1>10, <2>1, ResumeFacts
  <2> HIDE DEF q
  <2>4. Reads(q, board') /\ DispatcherForm(a, q)
    BY <1>3, <2>3 DEF Reads, DispatcherForm
  <2>5. a = Poller => \A r \in q.left : Dead(r)
    BY <1>1, <1>2, <1>4 DEF AllTracked, Tracked, Ops
  <2>6. /\ Formed' /\ AllTracked'
        /\ \A r \in Runs, e \in Cards : /\ HasInHand(r, e)' <=> HasInHand(r, e)
                                        /\ Recorded(r, e)' <=> Recorded(r, e)
                                        /\ Serves(r, e)' => Serves(r, e)
    BY <1>1, <2>1, <2>3, <2>4, <2>5, OuterParts
  <2>7. op'[a] = q /\ \A b \in Actors \ {a} : op'[b] = op[b]
    BY <1>1, OneOp
  <2>8. UpToDate'
    <3>1. Takes(op[a]) /\ op[a].card = c
      BY <1>10 DEF Takes
    <3>2. \A d \in Dispatchers \ {a} : op[d].at \in {"claimed", "created", "stamped"}
                                       => op[d].card # c
      BY <1>3, <2>1, <3>1, OthersElsewhere
    <3> DEFINE w == o.want
    <3>3. board' = [board EXCEPT ![c] = w] /\ Reads(op'[a], board') /\ OnBoard(a) /\ a \in Actors
      BY <1>1, <2>2, <2>4, <2>7
    <3>4. Formed /\ UpToDate /\ board \in Boards
      BY <1>2
    <3> HIDE DEF c, o, w, q
    <3>5. QED
      BY <2>7, <3>2, <3>3, <3>4, ReadsSaved
  <2>9. \A r \in Runs : ~Serves(r, c)
    BY <1>2, <1>10, <2>1 DEF Served, Takes
  <2>10. op'[Poller].then # "reclaims" /\ op'[a].at # "claimed"
    BY <2>1, <2>3, <2>7
  <2>11. Spent(c) => o.want = "blocked"
    BY <1>2, <1>10, <2>1 DEF Bounded
  <2>12. Served' /\ Bounded'
    <3>1. o.want \in Held \/ ((\A r \in Runs : ~Serves(r, c)) /\ ~Spent(c))
      BY <2>1, <2>9, <2>11 DEF Held
    <3>2. \A d \in Dispatchers : Takes(op[d]) => op[d].card \in Cards
      BY <1>2 DEF Formed, DispatcherForm, Takes
    <3>3. \A d \in Dispatchers \ {a} : op'[d] = op[d]
      BY <2>7, ActorFacts
    <3>4. c \in Cards /\ op'[a].then # "reclaims"
      BY <1>3, <2>1, <2>10
    <3> HIDE DEF c, o
    <3>5. QED
      BY <1>1, <1>2, <2>2, <2>6, <2>10, <3>1, <3>2, <3>3, <3>4, WrittenServed
  <2>13. \A r \in Runs : ~HasInHand(r, c) /\ ~Recorded(r, c)
    BY <2>9 DEF Serves
  <2>14. Opened(c) /\ \A e \in Cards : Opened(e)' <=> Opened(e) /\ e # c
    BY <1>1, <1>3, <1>10, <2>1, <2>6, <2>10, <2>13 DEF Opened, Reclaiming
  <2>15. moved' = {} /\ [e \in Cards |-> Workers(e)]' = [e \in Cards |-> Workers(e)]
         /\ Unaccounted' = Unaccounted \ {c} /\ c \in Unaccounted /\ Workers(c) = {}
    <3>1. moved' = {}
      BY <1>1, <1>2
    <3>2. /\ Unaccounted = {e \in Cards : Opened(e)}
          /\ \A e \in Cards : Workers(e) = {r \in Runs : HasInHand(r, e)}
      BY <1>2, MapIs
    <3>3. /\ Unaccounted' = {e \in Cards : Opened(e)'}
          /\ \A e \in Cards : Workers(e)' = {r \in Runs : HasInHand(r, e)'}
      BY <3>1, MapIsNext
    <3> HIDE DEF c
    <3>4. [e \in Cards |-> Workers(e)]' = [e \in Cards |-> Workers(e)]
      BY <2>6, <3>2, <3>3
    <3>5. QED
      BY <1>3, <2>13, <2>14, <3>1, <3>2, <3>3, <3>4 DEF c
  <2>16. Life!Return(c)
    BY <1>1, <1>3, <2>1, <2>2, <2>15 DEF Life!Return
  <2>17. QED
    BY <1>3, <2>6, <2>8, <2>12, <2>15, <2>16 DEF LifeInv, LifeStep, Life!Next
<1>11. QED
  BY <1>1, <1>2, <1>3, <1>6, <1>7, <1>8, <1>9, <1>10 DEF UserForm, DispatcherForm

(* The save of a run about its card, or of the cancel of its session. *)
LEMMA SaveLifeRun ==
    ASSUME IInv, EditsApart, LifeInv, NEW r \in Runs, NEW a \in {Task(r), Canceller(r)},
           Save(a)
    PROVE  LifeInv' /\ LifeStep
<1> DEFINE o == op[a]
           c == o.card
           q == Resume(o)
<1>0. /\ Formed /\ UpToDate /\ AllTracked /\ Served /\ Bounded /\ moved = {}
      /\ board \in Boards
  BY DEF LifeInv, IInv, TypeOK
<1>1. /\ o.at \in {"saves", "claims"} /\ OnBoard(a) /\ o \in Ops /\ board' = o.draft
      /\ op' = [op EXCEPT ![a] = q] /\ a \in Actors /\ Poller \in Dispatchers
      /\ Task(r) # Canceller(r) /\ moved' = {}
      /\ UNCHANGED <<rec, beating, registry, headless, moved>>
      /\ a \notin Dispatchers /\ Dispatchers \subseteq Actors
  BY <1>0, ActorFacts, OpFacts DEF Save, Begin, Faultless, OnBoard
<1>2. /\ a = Task(r) => TaskForm(r, o)
      /\ a = Canceller(r) => CancelForm(r, o)
  BY <1>0 DEF Formed
<1>3. /\ o.at = "saves" /\ o.then \in {"live", "records"} /\ o.want \in {"done", "blocked"}
      /\ c \in Cards /\ o.run = r /\ (a = Canceller(r) => o.then = "records")
  BY <1>1, <1>2 DEF TaskForm, CancelForm
<1>4. board' = [board EXCEPT ![c] = o.want]
  BY <1>0, <1>1, <1>3 DEF UpToDate, Reads
<1>5. /\ q.at = o.then /\ q.then = "idle" /\ q.card = c /\ q.run = r
      /\ (o.then = "records" => q.want = o.want)
  BY <1>1, <1>3, ResumeFacts
<1> HIDE DEF q
<1>6. Reads(q, board')
  BY <1>3, <1>5 DEF Reads
<1>7. /\ a = Task(r) => TaskForm(r, q)
      /\ a = Canceller(r) => CancelForm(r, q)
      /\ Beats(q) => Beats(o)
      /\ InWork(o) /\ InWork(q) /\ q.at # "returns"
      /\ a = Task(r) => op[Canceller(r)].at = "idle"
      /\ a = Canceller(r) => op[Canceller(r)].at # "idle"
      /\ \A d \in Dispatchers : op[d].run # r
  <2>1. Tracked(r) /\ Owned(r)
    BY <1>0 DEF AllTracked, IInv, RunsOwned
  <2>2. a = Task(r) => op[Canceller(r)].at = "idle" /\ \A d \in Dispatchers : op[d].run # r
    BY <1>3, <2>1 DEF Tracked
  <2>3. a = Canceller(r) => \A d \in Dispatchers : op[d].run # r
    BY <1>3, <2>1 DEF Owned
  <2>4. QED
    BY <1>3, <1>5, <2>2, <2>3 DEF TaskForm, CancelForm, Beats, InWork
<1>8. /\ Formed' /\ AllTracked'
      /\ \A d \in Dispatchers : op'[d] = op[d]
      /\ \A s \in Runs, e \in Cards : /\ HasInHand(s, e)' <=> HasInHand(s, e)
                                      /\ Recorded(s, e)' <=> Recorded(s, e)
                                      /\ Serves(s, e)' => Serves(s, e)
  BY <1>1, <1>5, <1>7, RunParts
<1>9. op'[a] = q /\ \A b \in Actors \ {a} : op'[b] = op[b]
  BY <1>1, OneOp
<1>10. HasInHand(r, c) /\ Serves(r, c)
  BY <1>1, <1>7 DEF HasInHand, Holder, Works, InWork, Serves
<1>11. UpToDate'
  <2>1. \A d \in Dispatchers : op[d].at \in {"claimed", "created", "stamped"} => op[d].card # c
    BY <1>1, <1>3, <1>7, <1>10, OthersElsewhere
  <2> DEFINE w == o.want
  <2>2. board' = [board EXCEPT ![c] = w] /\ Reads(op'[a], board') /\ OnBoard(a) /\ a \in Actors
    BY <1>1, <1>4, <1>6, <1>9
  <2>3. \A d \in Dispatchers \ {a} : op[d].at \in {"claimed", "created", "stamped"}
                                     => op[d].card # c
    BY <2>1
  <2>4. Formed /\ UpToDate /\ board \in Boards
    BY <1>0
  <2> HIDE DEF c, o, w, q
  <2>5. QED
    BY <1>9, <2>2, <2>3, <2>4, ReadsSaved
<1>13. ~Spent(c)
  BY <1>0, <1>3, <1>10 DEF Served
<1>14. Served' /\ Bounded'
  <2>1. o.want \in Held /\ rec' = rec
    BY <1>1, <1>3 DEF Held
  <2>2. \A s \in Runs, e \in Cards : Serves(s, e)' => Serves(s, e)
    BY <1>8
  <2>3. Served /\ Bounded /\ board \in Boards /\ \A d \in Dispatchers : op'[d] = op[d]
    BY <1>0, <1>8
  <2>4. c \in Cards /\ \A d \in Dispatchers : Takes(op[d]) => op[d].card \in Cards
    BY <1>0, <1>3 DEF Formed, DispatcherForm, Takes
  <2> HIDE DEF c, o
  <2>5. QED
    BY <1>1, <1>4, <1>13, <2>1, <2>2, <2>3, <2>4, WrittenServed
<1>15. \A e \in Cards : Opened(e)' <=> Opened(e)
  BY <1>1, <1>8 DEF Opened, Reclaiming
<1>16. /\ [e \in Cards |-> Workers(e)]' = [e \in Cards |-> Workers(e)]
       /\ Unaccounted' = Unaccounted
  BY <1>0, <1>1, <1>8, <1>15, MapKept
<1>17. Workers(c) # {}
  BY <1>0, <1>3, <1>10, MapIs
<1>18. Life!Report(c)
  BY <1>1, <1>3, <1>4, <1>16, <1>17 DEF Life!Report
<1>19. QED
  BY <1>1, <1>3, <1>8, <1>11, <1>14, <1>18 DEF LifeInv, LifeStep, Life!Next

LEMMA SaveLife ==
    ASSUME IInv, EditsApart, LifeInv, NEW a \in Actors, Save(a) PROVE LifeInv' /\ LifeStep
<1>1. CASE a \in Dispatchers \cup Users
  BY <1>1, SaveLifeOuter
<1>2. ASSUME NEW r \in Runs, a \in {Task(r), Canceller(r)} PROVE LifeInv' /\ LifeStep
  BY <1>2, SaveLifeRun
<1>3. QED
  BY <1>1, <1>2, Kinds

(* A save that fails leaves the board as it is: a claim or a parking ends or *)
(* goes on without, and a card that was to be sent back is forgotten.        *)
LEMMA SaveFailsOuter ==
    ASSUME IInv, LifeInv, NEW a \in Dispatchers \cup Users, SaveFails(a)
    PROVE  LifeInv' /\ LifeStep
<1> DEFINE o == op[a]
           c == o.card
           q == Unsaved(o)
<1>1. /\ o.at \in {"saves", "claims"} /\ o \in Ops
      /\ op' = [op EXCEPT ![a] = q] /\ a \in Actors /\ Poller \in Dispatchers
      /\ UNCHANGED <<board, rec, beating, registry, headless, moved>>
  BY ActorFacts, OpFacts DEF SaveFails, Begin, files
<1>2. Formed /\ Reads(o, board) /\ AllTracked /\ moved = {} /\ Served /\ Bounded /\ UpToDate
  BY <1>1 DEF LifeInv, UpToDate
<1>3. /\ a \in Users => UserForm(o)
      /\ a \in Dispatchers => DispatcherForm(a, o)
      /\ o.card \in Cards
  BY <1>1, <1>2 DEF Formed, UserForm, DispatcherForm
<1>4. \A S \in SUBSET o.left : a = Poller => \A r \in S : Dead(r)
  BY <1>1, <1>2 DEF AllTracked, Tracked, Ops
<1>5. CASE (o.at = "saves" /\ o.then = "idle") \/ (o.at = "claims" /\ o.then = "claimed")
  <2>1. q = Idle
    BY <1>1, <1>5, ResumeFacts, IdleForms DEF Unsaved
  <2>2. o.then # "reclaims"
    BY <1>5
  <2> HIDE DEF q
  <2>3. QED
    BY <1>1, <2>1, <2>2, IdleForms, OuterQuiet
<1>6. CASE o.at = "claims" /\ o.then # "claimed"
  <2>1. q = [o EXCEPT !.at = "claiming", !.draft = NoBoard]
    BY <1>6 DEF Unsaved
  <2>2. a \in Dispatchers \ Users /\ o.then = "idle" /\ o.run = 0
    BY <1>3, <1>6, ActorFacts DEF UserForm, DispatcherForm
  <2>3. q.at = "claiming" /\ q.then = "idle" /\ q.run = 0 /\ q.card = c /\ q.left = o.left
    <3> HIDE DEF o, q
    <3>1. QED
      BY <1>1, <2>1, <2>2 DEF Ops, o, c
  <2> HIDE DEF q
  <2>4. DispatcherForm(a, q) /\ Reads(q, board)
    BY <1>3, <2>3 DEF DispatcherForm, Reads
  <2>5. a = Poller => \A r \in q.left : Dead(r)
    BY <1>4, <2>3
  <2>6. QED
    BY <1>1, <2>2, <2>3, <2>4, <2>5, OuterQuiet
<1>7. CASE o.at = "saves" /\ o.then = "stamped"
  <2>1. q.at = "stamped" /\ q.then = "idle" /\ q.card = c /\ q.run = o.run /\ q.left = o.left
    BY <1>1, <1>7, ResumeFacts DEF Unsaved
  <2>2. a \in Dispatchers \ Users /\ o.run # 0 /\ board[c] = "in_progress"
    BY <1>2, <1>3, <1>7, ActorFacts DEF UserForm, DispatcherForm, Reads
  <2> HIDE DEF q
  <2>3. Reads(q, board) /\ DispatcherForm(a, q)
    BY <1>3, <2>1, <2>2 DEF Reads, DispatcherForm
  <2>4. a = Poller => \A r \in q.left : Dead(r)
    BY <1>4, <2>1
  <2>5. QED
    BY <1>1, <1>7, <2>1, <2>2, <2>3, <2>4, OuterQuiet
<1>8. CASE o.at = "saves" /\ o.then = "reclaims"
  <2>1. a = Poller /\ a \in Dispatchers \ Users /\ o.run = 0
    BY <1>3, <1>8, ActorFacts DEF UserForm, DispatcherForm
  <2>2. q.at = "reclaims" /\ q.then = "idle" /\ q.card = c /\ q.run = 0 /\ q.left = o.left
    BY <1>1, <1>8, <2>1, ResumeFacts DEF Unsaved
  <2> HIDE DEF q
  <2>3. Reads(q, board) /\ DispatcherForm(a, q)
    BY <1>3, <2>2 DEF Reads, DispatcherForm
  <2>4. a = Poller => \A r \in q.left : Dead(r)
    BY <1>4, <2>2
  <2>5. /\ Formed' /\ AllTracked'
        /\ \A r \in Runs, e \in Cards : /\ HasInHand(r, e)' <=> HasInHand(r, e)
                                        /\ Recorded(r, e)' <=> Recorded(r, e)
                                        /\ Serves(r, e)' => Serves(r, e)
    BY <1>1, <2>1, <2>2, <2>3, <2>4, OuterParts
  <2>6. op'[a] = q /\ \A b \in Actors \ {a} : op'[b] = op[b]
    BY <1>1, OneOp
  <2>7. UpToDate'
    BY <1>1, <1>2, <2>3, <2>6, ReadsKept
  <2>8. Served' /\ Bounded'
    <3>1. \A d \in Dispatchers : Takes(op[d]) => op[d].card \in Cards
      BY <1>2 DEF Formed, DispatcherForm, Takes
    <3>2. \A d \in Dispatchers : Takes(op'[d]) => op'[d] = op[d]
      BY <2>2, <2>6, ActorFacts DEF Takes
    <3>3. op'[Poller].then # "reclaims"
      BY <2>1, <2>2, <2>6
    <3>4. QED
      BY <1>1, <1>2, <2>5, <3>1, <3>2, <3>3, ServedKept
  <2>9. \A r \in Runs : ~HasInHand(r, c) /\ ~Recorded(r, c)
    BY <1>2, <1>3, <1>8, <2>1 DEF Served, Takes, Serves
  <2>10. Opened(c) /\ \A e \in Cards : Opened(e)' <=> Opened(e) /\ e # c
    BY <1>1, <1>3, <1>8, <2>1, <2>2, <2>5, <2>6, <2>9 DEF Opened, Reclaiming
  <2>11. moved' = {} /\ [e \in Cards |-> Workers(e)]' = [e \in Cards |-> Workers(e)]
         /\ Unaccounted' = Unaccounted \ {c} /\ c \in Unaccounted /\ Workers(c) = {}
    <3>1. moved' = {}
      BY <1>1, <1>2
    <3>2. /\ Unaccounted = {e \in Cards : Opened(e)}
          /\ \A e \in Cards : Workers(e) = {r \in Runs : HasInHand(r, e)}
      BY <1>2, MapIs
    <3>3. /\ Unaccounted' = {e \in Cards : Opened(e)'}
          /\ \A e \in Cards : Workers(e)' = {r \in Runs : HasInHand(r, e)'}
      BY <3>1, MapIsNext
    <3> HIDE DEF c
    <3>4. [e \in Cards |-> Workers(e)]' = [e \in Cards |-> Workers(e)]
      BY <2>5, <3>2, <3>3
    <3>5. QED
      BY <1>3, <2>9, <2>10, <3>1, <3>2, <3>3, <3>4 DEF c
  <2>12. Life!Forget(c)
    <3>1. board' = board /\ moved' = moved /\ c \in Cards
      BY <1>1, <1>3
    <3> HIDE DEF c
    <3>2. QED
      BY <2>11, <3>1 DEF Life!Forget
  <2>13. QED
    BY <1>3, <2>5, <2>7, <2>8, <2>11, <2>12 DEF LifeInv, LifeStep, Life!Next
<1>9. QED
  BY <1>1, <1>3, <1>5, <1>6, <1>7, <1>8 DEF UserForm, DispatcherForm

LEMMA SaveFailsRun ==
    ASSUME IInv, LifeInv, NEW r \in Runs, NEW a \in {Task(r), Canceller(r)}, SaveFails(a)
    PROVE  LifeInv' /\ LifeStep
<1> DEFINE o == op[a]
           q == Resume(o)
<1>1. /\ o.at \in {"saves", "claims"} /\ o \in Ops
      /\ op' = [op EXCEPT ![a] = Unsaved(o)] /\ a \in Actors /\ Task(r) # Canceller(r)
      /\ UNCHANGED <<board, rec, beating, registry, headless, moved>>
      /\ Formed /\ AllTracked
  BY ActorFacts, OpFacts DEF SaveFails, Begin, files, LifeInv
<1>2. /\ a = Task(r) => TaskForm(r, o)
      /\ a = Canceller(r) => CancelForm(r, o)
  BY <1>1 DEF Formed
<1>3. /\ o.at = "saves" /\ o.then \in {"live", "records"} /\ o.want \in {"done", "blocked"}
      /\ o.card \in Cards /\ o.run = r /\ (a = Canceller(r) => o.then = "records")
      /\ op' = [op EXCEPT ![a] = q]
  BY <1>1, <1>2 DEF TaskForm, CancelForm, Unsaved
<1>4. a = Task(r) => op[Canceller(r)].at = "idle"
  BY <1>1, <1>3 DEF AllTracked, Tracked
<1>5. /\ q.at = o.then /\ q.then = "idle" /\ q.card = o.card /\ q.run = r
      /\ (o.then = "records" => q.want = o.want)
  BY <1>1, <1>3, ResumeFacts
<1> HIDE DEF q
<1>6. /\ a = Task(r) => TaskForm(r, q)
      /\ a = Canceller(r) => CancelForm(r, q)
      /\ Beats(q) => Beats(o)
      /\ InWork(o) /\ InWork(q) /\ q.at # "returns" /\ Reads(q, board)
  BY <1>3, <1>5 DEF TaskForm, CancelForm, Beats, InWork, Reads
<1>7. QED
  BY <1>1, <1>3, <1>4, <1>5, <1>6, RunQuiet

LEMMA SaveFailsLife ==
    ASSUME IInv, LifeInv, NEW a \in Actors, SaveFails(a) PROVE LifeInv' /\ LifeStep
<1>1. CASE a \in Dispatchers \cup Users
  BY <1>1, SaveFailsOuter
<1>2. ASSUME NEW r \in Runs, a \in {Task(r), Canceller(r)} PROVE LifeInv' /\ LifeStep
  BY <1>2, SaveFailsRun
<1>3. QED
  BY <1>1, <1>2, Kinds

---------------------------------------------------------------------------
(* The reclaims of a card, counted in the records. *)
LEMMA ReclaimsType == \A c, f : Reclaims(c, f) \in Nat
<1>1. IsFiniteSet(Runs)
  <2>1. 1 \in Int /\ MaxRuns \in Int
    BY DispatchAssumption
  <2>2. QED
    BY <2>1, FS_Interval DEF Runs
<1> HIDE DEF Runs
<1>2. \A c, f : IsFiniteSet({r \in Runs : f[r].card = c /\ f[r].state = "reclaimed"})
  BY <1>1, FS_Subset
<1>3. QED
  BY <1>2, FS_CardinalityType DEF Reclaims

LEMMA ReclaimsGrow ==
    ASSUME TypeOK, NEW r \in Runs, Active(r), rec' = [rec EXCEPT ![r].state = "reclaimed"]
    PROVE  /\ Reclaims(rec[r].card, rec') = Reclaims(rec[r].card, rec) + 1
           /\ \A c : c # rec[r].card => Reclaims(c, rec') = Reclaims(c, rec)
<1> DEFINE S(c) == {q \in Runs : rec[q].card = c /\ rec[q].state = "reclaimed"}
           T(c) == {q \in Runs : rec'[q].card = c /\ rec'[q].state = "reclaimed"}
<1>1. /\ rec'[r].card = rec[r].card /\ rec'[r].state = "reclaimed" /\ rec[r].state = "active"
      /\ \A q \in Runs \ {r} : rec'[q] = rec[q]
  BY DEF TypeOK, Active
<1>2. \A c : c # rec[r].card => T(c) = S(c)
  BY <1>1
<1>3. T(rec[r].card) = S(rec[r].card) \cup {r} /\ r \notin S(rec[r].card)
  BY <1>1
<1>4. IsFiniteSet(Runs)
  <2>1. 1 \in Int /\ MaxRuns \in Int
    BY DispatchAssumption
  <2>2. QED
    BY <2>1, FS_Interval DEF Runs
<1>5. IsFiniteSet(S(rec[r].card))
  BY <1>4, FS_Subset
<1>6. Cardinality(T(rec[r].card)) = Cardinality(S(rec[r].card)) + 1
  BY <1>3, <1>5, FS_AddElement
<1>7. QED
  BY <1>2, <1>6 DEF Reclaims

(* A stale run is taken back: nobody works on it any more. *)
LEMMA ReclaimLife ==
    ASSUME IInv, LifeInv, NEW r \in Runs, ReclaimRun(r) PROVE LifeInv' /\ LifeStep
<1> DEFINE o == op[Poller]
           left == o.left \ {r}
           c == rec[r].card
           s == IF GivesUp(c, rec') THEN "blocked" ELSE "todo"
           e == [Editing(c, s, "reclaims") EXCEPT !.left = left]
           k == [o EXCEPT !.left = left]
<1>0. /\ Formed /\ UpToDate /\ AllTracked /\ Served /\ Bounded /\ moved = {}
      /\ board \in Boards /\ Poller \in Dispatchers \ Users /\ Poller \in Actors
      /\ \A q \in Runs : rec[q].state \in RunStates
      /\ rec \in [Runs -> [card : Cards \cup {NoCard}, state : RunStates, fresh : BOOLEAN]]
  BY ActorFacts DEF LifeInv, IInv, TypeOK
<1>1. /\ o.at = "reclaims" /\ o \in Ops /\ r \in o.left
      /\ rec' = Closed(r, "reclaimed")
      /\ op' = [op EXCEPT ![Poller] = IF Active(r) THEN e ELSE k]
      /\ UNCHANGED <<board, beating, registry, headless, moved>> /\ moved' = {}
  BY <1>0, OpFacts DEF ReclaimRun, Begin, Faultless
<1>2. o.then = "idle" /\ o.run = 0 /\ DispatcherForm(Poller, o)
  BY <1>0, <1>1 DEF Formed, DispatcherForm
<1>3. \A q \in left : Dead(q)
  BY <1>0, <1>1 DEF AllTracked, Tracked, Ops
<1>4. CASE ~Active(r)
  <2>1. rec' = rec /\ op' = [op EXCEPT ![Poller] = k]
    BY <1>1, <1>4 DEF Closed
  <2>2. k.at = "reclaims" /\ k.then = "idle" /\ k.run = 0 /\ k.left = left /\ k.card = o.card
    <3> HIDE DEF o, left
    <3>1. QED
      BY <1>1, <1>2 DEF Ops
  <2> HIDE DEF k, left
  <2>3. DispatcherForm(Poller, k) /\ Reads(k, board)
    BY <2>2 DEF DispatcherForm, Reads
  <2>4. \A q \in k.left : Dead(q)
    BY <1>3, <2>2
  <2>5. UNCHANGED <<board, rec, beating, registry, moved>> /\ headless \subseteq headless'
        /\ op[Poller].then # "reclaims"
    BY <1>1, <1>2, <2>1
  <2>6. QED
    BY <1>0, <1>1, <2>1, <2>2, <2>3, <2>4, <2>5, OuterQuiet
<1>5. CASE Active(r)
  <2>1. op' = [op EXCEPT ![Poller] = e] /\ rec' = [rec EXCEPT ![r].state = "reclaimed"]
    BY <1>1, <1>5 DEF Closed
  <2>2. Tracked(r) /\ Dead(r) /\ c \in Cards
    BY <1>0, <1>1, <1>5 DEF AllTracked, Tracked
  <2>3. Serves(r, c) /\ board[c] \in Held /\ ~Spent(c)
    BY <1>0, <1>5, <2>2 DEF Serves, Recorded, Served
  <2>4. /\ e.at = "edits" /\ e.then = "reclaims" /\ e.run = 0 /\ e.left = left /\ e.card = c
        /\ e.want = s
    <3> HIDE DEF left, c, s
    <3>1. QED
      BY DEF Editing, Idle
  <2>5. s \in {"todo", "blocked"}
    OBVIOUS
  <2> HIDE DEF e
  <2>6. DispatcherForm(Poller, e) /\ Reads(e, board)
    <3> HIDE DEF c, s
    <3>1. QED
      BY <2>2, <2>3, <2>4, <2>5 DEF DispatcherForm, Reads
  <2>7. op'[Poller] = e /\ \A b \in Actors \ {Poller} : op'[b] = op[b]
    BY <1>0, <2>1, OneOp
  <2>8. UpToDate'
    BY <1>0, <1>1, <2>6, <2>7, ReadsKept
  <2>9. \A q \in Runs : op'[Task(q)] = op[Task(q)] /\ op'[Canceller(q)] = op[Canceller(q)]
    BY <1>0, <2>7, ActorFacts
  <2>10. Formed'
    BY <1>0, <2>6, <2>7, <2>9, ActorFacts, FormedKept
  <2>11. \A d \in Dispatchers : /\ op'[d].run = op[d].run
                                /\ d # Poller => op'[d] = op[d]
    BY <1>2, <2>4, <2>7, ActorFacts
  <2>12. /\ \A q \in Runs : /\ rec'[q].card = rec[q].card /\ rec'[q].fresh = rec[q].fresh
                            /\ q # r => rec'[q] = rec[q]
         /\ rec'[r].state = "reclaimed"
    BY <1>0, <2>1
  <2>13. (\A q \in Runs : Active(q)' <=> Active(q) /\ q # r)
    BY <2>12 DEF Active
  <2>14. ASSUME NEW q \in Runs PROVE Tracked(q)'
    <3>1. Tracked(q) /\ (Dead(q)' <=> Dead(q))
      BY <1>0, <1>1, <2>9, <2>11 DEF AllTracked, Dead
    <3>2. q \in op'[Poller].left => Dead(q)
      BY <1>3, <2>4, <2>7
    <3>3. QED
      BY <1>1, <2>9, <2>11, <2>12, <2>13, <3>1, <3>2 DEF Tracked
  <2>15. \A q \in Runs, x \in Cards :
             /\ HasInHand(q, x)' <=> HasInHand(q, x)
             /\ Recorded(q, x)' <=> Recorded(q, x) /\ q # r
    BY <2>9, <2>12, <2>13 DEF HasInHand, Holder, Recorded
  <2>16. \A x \in Cards : ~HasInHand(r, x)
    BY <2>2 DEF Dead, HasInHand, Holder, Works
  <2>17. \A q \in Runs, x \in Cards : Serves(q, x)' => Serves(q, x) /\ q # r
    <3> SUFFICES ASSUME NEW q \in Runs, NEW x \in Cards, Serves(q, x)'
                 PROVE  Serves(q, x) /\ q # r
      OBVIOUS
    <3>1. q # 0
      BY DispatchAssumption DEF Runs
    <3>2. \A d \in Dispatchers : op'[d].run = q /\ op'[d].card = x
                                   => op[d].run = q /\ op[d].card = x /\ q # r
      BY <1>2, <2>2, <2>11, <3>1 DEF Dead
    <3>3. QED
      BY <2>15, <2>16, <3>2 DEF Serves
  <2>18. \A q \in Runs, x \in Cards : Serves(q, x)' => x # c
    <3> HIDE DEF c
    <3>1. QED
      BY <1>0, <2>2, <2>3, <2>17 DEF Served, Matched
  <2> HIDE DEF left
  <2>19. /\ Reclaims(c, rec) \in Nat /\ Reclaims(c, rec') = Reclaims(c, rec) + 1
         /\ \A x \in Cards \ {c} : Reclaims(x, rec') = Reclaims(x, rec)
    BY <1>0, <1>5, <2>1, ReclaimsType, ReclaimsGrow DEF IInv
  <2>20. \A x \in Cards \ {c} : Spent(x)' <=> Spent(x)
    BY <2>19 DEF Spent, GivesUp
  <2>21. MaxReclaims > 0 /\ Reclaims(c, rec') >= MaxReclaims =>
             s = "blocked" /\ Reclaims(c, rec') <= MaxReclaims
    <3>1. MaxReclaims \in Nat /\ ~(MaxReclaims > 0 /\ Reclaims(c, rec) >= MaxReclaims)
      BY <2>3, DispatchAssumption DEF Spent, GivesUp
    <3>2. s = IF Reclaims(c, rec') >= MaxReclaims THEN "blocked" ELSE "todo"
      BY DEF GivesUp
    <3> HIDE DEF c, s
    <3>3. QED
      BY <2>19, <3>1, <3>2
  <2>22. \A d \in Dispatchers \ {Poller} :
             op'[d] = op[d] /\ (Takes(op[d]) => op[d].card \in Cards \ {c})
    <3>1. ASSUME NEW d \in Dispatchers, Takes(op[d]) PROVE op[d].card # c
      BY <1>0, <2>3, <3>1 DEF Served
    <3>2. ASSUME NEW d \in Dispatchers, Takes(op[d]) PROVE op[d].card \in Cards
      BY <1>0, <3>2 DEF Formed, DispatcherForm, Takes
    <3> HIDE DEF c
    <3>3. QED
      BY <2>11, <3>1, <3>2
  <2>23. ASSUME NEW q \in Runs, NEW x \in Cards, Serves(q, x)'
         PROVE  board'[x] \in Held /\ ~Spent(x)'
    <3>1. x # c
      BY <2>18, <2>23
    <3>2. Serves(q, x)
      BY <2>17, <2>23
    <3>3. QED
      BY <1>0, <1>1, <2>20, <3>1, <3>2 DEF Served
  <2>24. ASSUME NEW d \in Dispatchers, Takes(op'[d]), NEW q \in Runs
         PROVE  ~Serves(q, op[d].card)'
    <3> DEFINE x == op'[d].card
    <3>1. CASE d = Poller
      <4>1. x \in Cards /\ x = c
        BY <2>2, <2>4, <2>7, <3>1
      <4> HIDE DEF c
      <4>2. QED
        BY <2>18, <4>1
    <3>2. CASE d # Poller
      <4>1. x \in Cards /\ x = op[d].card /\ Takes(op[d])
        BY <2>22, <2>24, <3>2
      <4>2. ~Serves(q, x)
        BY <1>0, <4>1 DEF Served
      <4>3. Serves(q, op[d].card)' => Serves(q, x)
        BY <2>17, <4>1
      <4>4. QED
        BY <4>2, <4>3
    <3>3. QED
      BY <3>1, <3>2
  <2>25. Served'
    <3>1. Matched'
      BY <1>0, <2>17 DEF Served, Matched
    <3>2. ASSUME NEW d \in Dispatchers, op'[d].at = "claimed" PROVE ~Spent(op[d].card)'
      <4> DEFINE x == op'[d].card
      <4>1. d # Poller
        BY <2>4, <2>7, <3>2
      <4>2. x \in Cards \ {c} /\ x = op[d].card /\ op[d].at = "claimed"
        BY <2>22, <3>2, <4>1 DEF Takes
      <4>3. ~Spent(x)
        BY <1>0, <4>2 DEF Served
      <4>4. Spent(op[d].card)' => Spent(x)
        BY <2>20, <4>2
      <4>5. QED
        BY <4>3, <4>4
    <3>3. \A d, f \in Dispatchers :
              Takes(op'[d]) /\ Takes(op'[f]) /\ op'[d].card = op'[f].card => d = f
      <4>1. op'[Poller].card = c
        BY <2>4, <2>7
      <4> HIDE DEF c
      <4>2. QED
        BY <1>0, <2>22, <4>1 DEF Served
    <3>4. QED
      BY <2>23, <2>24, <3>1, <3>2, <3>3 DEF Served, Takes
  <2>26. op'[Poller].then = "reclaims" /\ op'[Poller].card = c /\ op'[Poller].want = s
    BY <2>4, <2>7
  <2>27. ASSUME NEW x \in Cards, Spent(x)'
         PROVE  Reclaims(x, rec') <= MaxReclaims /\ board'[x] \in Held
    <3>1. CASE x = c
      BY <1>1, <2>3, <2>21, <2>27, <3>1 DEF Spent, GivesUp
    <3>2. CASE x # c
      BY <1>0, <1>1, <2>19, <2>20, <2>27, <3>2 DEF Bounded
    <3>3. QED
      BY <3>1, <3>2
  <2>28. Spent(op[Poller].card)' => op'[Poller].want = "blocked"
    <3>1. Spent(op[Poller].card)' => MaxReclaims > 0 /\ Reclaims(c, rec') >= MaxReclaims
      BY <2>26 DEF Spent, GivesUp
    <3>2. QED
      BY <2>21, <2>26, <3>1
  <2>29. Bounded'
    BY <2>27, <2>28 DEF Bounded
  <2>30. ASSUME NEW x \in Cards PROVE Opened(x)' <=> Opened(x)
    <3>1. CASE x = c
      BY <1>5, <2>2, <2>26, <3>1 DEF Opened, Reclaiming, Recorded
    <3>2. CASE x # c
      <4>1. \A q \in Runs : Recorded(q, x)' <=> Recorded(q, x)
        BY <2>15, <3>2 DEF Recorded
      <4>2. ~Reclaiming(x) /\ ~Reclaiming(x)'
        BY <1>2, <2>26, <3>2 DEF Reclaiming
      <4>3. QED
        BY <4>1, <4>2 DEF Opened
    <3>3. QED
      BY <3>1, <3>2
  <2>31. LifeStep
    BY <1>0, <1>1, <2>15, <2>30, Stutters
  <2>32. AllTracked'
    BY <2>14 DEF AllTracked
  <2>33. QED
    BY <1>1, <2>8, <2>10, <2>25, <2>29, <2>31, <2>32 DEF LifeInv
<1>6. QED
  BY <1>4, <1>5

(* A dispatch makes the record of its run, or goes on without one. *)
LEMMA CreatedLife ==
    ASSUME IInv, LifeInv, NEW d \in Dispatchers, NEW r \in Runs,
           CreateRun(d, r) \/ CreateFails(d, r)
    PROVE  LifeInv' /\ LifeStep
<1> DEFINE o == op[d]
           c == o.card
           p == [o EXCEPT !.at = "created", !.run = r]
           q == [Idle EXCEPT !.at = "off"]
           n == [card |-> c, state |-> "active", fresh |-> TRUE]
<1>0. /\ Formed /\ UpToDate /\ AllTracked /\ Served /\ Bounded /\ moved = {}
      /\ d \in Actors /\ Poller \in Dispatchers /\ Dispatchers \subseteq Actors
      /\ op \in [Actors -> Ops] /\ Owned(r)
      /\ rec \in [Runs -> [card : Cards \cup {NoCard}, state : RunStates, fresh : BOOLEAN]]
  BY ActorFacts DEF LifeInv, IInv, TypeOK, RunsOwned
<1>1. /\ o.at = "claimed" /\ o \in Ops /\ op[Task(r)].at = "unused"
      /\ op' = [op EXCEPT ![d] = p, ![Task(r)] = q]
      /\ UNCHANGED <<board, registry, headless, moved>> /\ moved' = {}
      /\ \/ CreateRun(d, r) /\ rec' = [rec EXCEPT ![r] = n] /\ beating' = beating \cup {r}
         \/ CreateFails(d, r) /\ rec' = rec /\ beating' = beating
  BY <1>0, OpFacts DEF CreateRun, CreateFails, Created, Unused, Faultless, files
<1>2. /\ DispatcherForm(d, o) /\ c \in Cards /\ o.run = 0 /\ o.then = "idle"
      /\ board[c] = "in_progress"
  BY <1>0, <1>1 DEF Formed, DispatcherForm, UpToDate, Reads
<1>3. /\ r \notin registry /\ op[Canceller(r)].at = "idle" /\ rec[r].state = "none"
      /\ \A e \in Dispatchers : op[e].run # r
      /\ r # 0
  BY <1>0, <1>1, DispatchAssumption DEF Owned, Runs
<1>4. /\ p.at = "created" /\ p.run = r /\ p.card = c /\ p.then = "idle" /\ p.left = o.left
      /\ q.at = "off" /\ q.then = "idle" /\ q.run = 0
      /\ n.card = c /\ n.state = "active" /\ n.fresh = TRUE
  <2> HIDE DEF o
  <2>1. QED
    BY <1>1, <1>2 DEF Ops, Idle
<1> HIDE DEF p, q, n
<1>5. /\ Task(r) \in Actors /\ Task(r) # d /\ Task(r) \notin Users \cup Dispatchers
      /\ d \notin Users
      /\ \A s \in Runs : /\ Task(s) \in Actors /\ Canceller(s) \in Actors
                         /\ Canceller(s) \notin {d, Task(r)} /\ Task(s) # d
                         /\ s # r => Task(s) # Task(r)
  BY ActorFacts
<1>6. /\ op'[d] = p /\ op'[Task(r)] = q
      /\ \A b \in Actors \ {d, Task(r)} : op'[b] = op[b]
  BY <1>0, <1>1, <1>5
<1>7. /\ \A e \in Dispatchers \ {d} : op'[e] = op[e]
      /\ \A s \in Runs : op'[Canceller(s)] = op[Canceller(s)]
      /\ \A s \in Runs \ {r} : op'[Task(s)] = op[Task(s)]
      /\ \A u \in Users : op'[u] = op[u]
  BY <1>0, <1>5, <1>6, ActorFacts
<1>8. /\ \A s \in Runs : ~Serves(s, c)
      /\ ~Spent(c)
      /\ \A e \in Dispatchers \ {d} : Takes(op[e]) => op[e].card # c
  BY <1>0, <1>1 DEF Served, Takes
<1>9. UpToDate'
  <2>1. Reads(p, board) /\ \A x : Reads(q, x)
    BY <1>1, <1>2, <1>4 DEF Reads
  <2>2. QED
    BY <1>0, <1>1, <1>6, <2>1, ReadsKept
<1>10. Formed'
  <2>1. DispatcherForm(d, p) /\ TaskForm(r, q)
    BY <1>2, <1>3, <1>4 DEF DispatcherForm, TaskForm
  <2>2. QED
    BY <1>0, <1>6, <1>7, <2>1, FormedKept
<1>11. /\ \A s \in Runs \ {r} : rec'[s] = rec[s]
       /\ Active(r)' => rec'[r] = n /\ CreateRun(d, r)
       /\ ~Active(r)
       /\ \A s \in Runs \ {r} : Active(s)' <=> Active(s)
       /\ CreateRun(d, r) /\ rec' = [rec EXCEPT ![r] = n] => Active(r)' /\ rec'[r] = n
  BY <1>0, <1>1, <1>3, <1>4 DEF Active
<1>12. \A x \in Cards : Reclaims(x, rec') = Reclaims(x, rec)
  <2>1. rec'[r].state # "reclaimed" /\ rec[r].state # "reclaimed"
    BY <1>0, <1>1, <1>3, <1>4
  <2>2. \A s \in Runs : \A x : rec'[s].card = x /\ rec'[s].state = "reclaimed"
                           <=> rec[s].card = x /\ rec[s].state = "reclaimed"
    BY <1>11, <2>1
  <2>3. QED
    BY <2>2 DEF Reclaims
<1>13. ASSUME NEW s \in Runs PROVE Tracked(s)'
  <2>1. Tracked(s) /\ Tracked(r)
    BY <1>0 DEF AllTracked
  <2>2. op'[Poller].left = op[Poller].left /\ ~Dead(r) /\ r \notin op[Poller].left
    BY <1>0, <1>1, <1>4, <1>6, <1>7, <2>1 DEF Tracked, Dead
  <2>3. CASE s = r
    <3>1. r \in beating' \/ ~Active(r)'
      BY <1>1, <1>11 DEF Active
    <3>2. Active(r)' => rec'[r].card \in Cards /\ rec'[r].fresh
      BY <1>2, <1>4, <1>11
    <3>3. /\ op'[Task(r)].at = "off" /\ ~Beats(op'[Task(r)]) /\ r \notin registry'
          /\ op'[Canceller(r)].at = "idle" /\ r \notin op'[Poller].left
      BY <1>1, <1>3, <1>4, <1>6, <1>7, <2>2 DEF Beats
    <3>4. QED
      BY <2>3, <3>1, <3>2, <3>3 DEF Tracked
  <2>4. CASE s # r
    <3>1. \A e \in Dispatchers : op'[e].run = s <=> op[e].run = s
      <4>1. s # 0
        BY DispatchAssumption DEF Runs
      <4>2. QED
        BY <1>2, <1>4, <1>6, <1>7, <2>4, <4>1
    <3>2. op'[Task(s)] = op[Task(s)] /\ op'[Canceller(s)] = op[Canceller(s)]
          /\ (s \in registry' <=> s \in registry) /\ (s \in beating => s \in beating')
      BY <1>1, <1>7, <2>4
    <3>3. Dead(s)' <=> Dead(s)
      BY <3>1, <3>2 DEF Dead
    <3>4. QED
      BY <1>1, <1>11, <2>1, <2>2, <2>4, <3>1, <3>2, <3>3 DEF Tracked
  <2>5. QED
    BY <2>3, <2>4
<1>14. \A s \in Runs, x \in Cards : HasInHand(s, x)' <=> HasInHand(s, x)
  <2>1. \A x \in Cards : ~HasInHand(r, x) /\ ~HasInHand(r, x)'
    <3>1. op[Task(r)].at = "unused" /\ op[Canceller(r)].at = "idle"
      BY <1>1, <1>3
    <3>2. op'[Task(r)].at = "off" /\ op'[Canceller(r)].at = "idle"
      BY <1>3, <1>4, <1>6, <1>7
    <3>3. QED
      BY <3>1, <3>2 DEF HasInHand, Holder, Works
  <2>2. \A s \in Runs \ {r}, x \in Cards : HasInHand(s, x)' <=> HasInHand(s, x)
    BY <1>7 DEF HasInHand, Holder
  <2>3. QED
    BY <2>1, <2>2
<1>15. ASSUME NEW s \in Runs, NEW x \in Cards, Serves(s, x)'
       PROVE  (s = r /\ x = c) \/ (s # r /\ Serves(s, x))
  <2>1. CASE s = r
    <3>1. ~HasInHand(r, x)'
      <4>1. op'[Task(r)].at = "off" /\ op'[Canceller(r)].at = "idle"
        BY <1>3, <1>4, <1>6, <1>7
      <4>2. QED
        BY <4>1 DEF HasInHand, Holder, Works
    <3>2. Recorded(r, x)' => x = c
      BY <1>4, <1>11 DEF Recorded
    <3>3. \A e \in Dispatchers : op'[e].run = r /\ op'[e].card = x => x = c
      BY <1>3, <1>4, <1>6, <1>7
    <3>4. QED
      BY <1>15, <2>1, <3>1, <3>2, <3>3 DEF Serves
  <2>2. CASE s # r
    <3>1. Recorded(s, x)' <=> Recorded(s, x)
      BY <1>11, <2>2 DEF Recorded
    <3>2. \A e \in Dispatchers : op'[e].run = s /\ op'[e].card = x
                                   => op[e].run = s /\ op[e].card = x
      BY <1>4, <1>6, <1>7, <2>2
    <3>3. QED
      BY <1>14, <1>15, <2>2, <3>1, <3>2 DEF Serves
  <2>3. QED
    BY <2>1, <2>2
<1>16. \A e \in Dispatchers : Takes(op'[e]) =>
           e # d /\ op'[e] = op[e] /\ op[e].card \in Cards \ {c}
  <2>1. ASSUME NEW e \in Dispatchers, Takes(op[e]) PROVE op[e].card \in Cards
    BY <1>0, <2>1 DEF Formed, DispatcherForm, Takes
  <2>2. ~Takes(op'[d])
    BY <1>4, <1>6 DEF Takes
  <2> HIDE DEF c
  <2>3. QED
    BY <1>7, <1>8, <2>1, <2>2
<1>19. \A x \in Cards : Spent(x)' <=> Spent(x)
  BY <1>12 DEF Spent, GivesUp
<1>20. Served'
  <2>1. Matched'
    <3> HIDE DEF c
    <3>1. QED
      BY <1>0, <1>8, <1>15 DEF Served, Matched
  <2>2. ASSUME NEW s \in Runs, NEW x \in Cards, Serves(s, x)'
        PROVE  board'[x] \in Held /\ ~Spent(x)'
    <3>1. (s = r /\ x = c) \/ (s # r /\ Serves(s, x))
      BY <1>15, <2>2
    <3>2. board[x] \in Held /\ ~Spent(x)
      BY <1>0, <1>2, <1>8, <3>1 DEF Served, Held
    <3>3. QED
      BY <1>1, <1>19, <3>2
  <2>3. ASSUME NEW e \in Dispatchers, Takes(op'[e]), NEW s \in Runs
        PROVE  ~Serves(s, op[e].card)'
    <3> DEFINE x == op'[e].card
    <3>1. x \in Cards \ {c} /\ x = op[e].card /\ Takes(op[e])
      BY <1>16, <2>3
    <3>2. ~Serves(s, x)
      BY <1>0, <3>1 DEF Served
    <3>3. Serves(s, op[e].card)' => Serves(s, x)
      BY <1>15, <3>1
    <3>4. QED
      BY <3>2, <3>3
  <2>4. ASSUME NEW e \in Dispatchers, op'[e].at = "claimed" PROVE ~Spent(op[e].card)'
    <3> DEFINE x == op'[e].card
    <3>1. x \in Cards /\ x = op[e].card /\ op[e].at = "claimed"
      BY <1>16, <2>4 DEF Takes
    <3>2. ~Spent(x)
      BY <1>0, <3>1 DEF Served
    <3>3. Spent(op[e].card)' => Spent(x)
      BY <1>19, <3>1
    <3>4. QED
      BY <3>2, <3>3
  <2>5. \A e, f \in Dispatchers :
            Takes(op'[e]) /\ Takes(op'[f]) /\ op'[e].card = op'[f].card => e = f
    BY <1>0, <1>16 DEF Served
  <2>6. QED
    BY <2>1, <2>2, <2>3, <2>4, <2>5 DEF Served, Takes
<1>21. Bounded'
  <2>1. op'[Poller].then = "reclaims" => op'[Poller] = op[Poller] /\ op[Poller].card \in Cards
    BY <1>0, <1>16 DEF Takes
  <2>2. \A x \in Cards : Spent(x)' => Reclaims(x, rec') <= MaxReclaims /\ board'[x] \in Held
    BY <1>0, <1>1, <1>12, <1>19 DEF Bounded
  <2>3. op'[Poller].then = "reclaims" /\ Spent(op[Poller].card)' => op'[Poller].want = "blocked"
    <3> SUFFICES ASSUME op'[Poller].then = "reclaims"
                 PROVE  Spent(op[Poller].card)' => op'[Poller].want = "blocked"
      OBVIOUS
    <3> DEFINE x == op'[Poller].card
    <3>1. op'[Poller] = op[Poller] /\ x \in Cards /\ op[Poller].card = x
      BY <2>1
    <3>2. Spent(op[Poller].card)' => Spent(x)
      BY <1>19, <3>1
    <3>3. QED
      BY <1>0, <3>1, <3>2 DEF Bounded
  <2>4. QED
    BY <2>2, <2>3 DEF Bounded
<1>22. LifeInv'
  BY <1>1, <1>9, <1>10, <1>13, <1>20, <1>21 DEF LifeInv, AllTracked
<1>23. \A x \in Cards : Reclaiming(x)' <=> Reclaiming(x)
  BY <1>0, <1>2, <1>4, <1>6, <1>7 DEF Reclaiming
<1>24. CASE CreateFails(d, r) /\ rec' = rec
  <2>1. \A x \in Cards : Opened(x)' <=> Opened(x)
    BY <1>23, <1>24 DEF Opened, Recorded, Active
  <2>2. QED
    BY <1>0, <1>1, <1>14, <1>22, <2>1, Stutters
<1>25. CASE CreateRun(d, r) /\ rec' = [rec EXCEPT ![r] = n]
  <2>1. Active(r)' /\ rec'[r].card = c
    BY <1>4, <1>11, <1>25
  <2>2. \A x \in Cards : Opened(x)' <=> Opened(x) \/ x = c
    <3> HIDE DEF c
    <3>1. Active(r)' /\ rec'[r].card = c
      BY <2>1
    <3>2. QED
      BY <1>11, <1>23, <3>1 DEF Opened, Recorded
  <2>3. /\ Unaccounted = {x \in Cards : Opened(x)}
        /\ \A x \in Cards : Workers(x) = {s \in Runs : HasInHand(s, x)}
    BY <1>0, MapIs
  <2>4. /\ Unaccounted' = {x \in Cards : Opened(x)'}
        /\ \A x \in Cards : Workers(x)' = {s \in Runs : HasInHand(s, x)'}
    BY <1>1, MapIsNext
  <2>5. Unaccounted' = Unaccounted \cup {c}
    <3> HIDE DEF c
    <3>1. QED
      BY <1>2, <2>2, <2>3, <2>4 DEF c
  <2>6. [x \in Cards |-> Workers(x)]' = [x \in Cards |-> Workers(x)]
    BY <1>14, <2>3, <2>4
  <2>7. Workers(c) = {}
    BY <1>2, <1>8, <2>3 DEF Serves
  <2>8. Life!Open(c)
    BY <1>1, <1>2, <2>5, <2>6, <2>7 DEF Life!Open
  <2>9. QED
    BY <1>2, <1>22, <2>8 DEF LifeStep, Life!Next
<1>26. QED
  BY <1>1, <1>24, <1>25

(* The run begins: its dispatcher hands the card to its task. *)
LEMMA SpawnLife ==
    ASSUME IInv, LifeInv, NEW d \in Dispatchers, Spawn(d) PROVE LifeInv' /\ LifeStep
<1> DEFINE o == op[d]
<1>0. /\ Formed /\ UpToDate /\ AllTracked /\ Served /\ Bounded /\ moved = {}
      /\ d \in Actors /\ Poller \in Dispatchers /\ Dispatchers \subseteq Actors
      /\ op \in [Actors -> Ops] /\ RunsOwned
  BY ActorFacts DEF LifeInv, IInv, TypeOK
<1>pair. PICK r \in Runs, c \in Cards :
           /\ o.run = r /\ o.card = c /\ DispatcherForm(d, o) /\ o.then = "idle"
           /\ board[c] = "in_progress"
  <2>1. o.at = "stamped" /\ o \in Ops
    BY <1>0, OpFacts DEF Spawn
  <2>2. DispatcherForm(d, o) /\ o.card \in Cards /\ o.run # 0 /\ o.then = "idle"
        /\ board[o.card] = "in_progress"
    BY <1>0, <2>1 DEF Formed, DispatcherForm, UpToDate, Reads
  <2>3. QED
    BY <2>1, <2>2 DEF Ops
<1> DEFINE n == [Idle EXCEPT !.at = "live", !.card = c, !.run = r]
<1>1. /\ o.at = "stamped" /\ o \in Ops
      /\ op' = [op EXCEPT ![d] = Idle, ![Task(r)] = n]
      /\ registry' = IF r \in headless THEN registry ELSE registry \cup {r}
      /\ UNCHANGED <<board, rec, beating, headless, moved>> /\ moved' = {}
  BY <1>0, <1>pair, OpFacts DEF Spawn, Faultless, files
<1>2. /\ o.run = r /\ o.card = c /\ c \in Cards /\ r \in Runs /\ o.then = "idle"
      /\ DispatcherForm(d, o) /\ board[c] = "in_progress"
  BY <1>pair
<1>3. /\ op[Task(r)].at = "off" /\ op[Canceller(r)].at = "idle"
      /\ \A e \in Dispatchers \ {d} : op[e].run # r
      /\ Active(r) => rec[r].card \in Cards /\ r \in beating
      /\ ~Dead(r)
  BY <1>0, <1>2 DEF AllTracked, Tracked, RunsOwned, Owned, Dead
<1>4. n.at = "live" /\ n.then = "idle" /\ n.run = r /\ n.card = c
  BY DEF Idle
<1>5. Serves(r, c) /\ (\A x : Serves(r, x) /\ x \in Cards => x = c)
      /\ \A s \in Runs : Serves(s, c) => s = r
  <2>1. Serves(r, c)
    BY <1>2 DEF Serves
  <2>2. QED
    BY <1>0, <1>2, <2>1 DEF Served, Matched
<1> HIDE DEF n
<1>6. /\ Task(r) \in Actors /\ Task(r) # d /\ Task(r) \notin Users \cup Dispatchers
      /\ d \notin Users
      /\ \A s \in Runs : /\ Task(s) \in Actors /\ Canceller(s) \in Actors
                         /\ Canceller(s) \notin {d, Task(r)} /\ Task(s) # d
                         /\ s # r => Task(s) # Task(r)
  BY <1>2, ActorFacts
<1>7. /\ op'[d] = Idle /\ op'[Task(r)] = n
      /\ \A b \in Actors \ {d, Task(r)} : op'[b] = op[b]
  <2>1. QED
    BY <1>0, <1>1, <1>6
<1>8. /\ \A e \in Dispatchers \ {d} : op'[e] = op[e]
      /\ \A s \in Runs : op'[Canceller(s)] = op[Canceller(s)]
      /\ \A s \in Runs \ {r} : op'[Task(s)] = op[Task(s)]
      /\ \A u \in Users : op'[u] = op[u]
  BY <1>0, <1>6, <1>7, ActorFacts
<1>10. \A x : Reads(n, x)
  BY <1>4 DEF Reads
<1>11. UpToDate'
  BY <1>0, <1>1, <1>7, <1>10, IdleForms, ReadsKept
<1>12. Formed'
  <2>1. TaskForm(r, n)
    BY <1>2, <1>4 DEF TaskForm
  <2>2. QED
    BY <1>0, <1>7, <1>8, <2>1, IdleForms, FormedKept
<1>13. ASSUME NEW s \in Runs PROVE Tracked(s)'
  <2>1. Tracked(s) /\ Tracked(r) /\ s # 0
    BY <1>0, <1>2, DispatchAssumption DEF AllTracked, Runs
  <2>2. op'[Poller].left \subseteq op[Poller].left
    BY <1>0, <1>7, <1>8, IdleForms
  <2>3. \A e \in Dispatchers : op'[e].run = s => op[e].run = s /\ s # r
    BY <1>3, <1>7, <1>8, <2>1, IdleForms
  <2>4. (Active(s)' <=> Active(s)) /\ rec' = rec /\ beating' = beating /\ headless' = headless
    BY <1>1 DEF Active
  <2>5. CASE s = r
    <3>1. r \in registry' \cup headless /\ op'[Canceller(r)].at = "idle"
          /\ op'[Task(r)].at = "live"
      BY <1>1, <1>2, <1>3, <1>4, <1>7, <1>8
    <3>2. r \notin op'[Poller].left /\ (Active(r) => rec[r].fresh)
      BY <1>3, <2>1, <2>2 DEF Tracked
    <3>3. QED
      BY <1>3, <2>3, <2>4, <2>5, <3>1, <3>2 DEF Tracked
  <2>6. CASE s # r
    <3>1. op'[Task(s)] = op[Task(s)] /\ op'[Canceller(s)] = op[Canceller(s)]
          /\ (s \in registry' <=> s \in registry)
      BY <1>1, <1>8, <2>6
    <3>2. Dead(s) => Dead(s)'
      BY <2>3, <3>1 DEF Dead
    <3>3. QED
      BY <2>1, <2>2, <2>3, <2>4, <3>1, <3>2 DEF Tracked
  <2>7. QED
    BY <2>5, <2>6
<1>14. \A s \in Runs, x \in Cards : /\ HasInHand(s, x)' <=> HasInHand(s, x) \/ (s = r /\ x = c)
                                    /\ Recorded(s, x)' <=> Recorded(s, x)
  <2>1. \A x \in Cards : ~HasInHand(r, x)
    BY <1>3 DEF HasInHand, Holder, Works
  <2>2. \A x \in Cards : HasInHand(r, x)' <=> x = c
    <3>1. op'[Task(r)] = n /\ op'[Canceller(r)].at = "idle"
      BY <1>2, <1>3, <1>7, <1>8
    <3>2. QED
      BY <1>4, <3>1 DEF HasInHand, Holder, Works
  <2>3. \A s \in Runs \ {r}, x \in Cards : HasInHand(s, x)' <=> HasInHand(s, x)
    BY <1>8 DEF HasInHand, Holder
  <2>4. QED
    BY <1>1, <2>1, <2>2, <2>3 DEF Recorded, Active
<1>15. \A s \in Runs, x \in Cards : Serves(s, x)' => Serves(s, x)
  <2> SUFFICES ASSUME NEW s \in Runs, NEW x \in Cards, Serves(s, x)' PROVE Serves(s, x)
    OBVIOUS
  <2>1. s # 0
    BY DispatchAssumption DEF Runs
  <2>2. \A e \in Dispatchers : op'[e].run = s /\ op'[e].card = x => op[e].run = s /\ op[e].card = x
    BY <1>7, <1>8, <2>1, IdleForms
  <2>3. s = r /\ x = c => Serves(s, x)
    BY <1>5
  <2>4. QED
    BY <1>14, <2>2, <2>3 DEF Serves
<1>16. /\ \A e \in Dispatchers :
              Takes(op'[e]) => op'[e] = op[e] /\ op[e].card \in Cards
       /\ op'[Poller].then = "reclaims" <=> op[Poller].then = "reclaims"
       /\ op'[Poller].then = "reclaims" => op'[Poller] = op[Poller] /\ op[Poller].card \in Cards
  <2>1. ASSUME NEW e \in Dispatchers, Takes(op[e]) PROVE op[e].card \in Cards
    BY <1>0, <2>1 DEF Formed, DispatcherForm, Takes
  <2>2. ~Takes(op'[d]) /\ op'[d].then = "idle"
    BY <1>7, IdleForms DEF Takes
  <2>3. QED
    BY <1>0, <1>2, <1>8, <2>1, <2>2 DEF Takes
<1>17. Served' /\ Bounded'
  BY <1>0, <1>1, <1>15, <1>16, ServedKept
<1>18. LifeInv'
  BY <1>1, <1>11, <1>12, <1>13, <1>17 DEF LifeInv, AllTracked
<1>19. \A x \in Cards : Opened(x)' <=> Opened(x)
  BY <1>0, <1>14, <1>16 DEF Opened, Reclaiming
<1>20. /\ Unaccounted = {x \in Cards : Opened(x)}
       /\ \A x \in Cards : Workers(x) = {s \in Runs : HasInHand(s, x)}
  BY <1>0, MapIs
<1>21. /\ Unaccounted' = {x \in Cards : Opened(x)'}
       /\ \A x \in Cards : Workers(x)' = {s \in Runs : HasInHand(s, x)'}
  BY <1>1, MapIsNext
<1>22. Unaccounted' = Unaccounted
  BY <1>19, <1>20, <1>21
<1>23. \A s \in Runs : ~HasInHand(s, c)
  <2>1. \A x \in Cards : ~HasInHand(r, x)
    BY <1>3 DEF HasInHand, Holder, Works
  <2>2. \A s \in Runs : HasInHand(s, c) => s = r
    BY <1>5 DEF Serves
  <2>3. QED
    BY <1>2, <2>1, <2>2
<1>24. Workers(c) = {}
  BY <1>2, <1>20, <1>23
<1>25. [x \in Cards |-> Workers(x)]' = [[x \in Cards |-> Workers(x)] EXCEPT ![c] = {r}]
  <2>1. ASSUME NEW x \in Cards PROVE Workers(x)' = IF x = c THEN {r} ELSE Workers(x)
    <3>1. Workers(x)' = {s \in Runs : HasInHand(s, x) \/ (s = r /\ x = c)}
      BY <1>14, <1>21
    <3>2. CASE x = c
      BY <1>2, <1>23, <3>1, <3>2
    <3>3. CASE x # c
      BY <1>20, <3>1, <3>3
    <3>4. QED
      BY <3>2, <3>3
  <2>2. QED
    BY <2>1
<1>26. Life!Start(c, r)
  BY <1>1, <1>2, <1>22, <1>24, <1>25 DEF Life!Start
<1>27. QED
  BY <1>2, <1>18, <1>26 DEF LifeStep, Life!Next

(* The record of a run is closed by whoever wrote its outcome back, or stays *)
(* open when it cannot be saved.                                            *)
LEMMA RecordLife ==
    ASSUME IInv, LifeInv, NEW a \in Actors, Record(a) \/ RecordFails(a)
    PROVE  LifeInv' /\ LifeStep
<1> DEFINE o == op[a]
           n == [Idle EXCEPT !.at = "off"]
<1>0. /\ Formed /\ UpToDate /\ AllTracked /\ Served /\ Bounded /\ moved = {}
      /\ Poller \in Dispatchers /\ Dispatchers \subseteq Actors /\ RunsOwned
      /\ rec \in [Runs -> [card : Cards \cup {NoCard}, state : RunStates, fresh : BOOLEAN]]
  BY ActorFacts DEF LifeInv, IInv, TypeOK
<1>1. PICK r \in Runs : a \in {Task(r), Canceller(r)} /\ a \notin Dispatchers \cup Users
  <2>1. o.at = "records"
    BY DEF Record, RecordFails
  <2>2. a \notin Dispatchers \cup Users
    BY <1>0, <2>1 DEF Formed, UserForm, DispatcherForm
  <2>3. QED
    BY <2>2, Kinds
<1>2. PICK c \in Cards : o.card = c
  BY <1>0, <1>1 DEF Record, RecordFails, Formed, TaskForm, CancelForm
<1>3. /\ o.at = "records" /\ op' = [op EXCEPT ![a] = n] /\ o.run = r
      /\ rec' = Closed(r, Outcome(o)) \/ rec' = rec
      /\ UNCHANGED <<board, beating, registry, headless, moved>> /\ moved' = {}
  BY <1>0, <1>1
     DEF Record, RecordFails, Begin, files, Faultless, Formed, TaskForm, CancelForm
<1>4. n.at = "off" /\ n.then = "idle" /\ n.run = 0
  BY DEF Idle
<1> HIDE DEF n
<1>5. op'[a] = n /\ \A b \in Actors \ {a} : op'[b] = op[b]
  BY <1>3, OneOp
<1>6. /\ Task(r) \in Actors /\ Canceller(r) \in Actors /\ Task(r) # Canceller(r)
      /\ \A s \in Runs : /\ Task(s) \in Actors /\ Canceller(s) \in Actors
                         /\ s # r => Task(s) # a /\ Canceller(s) # a
      /\ Users \subseteq Actors
  BY <1>1, ActorFacts
<1>7. /\ \A d \in Dispatchers : op'[d] = op[d]
      /\ \A u \in Users : op'[u] = op[u]
      /\ \A s \in Runs \ {r} : op'[Task(s)] = op[Task(s)] /\ op'[Canceller(s)] = op[Canceller(s)]
  BY <1>0, <1>1, <1>5, <1>6
<1>8. /\ r \notin registry /\ r \notin op[Poller].left /\ ~Dead(r)
      /\ \A d \in Dispatchers : op[d].run # r
      /\ op'[Task(r)].at \in {"off", "returns"} /\ op'[Task(r)].then = "idle"
      /\ op'[Canceller(r)].at \in {"idle", "off"}
      /\ op'[Canceller(r)].at = "idle" => op'[Task(r)].at = "off"
      /\ op[Holder(r)] = o
  <2>1. Tracked(r) /\ Owned(r)
    BY <1>0 DEF AllTracked, RunsOwned
  <2>2. CASE a = Task(r)
    <3>1. op[Canceller(r)].at = "idle" /\ op'[Canceller(r)] = op[Canceller(r)]
          /\ op'[Task(r)] = n /\ ~Dead(r) /\ \A d \in Dispatchers : op[d].run # r
      BY <1>3, <1>5, <1>6, <2>1, <2>2 DEF Tracked, Dead
    <3>2. r \notin registry
      BY <1>3, <2>1, <2>2 DEF Owned, Reports
    <3>3. QED
      BY <1>4, <2>1, <2>2, <3>1, <3>2 DEF Tracked, Holder
  <2>3. CASE a = Canceller(r)
    <3>1. op[Task(r)].at \in {"off", "returns"} /\ op'[Task(r)] = op[Task(r)]
          /\ op'[Canceller(r)] = n /\ ~Dead(r) /\ op[Canceller(r)].at # "idle"
      BY <1>3, <1>5, <1>6, <2>1, <2>3 DEF Tracked, Dead
    <3>2. r \notin registry /\ \A d \in Dispatchers : op[d].run # r
      BY <2>1, <3>1 DEF Owned
    <3>3. op[Task(r)].then = "idle"
      BY <1>0, <3>1 DEF Formed, TaskForm
    <3>4. QED
      BY <1>4, <2>1, <2>3, <3>1, <3>2, <3>3 DEF Tracked, Holder
  <2>4. QED
    BY <1>1, <2>2, <2>3
<1>9. UpToDate'
  <2>1. \A x : Reads(n, x)
    BY <1>4 DEF Reads
  <2>2. QED
    BY <1>0, <1>3, <1>5, <2>1, ReadsKept
<1>10. Formed'
  <2>1. TaskForm(r, n) /\ CancelForm(r, n)
    BY <1>4 DEF TaskForm, CancelForm
  <2>2. /\ op'[Task(r)] \in {op[Task(r)], n}
        /\ op'[Canceller(r)] \in {op[Canceller(r)], n}
    BY <1>1, <1>5, <1>6
  <2>3. \A s \in Runs : /\ op'[Task(s)] = op[Task(s)] \/ TaskForm(s, op'[Task(s)])
                        /\ op'[Canceller(s)] = op[Canceller(s)] \/ CancelForm(s, op'[Canceller(s)])
    BY <1>7, <2>1, <2>2
  <2>4. QED
    BY <1>0, <1>7, <2>3, FormedKept
<1>11. /\ \A s \in Runs \ {r} : rec'[s] = rec[s]
       /\ rec'[r].state = "active" => rec' = rec
       /\ rec'[r].state = "reclaimed" <=> rec[r].state = "reclaimed"
       /\ rec'[r].card = rec[r].card
  <2>1. Outcome(o) \in {"success", "failed"}
    BY DEF Outcome
  <2> HIDE DEF o
  <2>2. CASE rec' = rec
    BY <2>2
  <2>3. CASE Active(r) /\ rec' = Closed(r, Outcome(o))
    BY <1>0, <2>1, <2>3 DEF Closed, Active
  <2>4. QED
    BY <1>3, <2>2, <2>3 DEF Closed
<1>12. /\ Active(r)' => Active(r) /\ rec' = rec
       /\ \A s \in Runs \ {r} : Active(s)' <=> Active(s)
  BY <1>11 DEF Active
<1>13. ASSUME NEW s \in Runs PROVE Tracked(s)'
  <2>1. op'[Poller].left = op[Poller].left /\ Tracked(s)
    BY <1>0, <1>7 DEF AllTracked
  <2>2. CASE s = r
    <3>1. ~Beats(op'[Task(r)]) /\ r \notin registry' /\ r \notin op'[Poller].left
          /\ \A d \in Dispatchers : op'[d].run # r
      BY <1>3, <1>7, <1>8, <2>1 DEF Beats
    <3>2. Active(r)' => rec'[r].card \in Cards /\ rec'[r].fresh
      BY <1>8, <1>12, <2>1, <2>2 DEF Tracked
    <3>3. QED
      BY <1>8, <2>2, <3>1, <3>2 DEF Tracked
  <2>3. CASE s # r
    <3>1. Dead(s)' <=> Dead(s)
      BY <1>3, <1>7, <2>3 DEF Dead
    <3>2. QED
      BY <1>3, <1>7, <1>11, <1>12, <2>1, <2>3, <3>1 DEF Tracked
  <2>4. QED
    BY <2>2, <2>3
<1>14. \A s \in Runs, x \in Cards : /\ HasInHand(s, x)' <=> HasInHand(s, x) /\ s # r
                                    /\ Recorded(s, x)' => Recorded(s, x)
                                    /\ s # r => (Recorded(s, x)' <=> Recorded(s, x))
  <2>1. \A x \in Cards : ~HasInHand(r, x)' /\ (Recorded(r, x)' => Recorded(r, x))
    BY <1>8, <1>12 DEF HasInHand, Holder, Recorded, Works
  <2>2. \A s \in Runs \ {r}, x \in Cards : /\ HasInHand(s, x)' <=> HasInHand(s, x)
                                           /\ Recorded(s, x)' <=> Recorded(s, x)
    BY <1>7, <1>11, <1>12 DEF HasInHand, Holder, Recorded
  <2>3. QED
    BY <2>1, <2>2
<1>15. \A s \in Runs, x \in Cards : Serves(s, x)' => Serves(s, x)
  BY <1>7, <1>14 DEF Serves
<1>16. \A x \in Cards : Reclaims(x, rec') = Reclaims(x, rec)
  <2>1. \A s \in Runs : \A x : rec'[s].card = x /\ rec'[s].state = "reclaimed"
                           <=> rec[s].card = x /\ rec[s].state = "reclaimed"
    BY <1>11
  <2>2. QED
    BY <2>1 DEF Reclaims
<1>17. \A d \in Dispatchers : Takes(op[d]) => op[d].card \in Cards
  BY <1>0 DEF Formed, DispatcherForm, Takes
<1>18. Served' /\ Bounded'
  BY <1>0, <1>3, <1>7, <1>15, <1>16, <1>17, ServedKept DEF Takes
<1>19. LifeInv'
  BY <1>3, <1>9, <1>10, <1>13, <1>18 DEF LifeInv, AllTracked
<1>20. HasInHand(r, c)
  BY <1>2, <1>3, <1>8 DEF HasInHand, Works
<1>21. /\ \A x \in Cards : Serves(r, x) => x = c
       /\ \A s \in Runs : Serves(s, c) => s = r
       /\ ~Reclaiming(c)
  <2>1. Serves(r, c)
    BY <1>20 DEF Serves
  <2>2. QED
    BY <1>0, <2>1 DEF Served, Matched, Takes, Reclaiming
<1>22. \A x \in Cards : /\ Opened(x)' => Opened(x)
                        /\ x # c => (Opened(x)' <=> Opened(x))
                        /\ \A s \in Runs : HasInHand(s, x)' <=> HasInHand(s, x) /\ x # c
  <2>1. \A x \in Cards : Reclaiming(x)' <=> Reclaiming(x)
    BY <1>0, <1>7 DEF Reclaiming
  <2>2. \A x \in Cards, s \in Runs : /\ Recorded(s, x) => (s = r <=> x = c)
                                     /\ HasInHand(s, x) => (s = r <=> x = c)
    BY <1>21 DEF Serves
  <2>3. QED
    BY <1>14, <2>1, <2>2 DEF Opened
<1>23. /\ Unaccounted = {x \in Cards : Opened(x)}
       /\ \A x \in Cards : Workers(x) = {s \in Runs : HasInHand(s, x)}
  BY <1>0, MapIs
<1>24. /\ Unaccounted' = {x \in Cards : Opened(x)'}
       /\ \A x \in Cards : Workers(x)' = {s \in Runs : HasInHand(s, x)'}
  BY <1>3, MapIsNext
<1>25. Unaccounted' = Unaccounted \/ Unaccounted' = Unaccounted \ {c}
  BY <1>22, <1>23, <1>24
<1>26. [x \in Cards |-> Workers(x)]' = [[x \in Cards |-> Workers(x)] EXCEPT ![c] = {}]
  <2>1. \A x \in Cards : Workers(x)' = IF x = c THEN {} ELSE Workers(x)
    BY <1>22, <1>23, <1>24
  <2>2. QED
    BY <2>1
<1>27. Workers(c) # {}
  BY <1>20, <1>23
<1>28. Life!Finish(c) \/ Life!Lose(c)
  BY <1>3, <1>25, <1>26, <1>27 DEF Life!Finish, Life!Lose
<1>29. QED
  BY <1>19, <1>28 DEF LifeStep, Life!Next

(* The cancel of a session takes the card over from the run's own task. *)
LEMMA CancelLife ==
    ASSUME IInv, LifeInv, EditsApart', NEW r \in Runs, Cancel(r) PROVE LifeInv' /\ LifeStep
<1> DEFINE o == op[Task(r)]
           a == Canceller(r)
           n == Aborted(o)
<1>0. /\ Formed /\ UpToDate /\ AllTracked /\ Served /\ Bounded /\ moved = {}
      /\ Poller \in Dispatchers /\ Dispatchers \subseteq Actors /\ RunsOwned
      /\ op \in [Actors -> Ops]
  BY ActorFacts DEF LifeInv, IInv, TypeOK
<1>1. /\ Task(r) \in Actors /\ a \in Actors /\ Task(r) # a /\ Users \subseteq Actors
      /\ Task(r) \notin Dispatchers \cup Users /\ a \notin Dispatchers \cup Users
      /\ \A s \in Runs : /\ Task(s) \in Actors /\ Canceller(s) \in Actors
                         /\ Task(s) # a /\ Canceller(s) # Task(r)
                         /\ s # r => Task(s) # Task(r) /\ Canceller(s) # a
  BY ActorFacts
<1>2. /\ r \in registry
      /\ op' = [op EXCEPT ![Task(r)] = n,
                 ![a] = [Editing(o.card, "blocked", "records") EXCEPT !.run = r]]
  BY DEF Cancel
<1>3. o.at \notin {"edits", "saves"}
  <2>1. op'[a].at = "edits"
    BY <1>0, <1>1, <1>2 DEF Editing, Idle
  <2>2. op'[Task(r)] = n
    BY <1>0, <1>1, <1>2
  <2>3. n.at \notin {"edits", "saves"}
    BY <1>1, <2>1, <2>2 DEF EditsApart, OnBoard
  <2>4. o \in Ops
    BY <1>0, <1>1
  <2>5. o.at \in {"edits", "saves"} => n.at = o.at
    BY <2>4 DEF Aborted, Ops
  <2>6. QED
    BY <2>3, <2>5
<1>4. /\ o.at \in {"live", "returns"} /\ o.then = "idle" /\ op[a].at = "idle"
      /\ \A d \in Dispatchers : op[d].run # r
  <2>1. Tracked(r) /\ Owned(r) /\ TaskForm(r, o)
    BY <1>0 DEF AllTracked, RunsOwned, Formed
  <2>2. QED
    BY <1>2, <1>3, <2>1 DEF Tracked, Owned, TaskForm, Reports
<1>5. PICK c \in Cards : o.card = c
  BY <1>0, <1>4 DEF Formed, TaskForm
<1> DEFINE k == [Editing(c, "blocked", "records") EXCEPT !.run = r]
<1>6. /\ op' = [op EXCEPT ![Task(r)] = n, ![a] = k]
      /\ registry' = registry \ {r} /\ beating' = beating \ {r}
      /\ UNCHANGED <<board, rec, headless, moved>> /\ moved' = {}
  BY <1>0, <1>2, <1>5 DEF Cancel, Faultless, files
<1>7. /\ n.at \in {"off", "returns"} /\ n.then = "idle" /\ TaskForm(r, n)
      /\ k.at = "edits" /\ k.then = "records" /\ k.want = "blocked" /\ k.card = c /\ k.run = r
  <2>1. k.at = "edits" /\ k.then = "records" /\ k.want = "blocked" /\ k.card = c /\ k.run = r
    BY DEF Idle, Editing
  <2>2. CASE o.at = "live"
    <3>1. n = [Idle EXCEPT !.at = "off"]
      BY <2>2 DEF Aborted
    <3>2. QED
      BY <2>1, <3>1 DEF Idle, TaskForm
  <2>3. CASE o.at = "returns"
    <3>1. n = o
      BY <1>4, <2>3 DEF Aborted
    <3>2. QED
      BY <1>0, <1>4, <2>1, <2>3, <3>1 DEF Formed
  <2>4. QED
    BY <1>4, <2>2, <2>3
<1>8. /\ op'[Task(r)] = n /\ op'[a] = k
      /\ \A b \in Actors \ {a, Task(r)} : op'[b] = op[b]
  BY <1>0, <1>1, <1>6
<1>9. /\ \A d \in Dispatchers : op'[d] = op[d]
      /\ \A u \in Users : op'[u] = op[u]
      /\ \A s \in Runs \ {r} : op'[Task(s)] = op[Task(s)] /\ op'[Canceller(s)] = op[Canceller(s)]
  BY <1>0, <1>1, <1>8
<1>10. UpToDate'
  <2>1. Reads(k, board) /\ Reads(n, board)
    BY <1>7 DEF Reads
  <2>2. QED
    BY <1>0, <1>1, <1>6, <1>8, <2>1, ReadsKept
<1>11. Formed'
  <2>1. TaskForm(r, n) /\ CancelForm(r, k)
    BY <1>5, <1>7 DEF CancelForm
  <2>2. QED
    BY <1>0, <1>8, <1>9, <2>1, FormedKept
<1>12. ASSUME NEW s \in Runs PROVE Tracked(s)'
  <2>1. op'[Poller].left = op[Poller].left /\ Tracked(s) /\ (Active(s)' <=> Active(s))
    BY <1>0, <1>6, <1>9 DEF AllTracked, Active
  <2>2. CASE s = r
    <3>1. /\ ~Beats(op'[Task(r)]) /\ op'[Task(r)].at \in {"off", "returns"} /\ r \notin registry'
          /\ op'[a].at # "idle"
          /\ \A d \in Dispatchers : op'[d].run # r
      BY <1>4, <1>6, <1>7, <1>8, <1>9 DEF Beats
    <3>2. ~Dead(r)
      BY <1>4 DEF Dead
    <3>3. QED
      BY <1>6, <2>1, <2>2, <3>1, <3>2 DEF Tracked
  <2>3. CASE s # r
    <3>1. (s \in registry' <=> s \in registry) /\ (s \in beating' <=> s \in beating)
      BY <1>6, <2>3
    <3>2. Dead(s)' <=> Dead(s)
      BY <1>9, <2>3, <3>1 DEF Dead
    <3>3. QED
      BY <1>6, <1>9, <2>1, <2>3, <3>1, <3>2 DEF Tracked
  <2>4. QED
    BY <2>2, <2>3
<1>13. \A s \in Runs, x \in Cards : /\ HasInHand(s, x)' <=> HasInHand(s, x)
                                    /\ Recorded(s, x)' <=> Recorded(s, x)
  <2>1. \A x \in Cards : (HasInHand(r, x)' <=> x = c) /\ (HasInHand(r, x) <=> x = c)
    <3>1. op[Canceller(r)].at = "idle" /\ o.at \in {"live", "returns"} /\ o.card = c
      BY <1>4, <1>5
    <3>2. op'[Canceller(r)].at = "edits" /\ op'[Canceller(r)].card = c
      BY <1>7, <1>8
    <3>3. QED
      BY <3>1, <3>2 DEF HasInHand, Holder, Works
  <2>2. \A s \in Runs \ {r}, x \in Cards : HasInHand(s, x)' <=> HasInHand(s, x)
    BY <1>9 DEF HasInHand, Holder
  <2>3. QED
    BY <1>6, <2>1, <2>2 DEF Recorded, Active
<1>14. \A s \in Runs, x \in Cards : Serves(s, x)' => Serves(s, x)
  BY <1>9, <1>13 DEF Serves
<1>15. \A d \in Dispatchers : Takes(op[d]) => op[d].card \in Cards
  BY <1>0 DEF Formed, DispatcherForm, Takes
<1>16. Served' /\ Bounded'
  BY <1>0, <1>6, <1>9, <1>14, <1>15, ServedKept DEF Takes
<1>17. \A x \in Cards : Opened(x)' <=> Opened(x)
  BY <1>0, <1>9, <1>13 DEF Opened, Reclaiming
<1>18. LifeStep
  BY <1>0, <1>6, <1>13, <1>17, Stutters
<1>19. QED
  BY <1>6, <1>10, <1>11, <1>12, <1>16, <1>18 DEF LifeInv, AllTracked

(* A record goes stale only once nobody works on its run. *)
LEMMA AgeLife ==
    ASSUME Steady, IInv, LifeInv, NEW r \in Runs, Age(r) PROVE LifeInv' /\ LifeStep
<1>0. /\ Formed /\ UpToDate /\ AllTracked /\ Served /\ Bounded /\ moved = {}
      /\ Poller \in Dispatchers /\ RunsOwned
      /\ rec \in [Runs -> [card : Cards \cup {NoCard}, state : RunStates, fresh : BOOLEAN]]
  BY ActorFacts DEF LifeInv, IInv, TypeOK
<1>1. /\ Active(r) /\ Silent(r) /\ rec' = [rec EXCEPT ![r].fresh = FALSE]
      /\ UNCHANGED <<board, op, beating, registry, headless, moved>> /\ moved' = {}
  BY <1>0 DEF Age, Steady, memory, Faultless
<1>2. Dead(r)
  <2>1. Tracked(r) /\ Owned(r) /\ TaskForm(r, op[Task(r)]) /\ CancelForm(r, op[Canceller(r)])
    BY <1>0 DEF AllTracked, RunsOwned, Formed
  <2>2. r \notin beating /\ op[Task(r)].at \in Resting /\ op[Canceller(r)].at \in Resting
        /\ rec[r].state = "active"
    BY <1>1 DEF Silent, Active
  <2>3. op[Task(r)].at = "off"
    BY <1>1, <2>1, <2>2 DEF Tracked, Owned, TaskForm, Resting, Beats
  <2>4. op[Canceller(r)].at \in {"idle", "off"}
    BY <2>1, <2>2 DEF CancelForm, Resting
  <2>5. QED
    BY <1>1, <2>1, <2>2, <2>3, <2>4 DEF Dead, Tracked
<1>3. /\ \A s \in Runs : rec'[s].card = rec[s].card /\ rec'[s].state = rec[s].state
      /\ \A s \in Runs \ {r} : rec'[s].fresh = rec[s].fresh
  BY <1>0, <1>1
<1>4. \A s \in Runs : Active(s)' <=> Active(s)
  BY <1>3 DEF Active
<1>5. ASSUME NEW s \in Runs PROVE Tracked(s)'
  <2>1. Tracked(s) /\ (Dead(s)' <=> Dead(s))
    BY <1>0, <1>1 DEF AllTracked, Dead
  <2>2. s = r => Dead(s)
    BY <1>2
  <2>3. QED
    BY <1>1, <1>3, <1>4, <2>1, <2>2 DEF Tracked
<1>6. \A s \in Runs, x \in Cards : /\ HasInHand(s, x)' <=> HasInHand(s, x)
                                   /\ Recorded(s, x)' <=> Recorded(s, x)
                                   /\ Serves(s, x)' => Serves(s, x)
  BY <1>1, <1>3, <1>4 DEF HasInHand, Holder, Recorded, Serves
<1>7. \A x \in Cards : Reclaims(x, rec') = Reclaims(x, rec)
  BY <1>3 DEF Reclaims
<1>8. \A d \in Dispatchers : Takes(op[d]) => op[d].card \in Cards
  BY <1>0 DEF Formed, DispatcherForm, Takes
<1>9. Served' /\ Bounded'
  BY <1>0, <1>1, <1>6, <1>7, <1>8, ServedKept DEF Takes
<1>10. Formed' /\ UpToDate'
  BY <1>0, <1>1 DEF Formed, UpToDate
<1>11. \A x \in Cards : Opened(x)' <=> Opened(x)
  BY <1>1, <1>6 DEF Opened, Reclaiming
<1>12. LifeStep
  BY <1>0, <1>1, <1>6, <1>11, Stutters
<1>13. QED
  BY <1>1, <1>5, <1>9, <1>10, <1>12 DEF LifeInv, AllTracked

(* The process ends: every run is left to the reclaim. *)
LEMMA RestartLife ==
    ASSUME IInv, LifeInv, Restart PROVE LifeInv' /\ LifeStep
<1> DEFINE n == [Idle EXCEPT !.at = "off"]
<1>0. /\ Formed /\ UpToDate /\ AllTracked /\ Served /\ Bounded /\ moved = {}
      /\ Poller \in Dispatchers /\ RunsOwned
  BY ActorFacts DEF LifeInv, IInv, TypeOK
<1>1. /\ op' = [a \in Actors |-> IF a \in Tasks /\ op[a].at # "unused" THEN n
                                 ELSE IF a \in Tasks THEN op[a] ELSE Idle]
      /\ beating' = {} /\ registry' = {} /\ headless' = {}
      /\ UNCHANGED <<board, rec, moved>> /\ moved' = {}
  BY <1>0 DEF Restart, files
<1>2. n.at = "off" /\ n.then = "idle" /\ n.run = 0
  BY DEF Idle
<1> HIDE DEF n
<1>3. /\ \A d \in Dispatchers : op'[d] = Idle
      /\ \A u \in Users : op'[u] = Idle
      /\ \A s \in Runs : op'[Canceller(s)] = Idle
  BY <1>1, ActorFacts
<1>4. ASSUME NEW s \in Runs
      PROVE  /\ op[Task(s)].at # "unused" => op'[Task(s)] = n
             /\ op[Task(s)].at = "unused" => op'[Task(s)] = op[Task(s)]
  BY <1>1, ActorFacts
<1>5. \A s \in Runs : TaskForm(s, op'[Task(s)])
  <2>1. \A s \in Runs : TaskForm(s, n)
    BY <1>2 DEF TaskForm
  <2>2. QED
    BY <1>0, <1>4, <2>1 DEF Formed
<1>6. \A s \in Runs : op'[Task(s)].at \in {"off", "unused"} /\ op'[Task(s)].then = "idle"
  BY <1>2, <1>4, <1>5 DEF TaskForm
<1>7. Formed'
  BY <1>0, <1>3, <1>5, IdleForms, FormedKept
<1>8. UpToDate'
  <2>1. ASSUME NEW s \in Runs, NEW x PROVE Reads(op'[Task(s)], x)
    BY <1>6 DEF Reads
  <2>2. \A a \in Actors \ Tasks : op'[a] = Idle
    BY <1>1
  <2>3. \A a \in Actors : Reads(op'[a], board')
    BY <2>1, <2>2, IdleForms DEF Tasks
  <2>4. QED
    BY <2>3 DEF UpToDate
<1>9. \A s \in Runs : Active(s)' <=> Active(s)
  BY <1>1 DEF Active
<1>10. ASSUME NEW s \in Runs PROVE Tracked(s)'
  <2>1. Tracked(s) /\ Owned(s) /\ s # 0
    BY <1>0, DispatchAssumption DEF AllTracked, RunsOwned, Runs
  <2>2. Active(s) => op'[Task(s)].at = "off" /\ rec[s].card \in Cards
    BY <1>2, <1>4, <2>1 DEF Owned, Active, Tracked
  <2>3. /\ \A d \in Dispatchers : op'[d].run # s
        /\ op'[Canceller(s)].at = "idle" /\ op'[Poller].left = {}
        /\ ~Beats(op'[Task(s)]) /\ op'[Task(s)].at # "returns"
    BY <1>0, <1>3, <1>6, <2>1, IdleForms DEF Beats
  <2>4. Active(s) => Dead(s)'
    BY <1>1, <2>2, <2>3 DEF Dead
  <2>5. QED
    BY <1>1, <1>9, <2>2, <2>3, <2>4 DEF Tracked
<1>11. \A s \in Runs, x \in Cards : /\ ~HasInHand(s, x)'
                                    /\ Recorded(s, x)' <=> Recorded(s, x)
  <2> SUFFICES ASSUME NEW s \in Runs, NEW x \in Cards
               PROVE  ~HasInHand(s, x)' /\ (Recorded(s, x)' <=> Recorded(s, x))
    OBVIOUS
  <2>1. Holder(s)' = Task(s)
    BY <1>3, IdleForms DEF Holder
  <2>2. ~Works(op'[Task(s)], x)
    BY <1>6 DEF Works
  <2>3. ~HasInHand(s, x)'
    BY <2>1, <2>2 DEF HasInHand
  <2>4. Recorded(s, x)' <=> Recorded(s, x)
    BY <1>1, <1>9 DEF Recorded
  <2>5. QED
    BY <2>3, <2>4
<1>12. \A s \in Runs, x \in Cards : Serves(s, x)' => Serves(s, x)
  <2>1. \A s \in Runs : s # 0
    BY DispatchAssumption DEF Runs
  <2>2. QED
    BY <1>3, <1>11, <2>1, IdleForms DEF Serves
<1>13. \A d \in Dispatchers : ~Takes(op'[d])
  BY <1>3, IdleForms DEF Takes
<1>14. Served' /\ Bounded'
  BY <1>0, <1>1, <1>12, <1>13, ServedKept DEF Takes
<1>15. LifeInv'
  BY <1>1, <1>7, <1>8, <1>10, <1>14 DEF LifeInv, AllTracked
<1>16. \A x \in Cards : Opened(x)' <=> Opened(x) /\ ~Reclaiming(x)
  <2>1. \A x \in Cards : Reclaiming(x) => \A s \in Runs : ~Recorded(s, x)
    BY <1>0 DEF Served, Takes, Reclaiming, Serves
  <2>2. \A x \in Cards : ~Reclaiming(x)'
    BY <1>0, <1>13 DEF Reclaiming, Takes
  <2>3. QED
    BY <1>11, <2>1, <2>2 DEF Opened
<1>17. /\ Unaccounted = {x \in Cards : Opened(x)}
       /\ Unaccounted' = {x \in Cards : Opened(x)'}
       /\ \A x \in Cards : Workers(x)' = {s \in Runs : HasInHand(s, x)'}
  BY <1>0, <1>1, MapIs, MapIsNext
<1>18. [x \in Cards |-> Workers(x)]' = [x \in Cards |-> {}]
  BY <1>11, <1>17
<1>19. Unaccounted' = Unaccounted \/ \E x \in Unaccounted : Unaccounted' = Unaccounted \ {x}
  <2>1. CASE \E x \in Cards : Reclaiming(x)
    <3>1. PICK x \in Cards : Reclaiming(x)
      BY <2>1
    <3>2. \A y \in Cards : Reclaiming(y) <=> y = x
      BY <3>1 DEF Reclaiming
    <3>3. x \in Unaccounted /\ Unaccounted' = Unaccounted \ {x}
      BY <1>16, <1>17, <3>2 DEF Opened
    <3>4. QED
      BY <3>3
  <2>2. CASE \A x \in Cards : ~Reclaiming(x)
    BY <1>16, <1>17, <2>2
  <2>3. QED
    BY <2>1, <2>2
<1>20. Life!Crash
  BY <1>1, <1>18, <1>19 DEF Life!Crash
<1>21. QED
  BY <1>15, <1>20 DEF LifeStep, Life!Next

(* A step of nobody. *)
LEMMA QuietLife == ASSUME LifeInv, UNCHANGED vars PROVE LifeInv' /\ LifeStep
<1>0. moved = {} /\ moved' = {}
      /\ UNCHANGED <<board, rec, op, beating, registry, headless, moved>>
  BY DEF LifeInv, vars, files, memory
<1>1. \A r \in Runs : Tracked(r)' <=> Tracked(r)
  BY <1>0 DEF Tracked, Dead, Active
<1>2. \A r \in Runs, c \in Cards : /\ HasInHand(r, c)' <=> HasInHand(r, c)
                                   /\ Recorded(r, c)' <=> Recorded(r, c)
                                   /\ Serves(r, c)' <=> Serves(r, c)
  BY <1>0 DEF HasInHand, Holder, Recorded, Active, Serves
<1>3. \A c \in Cards : Opened(c)' <=> Opened(c)
  BY <1>0, <1>2 DEF Opened, Reclaiming
<1>4. Formed' /\ UpToDate' /\ AllTracked'
  BY <1>0, <1>1 DEF LifeInv, Formed, UpToDate, AllTracked
<1>5. \A d \in Dispatchers : Takes(op[d]) => op[d].card \in Cards
  BY DEF LifeInv, Formed, DispatcherForm, Takes
<1>6. Served' /\ Bounded'
  BY <1>0, <1>2, <1>5, ActorFacts, ServedKept DEF LifeInv, Takes
<1>7. QED
  BY <1>0, <1>2, <1>3, <1>4, <1>6, Stutters DEF LifeInv

---------------------------------------------------------------------------
LEMMA LifeInitially == ASSUME Init PROVE LifeInv /\ Life!Init
<1>1. /\ \A a \in Actors \ Tasks : op[a] = Idle
      /\ \A r \in Runs : op[Task(r)].at = "unused" /\ op[Task(r)].then = "idle"
      /\ \A r \in Runs : rec[r].state = "none"
      /\ registry = {} /\ moved = {}
  BY ActorFacts DEF Init, Idle, NoRecord
<1>2. /\ \A a \in Users \cup Dispatchers : op[a] = Idle
      /\ \A r \in Runs : op[Canceller(r)] = Idle
  BY <1>1, ActorFacts
<1>3. Poller \in Dispatchers /\ \A r \in Runs : r # 0
  BY ActorFacts, DispatchAssumption DEF Runs
<1>4. Formed
  BY <1>1, <1>2, IdleForms DEF Formed, TaskForm
<1>5. UpToDate
  <2>1. ASSUME NEW r \in Runs, NEW x PROVE Reads(op[Task(r)], x)
    BY <1>1 DEF Reads
  <2>2. \A a \in Actors : Reads(op[a], board)
    BY <1>1, <2>1, IdleForms DEF Tasks
  <2>3. QED
    BY <2>2 DEF UpToDate
<1>6. AllTracked
  BY <1>1, <1>2, <1>3, IdleForms DEF AllTracked, Tracked, Beats, Active
<1>7. \A r \in Runs, c \in Cards : ~Recorded(r, c) /\ ~HasInHand(r, c) /\ ~Serves(r, c)
  BY <1>1, <1>2, <1>3, IdleForms DEF Serves, Recorded, Active, HasInHand, Holder, Works
<1>8. \A c \in Cards : ~Spent(c)
  <2>1. \A c : {r \in Runs : rec[r].card = c /\ rec[r].state = "reclaimed"} = {}
    BY <1>1
  <2>2. \A c : Reclaims(c, rec) = 0
    BY <2>1, FS_EmptySet DEF Reclaims
  <2>3. QED
    BY <2>2, DispatchAssumption DEF Spent, GivesUp
<1>9. Served /\ Bounded
  BY <1>2, <1>3, <1>7, <1>8, IdleForms DEF Served, Matched, Bounded, Takes
<1>10. Unaccounted = {} /\ \A c \in Cards : Workers(c) = {}
  BY <1>1, <1>2, <1>3, <1>7, IdleForms, MapIs DEF Opened, Reclaiming
<1>11. Life!Init
  <2>1. board \in [Cards -> {"absent", "todo"}]
    BY DEF Init
  <2>2. [c \in Cards |-> Workers(c)] = [c \in Cards |-> {}]
    BY <1>10
  <2>3. QED
    BY <1>1, <1>10, <2>1, <2>2 DEF Life!Init
<1>12. QED
  BY <1>1, <1>4, <1>5, <1>6, <1>9, <1>11 DEF LifeInv

LEMMA LifeInductive ==
    ASSUME Steady, IInv, LifeInv, EditsApart, [Next /\ EditsApart']_vars
    PROVE  LifeInv' /\ LifeStep
<1>1. CASE UNCHANGED vars
  BY <1>1, QuietLife
<1>2. CASE Next /\ EditsApart'
  <2>1. CASE Poll
    BY <2>1, OutsideLife, ReclaimLife DEF Poll
  <2>2. ASSUME NEW d \in Dispatchers, Dispatch(d) PROVE LifeInv' /\ LifeStep
    BY <2>2, ClaimLife, SpawnLife, CreatedLife DEF Dispatch
  <2>3. CASE (\E d \in Triages : Triage(d)) \/ \E u \in Users : User(u)
    BY <2>3, OutsideLife
  <2>4. ASSUME NEW r \in Runs, Run(r) PROVE LifeInv' /\ LifeStep
    BY <1>2, <2>4, TaskLife, CancelLife DEF Run
  <2>5. ASSUME NEW r \in Runs PROVE ~BeatFails(r)
    BY DEF BeatFails, Fails, Steady
  <2>6. ASSUME NEW a \in Actors, Edit(a) \/ Save(a) \/ SaveFails(a) PROVE LifeInv' /\ LifeStep
    BY <2>6, EditLife, SaveLife, SaveFailsLife
  <2>7. ASSUME NEW a \in Actors, Record(a) \/ RecordFails(a) PROVE LifeInv' /\ LifeStep
    BY <2>7, RecordLife
  <2>8. QED
    BY <1>2, <2>1, <2>2, <2>3, <2>4, <2>5, <2>6, <2>7, AgeLife, RestartLife DEF Next
<1>3. QED
  BY <1>1, <1>2

(* A card has one run, from the record to the write-back, and what an       *)
(* operation has read of the board is still so when it writes.              *)
THEOREM LifeInvariant == ASSUME Steady PROVE ApartSpec => [](IInv /\ EditsApart /\ LifeInv)
<1>1. Init => IInv /\ EditsApart /\ LifeInv
  BY Initially, ApartInitially, LifeInitially
<1>2. (IInv /\ EditsApart /\ LifeInv) /\ [Next /\ EditsApart']_vars
        => (IInv /\ EditsApart /\ LifeInv)'
  BY Inductive, ApartKept, LifeInductive
<1>3. QED
  BY <1>1, <1>2, PTL DEF ApartSpec

(* In every behaviour whose board operations do not overlap, on any number   *)
(* of threads and with runs cut off, cancelled or never recorded at any      *)
(* point, TaskDispatch implements TaskLifecycle: a card is claimed while no  *)
(* other is in progress, only its one run reports on it, and only a run that *)
(* died sends it back (dispatch_card, the write-back, reclaim_stale_runs).   *)
THEOREM Refinement == ASSUME Steady PROVE ApartSpec => KeepsLifecycle
<1>1. Init => Life!Init
  BY LifeInitially
<1>2. IInv /\ EditsApart /\ LifeInv /\ [Next /\ EditsApart']_vars => LifeStep
  BY LifeInductive
<1>3. QED
  BY <1>1, <1>2, LifeInvariant, PTL
     DEF ApartSpec, KeepsLifecycle, Life!Spec, LifeStep, Mapped

(* In those behaviours no card is sent back more often than it may be: the  *)
(* reclaim that uses up the last blocks the card (reclaim_stale_runs,       *)
(* RunLimits), and a blocked card is dispatched to no run.                  *)
THEOREM ReclaimBound == ASSUME Steady, MaxReclaims > 0 PROVE ApartSpec => []ReclaimsBounded
<1>1. LifeInv => ReclaimsBounded
  <2> SUFFICES ASSUME LifeInv, NEW c \in Cards PROVE Reclaims(c, rec) <= MaxReclaims
    BY DEF ReclaimsBounded
  <2>1. Reclaims(c, rec) \in Nat /\ MaxReclaims \in Nat
    BY ReclaimsType, DispatchAssumption
  <2>2. CASE Spent(c)
    BY <2>2 DEF LifeInv, Bounded
  <2>3. CASE ~Spent(c)
    BY <2>1, <2>3 DEF Spent, GivesUp
  <2>4. QED
    BY <2>2, <2>3
<1>2. QED
  BY <1>1, LifeInvariant, PTL
=============================================================================
