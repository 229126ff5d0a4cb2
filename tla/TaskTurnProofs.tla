--------------------------- MODULE TaskTurnProofs ---------------------------
(***************************************************************************)
(* What TaskDispatch guarantees, however many threads run it, while no two *)
(* board operations overlap and nobody but the dispatcher, the runs and    *)
(* the decisions of a human moves a card.                                  *)
(***************************************************************************)
EXTENDS TaskDispatchProofs

(* The conditions under which a gated card waits for its approval: with a   *)
(* save that fails, or a hand that sets the card in progress, it need not.  *)
Orderly ==
    /\ "save" \notin FailingSteps
    /\ "in_progress" \notin AgentStatuses
    /\ MaxMoved = 0

(* What an operation has read of the board is still so: a copy to save puts *)
(* no card in progress but the one that is claimed, and a gated card only   *)
(* from ready.                                                              *)
Truthful(o, b) ==
    /\ o.at \in {"edits", "returns", "settles"} => o.want # "in_progress"
    /\ o.at = "saves" =>
        \/ o.draft = b
        \/ o.draft = [b EXCEPT ![o.card] = o.want] /\ o.want # "in_progress"
    /\ o.at = "claims" =>
        \/ o.draft = [b EXCEPT ![o.card] = "awaiting"]
        \/ /\ o.draft = [b EXCEPT ![o.card] = "in_progress"]
           /\ o.card \in Gated => b[o.card] = "ready"
    /\ o.at = "claiming" /\ o.card \in Gated => b[o.card] # "todo"

TurnInv == \A a \in Actors : Truthful(op[a], board)

---------------------------------------------------------------------------
LEMMA RestingTruth ==
    ASSUME NEW o, NEW b, o.at \in Resting PROVE Truthful(o, b)
  BY DEF Truthful, Resting

(* Off the board, an operation has nothing of the board in hand. *)
LEMMA OffBoardTruth ==
    ASSUME NEW a, ~OnBoard(a), NEW b, NEW x, Truthful(op[a], b) PROVE Truthful(op[a], x)
  BY DEF Truthful, OnBoard

(* A step that leaves the board alone keeps the invariant when what the     *)
(* actors go on with is true.                                               *)
LEMMA TurnStep ==
    ASSUME TurnInv, board' = board, NEW a \in Actors, Truthful(op'[a], board),
           \A b \in Actors \ {a} : op'[b] = op[b] \/ Truthful(op'[b], board)
    PROVE  TurnInv'
<1>1. \A b \in Actors : Truthful(op'[b], board)
  BY DEF TurnInv
<1>2. QED
  BY <1>1 DEF TurnInv

(* Taking a card to another column than in progress keeps the cap. *)
LEMMA OutOfProgress ==
    ASSUME NEW b \in Boards, Capped(b), NEW c, NEW s, s # "in_progress"
    PROVE  Capped([b EXCEPT ![c] = s])
<1> DEFINE S == {x \in Cards : b[x] = "in_progress"}
           T == {x \in Cards : [b EXCEPT ![c] = s][x] = "in_progress"}
<1>1. IsFiniteSet(S)
  BY DispatchAssumption, FS_Subset
<1>2. T \in SUBSET S
  BY DEF Boards
<1>3. IsFiniteSet(T) /\ Cardinality(T) <= Cardinality(S)
  BY <1>1, <1>2, FS_Subset
<1>4. Cardinality(S) \in Nat /\ Cardinality(T) \in Nat
  BY <1>1, <1>3, FS_CardinalityType
<1>5. QED
  BY <1>3, <1>4 DEF Capped

LEMMA OneMoves ==
    ASSUME IInv, TurnInv, NEW a \in Actors, NEW n, op' = [op EXCEPT ![a] = n],
           board' = board, Truthful(n, board)
    PROVE  TurnInv'
<1>1. op'[a] = n /\ \A b \in Actors \ {a} : op'[b] = op[b]
  BY DEF IInv, TypeOK
<1>2. QED
  BY <1>1, TurnStep

(* Editing, saving and recording. *)
LEMMA TurnActor ==
    ASSUME Orderly, IInv, EditsApart, TurnInv, NEW a \in Actors,
           Edit(a) \/ Save(a) \/ SaveFails(a) \/ Record(a) \/ RecordFails(a)
    PROVE  TurnInv'
<1> DEFINE o == op[a]
<1>1. Truthful(o, board) /\ o \in Ops
  BY OpFacts DEF TurnInv, Orderly
<1>2. Truthful(Resume(o), board) /\ Truthful(Resume(o), board')
  <2>1. Resume(o).at \in Resumes
    <3>1. o.then \in {"idle", "off"} => Resume(o).at = o.then
      BY DEF Resume, Idle
    <3>2. o.then \notin {"idle", "off"} => Resume(o).at = o.then
      BY <1>1 DEF Resume, Ops
    <3>3. QED
      BY <1>1, <3>1, <3>2 DEF Ops
  <2>2. QED
    BY <2>1 DEF Truthful, Resumes
<1>3. CASE Edit(a)
  <2> DEFINE b == With(o.card, o.want)
             p == [o EXCEPT !.at = "saves", !.draft = b]
             n == IF board[o.card] # "absent" /\ Capped(b) THEN p ELSE Resume(o)
  <2>1. o.at = "edits" /\ o.want # "in_progress" /\ b = [board EXCEPT ![o.card] = o.want]
    BY <1>1, <1>3 DEF Edit, Truthful, With
  <2>2. Truthful(p, board)
    <3> HIDE DEF o, b
    <3>1. p.at = "saves" /\ p.draft = b /\ p.card = o.card /\ p.want = o.want
      BY <1>1 DEF Ops
    <3>2. QED
      BY <2>1, <3>1 DEF Truthful
  <2> HIDE DEF p
  <2>3. Truthful(n, board)
    BY <1>2, <2>2
  <2>4. op' = [op EXCEPT ![a] = n] /\ board' = board
    BY <1>3 DEF Edit, Begin, files, p
  <2> HIDE DEF n
  <2>5. QED
    BY <1>1, <2>3, <2>4, OneMoves
<1>4. CASE Save(a)
  <2>1. op' = [op EXCEPT ![a] = Resume(o)] /\ OnBoard(a)
    BY <1>4 DEF Save, Begin, OnBoard
  <2>2. op'[a] = Resume(o) /\ \A b \in Actors \ {a} : op'[b] = op[b] /\ ~OnBoard(b)
    BY <2>1 DEF IInv, TypeOK, EditsApart
  <2>3. \A b \in Actors \ {a} : Truthful(op[b], board')
    BY <2>2, OffBoardTruth DEF TurnInv
  <2>4. \A b \in Actors : Truthful(op'[b], board')
    BY <1>2, <2>2, <2>3
  <2>5. QED
    BY <2>4 DEF TurnInv
<1>5. CASE SaveFails(a)
  BY <1>5 DEF SaveFails, Fails, Orderly
<1>6. CASE Record(a) \/ RecordFails(a)
  <2>1. op' = [op EXCEPT ![a] = [Idle EXCEPT !.at = "off"]] /\ board' = board
    BY <1>6 DEF Record, RecordFails, Begin, files
  <2>2. Truthful([Idle EXCEPT !.at = "off"], board)
    BY DEF Truthful, Idle
  <2>3. QED
    BY <2>1, <2>2, OneMoves
<1>7. QED
  BY <1>3, <1>4, <1>5, <1>6

(* Users move no card by hand: they decide on plans. *)
LEMMA NoHands ==
    ASSUME MaxMoved = 0, IInv, NEW u, NEW c PROVE ~UserActs(u, c)
<1>1. IsFiniteSet(moved)
  BY DispatchAssumption, FS_Subset DEF IInv, TypeOK
<1>2. Cardinality(moved) \in Nat
  BY <1>1, FS_CardinalityType
<1>3. QED
  BY <1>2 DEF UserActs

(* The poller, triage turns and users. *)
LEMMA TurnOutside ==
    ASSUME Orderly, IInv, TurnInv,
           \/ Poll
           \/ \E d \in Triages : Triage(d)
           \/ \E u \in Users : User(u)
    PROVE  TurnInv'
<1>1. Poller \in Actors /\ Triages \subseteq Actors /\ Users \subseteq Actors
  BY ActorFacts DEF Orderly
<1>2. ASSUME NEW c, NEW s \in Statuses, s # "in_progress", NEW l, NEW S
      PROVE  /\ Truthful(Editing(c, s, l), board)
             /\ Truthful([Editing(c, s, l) EXCEPT !.left = S], board)
  BY <1>2 DEF Truthful, Editing, Idle
<1>3. CASE FindStale
  <2> DEFINE n == [Idle EXCEPT !.at = "reclaims", !.left = {r \in Runs : Stale(r)}]
  <2>1. Truthful(n, board)
    BY DEF Truthful, Idle
  <2>2. op' = [op EXCEPT ![Poller] = n] /\ board' = board
    BY <1>3 DEF FindStale, Begin, files
  <2>3. QED
    BY <1>1, <2>1, <2>2, OneMoves
<1>4. CASE PickNothing
  BY <1>1, <1>4, OneMoves DEF PickNothing, Begin, files, Truthful, Idle
<1>5. ASSUME NEW c \in Cards, Pick(c) PROVE TurnInv'
  BY <1>1, <1>5, OneMoves DEF Pick, Begin, files, Truthful, Idle
<1>6. ASSUME NEW r \in Runs, ReclaimRun(r) PROVE TurnInv'
  <2> DEFINE left == op[Poller].left \ {r}
             s == IF GivesUp(rec[r].card, rec') THEN "blocked" ELSE "todo"
             e == [Editing(rec[r].card, s, "reclaims") EXCEPT !.left = left]
             k == [op[Poller] EXCEPT !.left = left]
             n == IF Active(r) THEN e ELSE k
  <2>1. Truthful(e, board)
    <3>1. s \in Statuses /\ s # "in_progress"
      BY DEF Statuses
    <3> HIDE DEF s, left
    <3>2. QED
      BY <1>2, <3>1
  <2>2. Truthful(k, board)
    <3> HIDE DEF left
    <3>1. k.at = "reclaims"
      BY <1>1, <1>6, OpFacts DEF ReclaimRun, Ops
    <3>2. QED
      BY <3>1 DEF Truthful
  <2>3. op' = [op EXCEPT ![Poller] = n] /\ board' = board
    BY <1>6 DEF ReclaimRun, Begin
  <2> HIDE DEF e, k
  <2>4. Truthful(n, board)
    BY <2>1, <2>2
  <2> HIDE DEF n
  <2>5. QED
    BY <1>1, <2>3, <2>4, OneMoves
<1>7. ASSUME NEW r \in Runs, ReclaimFails(r) PROVE TurnInv'
  <2> DEFINE k == [op[Poller] EXCEPT !.left = @ \ {r}]
  <2>1. k.at = "reclaims"
    BY <1>1, <1>7, OpFacts DEF ReclaimFails, Ops
  <2>2. op' = [op EXCEPT ![Poller] = k] /\ board' = board
    BY <1>7 DEF ReclaimFails, Begin, files
  <2> HIDE DEF k
  <2>3. QED
    BY <1>1, <2>1, <2>2, OneMoves DEF Truthful
<1>8. ASSUME NEW d \in Triages, NEW c \in Cards, TriageActs(d, c) PROVE TurnInv'
  <2>1. d \in Actors
    BY <1>1
  <2>2. QED
    BY <1>1, <1>8, <2>1, OneMoves DEF TriageActs, Begin, files, Truthful, Idle
<1>9. ASSUME NEW d \in Triages, NEW c \in Cards, TriageDrops(d, c) PROVE TurnInv'
  <2>1. d \in Actors /\ "rejected" \in Statuses
    BY <1>1 DEF Statuses
  <2>2. Truthful(Editing(c, "rejected", "idle"), board)
    BY <1>2, <2>1
  <2>3. QED
    BY <1>1, <1>9, <2>1, <2>2, OneMoves DEF TriageDrops, Begin, files
<1>10. ASSUME NEW u \in Users, NEW c \in Cards, NEW s \in {"ready", "rejected"}, Decide(u, c, s)
      PROVE TurnInv'
  <2>1. u \in Actors /\ s \in Statuses /\ s # "in_progress"
    BY <1>1 DEF Statuses
  <2>2. Truthful(Editing(c, s, "idle"), board)
    BY <1>2, <2>1
  <2>3. QED
    BY <1>1, <1>10, <2>1, <2>2, OneMoves DEF Decide, Begin, files
<1>11. QED
  BY <1>3, <1>4, <1>5, <1>6, <1>7, <1>8, <1>9, <1>10, NoHands
     DEF Orderly, Poll, Triage, User, UserEdits, UserWrites

(* dispatch_card and the hand-over of a run to its task. *)
LEMMA TurnDispatch ==
    ASSUME Orderly, IInv, TurnInv, NEW d \in Dispatchers, Dispatch(d) PROVE TurnInv'
<1> DEFINE o == op[d]
<1>1. Truthful(o, board) /\ o \in Ops /\ d \in Actors
      /\ board \in Boards /\ Capped(board)
  BY ActorFacts, OpFacts DEF TurnInv, Orderly, IInv, TypeOK
<1>2. CASE Park(d)
  <2> DEFINE b == With(o.card, "awaiting")
             p == Claiming(d, b, "idle")
             q == [o EXCEPT !.at = "claiming"]
  <2>1. b = [board EXCEPT ![o.card] = "awaiting"] /\ b \in Boards
    BY <1>1, Drafts DEF With, IInv, Statuses
  <2>2. Truthful(p, board)
    <3>1. p = [o EXCEPT !.at = "claims", !.draft = b, !.then = "idle"]
      BY DEF Claiming
    <3> HIDE DEF o, b, p
    <3>2. p.at = "claims" /\ p.draft = b /\ p.card = o.card
      BY <1>1, <3>1 DEF Ops
    <3>3. QED
      BY <2>1, <3>2 DEF Truthful
  <2>3. CASE board[o.card] = "todo" /\ Capped(b)
    <3>1. op' = [op EXCEPT ![d] = p] /\ board' = board
      BY <1>2, <2>3 DEF Park, Begin, files
    <3> HIDE DEF p
    <3>2. QED
      BY <1>1, <2>2, <3>1, OneMoves
  <2>4. CASE ~(board[o.card] = "todo" /\ Capped(b))
    <3>1. op' = [op EXCEPT ![d] = q] /\ board' = board
      BY <1>2, <2>4 DEF Park, Goto, files
    <3>2. Capped(b)
      <4> HIDE DEF b, o
      <4>1. Capped([board EXCEPT ![o.card] = "awaiting"])
        BY <1>1, OutOfProgress
      <4>2. QED
        BY <2>1, <4>1
    <3>3. Truthful(q, board)
      <4> HIDE DEF o, b
      <4>1. q.at = "claiming" /\ q.card = o.card
        BY <1>1 DEF Ops
      <4>2. QED
        BY <2>4, <3>2, <4>1 DEF Truthful
    <3> HIDE DEF q
    <3>4. QED
      BY <1>1, <3>1, <3>3, OneMoves
  <2>5. QED
    BY <2>3, <2>4
<1>3. CASE Claim(d)
  <2> DEFINE b == With(o.card, "in_progress")
             p == Claiming(d, b, "claimed")
             n == IF board[o.card] \in Claimable /\ Capped(b) THEN p ELSE Idle
  <2>1. b = [board EXCEPT ![o.card] = "in_progress"]
        /\ (o.at = "claiming" \/ o.card \notin Gated)
    BY <1>3 DEF Claim, With, NeedsApproval
  <2>2. o.card \in Gated => board[o.card] # "todo"
    BY <1>1, <2>1 DEF Truthful
  <2>3. board[o.card] \in Claimable => Truthful(p, board)
    <3>1. p = [o EXCEPT !.at = "claims", !.draft = b, !.then = "claimed"]
      BY DEF Claiming
    <3> HIDE DEF o, b, p
    <3>2. p.at = "claims" /\ p.draft = b /\ p.card = o.card
      BY <1>1, <3>1 DEF Ops
    <3>3. QED
      BY <2>1, <2>2, <3>2 DEF Truthful, Claimable
  <2>4. Truthful(Idle, board)
    BY DEF Truthful, Idle
  <2>5. op' = [op EXCEPT ![d] = n] /\ board' = board
    BY <1>3 DEF Claim, Begin, files
  <2> HIDE DEF p
  <2>6. Truthful(n, board)
    BY <2>3, <2>4
  <2> HIDE DEF n
  <2>7. QED
    BY <1>1, <2>5, <2>6, OneMoves
<1>4. CASE Stamp(d)
  <2> DEFINE p == [o EXCEPT !.at = "stamped"]
             q == [o EXCEPT !.at = "saves", !.draft = board, !.then = "stamped"]
  <2>1. Truthful(p, board) /\ Truthful(q, board)
    <3> HIDE DEF o
    <3>1. p.at = "stamped" /\ q.at = "saves" /\ q.draft = board
      BY <1>1 DEF Ops
    <3>2. QED
      BY <3>1 DEF Truthful
  <2>2. \/ op' = [op EXCEPT ![d] = p]
        \/ op' = [op EXCEPT ![d] = q]
    BY <1>4 DEF Stamp, Begin
  <2>3. board' = board
    BY <1>4 DEF Stamp, files
  <2> HIDE DEF p, q
  <2>4. QED
    BY <1>1, <2>1, <2>2, <2>3, OneMoves
<1>5. CASE NoSession(d)
  <2> DEFINE p == [o EXCEPT !.at = "stamped"]
  <2>1. op' = [op EXCEPT ![d] = p] /\ board' = board
    BY <1>5 DEF NoSession, Goto, files
  <2>2. Truthful(p, board)
    <3> HIDE DEF o
    <3>1. p.at = "stamped"
      BY <1>1 DEF Ops
    <3>2. QED
      BY <3>1 DEF Truthful
  <2> HIDE DEF p
  <2>3. QED
    BY <1>1, <2>1, <2>2, OneMoves
<1>6. ASSUME NEW r \in Runs, NEW p, NEW l \in {"off", "live"}, NEW q, q.at = l,
             p.at \in {"created", "idle"},
             board' = board, op' = [op EXCEPT ![d] = p, ![Task(r)] = q]
      PROVE TurnInv'
  <2>1. Task(r) # d /\ Task(r) \in Actors
    BY ActorFacts
  <2>2. op'[d] = p /\ op'[Task(r)] = q /\ \A b \in Actors \ {d, Task(r)} : op'[b] = op[b]
    BY <1>1, <1>6, <2>1 DEF IInv, TypeOK
  <2>3. Truthful(q, board) /\ Truthful(p, board)
    BY <1>6 DEF Truthful
  <2>4. QED
    BY <1>1, <1>6, <2>2, <2>3, TurnStep
<1>7. CASE Spawn(d)
  <2> DEFINE r == o.run
             q == [Idle EXCEPT !.at = "live", !.card = o.card, !.run = r]
  <2>1. op' = [op EXCEPT ![d] = Idle, ![Task(r)] = q] /\ board' = board /\ o.at = "stamped"
    BY <1>7 DEF Spawn, files
  <2>2. r \in Runs /\ q.at = "live" /\ Idle.at = "idle"
    BY <1>1, <2>1, OpFacts DEF Idle, GoodOp
  <2> HIDE DEF q, r
  <2>3. QED
    BY <1>6, <2>1, <2>2
<1>8. ASSUME NEW r \in Runs, Created(d, r), board' = board PROVE TurnInv'
  <2> DEFINE p == [o EXCEPT !.at = "created", !.run = r]
             q == [Idle EXCEPT !.at = "off"]
  <2>1. op' = [op EXCEPT ![d] = p, ![Task(r)] = q]
    BY <1>8 DEF Created
  <2>2. p.at = "created" /\ q.at = "off"
    <3> HIDE DEF o
    <3>1. QED
      BY <1>1 DEF Ops, Idle
  <2> HIDE DEF p, q
  <2>3. QED
    BY <1>6, <1>8, <2>1, <2>2
<1>9. QED
  BY <1>2, <1>3, <1>4, <1>5, <1>7, <1>8 DEF Dispatch, CreateRun, CreateFails, files

(* A run, its write-back and the cancel of its session. *)
LEMMA TurnRun ==
    ASSUME Orderly, IInv, TurnInv, NEW r \in Runs, Run(r) PROVE TurnInv'
<1> DEFINE a == Task(r)
           o == op[Task(r)]
<1>1. Truthful(o, board) /\ o \in Ops /\ a \in Actors
      /\ Canceller(r) \in Actors /\ Canceller(r) # a
  BY ActorFacts, OpFacts DEF TurnInv, Orderly
<1>2. ASSUME NEW n, op' = [op EXCEPT ![a] = n], board' = board, Truthful(n, board)
      PROVE  TurnInv'
  <2> HIDE DEF a
  <2>1. QED
    BY <1>1, <1>2, OneMoves
<1>3. CASE Take(r)
  <2> DEFINE l == IF StillOurs(r) THEN "settles" ELSE "off"
             n == [o EXCEPT !.at = l]
  <2>1. op' = [op EXCEPT ![a] = n] /\ board' = board /\ o.at = "returns"
    BY <1>3 DEF Take, Goto, files
  <2>2. Truthful(n, board)
    <3>1. l \in {"settles", "off"}
      OBVIOUS
    <3> HIDE DEF o, l
    <3>2. n.at = l /\ n.want = o.want
      BY <1>1 DEF Ops
    <3>3. QED
      BY <1>1, <2>1, <3>1, <3>2 DEF Truthful
  <2> HIDE DEF n
  <2>3. QED
    BY <1>2, <2>1, <2>2
<1>4. CASE WriteBack(r)
  <2> DEFINE l == IF SelfBlocked(o) THEN "records" ELSE "edits"
             n == [o EXCEPT !.at = l, !.then = "records"]
  <2>1. op' = [op EXCEPT ![a] = n] /\ board' = board /\ o.at = "settles"
    BY <1>4 DEF WriteBack, Begin, files
  <2>2. Truthful(n, board)
    <3>1. l \in {"records", "edits"}
      OBVIOUS
    <3> HIDE DEF o, l
    <3>2. n.at = l /\ n.want = o.want
      BY <1>1 DEF Ops
    <3>3. QED
      BY <1>1, <2>1, <3>1, <3>2 DEF Truthful
  <2> HIDE DEF n
  <2>3. QED
    BY <1>2, <2>1, <2>2
<1>5. ASSUME NEW s \in AgentStatuses, AgentMoves(r, s) PROVE TurnInv'
  <2> DEFINE n == [Editing(o.card, s, "live") EXCEPT !.run = r]
  <2>1. op' = [op EXCEPT ![a] = n] /\ board' = board
    BY <1>5 DEF AgentMoves, Begin, files
  <2>2. s # "in_progress"
    BY DEF Orderly
  <2>3. Truthful(n, board)
    <3> HIDE DEF o
    <3>1. QED
      BY <2>2 DEF Truthful, Editing, Idle
  <2> HIDE DEF n
  <2>4. QED
    BY <1>2, <2>1, <2>3
<1>6. ASSUME NEW s \in {"done", "blocked"}, RunEnds(r, s) PROVE TurnInv'
  <2> DEFINE n == [o EXCEPT !.at = "returns", !.want = s]
  <2>1. op' = [op EXCEPT ![a] = n] /\ board' = board
    BY <1>6 DEF RunEnds, Begin, files
  <2>2. Truthful(n, board)
    <3> HIDE DEF o
    <3>1. n.at = "returns" /\ n.want = s
      BY <1>1 DEF Ops
    <3>2. QED
      BY <3>1 DEF Truthful
  <2> HIDE DEF n
  <2>3. QED
    BY <1>2, <2>1, <2>2
<1>7. CASE Cancel(r)
  <2> DEFINE n == Aborted(o)
             k == [Editing(o.card, "blocked", "records") EXCEPT !.run = r]
  <2>1. op' = [op EXCEPT ![a] = n, ![Canceller(r)] = k] /\ board' = board
    BY <1>7 DEF Cancel, files
  <2>2. Truthful(n, board)
    <3> HIDE DEF o
    <3>1. CASE o.at = "live"
      BY <3>1 DEF Aborted, Idle, Truthful
    <3>2. CASE o.at # "live"
      <4>1. n.at = o.at /\ n.card = o.card /\ n.want = o.want /\ n.draft = o.draft
        BY <1>1, <3>2 DEF Aborted, Ops
      <4>2. QED
        BY <1>1, <4>1 DEF Truthful
    <3>3. QED
      BY <3>1, <3>2
  <2>3. k.at = "edits" /\ k.want = "blocked"
    BY DEF Editing, Idle
  <2> HIDE DEF n, k, a
  <2>4. op'[Canceller(r)] = k /\ op'[a] = n
        /\ \A b \in Actors \ {a, Canceller(r)} : op'[b] = op[b]
    BY <1>1, <2>1 DEF IInv, TypeOK
  <2>5. Truthful(op'[Canceller(r)], board)
    BY <2>3, <2>4 DEF Truthful
  <2>6. QED
    BY <1>1, <2>1, <2>2, <2>4, <2>5, TurnStep
<1>8. QED
  BY <1>3, <1>4, <1>5, <1>6, <1>7 DEF Run

(* Time, faults, and steps of nobody. *)
LEMMA TurnFault ==
    ASSUME Orderly, IInv, TurnInv,
           \/ Restart
           \/ \E r \in Runs : Age(r) \/ BeatFails(r)
           \/ UNCHANGED vars
    PROVE  TurnInv'
<1>1. CASE Restart
  <2> DEFINE off == [Idle EXCEPT !.at = "off"]
  <2>1. op' = [a \in Actors |-> IF a \in Tasks /\ op[a].at # "unused" THEN off
                                ELSE IF a \in Tasks THEN op[a] ELSE Idle]
    BY <1>1 DEF Restart
  <2>2. off.at \in Resting /\ Idle.at \in Resting
    BY DEF Idle, Resting
  <2> HIDE DEF off
  <2>3. \A a \in Actors : op'[a].at \in Resting
    BY <2>1, <2>2 DEF Resting
  <2>4. QED
    BY <2>3, RestingTruth DEF TurnInv
<1>2. CASE UNCHANGED <<op, board>>
  BY <1>2 DEF TurnInv
<1>3. QED
  BY <1>1, <1>2 DEF Age, BeatFails, vars, files, memory

LEMMA TurnInitially == ASSUME Init PROVE TurnInv
<1>1. \A a \in Actors : op[a].at \in Resting
  BY DEF Init, Idle, Resting
<1>2. QED
  BY <1>1, RestingTruth DEF TurnInv

LEMMA TurnInductive ==
    ASSUME Orderly, IInv, EditsApart, TurnInv, [Next]_vars PROVE TurnInv'
<1>1. ASSUME NEW d \in Dispatchers, Dispatch(d) PROVE TurnInv'
  BY <1>1, TurnDispatch
<1>2. ASSUME NEW r \in Runs, Run(r) PROVE TurnInv'
  BY <1>2, TurnRun
<1>3. ASSUME NEW a \in Actors,
             Edit(a) \/ Save(a) \/ SaveFails(a) \/ Record(a) \/ RecordFails(a)
      PROVE TurnInv'
  BY <1>3, TurnActor
<1>4. QED
  BY <1>1, <1>2, <1>3, TurnOutside, TurnFault DEF Next

LEMMA ApartKept == UNCHANGED vars => (EditsApart' <=> EditsApart)
  BY DEF vars, memory, EditsApart, OnBoard

LEMMA ApartInitially == Init => EditsApart
<1>1. ASSUME Init, NEW a \in Actors PROVE ~OnBoard(a)
  BY <1>1 DEF Init, Idle, OnBoard
<1>2. QED
  BY <1>1 DEF EditsApart

(* What a board operation has read is still on the board. *)
THEOREM TurnInvariant == ASSUME Orderly PROVE ApartSpec => [](IInv /\ EditsApart /\ TurnInv)
<1>1. Init => IInv /\ EditsApart /\ TurnInv
  BY Initially, ApartInitially, TurnInitially
<1>2. (IInv /\ EditsApart /\ TurnInv) /\ [Next /\ EditsApart']_vars
        => (IInv /\ EditsApart /\ TurnInv)'
  BY Inductive, ApartKept, TurnInductive
<1>3. QED
  BY <1>1, <1>2, PTL DEF ApartSpec

(* In every behaviour whose board operations do not overlap, on any number   *)
(* of threads, a card whose plan a human must approve starts only from       *)
(* ready: the claim that parks it leaves no card in todo to the claim that   *)
(* starts it (dispatch_card, claim_card, decide_plan).                       *)
THEOREM GatedByApproval == ASSUME Orderly PROVE ApartSpec => GatedRunsApproved
<1> DEFINE Approved == \A c \in Gated : board[c] # "in_progress" /\ board'[c] = "in_progress"
                                         => board[c] = "ready"
<1>1. ASSUME IInv, TurnInv, [Next]_vars PROVE Approved
  <2>1. CASE board' = board
    BY <2>1
  <2>2. ASSUME NEW a \in Actors, Save(a) PROVE Approved
    <3>1. board' = op[a].draft /\ op[a].at \in {"saves", "claims"}
      BY <2>2 DEF Save
    <3>2. Truthful(op[a], board) /\ Gated \subseteq Cards /\ board \in Boards
      BY <1>1, DispatchAssumption DEF TurnInv, IInv, TypeOK
    <3>3. QED
      BY <3>1, <3>2 DEF Truthful, Boards
  <2>3. QED
    BY <1>1, <2>1, <2>2 DEF Next, vars, Poll, FindStale, PickNothing, Pick, ReclaimRun,
       ReclaimFails, RecordFails, Dispatch, Park, Claim, Stamp, NoSession, Spawn, CreateRun, CreateFails, Triage,
       TriageActs, TriageDrops, Run, Take, WriteBack, Cancel, AgentMoves, RunEnds, Age,
       BeatFails, Edit, SaveFails, Record, User, UserEdits, UserWrites, Decide, Restart, files
<1>2. IInv /\ TurnInv /\ [Next]_vars => Approved
  BY <1>1
<1>3. QED
  BY <1>2, TurnInvariant, PTL DEF ApartSpec, GatedRunsApproved, Approved
=============================================================================
