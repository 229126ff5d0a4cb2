------------------------- MODULE ApprovalGateProofs -------------------------
(***************************************************************************)
(* What ApprovalGate guarantees for any calls, tools, threads and bounds.  *)
(***************************************************************************)
EXTENDS ApprovalGate, TLAPS

(* One invariant carries the rest: a decision in flight, in a channel or in  *)
(* the caller's hands is the one in the durable row, and a row is decided    *)
(* once.                                                                     *)
RowInv ==
    \A c \in Calls :
        /\ pc[c] \in {"idle", "registered"} => row[c] = "absent"
        /\ pc[c] \in {"parked", "expiring", "denying"} => row[c] # "absent"
        /\ deciding[c] \in {"once", "always", "saving"} => row[c] = "approved"
        /\ deciding[c] = "deny" => row[c] = "denied"
        /\ sent[c] \in {"once", "always"} => row[c] = "approved"
        /\ sent[c] = "deny" => row[c] = "denied"
        /\ pc[c] = "rereading" => row[c] \in {"approved", "denied"}
        /\ pc[c] = "refused" => row[c] \in {"absent", "denied"}
        /\ pc[c] \in Performed /\ row[c] # "absent" => row[c] = "approved"
        /\ c \in executed => row[c] = "approved" /\ pc[c] = "finished"

GateInv == TypeOK /\ RowInv

(* Sweeping and deciding touch pending rows only, and leave them decided. *)
LEMMA RowFacts ==
    ASSUME TypeOK, NEW c \in Calls, NEW d \in Decisions
    PROVE  /\ Swept \in [Calls -> {"absent", "pending", "approved", "denied"}]
           /\ Ruled(c, d) \in [Calls -> {"absent", "pending", "approved", "denied"}]
           /\ \A x \in Calls : row[x] # "pending" => Swept[x] = row[x]
           /\ \A x \in Calls : row[x] = "pending" => Swept[x] \in {"pending", "denied"}
           /\ \A x \in Calls : row[x] # "pending" \/ x # c => Ruled(c, d)[x] = row[x]
           /\ row[c] = "pending" =>
                  Ruled(c, d)[c] = IF Grants(d) THEN "approved" ELSE "denied"
  BY DEF TypeOK, Swept, Stale, Ruled, Grants

(* Every variable keeps its type (all of intercept_audited, decide and the *)
(* tool caller).                                                           *)
THEOREM TypeCorrect == Spec => []TypeOK
<1>1. Init => TypeOK
  BY GateAssumption DEF Init, TypeOK, Steps
<1>2. TypeOK /\ [Next]_vars => TypeOK'
  <2> SUFFICES ASSUME TypeOK, [Next]_vars PROVE TypeOK'
    OBVIOUS
  <2>1. ASSUME NEW c \in Calls, CallStep(c) PROVE TypeOK'
    <3>1. CASE PassThrough(c) \/ RejectOrigin(c) \/ Register(c) \/ InsertPending(c)
      BY <3>1, GateAssumption DEF PassThrough, RejectOrigin, Register, InsertPending,
         Awaited, Goto, Unbounded, store, memory, TypeOK, Steps, Waiting, Ended
    <3>2. CASE Receive(c) \/ TimerFires(c) \/ Reread(c) \/ ToolReturns(c)
      BY <3>2, GateAssumption DEF Receive, TimerFires, Reread, ToolReturns, Recorded,
         Outcome, Honoured, Leave, RouteCleared, Goto, Unbounded, store, memory,
         TypeOK, Steps, Waiting, Ended
    <3>3. CASE TimeoutSweeps(c)
      <4>1. row' \in [Calls -> {"absent", "pending", "approved", "denied"}]
        BY <3>3 DEF TimeoutSweeps, Swept, TypeOK
      <4>2. QED
        BY <3>3, <4>1, GateAssumption DEF TimeoutSweeps, Goto, Unbounded, memory, TypeOK,
           Steps, Waiting
    <3>4. CASE TimeoutDenies(c)
      <4>1. row' \in [Calls -> {"absent", "pending", "approved", "denied"}]
        BY <3>4, RowFacts DEF TimeoutDenies, Decisions
      <4>2. QED
        BY <3>4, <4>1, GateAssumption DEF TimeoutDenies, Leave, RouteCleared, Goto,
           Unbounded, TypeOK, Steps, Waiting, Ended
    <3>5. QED
      BY <2>1, <3>1, <3>2, <3>3, <3>4 DEF CallStep
  <2>2. ASSUME NEW c \in Calls, Fault(c) PROVE TypeOK'
    <3>1. CASE InsertFails(c) \/ SaveFails(c) \/ RecordFails(c)
      BY <3>1, GateAssumption DEF InsertFails, SaveFails, RecordFails,
         Fails, RouteCleared, Goto, store, memory, TypeOK, Steps, Waiting, Ended
    <3>2. CASE TimeoutBlind(c)
      <4>1. row' \in [Calls -> {"absent", "pending", "approved", "denied"}]
        BY <3>2, RowFacts DEF TimeoutBlind, Decisions, TypeOK
      <4>2. errors' \in 0..MaxErrors
        BY <3>2, GateAssumption DEF TimeoutBlind, Fails, TypeOK
      <4>3. pc' \in [Calls -> Steps] /\ route' \in [Threads -> Calls \cup {NoCall}]
        BY <3>2 DEF TimeoutBlind, Leave, RouteCleared, Goto, TypeOK, Steps, Ended
      <4>4. QED
        BY <3>2, <4>1, <4>2, <4>3 DEF TimeoutBlind, TypeOK
    <3>3. ASSUME NEW d \in Decisions, DecideFails(c, d) PROVE TypeOK'
      <4>1. row' \in [Calls -> {"absent", "pending", "approved", "denied"}]
        BY <3>3, RowFacts DEF DecideFails
      <4>2. errors' \in 0..MaxErrors
        BY <3>3, GateAssumption DEF DecideFails, Fails, TypeOK
      <4>3. asking' \in [Calls -> SUBSET Decisions]
        BY <3>3 DEF DecideFails, TypeOK
      <4>4. QED
        BY <3>3, <4>1, <4>2, <4>3 DEF DecideFails, TypeOK
    <3>4. CASE Abort(c)
      BY <3>4, GateAssumption DEF Abort, Goto, store, memory, TypeOK, Steps, Ended
    <3>5. QED
      BY <2>2, <3>1, <3>2, <3>3, <3>4 DEF Fault
  <2>3. ASSUME NEW c \in Calls, Wake(c) \/ SaveAlways(c) \/ Elapse(c) PROVE TypeOK'
    BY <2>3, GateAssumption DEF Wake, SaveAlways, Elapse, Unbounded, store, memory,
       TypeOK, Decisions
  <2>4. ASSUME NEW c \in Calls, NEW d \in Decisions, Decide(c, d) \/ Ask(c, d) PROVE TypeOK'
    <3>1. row' \in [Calls -> {"absent", "pending", "approved", "denied"}]
      BY <2>4, RowFacts DEF Decide, Ask
    <3>2. QED
      BY <2>4, <3>1 DEF Decide, Ask, Unbounded, TypeOK
  <2>5. CASE ListPending
    BY <2>5 DEF ListPending, Swept, Unbounded, memory, TypeOK
  <2>6. CASE Restart
    BY <2>6, GateAssumption DEF Restart, store, TypeOK, Steps, Waiting, Ended
  <2>7. CASE UNCHANGED vars
    BY <2>7 DEF vars, TypeOK
  <2>8. ASSUME NEW t \in Threads, Reply(t) PROVE TypeOK'
    BY <2>8, <2>4 DEF Reply, Decisions, TypeOK
  <2>9. QED
    BY <2>1, <2>2, <2>3, <2>4, <2>5, <2>6, <2>7, <2>8 DEF Next, AskRpc
<1>3. QED
  BY <1>1, <1>2, PTL DEF Spec

(* Decided rows are final, and what decide commits is what it will send. *)
LEMMA StepsKeepRowInv ==
    ASSUME TypeOK, TypeOK', RowInv, [Next]_vars
    PROVE  RowInv'
<1>1. ASSUME NEW c \in Calls, CallStep(c) PROVE RowInv'
  <2>1. CASE PassThrough(c) \/ RejectOrigin(c) \/ Register(c) \/ InsertPending(c)
    BY <2>1 DEF PassThrough, RejectOrigin, Register, InsertPending, Goto, store, memory,
       TypeOK, Steps, RowInv, Waiting, Performed
  <2>2. CASE Receive(c)
    BY <2>2 DEF Receive, Outcome, Grants, Leave, Goto, store, TypeOK, Steps, RowInv,
       Waiting, Performed, Decisions
  <2>3. CASE TimerFires(c) \/ Reread(c)
    BY <2>3 DEF TimerFires, Reread, Honoured, Leave, Goto, store, TypeOK, Steps, RowInv,
       Waiting, Performed
  <2>4. CASE ToolReturns(c)
    BY <2>4 DEF ToolReturns, Recorded, Goto, memory, TypeOK, Steps, RowInv, Waiting, Performed
  <2>5. CASE TimeoutSweeps(c)
    <3>1. /\ row' = Swept /\ pc[c] = "expiring" /\ pc' = [pc EXCEPT ![c] = "denying"]
          /\ UNCHANGED <<executed, sent, deciding>>
      BY <2>5 DEF TimeoutSweeps, Goto, memory
    <3>2. QED
      BY <3>1 DEF Swept, Stale, TypeOK, RowInv, Performed
  <2>6. CASE TimeoutDenies(c)
    <3> DEFINE s == IF row[c] = "pending" THEN "refused" ELSE "rereading"
    <3>1. /\ row' = Ruled(c, "deny") /\ pc' = [pc EXCEPT ![c] = s]
          /\ pc[c] = "denying" /\ row[c] # "absent"
          /\ executed' = executed /\ sent' = sent /\ deciding' = deciding
      BY <2>6 DEF TimeoutDenies, Leave, Goto, RowInv
    <3>2. \A x \in Calls : row[x] # "pending" \/ x # c => row'[x] = row[x]
      BY <3>1, RowFacts DEF Decisions
    <3>3. row[c] = "pending" => row'[c] = "denied"
      BY <3>1, RowFacts DEF Decisions, Grants
    <3>4. QED
      BY <3>1, <3>2, <3>3 DEF TypeOK, RowInv, Performed
  <2>7. QED
    BY <1>1, <2>1, <2>2, <2>3, <2>4, <2>5, <2>6 DEF CallStep
<1>2. ASSUME NEW c \in Calls, Fault(c) PROVE RowInv'
  <2>1. CASE InsertFails(c) \/ SaveFails(c) \/ RecordFails(c)
    BY <2>1 DEF InsertFails, SaveFails, RecordFails, Goto, store, memory, TypeOK, Steps,
       RowInv, Waiting, Performed
  <2>2. CASE TimeoutBlind(c)
    <3>1. /\ pc[c] \in {"expiring", "denying", "rereading"}
          /\ pc' = [pc EXCEPT ![c] = "blind"]
          /\ UNCHANGED <<executed, sent, deciding>>
      BY <2>2 DEF TimeoutBlind, Leave, Goto
    <3>2. \A x \in Calls : row[x] # "pending" => row'[x] = row[x]
      BY <2>2, RowFacts DEF TimeoutBlind, Decisions
    <3>3. \A x \in Calls : row[x] = "pending" => row'[x] # "absent"
      BY <2>2, RowFacts DEF TimeoutBlind, Decisions, Grants
    <3>4. QED
      BY <3>1, <3>2, <3>3 DEF TypeOK, RowInv, Performed
  <2>3. ASSUME NEW d \in Decisions, DecideFails(c, d) PROVE RowInv'
    BY <2>3, RowFacts DEF DecideFails, RowInv, TypeOK
  <2>4. CASE Abort(c)
    BY <2>4 DEF Abort, Goto, store, memory, TypeOK, Steps, RowInv, Waiting, Performed
  <2>5. QED
    BY <1>2, <2>1, <2>2, <2>3, <2>4 DEF Fault
<1>3. ASSUME NEW c \in Calls, Wake(c) \/ SaveAlways(c) \/ Elapse(c) PROVE RowInv'
  BY <1>3 DEF Wake, SaveAlways, Elapse, store, memory, TypeOK, Decisions, RowInv
<1>4. ASSUME NEW c \in Calls, NEW d \in Decisions, Decide(c, d) PROVE RowInv'
  <2>1. \A x \in Calls : row[x] # "pending" \/ x # c => row'[x] = row[x]
    BY <1>4, RowFacts DEF Decide
  <2>2. row[c] = "pending" =>
            /\ row'[c] = IF Grants(d) THEN "approved" ELSE "denied"
            /\ deciding' = [deciding EXCEPT ![c] = d]
    BY <1>4, RowFacts DEF Decide
  <2>3. row[c] # "pending" => deciding' = deciding
    BY <1>4 DEF Decide
  <2>4. QED
    BY <1>4, <2>1, <2>2, <2>3 DEF Decide, Grants, Decisions, RowInv, TypeOK
<1>a. ASSUME NEW c \in Calls, NEW d \in Decisions, Ask(c, d) PROVE RowInv'
  BY <1>a DEF Ask, Swept, Stale, RowInv, TypeOK
<1>5. CASE ListPending
  BY <1>5 DEF ListPending, Swept, Stale, memory, RowInv, TypeOK
<1>6. CASE Restart
  <2>1. \A c \in Calls :
           /\ pc'[c] \in {"forgotten", "lost", pc[c]}
           /\ pc'[c] = "lost" => pc[c] \in Performed
           /\ pc'[c] \in Waiting => FALSE
           /\ pc[c] = "finished" => pc'[c] = "finished"
    BY <1>6 DEF Restart, TypeOK, Steps, Waiting, Performed, Ended
  <2>2. QED
    BY <1>6, <2>1 DEF Restart, store, RowInv, TypeOK, Waiting, Performed
<1>7. CASE UNCHANGED vars
  BY <1>7 DEF vars, RowInv
<1>8. ASSUME NEW t \in Threads, Reply(t) PROVE RowInv'
  BY <1>8, <1>a DEF Reply, Decisions, TypeOK
<1>9. QED
  BY <1>1, <1>2, <1>3, <1>4, <1>5, <1>6, <1>7, <1>8, <1>a DEF Next, AskRpc

THEOREM GateInvariant == Spec => []GateInv
<1>1. Init => GateInv
  BY GateAssumption DEF Init, GateInv, RowInv, TypeOK, Steps, Performed
<1>2. GateInv /\ TypeOK' /\ [Next]_vars => GateInv'
  BY StepsKeepRowInv DEF GateInv
<1>3. QED
  BY <1>1, <1>2, TypeCorrect, PTL DEF Spec

(* The outcome a call acted on is the decision its row shows. *)
THEOREM Agreement == Spec => []OutcomeMatchesRow
<1>1. GateInv => OutcomeMatchesRow
  BY DEF GateInv, RowInv, OutcomeMatchesRow
<1>2. QED
  BY <1>1, GateInvariant, PTL

(* Only an approved call that ran has an execution stamp. *)
THEOREM Stamps == Spec => []ExecutedWasApproved
<1>1. GateInv => ExecutedWasApproved
  BY DEF GateInv, RowInv, ExecutedWasApproved, TypeOK
<1>2. QED
  BY <1>1, GateInvariant, PTL

(* A thread points to a call that waits or whose turn was aborted. *)
THEOREM RouteSound == Spec => []RouteIsWaiting
<1>1. Init => RouteIsWaiting
  BY DEF Init, RouteIsWaiting
<1>2. TypeOK /\ RouteIsWaiting /\ [Next]_vars => RouteIsWaiting'
  <2> SUFFICES ASSUME TypeOK, RouteIsWaiting, [Next]_vars PROVE RouteIsWaiting'
    OBVIOUS
  <2>1. ASSUME NEW c \in Calls, CallStep(c) PROVE RouteIsWaiting'
    <3>1. CASE PassThrough(c) \/ RejectOrigin(c) \/ Register(c) \/ InsertPending(c)
      BY <3>1, GateAssumption DEF PassThrough, RejectOrigin, Register, InsertPending, Goto,
         memory, TypeOK, Steps, RouteIsWaiting, Waiting
    <3>2. CASE Receive(c) \/ TimerFires(c) \/ Reread(c) \/ ToolReturns(c)
      BY <3>2, GateAssumption DEF Receive, TimerFires, Reread, ToolReturns, Outcome,
         Honoured, Leave, RouteCleared, Goto, memory, TypeOK, Steps, RouteIsWaiting, Waiting
    <3>3. CASE TimeoutSweeps(c) \/ TimeoutDenies(c)
      BY <3>3, GateAssumption DEF TimeoutSweeps, TimeoutDenies, Leave, RouteCleared, Goto,
         memory, TypeOK, Steps, RouteIsWaiting, Waiting
    <3>4. QED
      BY <2>1, <3>1, <3>2, <3>3 DEF CallStep
  <2>2. ASSUME NEW c \in Calls, Fault(c) PROVE RouteIsWaiting'
    BY <2>2, GateAssumption DEF Fault, InsertFails, TimeoutBlind, DecideFails, SaveFails,
       RecordFails, Abort, Leave, RouteCleared, Goto, memory, TypeOK, Steps,
       RouteIsWaiting, Waiting
  <2>3. ASSUME NEW c \in Calls, Wake(c) \/ SaveAlways(c) \/ Elapse(c) PROVE RouteIsWaiting'
    BY <2>3 DEF Wake, SaveAlways, Elapse, memory, RouteIsWaiting
  <2>4. ASSUME NEW c \in Calls, NEW d \in Decisions, Decide(c, d) \/ Ask(c, d)
        PROVE  RouteIsWaiting'
    BY <2>4 DEF Decide, Ask, RouteIsWaiting
  <2>5. CASE ListPending \/ Restart \/ UNCHANGED vars
    BY <2>5 DEF ListPending, Restart, memory, vars, RouteIsWaiting
  <2>6. ASSUME NEW t \in Threads, Reply(t) PROVE RouteIsWaiting'
    BY <2>6, <2>4 DEF Reply, Decisions, TypeOK
  <2>7. QED
    BY <2>1, <2>2, <2>3, <2>4, <2>5, <2>6 DEF Next, AskRpc
<1>3. QED
  BY <1>1, <1>2, TypeCorrect, PTL DEF Spec

-----------------------------------------------------------------------------
(* What a step does to the rows: it writes a new one, denies some that are    *)
(* pending, or approves one.                                                  *)

Denied(S) == /\ \A c \in S : row[c] = "pending" /\ row'[c] = "denied"
             /\ \A c \in Calls \ S : row'[c] = row[c]

Approved(c) == /\ row[c] = "pending" /\ row'[c] = "approved"
               /\ \A x \in Calls \ {c} : row'[x] = row[x]

LEMMA SweptMoves ==
    ASSUME TypeOK, row' = Swept
    PROVE  \E S \in SUBSET Calls : Denied(S)
<1>1. Stale \in SUBSET Calls /\ Denied(Stale)
  BY DEF Swept, Stale, Denied, TypeOK
<1>2. QED
  BY <1>1

LEMMA RuledMoves ==
    ASSUME TypeOK, NEW c \in Calls, NEW d \in Decisions, row' = Ruled(c, d)
    PROVE  row' = row \/ Denied({c}) \/ Approved(c)
  BY RowFacts DEF Ruled, Denied, Approved

(* The steps that write rows, told from those that do not. *)
LEMMA RowMoves ==
    ASSUME TypeOK, RowInv, [Next]_vars
    PROVE  \/ row' = row
           \/ \E c \in Calls : row[c] = "absent" /\ row' = [row EXCEPT ![c] = "pending"]
           \/ \E S \in SUBSET Calls : Denied(S)
           \/ \E c \in Calls : Approved(c)
<1>1. ASSUME NEW c \in Calls,
             TimeoutDenies(c) \/ TimeoutBlind(c)
                \/ \E d \in Decisions : DecideFails(c, d) \/ Decide(c, d)
      PROVE  row' = row \/ \E d \in Decisions : row' = Ruled(c, d)
  BY <1>1 DEF TimeoutDenies, TimeoutBlind, DecideFails, Decide, Decisions
<1>2. ASSUME NEW c \in Calls, InsertPending(c)
      PROVE  row[c] = "absent" /\ row' = [row EXCEPT ![c] = "pending"]
  BY <1>2 DEF InsertPending, RowInv
<1>3. ASSUME \/ ListPending
             \/ \E c \in Calls : TimeoutSweeps(c) \/ \E d \in Decisions : Ask(c, d)
      PROVE  \E S \in SUBSET Calls : Denied(S)
  BY <1>3, SweptMoves DEF ListPending, TimeoutSweeps, Ask
<1>4. ASSUME NEW c \in Calls,
             \/ PassThrough(c) \/ RejectOrigin(c) \/ Register(c) \/ Receive(c)
             \/ TimerFires(c) \/ Reread(c) \/ ToolReturns(c) \/ InsertFails(c)
             \/ SaveFails(c) \/ RecordFails(c) \/ Abort(c)
             \/ Wake(c) \/ SaveAlways(c) \/ Elapse(c)
      PROVE  row' = row
  BY <1>4 DEF PassThrough, RejectOrigin, Register, Receive, TimerFires, Reread, ToolReturns,
     InsertFails, SaveFails, RecordFails, Abort, Wake, SaveAlways, Elapse, store
<1>5. ASSUME Restart \/ UNCHANGED vars PROVE row' = row
  BY <1>5 DEF Restart, store, vars
<1>6. ASSUME NEW t \in Threads, Reply(t)
      PROVE  \E c \in Calls, d \in Decisions : Ask(c, d)
  BY <1>6 DEF Reply, TypeOK, Decisions
<1>7. ASSUME NEW c \in Calls, \E d \in Decisions : row' = Ruled(c, d)
      PROVE  \/ row' = row
             \/ \E S \in SUBSET Calls : Denied(S)
             \/ \E x \in Calls : Approved(x)
  <2>1. {c} \in SUBSET Calls
    OBVIOUS
  <2>2. QED
    BY <1>7, <2>1, RuledMoves
<1>8. QED
  BY <1>1, <1>2, <1>3, <1>4, <1>5, <1>6, <1>7 DEF Next, CallStep, Fault, AskRpc

-----------------------------------------------------------------------------
Ran == {c \in Calls : pc[c] \in Performed}

(* A step that only moves rows is a denial, a grant or nothing to the user. *)
LEMMA RowMovesAreRulings ==
    ASSUME TypeOK, TypeOK', RowInv, [Next]_vars, Ran' = Ran, autoApprove' = autoApprove
    PROVE  Promise!Next \/ UNCHANGED <<Ruling, Ran, autoApprove>>
<1>1. CASE row' = row
  BY <1>1 DEF Ruling
<1>2. CASE \E c \in Calls : row[c] = "absent" /\ row' = [row EXCEPT ![c] = "pending"]
  <2>1. PICK c \in Calls : row[c] = "absent" /\ row' = [row EXCEPT ![c] = "pending"]
    BY <1>2
  <2>2. \A x \in Calls : row'[x] = row[x] \/ (row[x] = "absent" /\ row'[x] = "pending")
    BY <2>1 DEF TypeOK
  <2>3. Ruling' = Ruling
    BY <2>2 DEF Ruling
  <2>4. QED
    BY <2>3
<1>3. ASSUME NEW S \in SUBSET Calls, Denied(S) PROVE Promise!Next
  <2>1. \A c \in S : Ruling[c] = "none"
    BY <1>3 DEF Denied, Ruling
  <2>2. Ruling' = [c \in Calls |-> IF c \in S THEN "denied" ELSE Ruling[c]]
    BY <1>3 DEF Denied, Ruling
  <2>3. Promise!Deny(S)
    BY <2>1, <2>2 DEF Promise!Deny, Ran
  <2>4. QED
    BY <2>3 DEF Promise!Next
<1>4. ASSUME NEW c \in Calls, Approved(c) PROVE Promise!Next
  <2>1. Ruling[c] = "none"
    BY <1>4 DEF Approved, Ruling
  <2>2. Ruling' = [Ruling EXCEPT ![c] = "granted"]
    BY <1>4 DEF Approved, Ruling
  <2>3. Promise!Grant(c)
    BY <2>1, <2>2 DEF Promise!Grant, Ran
  <2>4. QED
    BY <2>3 DEF Promise!Next
<1>5. QED
  BY <1>1, <1>2, <1>3, <1>4, RowMoves

(* A call that starts to run is performed with consent. *)
LEMMA StartIsPerform ==
    ASSUME TypeOK, NEW c \in Calls, pc[c] \notin Performed, pc' = [pc EXCEPT ![c] = "running"],
           row' = row, autoApprove' = autoApprove,
           row[c] = "approved" \/ Shortcut(c)
    PROVE  Promise!Next
<1>1. Ran' = Ran \cup {c} /\ c \notin Ran
  BY DEF Ran, TypeOK, Performed
<1>2. Ruling' = Ruling
  BY DEF Ruling
<1>3. Promise!Perform(c)
  BY <1>1, <1>2 DEF Promise!Perform, Ran, Ruling, Shortcut
<1>4. QED
  BY <1>3 DEF Promise!Next

LEMMA StepsKeepConsent ==
    ASSUME TypeOK, TypeOK', RowInv, RowInv', [Next]_vars
    PROVE  Promise!Next \/ UNCHANGED <<Ruling, Ran, autoApprove>>
<1>1. ASSUME NEW c \in Calls, PassThrough(c) PROVE Promise!Next
  BY <1>1, StartIsPerform DEF PassThrough, Goto, store, Performed
<1>2. ASSUME NEW c \in Calls, Receive(c) \/ Reread(c)
      PROVE  Promise!Next \/ UNCHANGED <<Ruling, Ran, autoApprove>>
  <2>1. PICK o \in {"running", "refused"} :
            /\ pc' = [pc EXCEPT ![c] = o]
            /\ o = "running" => row[c] = "approved"
    BY <1>2 DEF Receive, Reread, Leave, Goto, Outcome, Honoured, Grants, RowInv
  <2>2. row' = row /\ autoApprove' = autoApprove /\ pc[c] \in {"parked", "rereading"}
    BY <1>2 DEF Receive, Reread, store
  <2>3. CASE o = "running"
    BY <2>1, <2>2, <2>3, StartIsPerform DEF Performed
  <2>4. CASE o = "refused"
    <3>1. Ran' = Ran
      BY <2>1, <2>2, <2>4 DEF Ran, Performed, TypeOK
    <3>2. QED
      BY <2>2, <3>1 DEF Ruling
  <2>5. QED
    BY <2>3, <2>4
<1>3. ASSUME NEW c \in Calls, SaveAlways(c) PROVE Promise!Next
  <2>1. Ran' = Ran /\ Ruling' = Ruling /\ Ruling[c] = "granted"
    BY <1>3 DEF SaveAlways, store, Ran, Ruling, RowInv
  <2>2. Promise!Stand(c)
    BY <1>3, <2>1 DEF Promise!Stand, SaveAlways, Ran
  <2>3. QED
    BY <2>2 DEF Promise!Next
<1>4. ASSUME NEW c \in Calls,
             \/ RejectOrigin(c) \/ Register(c) \/ InsertPending(c) \/ TimerFires(c)
             \/ TimeoutSweeps(c) \/ TimeoutDenies(c) \/ ToolReturns(c) \/ InsertFails(c)
             \/ TimeoutBlind(c) \/ RecordFails(c) \/ Abort(c)
      PROVE  Ran' = Ran /\ autoApprove' = autoApprove
  BY <1>4 DEF RejectOrigin, Register, InsertPending, TimerFires, TimeoutSweeps, TimeoutDenies,
     ToolReturns, InsertFails, TimeoutBlind, RecordFails, Abort, Leave, Goto, Ran, Performed, TypeOK
<1>5. ASSUME NEW c \in Calls,
             \/ \E d \in Decisions : DecideFails(c, d)
             \/ SaveFails(c) \/ Wake(c) \/ Elapse(c)
      PROVE  Ran' = Ran /\ autoApprove' = autoApprove
  BY <1>5 DEF DecideFails, SaveFails, Wake, Elapse, Ran
<1>6. ASSUME NEW c \in Calls, NEW d \in Decisions, Decide(c, d) \/ Ask(c, d)
      PROVE  Ran' = Ran /\ autoApprove' = autoApprove
  BY <1>6 DEF Decide, Ask, Ran
<1>7. ASSUME Restart PROVE Ran' = Ran /\ autoApprove' = autoApprove
  <2>1. \A c \in Calls : pc'[c] \in Performed <=> pc[c] \in Performed
    BY <1>7 DEF Restart, TypeOK, Steps, Waiting, Performed, Ended
  <2>2. QED
    BY <1>7, <2>1 DEF Restart, Ran
<1>8. ASSUME ListPending \/ UNCHANGED vars PROVE Ran' = Ran /\ autoApprove' = autoApprove
  BY <1>8 DEF ListPending, vars, Ran
<1>9. ASSUME NEW t \in Threads, Reply(t) PROVE Ran' = Ran /\ autoApprove' = autoApprove
  BY <1>6, <1>9 DEF Reply, Decisions, TypeOK
<1>10. QED
  BY <1>1, <1>2, <1>3, <1>4, <1>5, <1>6, <1>7, <1>8, <1>9, RowMovesAreRulings
     DEF Next, CallStep, Fault, AskRpc

(* The gate keeps the promise of Consent: a call runs once at most, and only *)
(* on its own grant, its tool's standing consent or a trusted origin.        *)
THEOREM Refinement == Spec => KeepsConsent
<1>1. Init => Promise!Init
  BY DEF Init, Promise!Init, Ruling, Performed
<1>2. TypeOK /\ TypeOK' /\ RowInv /\ RowInv' /\ [Next]_vars
          => [Promise!Next]_<<Ruling, Ran, autoApprove>>
  BY StepsKeepConsent
<1>3. Ran = {c \in Calls : pc[c] \in Performed}
  BY DEF Ran
<1>4. QED
  BY <1>1, <1>2, <1>3, GateInvariant, PTL DEF Spec, GateInv, KeepsConsent, Promise!Spec, Ran
-----------------------------------------------------------------------------
(* Delivery.  A call has its waiter from before its row exists until somebody *)
(* took it out to send, so a decide that commits on a parked call finds it;   *)
(* the exception is the decide whose SELECT failed.                           *)
DeliveryInv ==
    \A c \in Calls :
        /\ pc[c] \in {"registered", "parked"} => c \in waiters \/ sent[c] # "none"
        /\ pc[c] = "parked" /\ row[c] = "approved" /\ errors = 0
              => deciding[c] \in Decisions \/ Grants(sent[c])

(* Decisions on the rows: a parked call's row becomes approved only under a  *)
(* decide that goes on to send it.                                           *)
LEMMA DecideDelivers ==
    ASSUME TypeOK, RowInv, DeliveryInv, NEW c \in Calls, NEW d \in Decisions, Decide(c, d)
    PROVE  DeliveryInv'
<1>1. \A x \in Calls : row'[x] = "approved" =>
          row[x] = "approved" \/ (x = c /\ row[c] = "pending")
  BY RowFacts DEF Decide
<1>2. \A x \in Calls : x # c => deciding'[x] = deciding[x]
  BY DEF Decide, TypeOK
<1>3. deciding'[c] \in Decisions \/ deciding' = deciding
  BY DEF Decide, TypeOK
<1>4. row[c] = "pending" => deciding'[c] \in Decisions
  BY DEF Decide, TypeOK
<1>5. QED
  BY <1>1, <1>2, <1>3, <1>4 DEF Decide, Unbounded, DeliveryInv

(* decide finds the waiter or its message is already in the channel; what is *)
(* in the channel of an approved row grants.                                 *)
LEMMA WakeDelivers ==
    ASSUME TypeOK, RowInv, DeliveryInv, NEW c \in Calls, Wake(c)
    PROVE  DeliveryInv'
<1>1. /\ deciding[c] \in Decisions /\ sent[c] \in {"none"} \cup Decisions
      /\ row' = row /\ pc' = pc /\ errors' = errors
      /\ waiters' = waiters \ {c}
      /\ sent' = IF c \in waiters THEN [sent EXCEPT ![c] = deciding[c]] ELSE sent
  BY DEF Wake, store, Unbounded, TypeOK
<1>2. \A x \in Calls \ {c} :
          deciding'[x] = deciding[x] /\ sent'[x] = sent[x] /\ (x \in waiters' <=> x \in waiters)
  BY <1>1 DEF Wake, TypeOK
<1>3. c \in waiters => sent'[c] = deciding[c]
  BY <1>1 DEF TypeOK
<1>4. c \notin waiters => sent' = sent
  BY <1>1
<1>5. row[c] = "approved" => deciding[c] \in {"once", "always"} /\ sent[c] # "deny"
  BY <1>1 DEF RowInv, Decisions
<1>6. pc[c] \in {"registered", "parked"} => sent'[c] # "none"
  BY <1>1, <1>3, <1>4 DEF DeliveryInv, Decisions
<1>7. pc[c] = "parked" /\ row[c] = "approved" => Grants(sent'[c])
  <2>1. SUFFICES ASSUME pc[c] = "parked", row[c] = "approved" PROVE Grants(sent'[c])
    OBVIOUS
  <2>2. CASE c \in waiters
    BY <2>1, <2>2, <1>3, <1>5 DEF Grants
  <2>3. CASE c \notin waiters
    BY <2>1, <2>3, <1>1, <1>4, <1>5, <1>6 DEF Grants, Decisions
  <2>4. QED
    BY <2>2, <2>3
<1>8. QED
  BY <1>1, <1>2, <1>6, <1>7 DEF DeliveryInv

LEMMA StepsKeepDelivery ==
    ASSUME TypeOK, TypeOK', RowInv, DeliveryInv, [Next]_vars
    PROVE  DeliveryInv'
<1>n. errors \in Nat
  BY GateAssumption DEF TypeOK
<1>1. ASSUME NEW c \in Calls, CallStep(c) PROVE DeliveryInv'
  <2>1. CASE PassThrough(c) \/ RejectOrigin(c) \/ Register(c) \/ InsertPending(c)
    BY <2>1 DEF PassThrough, RejectOrigin, Register, Awaited, InsertPending, Goto, store,
       memory, Unbounded, TypeOK, DeliveryInv, RowInv
  <2>2. CASE Receive(c) \/ TimerFires(c) \/ Reread(c) \/ ToolReturns(c)
    BY <2>2 DEF Receive, Outcome, TimerFires, Reread, Honoured, ToolReturns, Leave, Goto,
       store, memory, Unbounded, TypeOK, DeliveryInv
  <2>3. CASE TimeoutSweeps(c) \/ TimeoutDenies(c)
    <3>1. \A x \in Calls : row'[x] = "approved" => row[x] = "approved"
      BY <2>3, RowFacts DEF TimeoutSweeps, TimeoutDenies, Swept, Decisions, Grants
    <3>2. /\ \E s \in {"denying", "refused", "rereading"} : pc' = [pc EXCEPT ![c] = s]
          /\ UNCHANGED <<waiters, sent, deciding, errors>>
      BY <2>3 DEF TimeoutSweeps, TimeoutDenies, Leave, Goto, memory, Unbounded
    <3>3. QED
      BY <3>1, <3>2 DEF TypeOK, DeliveryInv
  <2>4. QED
    BY <1>1, <2>1, <2>2, <2>3 DEF CallStep
<1>2. ASSUME NEW c \in Calls, Fault(c) PROVE DeliveryInv'
  <2>1. CASE \/ InsertFails(c) \/ TimeoutBlind(c) \/ SaveFails(c) \/ RecordFails(c)
             \/ \E d \in Decisions : DecideFails(c, d)
    <3>1. errors' = errors + 1 /\ errors' # 0
      BY <2>1, <1>n DEF InsertFails, TimeoutBlind, SaveFails, RecordFails, DecideFails, Fails
    <3>2. \A x \in Calls : pc'[x] \in {"registered", "parked"} =>
              pc[x] = pc'[x] /\ (x \in waiters => x \in waiters') /\ sent'[x] = sent[x]
      BY <2>1 DEF InsertFails, TimeoutBlind, SaveFails, RecordFails, DecideFails, Leave,
         Goto, memory, TypeOK
    <3>3. QED
      BY <3>1, <3>2 DEF DeliveryInv
  <2>2. CASE Abort(c)
    BY <2>2 DEF Abort, Goto, store, memory, TypeOK, DeliveryInv
  <2>3. QED
    BY <1>2, <2>1, <2>2 DEF Fault
<1>3. ASSUME NEW c \in Calls, Wake(c) PROVE DeliveryInv'
  BY <1>3, WakeDelivers
<1>4. ASSUME NEW c \in Calls, SaveAlways(c) \/ Elapse(c) PROVE DeliveryInv'
  BY <1>4 DEF SaveAlways, Elapse, store, memory, Unbounded, TypeOK, Decisions, DeliveryInv
<1>5. ASSUME NEW c \in Calls, NEW d \in Decisions, Decide(c, d) PROVE DeliveryInv'
  BY <1>5, DecideDelivers
<1>6. ASSUME ListPending \/ \E c \in Calls, d \in Decisions : Ask(c, d) PROVE DeliveryInv'
  BY <1>6 DEF ListPending, Ask, Swept, memory, Unbounded, TypeOK, DeliveryInv
<1>7. CASE Restart
  <2>1. \A c \in Calls : pc'[c] \notin {"registered", "parked"}
    BY <1>7 DEF Restart, TypeOK, Steps, Waiting, Ended
  <2>2. QED
    BY <2>1 DEF DeliveryInv
<1>8. CASE UNCHANGED vars
  BY <1>8 DEF vars, DeliveryInv
<1>9. ASSUME NEW t \in Threads, Reply(t) PROVE DeliveryInv'
  BY <1>6, <1>9 DEF Reply, Decisions, TypeOK
<1>10. QED
  BY <1>1, <1>2, <1>3, <1>4, <1>5, <1>6, <1>7, <1>8, <1>9 DEF Next, AskRpc

(* There is no moment at which decide finds no waiter although the call still *)
(* waits: an approval that is in the row of a parked call is on its way.      *)
THEOREM Delivery == Spec => []ApprovalReachesCall
<1>1. Init => DeliveryInv
  BY DEF Init, DeliveryInv
<1>2. GateInv /\ TypeOK' /\ DeliveryInv /\ [Next]_vars => DeliveryInv'
  BY StepsKeepDelivery DEF GateInv
<1>3. DeliveryInv => ApprovalReachesCall
  BY DEF DeliveryInv, ApprovalReachesCall
<1>4. QED
  BY <1>1, <1>2, <1>3, GateInvariant, TypeCorrect, PTL DEF Spec
=============================================================================
