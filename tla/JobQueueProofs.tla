--------------------------- MODULE JobQueueProofs ---------------------------
(***************************************************************************)
(* Proofs about JobQueue, for any rows, workers, kinds, keys and bounds.   *)
(***************************************************************************)
EXTENDS JobQueue, TLAPS

USE DEF NoTime, Time

-----------------------------------------------------------------------------
(* Types. *)

(* The delay before a retry is a number of ticks whatever the attempt. *)
LEMMA BackoffType == \A n \in Nat : Backoff(n) \in Nat
  BY NumbersAssumption DEF Backoff

(* Every statement that rewrites a row leaves a row. *)
LEMMA RowTypes ==
  ASSUME TypeOK, NEW r \in Row
  PROVE  /\ Leased(r) \in Row
         /\ DoneRow(r) \in Row
         /\ \A cause \in Causes : AfterFailure(r, cause) \in Row
         /\ r.attempts > 0 => DeferredRow(r) \in Row
         /\ \A f \in Failures : Revived(r, f) \in Row
         /\ Released(r) \in Row
         /\ [r EXCEPT !.status = "ready"] \in Row
  <1>1. now \in Nat /\ r.attempts \in Nat
    BY DEF TypeOK, Row
  <1>2. Backoff(r.attempts) \in Nat
    BY <1>1, BackoffType
  <1>3. Leased(r) \in Row
    <2>1. r.attempts + 1 \in Nat /\ now + LockDuration \in Nat
      BY <1>1, NumbersAssumption
    <2>2. \A a, l \in Nat : [r EXCEPT !.status = "running", !.attempts = a,
                                      !.startedAt = now, !.lockedUntil = l] \in Row
      BY <1>1 DEF Row, Statuses
    <2> QED
      BY <2>1, <2>2 DEF Leased
  <1>4. \A cause \in Causes : AfterFailure(r, cause) \in Row
    <2>1. now + Backoff(r.attempts) \in Nat
      BY <1>1, <1>2
    <2>2. \A v \in Nat : [r EXCEPT !.status = "ready", !.lockedUntil = NoTime,
                                   !.availableAt = v] \in Row
      BY DEF Row, Statuses
    <2>3. \A cause \in Causes : FailedRow(r, cause) \in Row
      BY DEF FailedRow, Row, Statuses, Failures
    <2> QED
      BY <2>1, <2>2, <2>3 DEF AfterFailure, RetriedRow
  <1>5. r.attempts > 0 => DeferredRow(r) \in Row
    <2>1. r.attempts > 0 => r.attempts - 1 \in Nat
      BY <1>1
    <2>2. now + RevisitDelay \in Nat
      BY <1>1, NumbersAssumption
    <2>3. \A a, v \in Nat : [r EXCEPT !.status = "ready", !.attempts = a,
                                      !.startedAt = NoTime, !.lockedUntil = NoTime,
                                      !.availableAt = v] \in Row
      BY DEF Row, Statuses
    <2> QED
      BY <2>1, <2>2, <2>3 DEF DeferredRow
  <1>6. \A f \in Failures : Revived(r, f) \in Row
    BY <1>1 DEF Revived, Row, Statuses
  <1>7. DoneRow(r) \in Row /\ Released(r) \in Row /\ [r EXCEPT !.status = "ready"] \in Row
    BY DEF DoneRow, Released, Row, Statuses
  <1> QED
    BY <1>3, <1>4, <1>5, <1>6, <1>7

(* A claim whose token the row carries settles into a row. *)
LEMMA SettlementType ==
  ASSUME TypeOK, NEW w \in Workers, NEW c \in claims[w], Holds(c),
         NEW r \in Settlements(c.job)
  PROVE  r \in Row
  <1>1. c \in Claim /\ c.job \in Jobs /\ row[c.job] \in Row /\ row[c.job].attempts > 0
    BY DEF TypeOK, Claim, Holds
  <1> QED
    BY <1>1, RowTypes DEF Settlements

(* The variables keep their types. *)
THEOREM TypeCorrect == Spec => []TypeOK
  <1>1. Init => TypeOK
    BY DEF Init, TypeOK, AbsentRow, Row, Statuses, Failures
  <1>2. TypeOK /\ [Next]_vars => TypeOK'
    <2> SUFFICES ASSUME TypeOK, [Next]_vars PROVE TypeOK'
      OBVIOUS
    <2>1. ASSUME NEW j \in Jobs, Enqueue(j) PROVE TypeOK'
      BY <2>1 DEF Enqueue, TypeOK, AbsentRow, Row, Statuses, Failures
    <2>2. ASSUME NEW clears \in BOOLEAN, Retry(clears) PROVE TypeOK'
      <3>1. \A j \in Jobs :
              Revived(row[j], IF clears THEN "none" ELSE row[j].failure) \in Row
        <4> TAKE j \in Jobs
        <4>1. row[j] \in Row
          BY DEF TypeOK
        <4>2. (IF clears THEN "none" ELSE row[j].failure) \in Failures
          BY <4>1 DEF Row, Failures
        <4> QED
          BY <4>1, <4>2, RowTypes
      <3> QED
        BY <2>2, <3>1 DEF Retry, TypeOK
    <2>3. ASSUME NEW w \in Workers, AcquirePermit(w) PROVE TypeOK'
      BY <2>3 DEF AcquirePermit, Goto, TypeOK
    <2>4. ASSUME NEW w \in Workers, ClaimNext(w) PROVE TypeOK'
      <3> PICK j \in Due : ClaimNext(w)!(j)
        BY <2>4 DEF ClaimNext
      <3>1. j \in Jobs /\ Leased(row[j]) \in Row /\ ClaimOf(j) \in Claim
        BY RowTypes DEF Due, TypeOK, ClaimOf, Claim, Row
      <3> QED
        BY <3>1 DEF Goto, TypeOK
    <2>5. ASSUME NEW w \in Workers, ClaimNothing(w) PROVE TypeOK'
      BY <2>5 DEF ClaimNothing, Goto, DbError, TypeOK
    <2>6. ASSUME NEW w \in Workers, ClaimBatch(w) PROVE TypeOK'
      <3> PICK S \in SUBSET DueExtracts : ClaimBatch(w)!(S)
        BY <2>6 DEF ClaimBatch
      <3>1. \A j \in S : j \in Jobs /\ ClaimOf(j) \in Claim
        BY DEF DueExtracts, Due, TypeOK, ClaimOf, Claim, Row
      <3>2. \A j \in Jobs : Leased(row[j]) \in Row
        BY RowTypes DEF TypeOK
      <3> QED
        BY <3>1, <3>2 DEF Goto, TypeOK
    <2>7. ASSUME NEW w \in Workers,
                 ClaimBatchFails(w) \/ HandlerReturns(w) \/ SettleFails(w)
          PROVE  TypeOK'
      BY <2>7 DEF ClaimBatchFails, HandlerReturns, SettleFails, PermitDropped, Goto,
                  DbError, TypeOK
    <2>8. ASSUME NEW w \in Workers, Settle(w) PROVE TypeOK'
      <3> PICK c \in claims[w] : Settle(w)!(c)
        BY <2>8 DEF Settle
      <3>1. row' \in [Jobs -> Row]
        BY SettlementType DEF TypeOK
      <3> QED
        BY <3>1 DEF Remaining, Goto, TypeOK
    <2>9. CASE Start
      <3>1. \A j \in Jobs : [row[j] EXCEPT !.status = "ready"] \in Row
        BY RowTypes DEF TypeOK
      <3>2. row' \in [Jobs -> Row]
        BY <2>9, <3>1 DEF Start, Expired, TypeOK
      <3> QED
        BY <2>9, <3>2 DEF Start, DbError, TypeOK
    <2>10. CASE Shutdown
      <3>1. \A j \in Jobs : Released(row[j]) \in Row
        BY RowTypes DEF TypeOK
      <3>2. row' \in [Jobs -> Row]
        BY <2>10, <3>1 DEF Shutdown, TypeOK
      <3> QED
        BY <2>10, <3>2 DEF Shutdown, Interruption, DbError, TypeOK
    <2>11. CASE Exit
      BY <2>11 DEF Exit, Interruption, TypeOK
    <2>12. CASE Tick
      BY <2>12 DEF Tick, TypeOK
    <2>13. CASE UNCHANGED vars
      BY <2>13 DEF vars, TypeOK
    <2> QED
      BY <2>1, <2>2, <2>3, <2>4, <2>5, <2>6, <2>7, <2>8, <2>9, <2>10, <2>11, <2>12, <2>13
      DEF Next, RequeueFailed, RetryAllFailed, Work
  <1> QED
    BY <1>1, <1>2, PTL DEF Spec

-----------------------------------------------------------------------------
(* Leases.  OneExecutor is not inductive: it needs that a live claim is the
   row's current one, which in turn needs that a token is never handed out a
   second time.  A row's (startedAt, attempts) only moves forward past the
   tokens of the claims still alive, except where startedAt is cleared. *)

StartedRows ==
    \A j \in Jobs :
        /\ row[j].startedAt <= now
        /\ row[j].status \in {"running", "done", "failed"} => row[j].startedAt # NoTime
        /\ row[j].status = "absent" => row[j].attempts = 0 /\ row[j].startedAt = NoTime

ClaimsStarted == \A w \in Workers : \A c \in claims[w] : c.startedAt <= now

(* The row r is at the claim c or past it. *)
Reached(r, c) ==
    IF r.startedAt = NoTime
      THEN r.attempts >= c.attempts \/ now > c.startedAt
      ELSE r.startedAt > c.startedAt \/ (r.startedAt = c.startedAt /\ r.attempts >= c.attempts)

ClaimsReached == \A w \in Workers : \A c \in claims[w] : Reached(row[c.job], c)

ClaimsCurrent ==
    process = "up" =>
        \A w \in Workers : \A c \in claims[w] : Holds(c) /\ row[c.job].status = "running"

QuietWhenDown ==
    process = "down" => \A w \in Workers : claims[w] = {} /\ pc[w] = "idle"

LeaseInv ==
    /\ StartedRows /\ ClaimsStarted /\ ClaimsReached
    /\ TokensDistinct /\ GateFindsActive /\ ClaimsCurrent /\ QuietWhenDown

(* Typing of a claim and of the row it is on. *)
LEMMA ClaimTypes ==
  ASSUME TypeOK, NEW w \in Workers, NEW c \in claims[w]
  PROVE  /\ c \in Claim /\ c.job \in Jobs /\ c.attempts \in Nat /\ c.attempts > 0
         /\ c.startedAt \in Nat
         /\ row[c.job] \in Row /\ row[c.job].attempts \in Nat
         /\ row[c.job].startedAt \in Nat \cup {-1}
         /\ now \in Nat
  BY DEF TypeOK, Claim, Row

(* A row keeps its place relative to every claim when the clock advances. *)
LEMMA QuietStep ==
  ASSUME TypeOK, LeaseInv, row' = row, process' = process,
         now' \in Nat, now' >= now,
         \A w \in Workers : claims'[w] \subseteq claims[w],
         process = "down" => UNCHANGED <<claims, pc>>
  PROVE  LeaseInv'
  <1>1. StartedRows'
    BY DEF LeaseInv, StartedRows, TypeOK, Row
  <1>2. ClaimsStarted'
    BY ClaimTypes DEF LeaseInv, ClaimsStarted
  <1>3. ClaimsReached'
    BY ClaimTypes DEF LeaseInv, ClaimsReached, Reached
  <1>4. TokensDistinct' /\ GateFindsActive' /\ ClaimsCurrent' /\ QuietWhenDown'
    BY DEF LeaseInv, TokensDistinct, GateFindsActive, ClaimsCurrent, QuietWhenDown,
           Holds, Active
  <1> QED
    BY <1>1, <1>2, <1>3, <1>4 DEF LeaseInv

(* The token of a new lease is the token of no claim alive. *)
LEMMA FreshToken ==
  ASSUME TypeOK, LeaseInv, NEW w \in Workers, NEW c \in claims[w], NEW j \in Due
  PROVE  c # ClaimOf(j)
  <1> SUFFICES ASSUME c = ClaimOf(j) PROVE FALSE
    OBVIOUS
  <1>1. c.job = j /\ c.attempts = row[j].attempts + 1 /\ c.startedAt = now
    BY DEF ClaimOf
  <1>2. Reached(row[j], c) /\ row[j].startedAt <= now
    BY <1>1, ClaimTypes DEF LeaseInv, ClaimsReached, StartedRows
  <1> QED
    BY <1>1, <1>2, ClaimTypes DEF Reached

(* Leasing due rows to a worker keeps the invariant; K is what the worker still
   held before. *)
LEMMA LeaseStep ==
  ASSUME TypeOK, LeaseInv, NEW w \in Workers, NEW S \in SUBSET Due,
         NEW K \in SUBSET claims[w], pc[w] # "idle",
         row' = [j \in Jobs |-> IF j \in S THEN Leased(row[j]) ELSE row[j]],
         claims' = [claims EXCEPT ![w] = K \cup {ClaimOf(j) : j \in S}],
         now' = now, process' = process
  PROVE  LeaseInv'
  <1>1. \A j \in S : /\ j \in Jobs /\ row[j].status = "ready"
                     /\ row'[j].status = "running" /\ row'[j].startedAt = now
                     /\ row'[j].attempts = row[j].attempts + 1
    BY DEF Due, Leased, TypeOK, Row
  <1>2. \A j \in Jobs \ S : row'[j] = row[j]
    OBVIOUS
  <1>3. \A v \in Workers : \A c \in claims'[v] :
           c \in claims[v] \/ (v = w /\ \E j \in S : c = ClaimOf(j))
    BY DEF TypeOK
  <1>4. StartedRows'
    <2> SUFFICES ASSUME NEW j \in Jobs
                 PROVE  /\ row'[j].startedAt <= now
                        /\ row'[j].status \in {"running", "done", "failed"}
                              => row'[j].startedAt # NoTime
                        /\ row'[j].status = "absent"
                              => row'[j].attempts = 0 /\ row'[j].startedAt = NoTime
      BY DEF StartedRows
    <2>1. now \in Nat
      BY DEF TypeOK
    <2>2. CASE j \in S
      BY <2>1, <2>2, <1>1
    <2>3. CASE j \notin S
      BY <2>3, <1>2 DEF LeaseInv, StartedRows
    <2> QED
      BY <2>2, <2>3
  <1>5. ClaimsStarted'
    BY <1>3 DEF LeaseInv, ClaimsStarted, ClaimOf, TypeOK
  <1>6. ClaimsReached'
    <2> SUFFICES ASSUME NEW v \in Workers, NEW c \in claims'[v]
                 PROVE  Reached(row[c.job], c)'
      BY DEF ClaimsReached
    <2>1. CASE c \in claims[v] /\ c.job \in S
      <3>1. /\ Reached(row[c.job], c) /\ c.startedAt <= now
            /\ row[c.job].startedAt <= now
        BY <2>1, ClaimTypes DEF LeaseInv, ClaimsReached, ClaimsStarted, StartedRows
      <3>2. row'[c.job].startedAt = now /\ row'[c.job].attempts = row[c.job].attempts + 1
        BY <2>1, <1>1
      <3> QED
        BY <2>1, <3>1, <3>2, ClaimTypes DEF Reached
    <2>2. CASE c \in claims[v] /\ c.job \notin S
      BY <2>2, <1>2, ClaimTypes DEF LeaseInv, ClaimsReached, Reached
    <2>3. CASE \E j \in S : c = ClaimOf(j)
      <3>1. PICK j \in S : c = ClaimOf(j)
        BY <2>3
      <3>2. c.job = j /\ c.attempts = row'[j].attempts /\ c.startedAt = row'[j].startedAt
        BY <3>1, <1>1 DEF ClaimOf
      <3>3. row'[j].startedAt \in Nat /\ row'[j].attempts \in Nat
        <4>1. row[j] \in Row /\ now \in Nat
          BY <1>1 DEF TypeOK
        <4> QED
          BY <4>1, <1>1 DEF Row
      <3> QED
        BY <3>2, <3>3 DEF Reached
    <2> QED
      BY <1>3, <2>1, <2>2, <2>3
  <1>7. TokensDistinct'
    BY <1>3, FreshToken DEF LeaseInv, TokensDistinct
  <1>8. GateFindsActive'
    <2> SUFFICES ASSUME NEW v \in Workers, NEW c \in claims'[v], Holds(c)'
                 PROVE  Active(c.job)'
      BY DEF GateFindsActive
    <2>1. CASE c.job \in S
      BY <2>1, <1>1 DEF Active
    <2>2. CASE c.job \notin S
      BY <2>2, <1>2, <1>3, ClaimTypes DEF LeaseInv, GateFindsActive, Holds, Active, ClaimOf
    <2> QED
      BY <2>1, <2>2
  <1>9. ClaimsCurrent'
    <2> SUFFICES ASSUME process = "up", NEW v \in Workers, NEW c \in claims'[v]
                 PROVE  Holds(c)' /\ row'[c.job].status = "running"
      BY DEF ClaimsCurrent
    <2>1. CASE c \in claims[v]
      BY <2>1, <1>1, <1>2, ClaimTypes DEF LeaseInv, ClaimsCurrent, Holds
    <2>2. CASE \E j \in S : c = ClaimOf(j)
      BY <2>2, <1>1 DEF ClaimOf, Holds
    <2> QED
      BY <1>3, <2>1, <2>2
  <1>10. QuietWhenDown'
    BY DEF LeaseInv, QuietWhenDown
  <1> QED
    BY <1>4, <1>5, <1>6, <1>7, <1>8, <1>9, <1>10 DEF LeaseInv

(* What the outcomes of a handler do to the token: a deferral takes the attempt
   back and clears startedAt, everything else leaves it. *)
LEMMA SettlementToken ==
  ASSUME TypeOK, NEW w \in Workers, NEW c \in claims[w], Holds(c),
         NEW r \in Settlements(c.job)
  PROVE  /\ r.status # "absent"
         /\ \/ r.attempts = c.attempts /\ r.startedAt = c.startedAt
            \/ r.attempts = c.attempts - 1 /\ r.startedAt = NoTime /\ r.status = "ready"
  <1> DEFINE old == row[c.job]
  <1>1. old \in Row /\ old.attempts = c.attempts /\ old.startedAt = c.startedAt
    BY ClaimTypes DEF Holds
  <1> HIDE DEF old
  <1>2. /\ DoneRow(old).attempts = old.attempts /\ DoneRow(old).startedAt = old.startedAt
        /\ DoneRow(old).status = "done"
    BY <1>1 DEF DoneRow, Row
  <1>3. \A cause : /\ AfterFailure(old, cause).attempts = old.attempts
                   /\ AfterFailure(old, cause).startedAt = old.startedAt
                   /\ AfterFailure(old, cause).status \in {"failed", "ready"}
    BY <1>1 DEF AfterFailure, FailedRow, RetriedRow, Row
  <1>4. /\ DeferredRow(old).attempts = old.attempts - 1
        /\ DeferredRow(old).startedAt = NoTime
        /\ DeferredRow(old).status = "ready"
    BY <1>1 DEF DeferredRow, Row
  <1> QED
    BY <1>1, <1>2, <1>3, <1>4 DEF Settlements, old

(* Settling a claim keeps the invariant: whoever else has a claim on the row
   has another token, so the row was past that token before the settlement and
   is still past it after. *)
LEMMA SettleStep ==
  ASSUME TypeOK, LeaseInv, NEW w \in Workers, Settle(w)
  PROVE  LeaseInv'
  <1> PICK c \in claims[w] : Settle(w)!(c)
    BY DEF Settle
  <1>1. \A v \in Workers : claims'[v] = IF v = w THEN claims[w] \ {c} ELSE claims[v]
    BY DEF Remaining, TypeOK
  <1>2. CASE row' = row
    <2>1. process = "down" => FALSE
      BY DEF LeaseInv, QuietWhenDown
    <2> QED
      BY <1>1, <1>2, <2>1, QuietStep DEF TypeOK
  <1>3. ASSUME Holds(c), NEW r \in Settlements(c.job), row' = [row EXCEPT ![c.job] = r]
        PROVE  LeaseInv'
    <2>1. /\ \/ r.attempts = c.attempts /\ r.startedAt = c.startedAt
             \/ r.attempts = c.attempts - 1 /\ r.startedAt = NoTime /\ r.status = "ready"
          /\ r.status # "absent" /\ r \in Row /\ row'[c.job] = r
          /\ \A j \in Jobs \ {c.job} : row'[j] = row[j]
      BY <1>3, SettlementToken, SettlementType, ClaimTypes DEF TypeOK
    <2>2. ASSUME NEW v \in Workers, NEW d \in claims'[v], d.job = c.job
          PROVE  /\ d \in claims[v]
                 /\ row[c.job].attempts # d.attempts \/ row[c.job].startedAt # d.startedAt
      <3>1. d \in claims[v] /\ d # c
        BY <1>1, <2>2 DEF LeaseInv, TokensDistinct
      <3>2. c \in Claim /\ d \in Claim
        BY <3>1, ClaimTypes
      <3> QED
        BY <1>3, <2>2, <3>1, <3>2 DEF Holds, Claim
    <2>3. StartedRows'
      BY <1>3, <2>1, ClaimTypes DEF LeaseInv, StartedRows, ClaimsStarted
    <2>4. ClaimsStarted' /\ TokensDistinct' /\ QuietWhenDown'
      BY <1>1 DEF LeaseInv, ClaimsStarted, TokensDistinct, QuietWhenDown
    <2>5. ClaimsReached'
      <3> SUFFICES ASSUME NEW v \in Workers, NEW d \in claims'[v]
                   PROVE  Reached(row[d.job], d)'
        BY DEF ClaimsReached
      <3>1. d \in claims[v] /\ Reached(row[d.job], d) /\ d.startedAt <= now
        BY <1>1 DEF LeaseInv, ClaimsReached, ClaimsStarted
      <3>2. CASE d.job # c.job
        BY <3>1, <3>2, <2>1, ClaimTypes DEF Reached
      <3>3. CASE d.job = c.job
        BY <3>1, <3>3, <1>3, <2>1, <2>2, ClaimTypes
        DEF Reached, Holds, LeaseInv, ClaimsStarted
      <3> QED
        BY <3>2, <3>3
    <2>6. GateFindsActive'
      <3> SUFFICES ASSUME NEW v \in Workers, NEW d \in claims'[v], Holds(d)'
                   PROVE  Active(d.job)'
        BY DEF GateFindsActive
      <3>1. d \in claims[v] /\ d.job \in Jobs
        BY <1>1, ClaimTypes
      <3>2. CASE d.job # c.job
        BY <3>1, <3>2, <2>1 DEF LeaseInv, GateFindsActive, Holds, Active
      <3>3. CASE d.job = c.job
        BY <3>3, <3>1, <1>3, <2>1, <2>2, ClaimTypes DEF Holds, Active
      <3> QED
        BY <3>2, <3>3
    <2>7. ClaimsCurrent'
      <3> SUFFICES ASSUME process = "up", NEW v \in Workers, NEW d \in claims'[v]
                   PROVE  Holds(d)' /\ row'[d.job].status = "running"
        BY DEF ClaimsCurrent
      <3>1. d \in claims[v] /\ d.job \in Jobs /\ Holds(d) /\ row[d.job].status = "running"
        BY <1>1, ClaimTypes DEF LeaseInv, ClaimsCurrent
      <3>2. d.job # c.job
        BY <3>1, <2>2 DEF Holds
      <3> QED
        BY <3>1, <3>2, <2>1 DEF Holds
    <2> QED
      BY <2>3, <2>4, <2>5, <2>6, <2>7 DEF LeaseInv
  <1> QED
    BY <1>2, <1>3

(* A retry brings a failed row back without its startedAt.  The claims still
   alive on it started before it failed, so before now. *)
LEMMA RetryStep ==
  ASSUME TypeOK, LeaseInv, NEW clears \in BOOLEAN, Retry(clears)
  PROVE  LeaseInv'
  <1> USE DEF Retry
  <1>1. \A j \in FailedJobs :
           /\ j \in Jobs /\ row[j].status = "failed" /\ row[j].startedAt < now
           /\ row'[j].status = "ready" /\ row'[j].attempts = 0 /\ row'[j].startedAt = NoTime
    BY DEF FailedJobs, Revived, TypeOK, Row
  <1>2. \A j \in Jobs \ FailedJobs : row'[j] = row[j]
    OBVIOUS
  <1>3. StartedRows'
    <2> SUFFICES ASSUME NEW k \in Jobs
                 PROVE  /\ row'[k].startedAt <= now
                        /\ row'[k].status \in {"running", "done", "failed"} =>
                              row'[k].startedAt # NoTime
                        /\ row'[k].status = "absent" =>
                              row'[k].attempts = 0 /\ row'[k].startedAt = NoTime
      BY DEF StartedRows
    <2>1. CASE k \in FailedJobs
      BY <2>1, <1>1 DEF TypeOK
    <2>2. CASE k \notin FailedJobs
      BY <2>2, <1>2 DEF LeaseInv, StartedRows
    <2> QED
      BY <2>1, <2>2
  <1>4. ClaimsStarted' /\ TokensDistinct' /\ QuietWhenDown'
    BY DEF LeaseInv, ClaimsStarted, TokensDistinct, QuietWhenDown
  <1>5. ASSUME NEW w \in Workers, NEW c \in claims[w]
        PROVE  /\ Reached(row[c.job], c)'
               /\ Holds(c)' => Active(c.job)'
    <2>1. CASE c.job \in FailedJobs
      <3>1. Reached(row[c.job], c) /\ row[c.job].startedAt # NoTime
        BY <2>1, <1>1, ClaimTypes DEF LeaseInv, ClaimsReached, StartedRows
      <3>2. c.startedAt < now
        BY <3>1, <2>1, <1>1, ClaimTypes DEF Reached
      <3> QED
        BY <2>1, <3>2, <1>1, ClaimTypes DEF Reached, Holds
    <2>2. CASE c.job \notin FailedJobs
      BY <2>2, <1>2, ClaimTypes DEF LeaseInv, ClaimsReached, GateFindsActive, Reached,
                                    Holds, Active
    <2> QED
      BY <2>1, <2>2
  <1>6. ClaimsReached' /\ GateFindsActive'
    BY <1>5 DEF ClaimsReached, GateFindsActive
  <1>7. ClaimsCurrent'
    BY <1>1, <1>2, ClaimTypes DEF LeaseInv, ClaimsCurrent, Holds
  <1> QED
    BY <1>3, <1>4, <1>6, <1>7 DEF LeaseInv

LEMMA EnqueueStep ==
  ASSUME TypeOK, LeaseInv, NEW j \in Jobs, Enqueue(j)
  PROVE  LeaseInv'
  <1> USE DEF Enqueue
  <1>1. row'[j].status = "ready" /\ row'[j].attempts = 0 /\ row'[j].startedAt = NoTime
    BY DEF AbsentRow, TypeOK
  <1>2. \A k \in Jobs \ {j} : row'[k] = row[k]
    BY DEF TypeOK
  <1>3. StartedRows'
    <2> SUFFICES ASSUME NEW k \in Jobs
                 PROVE  /\ row'[k].startedAt <= now
                        /\ row'[k].status \in {"running", "done", "failed"} =>
                              row'[k].startedAt # NoTime
                        /\ row'[k].status = "absent" =>
                              row'[k].attempts = 0 /\ row'[k].startedAt = NoTime
      BY DEF StartedRows
    <2>1. CASE k = j
      BY <2>1, <1>1 DEF TypeOK
    <2>2. CASE k # j
      BY <2>2, <1>2 DEF LeaseInv, StartedRows
    <2> QED
      BY <2>1, <2>2
  <1>4. ClaimsStarted' /\ TokensDistinct' /\ QuietWhenDown'
    BY DEF LeaseInv, ClaimsStarted, TokensDistinct, QuietWhenDown
  <1>5. ASSUME NEW w \in Workers, NEW c \in claims[w]
        PROVE  /\ Reached(row[c.job], c)'
               /\ Holds(c)' => Active(c.job)'
               /\ c.job = j => process # "up"
    <2>1. CASE c.job = j
      <3>1. Reached(row[j], c) /\ row[j].attempts = 0 /\ row[j].startedAt = NoTime
        BY <2>1, ClaimTypes DEF LeaseInv, ClaimsReached, StartedRows
      <3>2. process # "up"
        BY <2>1 DEF LeaseInv, ClaimsCurrent
      <3> QED
        BY <2>1, <3>1, <3>2, <1>1, ClaimTypes DEF Reached, Holds
    <2>2. CASE c.job # j
      BY <2>2, <1>2, ClaimTypes DEF LeaseInv, ClaimsReached, GateFindsActive, Reached,
                                    Holds, Active
    <2> QED
      BY <2>1, <2>2
  <1>6. ClaimsReached' /\ GateFindsActive'
    BY <1>5 DEF ClaimsReached, GateFindsActive
  <1>7. ClaimsCurrent'
    BY <1>2, <1>5, ClaimTypes DEF LeaseInv, ClaimsCurrent, Holds
  <1> QED
    BY <1>3, <1>4, <1>6, <1>7 DEF LeaseInv

(* Recovery and release turn running rows into ready ones and touch no token. *)
LEMMA RecoverStep ==
  ASSUME TypeOK, LeaseInv, process' # "up" \/ process = "down", process' # "down",
         UNCHANGED <<now, claims>>,
         \A j \in Jobs : \/ row'[j] = row[j]
                         \/ /\ row[j].status = "running" /\ row'[j].status = "ready"
                            /\ row'[j].attempts = row[j].attempts
                            /\ row'[j].startedAt = row[j].startedAt
  PROVE  LeaseInv'
  <1>1. StartedRows'
    BY DEF LeaseInv, StartedRows
  <1>2. ClaimsStarted' /\ TokensDistinct' /\ QuietWhenDown'
    BY DEF LeaseInv, ClaimsStarted, TokensDistinct, QuietWhenDown
  <1>3. ASSUME NEW w \in Workers, NEW c \in claims[w]
        PROVE  Reached(row[c.job], c)' /\ (Holds(c)' => Active(c.job)')
    BY ClaimTypes DEF LeaseInv, ClaimsReached, GateFindsActive, Reached, Holds, Active
  <1>4. ClaimsReached' /\ GateFindsActive'
    BY <1>3 DEF ClaimsReached, GateFindsActive
  <1>5. ClaimsCurrent'
    BY DEF LeaseInv, ClaimsCurrent, QuietWhenDown
  <1> QED
    BY <1>1, <1>2, <1>4, <1>5 DEF LeaseInv

(* The lease invariant holds. *)
THEOREM LeaseInvariant == Spec => []LeaseInv
  <1>1. Init => LeaseInv
    BY DEF Init, AbsentRow, LeaseInv, StartedRows, ClaimsStarted, ClaimsReached,
           TokensDistinct, GateFindsActive, ClaimsCurrent, QuietWhenDown
  <1>2. TypeOK /\ TypeOK' /\ LeaseInv /\ [Next]_vars => LeaseInv'
    <2> SUFFICES ASSUME TypeOK, TypeOK', LeaseInv, [Next]_vars PROVE LeaseInv'
      OBVIOUS
    <2>0. now \in Nat /\ now' \in Nat
      BY DEF TypeOK
    <2>1. ASSUME NEW j \in Jobs, Enqueue(j) PROVE LeaseInv'
      BY <2>1, EnqueueStep
    <2>2. ASSUME NEW clears \in BOOLEAN, Retry(clears) PROVE LeaseInv'
      BY <2>2, RetryStep
    <2>3. ASSUME NEW w \in Workers,
                 \/ AcquirePermit(w) \/ ClaimNothing(w) \/ ClaimBatchFails(w)
                 \/ HandlerReturns(w) \/ SettleFails(w)
          PROVE  LeaseInv'
      <3>1. row' = row /\ process' = process /\ now' = now
        BY <2>3 DEF AcquirePermit, ClaimNothing, ClaimBatchFails, HandlerReturns, SettleFails
      <3>2. \A v \in Workers : claims'[v] \subseteq claims[v]
        BY <2>3 DEF AcquirePermit, ClaimNothing, ClaimBatchFails, HandlerReturns,
                    SettleFails, TypeOK
      <3>3. process # "down"
        BY <2>3 DEF AcquirePermit, ClaimNothing, ClaimBatchFails, HandlerReturns,
                    SettleFails, Goto, LeaseInv, QuietWhenDown
      <3> QED
        BY <2>0, <3>1, <3>2, <3>3, QuietStep
    <2>4. ASSUME NEW w \in Workers, ClaimNext(w) PROVE LeaseInv'
      <3> PICK j \in Due : ClaimNext(w)!(j)
        BY <2>4 DEF ClaimNext
      <3>1. row' = [k \in Jobs |-> IF k \in {j} THEN Leased(row[k]) ELSE row[k]]
        BY DEF TypeOK
      <3>2. claims' = [claims EXCEPT ![w] = {} \cup {ClaimOf(k) : k \in {j}}]
        OBVIOUS
      <3>3. pc[w] # "idle" /\ {j} \in SUBSET Due /\ {} \in SUBSET claims[w]
        BY DEF Goto
      <3> QED
        BY <3>1, <3>2, <3>3, LeaseStep
    <2>5. ASSUME NEW w \in Workers, ClaimBatch(w) PROVE LeaseInv'
      <3> PICK S \in SUBSET DueExtracts : ClaimBatch(w)!(S)
        BY <2>5 DEF ClaimBatch
      <3>1. claims' = [claims EXCEPT ![w] = claims[w] \cup {ClaimOf(k) : k \in S}]
        OBVIOUS
      <3>2. pc[w] # "idle" /\ S \in SUBSET Due /\ claims[w] \in SUBSET claims[w]
        BY DEF Goto, DueExtracts
      <3> QED
        BY <3>1, <3>2, LeaseStep
    <2>6. ASSUME NEW w \in Workers, Settle(w) PROVE LeaseInv'
      BY <2>6, SettleStep
    <2>7. CASE Start
      <3>1. \A j \in Jobs : Expired(j) => row[j].status = "running"
        BY DEF Expired
      <3>2. \A j \in Jobs : row[j] \in Row
        BY DEF TypeOK
      <3> QED
        BY <2>7, <3>1, <3>2, RecoverStep DEF Start, Row
    <2>8. CASE Shutdown
      <3>1. \A j \in Jobs : row[j] \in Row
        BY DEF TypeOK
      <3> QED
        BY <2>8, <3>1, RecoverStep DEF Shutdown, Released, Row
    <2>9. CASE Exit
      BY <2>9 DEF Exit, LeaseInv, StartedRows, ClaimsStarted, ClaimsReached,
           TokensDistinct, GateFindsActive, ClaimsCurrent, QuietWhenDown
    <2>10. CASE Tick
      BY <2>0, <2>10, QuietStep DEF Tick
    <2>11. CASE UNCHANGED vars
      BY <2>0, <2>11, QuietStep DEF vars
    <2> QED
      BY <2>1, <2>2, <2>3, <2>4, <2>5, <2>6, <2>7, <2>8, <2>9, <2>10, <2>11
      DEF Next, RequeueFailed, RetryAllFailed, Work
  <1> QED
    BY <1>1, <1>2, TypeCorrect, PTL DEF Spec

(* While the process runs, at most one worker executes a row: run_once never
   works on a row another worker has claimed. *)
THEOREM Exclusive == Spec => []OneExecutor
  <1>1. TypeOK /\ LeaseInv => OneExecutor
    <2> SUFFICES ASSUME TypeOK, LeaseInv, process = "up",
                        NEW v \in Workers, NEW w \in Workers,
                        NEW c \in claims[v], NEW d \in claims[w], v # w, c.job = d.job
                 PROVE  FALSE
      BY DEF OneExecutor
    <2>1. Holds(c) /\ Holds(d)
      BY DEF LeaseInv, ClaimsCurrent
    <2>2. c \in Claim /\ d \in Claim
      BY ClaimTypes
    <2>3. c = d
      BY <2>1, <2>2 DEF Holds, Claim
    <2> QED
      BY <2>3 DEF LeaseInv, TokensDistinct
  <1> QED
    BY <1>1, TypeCorrect, LeaseInvariant, PTL

(* No two workers ever hold the same claim token on a row: claim_next hands
   out each pair of attempts and started_at_ms once. *)
THEOREM FreshTokens == Spec => []TokensDistinct
  <1>1. LeaseInv => TokensDistinct
    BY DEF LeaseInv
  <1> QED
    BY <1>1, LeaseInvariant, PTL

(* A settlement that passes the token gate of mark_done, mark_failed_typed or
   mark_deferred finds its row active. *)
THEOREM GateSound == Spec => []GateFindsActive
  <1>1. LeaseInv => GateFindsActive
    BY DEF LeaseInv
  <1> QED
    BY <1>1, LeaseInvariant, PTL

-----------------------------------------------------------------------------
(* The rows a step may change.  The statements that run between an enqueue and *)
(* a retry touch active rows only.                                          *)

(* Steps of the workers and the process leave every inactive row alone. *)
LEMMA InactiveUntouched ==
  ASSUME TypeOK, LeaseInv, NEW j \in Jobs, ~Active(j),
         \/ \E w \in Workers : Work(w)
         \/ Start \/ Shutdown \/ Exit \/ Tick \/ UNCHANGED vars
  PROVE  row'[j] = row[j]
  <1>1. ASSUME NEW w \in Workers, ClaimNext(w) PROVE row'[j] = row[j]
    BY <1>1 DEF ClaimNext, Due, Active, TypeOK
  <1>2. ASSUME NEW w \in Workers, ClaimBatch(w) PROVE row'[j] = row[j]
    BY <1>2 DEF ClaimBatch, DueExtracts, Due, Active
  <1>3. ASSUME NEW w \in Workers, Settle(w) PROVE row'[j] = row[j]
    <2> PICK c \in claims[w] : Settle(w)!(c)
      BY <1>3 DEF Settle
    <2>1. Holds(c) => c.job # j
      BY DEF LeaseInv, GateFindsActive
    <2> QED
      BY <2>1 DEF TypeOK
  <1>4. ASSUME NEW w \in Workers,
               \/ AcquirePermit(w) \/ ClaimNothing(w) \/ ClaimBatchFails(w)
               \/ HandlerReturns(w) \/ SettleFails(w)
        PROVE  row'[j] = row[j]
    BY <1>4 DEF AcquirePermit, ClaimNothing, ClaimBatchFails, HandlerReturns, SettleFails
  <1>5. CASE Start
    BY <1>5 DEF Start, Expired, Active
  <1>6. CASE Shutdown
    BY <1>6 DEF Shutdown, Active
  <1>7. CASE Exit \/ Tick \/ UNCHANGED vars
    BY <1>7 DEF Exit, Tick, vars
  <1> QED
    BY <1>1, <1>2, <1>3, <1>4, <1>5, <1>6, <1>7 DEF Work

(* A done row never changes again and a failed one changes only by a retry,
   however late a settlement of an older lease arrives. *)
THEOREM Terminal == Spec => TerminalIsFinal
  <1> DEFINE Final ==
        \A j \in Jobs :
          /\ row[j].status = "done" => row'[j] = row[j]
          /\ row[j].status = "failed" =>
                row'[j] = row[j] \/ row'[j] \in {Revived(row[j], f) : f \in Failures}
  <1>1. TypeOK /\ LeaseInv /\ [Next]_vars => [Final]_vars
    <2> SUFFICES ASSUME TypeOK, LeaseInv, [Next]_vars, NEW j \in Jobs,
                        row[j].status \in {"done", "failed"}
                 PROVE  /\ row[j].status = "done" => row'[j] = row[j]
                        /\ row[j].status = "failed" =>
                              \/ row'[j] = row[j]
                              \/ row'[j] \in {Revived(row[j], f) : f \in Failures}
      BY DEF Final
    <2>1. ASSUME NEW k \in Jobs, Enqueue(k) PROVE row'[j] = row[j]
      BY <2>1 DEF Enqueue, TypeOK
    <2>2. ASSUME NEW clears \in BOOLEAN, Retry(clears)
          PROVE  \/ row'[j] = row[j]
                 \/ /\ row[j].status = "failed"
                    /\ row'[j] \in {Revived(row[j], f) : f \in Failures}
      <3>1. (IF clears THEN "none" ELSE row[j].failure) \in Failures
        BY DEF TypeOK, Row, Failures
      <3> QED
        BY <2>2, <3>1 DEF Retry, FailedJobs
    <2>3. CASE \/ \E w \in Workers : Work(w)
               \/ Start \/ Shutdown \/ Exit \/ Tick \/ UNCHANGED vars
      BY <2>3, InactiveUntouched DEF Active
    <2> QED
      BY <2>1, <2>2, <2>3 DEF Next, RequeueFailed, RetryAllFailed
  <1> QED
    BY <1>1, TypeCorrect, LeaseInvariant, PTL DEF Spec, TerminalIsFinal

(* No two active rows share a dedupe key: the statements that do not expect the
   UNIQUE index to object never meet it. *)
THEOREM Dedupe == Spec => []ActiveKeysDistinct
  <1>1. Init => ActiveKeysDistinct
    BY DEF Init, AbsentRow, ActiveKeysDistinct, Active
  <1>2. TypeOK /\ LeaseInv /\ ActiveKeysDistinct /\ [Next]_vars => ActiveKeysDistinct'
    <2> SUFFICES ASSUME TypeOK, LeaseInv, ActiveKeysDistinct, [Next]_vars
                 PROVE  ActiveKeysDistinct'
      OBVIOUS
    <2>1. ASSUME NEW j \in Jobs, Enqueue(j) PROVE ActiveKeysDistinct'
      BY <2>1 DEF Enqueue, Suppressed, ActiveKeysDistinct, Active, SharesKey, TypeOK
    <2>2. ASSUME NEW clears \in BOOLEAN, Retry(clears) PROVE ActiveKeysDistinct'
      BY <2>2 DEF Retry, RetryFits, ActiveKeysDistinct, Active, SharesKey
    <2>3. CASE \/ \E w \in Workers : Work(w)
               \/ Start \/ Shutdown \/ Exit \/ Tick \/ UNCHANGED vars
      <3>1. \A j \in Jobs : Active(j)' => Active(j)
        BY <2>3, InactiveUntouched DEF Active
      <3> QED
        BY <3>1 DEF ActiveKeysDistinct, SharesKey
    <2> QED
      BY <2>1, <2>2, <2>3 DEF Next, RequeueFailed, RetryAllFailed
  <1> QED
    BY <1>1, <1>2, TypeCorrect, LeaseInvariant, PTL DEF Spec

(* While a worker holds the lease of a running row, only the shutdown hook or
   the worker itself changes the row: a second settlement, a claim and a retry
   all pass it by. *)
THEOREM LeaseKept == Spec => LeaseExclusive
  <1> DEFINE Exclusively ==
        \A w \in Workers : \A c \in claims[w] \cap claims'[w] :
          Holds(c) /\ row[c.job].status = "running" /\ process' = process
            => row'[c.job] = row[c.job]
  <1>1. TypeOK /\ LeaseInv /\ [Next]_vars => [Exclusively]_vars
    <2> SUFFICES ASSUME TypeOK, LeaseInv, [Next]_vars,
                        NEW w \in Workers, NEW c \in claims[w] \cap claims'[w],
                        Holds(c), row[c.job].status = "running", process' = process
                 PROVE  row'[c.job] = row[c.job]
      BY DEF Exclusively
    <2>0. c \in Claim /\ c.job \in Jobs
      BY ClaimTypes
    <2>1. ASSUME NEW k \in Jobs, Enqueue(k) PROVE row'[c.job] = row[c.job]
      BY <2>0, <2>1 DEF Enqueue, TypeOK
    <2>2. ASSUME NEW clears \in BOOLEAN, Retry(clears) PROVE row'[c.job] = row[c.job]
      BY <2>0, <2>2 DEF Retry, FailedJobs
    <2>3. ASSUME NEW v \in Workers, ClaimNext(v) PROVE row'[c.job] = row[c.job]
      BY <2>0, <2>3 DEF ClaimNext, Due, TypeOK
    <2>4. ASSUME NEW v \in Workers, ClaimBatch(v) PROVE row'[c.job] = row[c.job]
      BY <2>0, <2>4 DEF ClaimBatch, DueExtracts, Due
    <2>5. ASSUME NEW v \in Workers, Settle(v) PROVE row'[c.job] = row[c.job]
      <3> PICK d \in claims[v] : Settle(v)!(d)
        BY <2>5 DEF Settle
      <3>1. d \in Claim
        BY ClaimTypes
      <3>2. v = w => d # c
        BY DEF Remaining, TypeOK
      <3>3. d # c
        BY <3>2 DEF LeaseInv, TokensDistinct
      <3>4. Holds(d) => d.job # c.job
        BY <2>0, <3>1, <3>3 DEF Holds, Claim
      <3> QED
        BY <2>0, <3>4 DEF TypeOK
    <2>6. ASSUME NEW v \in Workers,
                 \/ AcquirePermit(v) \/ ClaimNothing(v) \/ ClaimBatchFails(v)
                 \/ HandlerReturns(v) \/ SettleFails(v)
          PROVE  row'[c.job] = row[c.job]
      BY <2>6 DEF AcquirePermit, ClaimNothing, ClaimBatchFails, HandlerReturns, SettleFails
    <2>7. CASE Start \/ Shutdown \/ Exit \/ Tick \/ UNCHANGED vars
      BY <2>7 DEF Start, Shutdown, Exit, Tick, vars
    <2> QED
      BY <2>1, <2>2, <2>3, <2>4, <2>5, <2>6, <2>7
      DEF Next, RequeueFailed, RetryAllFailed, Work
  <1> QED
    BY <1>1, TypeCorrect, LeaseInvariant, PTL DEF Spec, LeaseExclusive

-----------------------------------------------------------------------------
(* The promise of WorkQueue. *)

(* Steps that leave every row active, done or failed as it was are stutters. *)
LEMMA ClassesKept ==
  ASSUME \A j \in Jobs : /\ Active(j)' <=> Active(j)
                         /\ row'[j].status = "done" <=> row[j].status = "done"
                         /\ row'[j].status = "failed" <=> row[j].status = "failed"
  PROVE  /\ {j \in Jobs : Active(j)}' = {j \in Jobs : Active(j)}
         /\ {j \in Jobs : row[j].status = "done"}' = {j \in Jobs : row[j].status = "done"}
         /\ {j \in Jobs : row[j].status = "failed"}' = {j \in Jobs : row[j].status = "failed"}
  OBVIOUS

(* A settlement completes its job, gives it up, or leaves it outstanding. *)
LEMMA SettlementStatus ==
  ASSUME TypeOK, NEW j \in Jobs, NEW r \in Settlements(j)
  PROVE  r.status \in {"done", "failed", "ready"}
  BY DEF TypeOK, Row, Settlements, DoneRow, AfterFailure, FailedRow, RetriedRow, DeferredRow

(* The queue keeps the promise: whatever leases, releases and recoveries do,
   its producers see jobs accepted, completed, given up and asked for again. *)
THEOREM Refinement == Spec => KeepsPromise
  <1> DEFINE Out == {j \in Jobs : Active(j)}
             Done == {j \in Jobs : row[j].status = "done"}
             Gone == {j \in Jobs : row[j].status = "failed"}
  <1>1. Init => Promise!Init
    BY DEF Init, AbsentRow, Active, Promise!Init
  <1>2. TypeOK /\ LeaseInv /\ ActiveKeysDistinct /\ [Next]_vars
          => [Promise!Next]_<<Out, Done, Gone>>
    <2> SUFFICES ASSUME TypeOK, LeaseInv, ActiveKeysDistinct, [Next]_vars
                 PROVE  Promise!Next \/ (Out' = Out /\ Done' = Done /\ Gone' = Gone)
      OBVIOUS
    <2>1. ASSUME NEW j \in Jobs, Enqueue(j) PROVE Promise!Next
      <3>1. row'[j].status = "ready" /\ row[j].status = "absent"
        BY <2>1 DEF Enqueue, AbsentRow, TypeOK
      <3>2. \A k \in Jobs \ {j} : row'[k] = row[k]
        BY <2>1 DEF Enqueue, TypeOK
      <3>3. Out' = Out \cup {j} /\ Done' = Done /\ Gone' = Gone
        BY <3>1, <3>2 DEF Active
      <3>4. Promise!KeysDistinct(Out \cup {j})
        BY <2>1 DEF Enqueue, Suppressed, SharesKey, ActiveKeysDistinct,
                    Promise!KeysDistinct, Promise!SameKey
      <3>5. Promise!Accept(j)
        BY <3>1, <3>3, <3>4 DEF Promise!Accept, Active
      <3> QED
        BY <3>5 DEF Promise!Next
    <2>2. ASSUME NEW clears \in BOOLEAN, Retry(clears) PROVE Promise!Next
      <3>1. \A j \in Jobs : row'[j].status = IF j \in Gone THEN "ready" ELSE row[j].status
        BY <2>2 DEF Retry, FailedJobs, Revived, TypeOK, Row
      <3>2. Out' = Out \cup Gone /\ Done' = Done /\ Gone' = {}
        BY <3>1 DEF Active
      <3>3. Promise!KeysDistinct(Out \cup Gone)
        BY <2>2 DEF Retry, RetryFits, FailedJobs, SharesKey, ActiveKeysDistinct,
                    Promise!KeysDistinct, Promise!SameKey
      <3> QED
        BY <3>2, <3>3 DEF Promise!AskAgain, Promise!Next
    <2>3. ASSUME NEW w \in Workers, ClaimNext(w) PROVE UNCHANGED <<Out, Done, Gone>>
      <3> PICK j \in Due : ClaimNext(w)!(j)
        BY <2>3 DEF ClaimNext
      <3>1. row[j].status = "ready" /\ row'[j].status = "running" /\ j \in Jobs
        BY DEF Due, Leased, TypeOK, Row
      <3>2. \A k \in Jobs \ {j} : row'[k] = row[k]
        BY DEF TypeOK
      <3> QED
        BY <3>1, <3>2, ClassesKept DEF Active
    <2>4. ASSUME NEW w \in Workers, ClaimBatch(w) PROVE UNCHANGED <<Out, Done, Gone>>
      <3> PICK S \in SUBSET DueExtracts : ClaimBatch(w)!(S)
        BY <2>4 DEF ClaimBatch
      <3>1. \A j \in S : row[j].status = "ready" /\ row'[j].status = "running"
        BY DEF DueExtracts, Due, Leased, TypeOK, Row
      <3>2. \A k \in Jobs \ S : row'[k] = row[k]
        OBVIOUS
      <3> QED
        BY <3>1, <3>2, ClassesKept DEF Active
    <2>5. ASSUME NEW w \in Workers, Settle(w)
          PROVE  Promise!Next \/ UNCHANGED <<Out, Done, Gone>>
      <3> PICK c \in claims[w] : Settle(w)!(c)
        BY <2>5 DEF Settle
      <3>1. CASE row' = row
        BY <3>1, ClassesKept DEF Active
      <3>2. ASSUME Holds(c), NEW r \in Settlements(c.job), row' = [row EXCEPT ![c.job] = r]
            PROVE  Promise!Next \/ UNCHANGED <<Out, Done, Gone>>
        <4>1. c.job \in Jobs /\ row'[c.job] = r
          BY <3>2, ClaimTypes DEF TypeOK
        <4>2. Active(c.job) /\ r.status \in {"done", "failed", "ready"}
          BY <3>2, <4>1, SettlementStatus DEF LeaseInv, GateFindsActive
        <4>3. \A k \in Jobs \ {c.job} : row'[k] = row[k]
          BY <3>2 DEF TypeOK
        <4>4. CASE r.status = "ready"
          BY <4>1, <4>2, <4>3, <4>4, ClassesKept DEF Active
        <4>5. CASE r.status = "done"
          <5>1. Out' = Out \ {c.job} /\ Done' = Done \cup {c.job} /\ Gone' = Gone
            BY <4>1, <4>2, <4>3, <4>5 DEF Active
          <5>2. Promise!Complete(c.job)
            BY <4>1, <4>2, <5>1 DEF Promise!Complete
          <5> QED
            BY <4>1, <5>2 DEF Promise!Next
        <4>6. CASE r.status = "failed"
          <5>1. Out' = Out \ {c.job} /\ Gone' = Gone \cup {c.job} /\ Done' = Done
            BY <4>1, <4>2, <4>3, <4>6 DEF Active
          <5>2. Promise!GiveUp(c.job)
            BY <4>1, <4>2, <5>1 DEF Promise!GiveUp
          <5> QED
            BY <4>1, <5>2 DEF Promise!Next
        <4> QED
          BY <4>2, <4>4, <4>5, <4>6
      <3> QED
        BY <3>1, <3>2
    <2>6. ASSUME NEW w \in Workers,
                 \/ AcquirePermit(w) \/ ClaimNothing(w) \/ ClaimBatchFails(w)
                 \/ HandlerReturns(w) \/ SettleFails(w)
          PROVE  UNCHANGED <<Out, Done, Gone>>
      <3>1. row' = row
        BY <2>6 DEF AcquirePermit, ClaimNothing, ClaimBatchFails, HandlerReturns, SettleFails
      <3> QED
        BY <3>1, ClassesKept DEF Active
    <2>7. CASE Start \/ Shutdown
      <3> DEFINE Readied(j) == row[j].status = "running" /\ row'[j].status = "ready"
      <3>1. \A j \in Jobs : row'[j] = row[j] \/ Readied(j)
        <4>1. \A j \in Jobs : row[j] \in Row
          BY DEF TypeOK
        <4>2. CASE Start
          BY <4>1, <4>2 DEF Start, Expired, Row
        <4>3. CASE Shutdown
          BY <4>1, <4>3 DEF Shutdown, Released, Row
        <4> QED
          BY <2>7, <4>2, <4>3
      <3> QED
        BY <3>1, ClassesKept DEF Active
    <2>8. CASE Exit \/ Tick \/ UNCHANGED vars
      <3>1. row' = row
        BY <2>8 DEF Exit, Tick, vars
      <3> QED
        BY <3>1, ClassesKept DEF Active
    <2> QED
      BY <2>1, <2>2, <2>3, <2>4, <2>5, <2>6, <2>7, <2>8
      DEF Next, RequeueFailed, RetryAllFailed, Work
  <1> QED
    BY <1>1, <1>2, TypeCorrect, LeaseInvariant, Dedupe, PTL
    DEF Spec, KeepsPromise, Promise!Spec
-----------------------------------------------------------------------------
(* The LLM slot.  OneLocalLlm needs to know who holds the permit: a worker
   between wait_for_capacity and claim_next does, and one that handles LLM
   work of a local model still does. *)

PermitInv ==
    \A w \in Workers :
        /\ pc[w] = "permitted" => permit = w
        /\ UsesLocal /\ pc[w] = "batching" => permit = w
        /\ UsesLocal /\ pc[w] = "running" /\ (\E c \in claims[w] : KindOf[c.job] \in LlmBound)
              => permit = w

(* The permit goes from its holder to nobody and from nobody to one worker, so
   a step of w leaves what PermitInv says of the others. *)
LEMMA PermitStep ==
  ASSUME TypeOK, PermitInv, NEW w \in Workers, Work(w)
  PROVE  PermitInv'
  <1>t. pc \in [Workers -> {"idle", "permitted", "batching", "running", "settling"}]
        /\ claims \in [Workers -> SUBSET Claim] /\ w # NoWorker
    BY NoWorkerAssumption DEF TypeOK
  <1>1. CASE AcquirePermit(w)
    BY <1>1, <1>t, NoWorkerAssumption DEF AcquirePermit, Goto, PermitInv
  <1>2. CASE ClaimNext(w)
    <2> PICK j \in Due : ClaimNext(w)!(j)
      BY <1>2 DEF ClaimNext
    <2>1. permit = w /\ claims'[w] = {ClaimOf(j)} /\ ClaimOf(j).job = j
      BY <1>t DEF Goto, PermitInv, ClaimOf
    <2>2. \A v \in Workers \ {w} :
             /\ pc'[v] = pc[v] /\ claims'[v] = claims[v]
             /\ pc[v] # "permitted"
             /\ UsesLocal => pc[v] # "batching"
             /\ UsesLocal /\ pc[v] = "running" =>
                   ~\E c \in claims[v] : KindOf[c.job] \in LlmBound
      BY <1>t, <2>1 DEF Goto, PermitInv
    <2>3. pc'[w] = IF KindOf[j] = "extract_chunk" THEN "batching" ELSE "running"
      BY <1>t DEF Goto
    <2>4. UsesLocal /\ KindOf[j] \in LlmBound => permit' = w
      BY <2>1 DEF KeepsPermit
    <2>5. KindOf[j] = "extract_chunk" => KindOf[j] \in LlmBound
      BY DEF LlmBound
    <2> QED
      BY <2>1, <2>2, <2>3, <2>4, <2>5 DEF PermitInv
  <1>3. CASE ClaimNothing(w)
    BY <1>3, <1>t DEF ClaimNothing, Goto, PermitInv
  <1>4. CASE ClaimBatch(w)
    <2> PICK S \in SUBSET DueExtracts : ClaimBatch(w)!(S)
      BY <1>4 DEF ClaimBatch
    <2>1. UsesLocal => permit = w
      BY DEF Goto, PermitInv
    <2>2. \A v \in Workers \ {w} : pc'[v] = pc[v] /\ claims'[v] = claims[v]
      BY <1>t DEF Goto
    <2>3. pc'[w] = "running"
      BY <1>t DEF Goto
    <2> QED
      BY <2>1, <2>2, <2>3 DEF PermitInv
  <1>5. CASE ClaimBatchFails(w) \/ HandlerReturns(w)
    BY <1>5, <1>t DEF ClaimBatchFails, HandlerReturns, PermitDropped, Goto, PermitInv
  <1>6. CASE Settle(w) \/ SettleFails(w)
    BY <1>6, <1>t DEF Settle, SettleFails, Remaining, Goto, PermitInv
  <1> QED
    BY <1>1, <1>2, <1>3, <1>4, <1>5, <1>6 DEF Work

(* With a local model the slot is really one: of all the workers at most one is
   inside the handler of an LLM-bound job, whatever fails, stops or restarts
   around it, and the batch of extracts goes under the permit of its first. *)
THEOREM LlmSlot == Spec => []OneLocalLlm
  <1>1. Init => PermitInv
    BY DEF Init, PermitInv
  <1>2. TypeOK /\ PermitInv /\ [Next]_vars => PermitInv'
    <2> SUFFICES ASSUME TypeOK, PermitInv, [Next]_vars PROVE PermitInv'
      OBVIOUS
    <2>1. CASE \/ (\E j \in Jobs : Enqueue(j)) \/ RequeueFailed \/ RetryAllFailed
               \/ Start \/ Shutdown \/ Tick \/ UNCHANGED vars
      <3>1. UNCHANGED <<pc, claims, permit>>
        BY <2>1 DEF Enqueue, RequeueFailed, RetryAllFailed, Retry, Start, Shutdown, Tick, vars
      <3> QED
        BY <3>1 DEF PermitInv
    <2>2. CASE Exit
      BY <2>2 DEF Exit, PermitInv
    <2> QED
      BY <2>1, <2>2, PermitStep DEF Next
  <1>3. TypeOK /\ PermitInv => OneLocalLlm
    BY DEF TypeOK, PermitInv, OneLocalLlm, LlmBound
  <1> QED
    BY <1>1, <1>2, <1>3, TypeCorrect, PTL DEF Spec

-----------------------------------------------------------------------------
(* The budget of attempts.  A row that waits has an attempt left; only a row
   that a dead process left running may be at the bound when it is recovered,
   and the end of the process has raised the bound by then. *)

BudgetInv ==
    \A j \in Jobs :
        /\ row[j].attempts <= MaxAttempts + interruptions
        /\ row[j].status = "ready" => row[j].attempts < MaxAttempts + interruptions
        /\ row[j].status = "running" /\ process = "down" =>
              row[j].attempts < MaxAttempts + interruptions

(* Leasing rows that wait, from a process that is not down. *)
LEMMA BudgetLease ==
  ASSUME TypeOK, BudgetInv, NEW S \in SUBSET Due, process' = process, process # "down",
         interruptions' = interruptions,
         row' = [j \in Jobs |-> IF j \in S THEN Leased(row[j]) ELSE row[j]]
  PROVE  BudgetInv'
  <1> SUFFICES ASSUME NEW j \in Jobs
               PROVE  /\ row'[j].attempts <= MaxAttempts + interruptions
                      /\ row'[j].status = "ready" =>
                            row'[j].attempts < MaxAttempts + interruptions
    BY DEF BudgetInv
  <1>1. row[j].attempts \in Nat /\ MaxAttempts + interruptions \in Nat
    BY NumbersAssumption DEF TypeOK, Row
  <1>2. CASE j \in S
    <2>1. row[j].attempts < MaxAttempts + interruptions
      BY <1>2 DEF Due, BudgetInv
    <2>2. row'[j].attempts = row[j].attempts + 1 /\ row'[j].status = "running"
      BY <1>2 DEF Leased, TypeOK, Row
    <2> QED
      BY <1>1, <2>1, <2>2
  <1>3. CASE j \notin S
    BY <1>3 DEF BudgetInv
  <1> QED
    BY <1>2, <1>3

(* A settled row that waits again has an attempt left. *)
LEMMA BudgetSettled ==
  ASSUME TypeOK, NEW j \in Jobs, NEW r \in Settlements(j), row[j].attempts > 0,
         row[j].attempts <= MaxAttempts + interruptions
  PROVE  /\ r.attempts <= MaxAttempts + interruptions
         /\ r.status = "ready" => r.attempts < MaxAttempts + interruptions
         /\ r.status # "running"
  <1> DEFINE old == row[j]
             bound == MaxAttempts + interruptions
  <1>1. old \in Row /\ old.attempts \in Nat /\ interruptions \in Nat /\ MaxAttempts \in Nat
    BY NumbersAssumption DEF TypeOK, Row
  <1> HIDE DEF old
  <1>2. DoneRow(old).attempts = old.attempts /\ DoneRow(old).status = "done"
    BY <1>1 DEF DoneRow, Row
  <1>3. ASSUME NEW cause
        PROVE  /\ AfterFailure(old, cause).attempts = old.attempts
               /\ \/ AfterFailure(old, cause).status = "failed"
                  \/ AfterFailure(old, cause).status = "ready" /\ old.attempts < MaxAttempts
    BY <1>1 DEF AfterFailure, FailedRow, RetriedRow, Row
  <1>4. DeferredRow(old).attempts = old.attempts - 1 /\ DeferredRow(old).status = "ready"
    BY <1>1 DEF DeferredRow, Row
  <1>5. r \in {DoneRow(old), DeferredRow(old)} \cup {AfterFailure(old, cause) : cause \in Causes}
    BY DEF Settlements, old
  <1>6. old.attempts > 0 /\ old.attempts <= bound
    BY DEF old
  <1> HIDE DEF bound
  <1>7. bound \in Nat /\ MaxAttempts <= bound
    BY <1>1 DEF bound
  <1>8. CASE r = DoneRow(old)
    BY <1>2, <1>6, <1>8 DEF bound
  <1>9. CASE r = DeferredRow(old)
    BY <1>1, <1>4, <1>6, <1>7, <1>9 DEF bound
  <1>10. CASE \E cause : r = AfterFailure(old, cause)
    BY <1>1, <1>3, <1>6, <1>7, <1>10 DEF bound
  <1> QED
    BY <1>5, <1>8, <1>9, <1>10

(* claim_next never reads max_attempts, but a row is tried at most that often
   plus once for each stop or death of the process: failed statements, late
   settlements and deferrals add nothing. *)
THEOREM Budget == Spec => []AttemptsBounded
  <1>1. Init => BudgetInv
    BY NumbersAssumption DEF Init, AbsentRow, BudgetInv
  <1>2. TypeOK /\ LeaseInv /\ BudgetInv /\ [Next]_vars => BudgetInv'
    <2> SUFFICES ASSUME TypeOK, LeaseInv, BudgetInv, [Next]_vars PROVE BudgetInv'
      OBVIOUS
    <2>0. /\ interruptions \in Nat /\ MaxAttempts \in Nat /\ MaxAttempts > 0
          /\ \A j \in Jobs : row[j] \in Row /\ row[j].attempts \in Nat
      BY NumbersAssumption DEF TypeOK, Row
    <2>1. ASSUME NEW j \in Jobs, Enqueue(j) PROVE BudgetInv'
      <3>1. row'[j].attempts = 0 /\ \A k \in Jobs \ {j} : row'[k] = row[k]
        BY <2>1 DEF Enqueue, AbsentRow, TypeOK
      <3>2. row'[j].status = "ready"
        BY <2>1 DEF Enqueue, AbsentRow, TypeOK
      <3> QED
        BY <2>0, <2>1, <3>1, <3>2 DEF Enqueue, BudgetInv
    <2>2. ASSUME NEW clears \in BOOLEAN, Retry(clears) PROVE BudgetInv'
      <3>1. \A j \in Jobs : \/ row'[j] = row[j]
                            \/ row'[j].attempts = 0 /\ row'[j].status = "ready"
        BY <2>0, <2>2 DEF Retry, Revived, Row
      <3> QED
        BY <2>0, <2>2, <3>1 DEF Retry, BudgetInv
    <2>3. ASSUME NEW w \in Workers, ClaimNext(w) PROVE BudgetInv'
      <3> PICK j \in Due : ClaimNext(w)!(j)
        BY <2>3 DEF ClaimNext
      <3>1. row' = [k \in Jobs |-> IF k \in {j} THEN Leased(row[k]) ELSE row[k]]
        BY DEF TypeOK
      <3>2. process # "down" /\ {j} \in SUBSET Due
        BY DEF Goto, LeaseInv, QuietWhenDown
      <3> QED
        BY <3>1, <3>2, BudgetLease
    <2>4. ASSUME NEW w \in Workers, ClaimBatch(w) PROVE BudgetInv'
      <3> PICK S \in SUBSET DueExtracts : ClaimBatch(w)!(S)
        BY <2>4 DEF ClaimBatch
      <3>1. process # "down" /\ S \in SUBSET Due
        BY DEF Goto, LeaseInv, QuietWhenDown, DueExtracts
      <3> QED
        BY <3>1, BudgetLease
    <2>5. ASSUME NEW w \in Workers, Settle(w) PROVE BudgetInv'
      <3> PICK c \in claims[w] : Settle(w)!(c)
        BY <2>5 DEF Settle
      <3>1. CASE row' = row
        BY <3>1 DEF BudgetInv
      <3>2. ASSUME Holds(c), NEW r \in Settlements(c.job), row' = [row EXCEPT ![c.job] = r]
            PROVE  BudgetInv'
        <4>1. c.job \in Jobs /\ row[c.job].attempts > 0
          BY <3>2, ClaimTypes DEF Holds
        <4>2. /\ r.attempts <= MaxAttempts + interruptions
              /\ r.status = "ready" => r.attempts < MaxAttempts + interruptions
              /\ r.status # "running"
          BY <3>2, <4>1, BudgetSettled DEF BudgetInv
        <4>3. row'[c.job] = r /\ \A k \in Jobs \ {c.job} : row'[k] = row[k]
          BY <3>2, <4>1 DEF TypeOK
        <4> QED
          BY <4>2, <4>3 DEF BudgetInv
      <3> QED
        BY <3>1, <3>2
    <2>6. ASSUME NEW w \in Workers,
                 \/ AcquirePermit(w) \/ ClaimNothing(w) \/ ClaimBatchFails(w)
                 \/ HandlerReturns(w) \/ SettleFails(w)
          PROVE  BudgetInv'
      <3>1. UNCHANGED <<row, process, interruptions>>
        BY <2>6 DEF AcquirePermit, ClaimNothing, ClaimBatchFails, HandlerReturns, SettleFails
      <3> QED
        BY <3>1 DEF BudgetInv
    <2>7. CASE Start
      <3>1. \A j \in Jobs : \/ row'[j] = row[j]
                            \/ /\ row[j].status = "running"
                               /\ row'[j].attempts = row[j].attempts
        BY <2>0, <2>7 DEF Start, Expired, Row
      <3>2. process = "down" /\ process' = "up" /\ interruptions' = interruptions
        BY <2>7 DEF Start
      <3> QED
        BY <2>0, <3>1, <3>2 DEF BudgetInv
    <2>8. CASE Shutdown \/ Exit
      <3>1. \A j \in Jobs : row'[j].attempts = row[j].attempts
        BY <2>0, <2>8 DEF Shutdown, Released, Exit, Row
      <3>2. interruptions' = interruptions + 1
        BY <2>8 DEF Shutdown, Exit, Interruption
      <3>3. \A j \in Jobs : row'[j].attempts < MaxAttempts + interruptions'
        BY <2>0, <3>1, <3>2 DEF BudgetInv
      <3>4. MaxAttempts + interruptions' \in Nat
        BY <2>0, <3>2
      <3> QED
        BY <2>0, <3>1, <3>3, <3>4 DEF BudgetInv
    <2>9. CASE Tick \/ UNCHANGED vars
      BY <2>9 DEF Tick, vars, BudgetInv
    <2> QED
      BY <2>1, <2>2, <2>3, <2>4, <2>5, <2>6, <2>7, <2>8, <2>9
      DEF Next, RequeueFailed, RetryAllFailed, Work
  <1>3. BudgetInv => AttemptsBounded
    BY DEF BudgetInv, AttemptsBounded
  <1> QED
    BY <1>1, <1>2, <1>3, TypeCorrect, LeaseInvariant, PTL DEF Spec
-----------------------------------------------------------------------------
(* Orphans.  Until a statement fails or the process is interrupted, whoever
   leases a row keeps the claim until it settles it; a worker that looks for
   work holds nothing. *)

HeldInv ==
    /\ \A w \in Workers : pc[w] \in {"idle", "permitted"} => claims[w] = {}
    /\ dbErrors + interruptions = 0 =>
          /\ process # "stopping"
          /\ \A j \in Jobs : row[j].status = "running" =>
                \E w \in Workers : \E c \in claims[w] : c.job = j /\ Holds(c)

(* A fault makes the second half of HeldInv vacuous for good. *)
LEMMA HeldAfterFault ==
  ASSUME TypeOK, HeldInv, dbErrors' + interruptions' # 0,
         \/ UNCHANGED <<pc, claims>>
         \/ \E w \in Workers : /\ pc' = [pc EXCEPT ![w] = "idle"]
                               /\ claims' = [claims EXCEPT ![w] = {}]
         \/ \E w \in Workers : pc[w] = "permitted" /\ pc' = [pc EXCEPT ![w] = "idle"]
                               /\ claims' = claims
         \/ claims' = [w \in Workers |-> {}]
  PROVE  HeldInv'
  BY DEF HeldInv, TypeOK

(* Steps that write no running row leave the holders as they are. *)
LEMMA HeldKept ==
  ASSUME HeldInv, UNCHANGED <<pc, claims, dbErrors, interruptions>>,
         process' \in {process, "up"},
         \A j \in Jobs : row'[j].status = "running" => row'[j] = row[j]
  PROVE  HeldInv'
  <1>1. ASSUME dbErrors + interruptions = 0, NEW j \in Jobs, row'[j].status = "running"
        PROVE  \E w \in Workers : \E c \in claims'[w] : c.job = j /\ Holds(c)'
    <2>1. row'[j] = row[j]
      BY <1>1
    <2>2. PICK w \in Workers : \E c \in claims[w] : c.job = j /\ Holds(c)
      BY <1>1, <2>1 DEF HeldInv
    <2>3. PICK c \in claims[w] : c.job = j /\ Holds(c)
      BY <2>2
    <2>4. Holds(c)' /\ c \in claims'[w]
      BY <2>1, <2>3 DEF Holds
    <2> QED
      BY <2>3, <2>4
  <1> QED
    BY <1>1 DEF HeldInv

(* Leasing rows that wait gives each of them its holder. *)
LEMMA HeldLease ==
  ASSUME TypeOK, HeldInv, NEW w \in Workers, NEW S \in SUBSET Due,
         pc' = [pc EXCEPT ![w] = "batching"] \/ pc' = [pc EXCEPT ![w] = "running"],
         row' = [j \in Jobs |-> IF j \in S THEN Leased(row[j]) ELSE row[j]],
         claims' = [claims EXCEPT ![w] = claims[w] \cup {ClaimOf(j) : j \in S}],
         process' = process, UNCHANGED <<dbErrors, interruptions>>
  PROVE  HeldInv'
  <1>1. \A v \in Workers : pc'[v] \in {"idle", "permitted"} => claims'[v] = {}
    BY DEF HeldInv, TypeOK
  <1>2. ASSUME dbErrors + interruptions = 0, NEW j \in Jobs, row'[j].status = "running"
        PROVE  \E v \in Workers : \E c \in claims'[v] : c.job = j /\ Holds(c)'
    <2>1. CASE j \in S
      <3> PICK c : c = ClaimOf(j)
        OBVIOUS
      <3>1. c \in claims'[w]
        BY <2>1 DEF TypeOK
      <3>2. row'[j] = Leased(row[j]) /\ row[j] \in Row
        BY <2>1 DEF TypeOK
      <3>3. c.job = j /\ Holds(c)'
        BY <3>2 DEF ClaimOf, Holds, Leased, Row
      <3> QED
        BY <3>1, <3>3
    <2>2. CASE j \notin S
      <3>1. row'[j] = row[j]
        BY <2>2
      <3>2. PICK v \in Workers : \E c \in claims[v] : c.job = j /\ Holds(c)
        BY <1>2, <3>1 DEF HeldInv
      <3>3. PICK c \in claims[v] : c.job = j /\ Holds(c)
        BY <3>2
      <3>4. c \in claims'[v] /\ Holds(c)'
        BY <3>1, <3>3 DEF Holds, TypeOK
      <3> QED
        BY <3>3, <3>4
    <2> QED
      BY <2>1, <2>2
  <1> QED
    BY <1>1, <1>2 DEF HeldInv

(* Only a failed statement or an interruption leaves a leased row without a
   worker that settles it: no claim, batch or late settlement drops one. *)
THEOREM NoOrphans == Spec => []OrphansNeedAFault
  <1>1. Init => HeldInv
    BY DEF Init, AbsentRow, HeldInv
  <1>2. TypeOK /\ LeaseInv /\ HeldInv /\ [Next]_vars => HeldInv'
    <2> SUFFICES ASSUME TypeOK, LeaseInv, HeldInv, [Next]_vars PROVE HeldInv'
      OBVIOUS
    <2>0. /\ interruptions \in Nat /\ dbErrors \in Nat
          /\ \A j \in Jobs : row[j] \in Row
          /\ pc \in [Workers -> {"idle", "permitted", "batching", "running", "settling"}]
          /\ claims \in [Workers -> SUBSET Claim]
      BY DEF TypeOK
    <2>f. DbError \/ Interruption => dbErrors' + interruptions' # 0
      <3>1. DbError /\ interruptions' = interruptions => dbErrors' + interruptions' # 0
        BY <2>0 DEF DbError
      <3>2. Interruption /\ (dbErrors' = dbErrors \/ DbError) => dbErrors' + interruptions' # 0
        BY <2>0 DEF DbError, Interruption
      <3>3. DbError => interruptions' = interruptions \/ Interruption
        BY <2>0 DEF Next, vars, Work, Enqueue, RequeueFailed, RetryAllFailed, Retry,
           AcquirePermit, ClaimNext, ClaimNothing, ClaimBatch, ClaimBatchFails,
           HandlerReturns, Settle, SettleFails, Start, Shutdown, Exit, Tick
      <3>4. Interruption => dbErrors' = dbErrors \/ DbError
        BY <2>0 DEF Next, vars, Work, Enqueue, RequeueFailed, RetryAllFailed, Retry,
           AcquirePermit, ClaimNext, ClaimNothing, ClaimBatch, ClaimBatchFails,
           HandlerReturns, Settle, SettleFails, Start, Shutdown, Exit, Tick
      <3> QED
        BY <3>1, <3>2, <3>3, <3>4
    <2>1. ASSUME NEW j \in Jobs, Enqueue(j) PROVE HeldInv'
      <3>1. row'[j].status = "ready" /\ \A k \in Jobs \ {j} : row'[k] = row[k]
        BY <2>1 DEF Enqueue, AbsentRow, TypeOK
      <3>2. \A k \in Jobs : row'[k].status = "running" => row'[k] = row[k]
        BY <3>1
      <3> QED
        BY <2>1, <3>2, HeldKept DEF Enqueue
    <2>2. ASSUME NEW clears \in BOOLEAN, Retry(clears) PROVE HeldInv'
      <3>1. \A k \in Jobs : row'[k].status = "running" => row'[k] = row[k]
        BY <2>0, <2>2 DEF Retry, Revived, Row
      <3> QED
        BY <2>2, <3>1, HeldKept DEF Retry
    <2>3. ASSUME NEW w \in Workers, ClaimNext(w) PROVE HeldInv'
      <3> PICK j \in Due : ClaimNext(w)!(j)
        BY <2>3 DEF ClaimNext
      <3>1. row' = [k \in Jobs |-> IF k \in {j} THEN Leased(row[k]) ELSE row[k]]
        BY DEF TypeOK
      <3>2. claims[w] = {}
        BY DEF Goto, HeldInv
      <3>3. claims' = [claims EXCEPT ![w] = claims[w] \cup {ClaimOf(k) : k \in {j}}]
        BY <3>2
      <3>4. {j} \in SUBSET Due
        OBVIOUS
      <3>5. pc' = [pc EXCEPT ![w] = "batching"] \/ pc' = [pc EXCEPT ![w] = "running"]
        BY DEF Goto
      <3> QED
        BY <3>1, <3>3, <3>4, <3>5, HeldLease
    <2>4. ASSUME NEW w \in Workers, ClaimBatch(w) PROVE HeldInv'
      <3> PICK S \in SUBSET DueExtracts : ClaimBatch(w)!(S)
        BY <2>4 DEF ClaimBatch
      <3>1. S \in SUBSET Due
        BY DEF DueExtracts
      <3>2. claims' = [claims EXCEPT ![w] = claims[w] \cup {ClaimOf(k) : k \in S}]
        OBVIOUS
      <3>3. pc' = [pc EXCEPT ![w] = "running"]
        BY DEF Goto
      <3> QED
        BY <3>1, <3>2, <3>3, HeldLease
    <2>5. ASSUME NEW w \in Workers, Settle(w) PROVE HeldInv'
      <3> PICK c \in claims[w] : Settle(w)!(c)
        BY <2>5 DEF Settle
      <3>1. \A v \in Workers : claims'[v] = IF v = w THEN claims[w] \ {c} ELSE claims[v]
        BY <2>0 DEF Remaining
      <3>2. \A v \in Workers : pc'[v] \in {"idle", "permitted"} => claims'[v] = {}
        BY <2>0, <3>1 DEF HeldInv, Goto, Remaining
      <3>3. ASSUME dbErrors + interruptions = 0, NEW j \in Jobs, row'[j].status = "running"
            PROVE  \E v \in Workers : \E d \in claims'[v] : d.job = j /\ Holds(d)'
        <4>1. row'[j] = row[j] /\ (j = c.job => ~Holds(c))
          <5>1. CASE ~Holds(c)
            BY <5>1
          <5>2. CASE Holds(c)
            <6>1. PICK r \in Settlements(c.job) : row' = [row EXCEPT ![c.job] = r]
              BY <5>2
            <6>2. c.job \in Jobs
              BY ClaimTypes
            <6>3. r.status # "running"
              BY <6>2, SettlementStatus
            <6> QED
              BY <3>3, <6>1, <6>2, <6>3 DEF TypeOK
          <5> QED
            BY <5>1, <5>2
        <4>2. PICK v \in Workers : \E d \in claims[v] : d.job = j /\ Holds(d)
          BY <3>3, <4>1 DEF HeldInv
        <4>3. PICK d \in claims[v] : d.job = j /\ Holds(d)
          BY <4>2
        <4>4. d \in claims'[v] /\ Holds(d)'
          BY <3>1, <4>1, <4>3 DEF Holds
        <4> QED
          BY <4>3, <4>4
      <3> QED
        BY <3>2, <3>3 DEF HeldInv
    <2>6. ASSUME NEW w \in Workers, AcquirePermit(w) \/ HandlerReturns(w) PROVE HeldInv'
      <3>1. \A v \in Workers : pc'[v] \in {"idle", "permitted"} => claims'[v] = {}
        BY <2>0, <2>6 DEF AcquirePermit, HandlerReturns, Goto, HeldInv
      <3> QED
        BY <2>6, <3>1 DEF AcquirePermit, HandlerReturns, HeldInv, Holds
    <2>7. ASSUME NEW w \in Workers, ClaimNothing(w) PROVE HeldInv'
      <3>1. \A v \in Workers : pc'[v] \in {"idle", "permitted"} => claims'[v] = {}
        BY <2>0, <2>7 DEF ClaimNothing, Goto, HeldInv
      <3>2. CASE DbError
        BY <2>7, <2>f, <3>1, <3>2 DEF HeldInv
      <3>3. CASE UNCHANGED dbErrors
        BY <2>7, <3>1, <3>3 DEF ClaimNothing, HeldInv, Holds
      <3> QED
        BY <2>7, <3>2, <3>3 DEF ClaimNothing
    <2>8. ASSUME NEW w \in Workers, ClaimBatchFails(w) \/ SettleFails(w) PROVE HeldInv'
      BY <2>0, <2>8, <2>f, HeldAfterFault DEF ClaimBatchFails, SettleFails, Goto
    <2>9. CASE Start
      <3>1. CASE DbError
        BY <2>9, <2>f, <3>1, HeldAfterFault DEF Start
      <3>2. CASE row' = [j \in Jobs |->
                       IF Expired(j) THEN [row[j] EXCEPT !.status = "ready"] ELSE row[j]]
                 /\ UNCHANGED dbErrors
        <4>1. \A k \in Jobs : row'[k].status = "running" => row'[k] = row[k]
          BY <2>0, <3>2 DEF Row
        <4> QED
          BY <2>9, <3>2, <4>1, HeldKept DEF Start
      <3> QED
        BY <2>9, <3>1, <3>2 DEF Start
    <2>10. CASE Shutdown \/ Exit
      BY <2>10, <2>f, HeldAfterFault DEF Shutdown, Exit
    <2>11. CASE Tick \/ UNCHANGED vars
      BY <2>11 DEF Tick, vars, HeldInv, Holds
    <2> QED
      BY <2>1, <2>2, <2>3, <2>4, <2>5, <2>6, <2>7, <2>8, <2>9, <2>10, <2>11
      DEF Next, RequeueFailed, RetryAllFailed, Work
  <1>3. TypeOK /\ HeldInv => OrphansNeedAFault
    BY DEF TypeOK, HeldInv, OrphansNeedAFault, Orphan
  <1> QED
    BY <1>1, <1>2, <1>3, TypeCorrect, LeaseInvariant, PTL DEF Spec
=============================================================================
