------------------------------ MODULE JobQueue ------------------------------
(***************************************************************************)
(* The memory-tree job queue of the OpenHuman core                         *)
(* (openhuman/memory_queue/store.rs and worker.rs): rows of the SQLite     *)
(* table mem_tree_jobs, the worker pool that leases and settles them, and  *)
(* the process that starts, stops and dies around both.                    *)
(*                                                                         *)
(* The table survives the process; everything a worker holds does not.    *)
(* Every SQL statement is one atomic step (SQLite serialises writers) and  *)
(* a handler runs between the claim of its row and the settlement.  What   *)
(* the handlers do is the subject of SealPipeline; here a handler only     *)
(* takes time and returns an outcome.                                      *)
(***************************************************************************)
EXTENDS Integers, FiniteSets

CONSTANTS
    Jobs,             \* ids of the rows that may ever be inserted
    Workers,          \* the worker tasks of the pool (WORKER_COUNT in the code)
    KindOf,           \* KindOf[j]: the kind of row j
    KeyOf,            \* KeyOf[j]: its dedupe_key, or NoKey
    NoKey,
    NoWorker,
    MaxAttempts,      \* max_attempts of every row
    LockDuration,     \* DEFAULT_LOCK_DURATION_MS, in ticks
    RetryBase,        \* RETRY_BASE_MS, in ticks
    RetryCap,         \* RETRY_CAP_MS, in ticks
    RevisitDelay,     \* REEMBED_BACKFILL_REVISIT_MS, in ticks
    ExtraBatch,       \* EXTRACT_EMBED_BATCH - 1
    UsesLocal,        \* config.workload_uses_local("memory")
    MaxTime,          \* bound: the clock stops here
    MaxInterruptions, \* bound: how often the process stops or dies
    MaxDbErrors       \* bound: how many statements fail (SQLITE_BUSY, I/O)

Kinds == {"extract_chunk", "append_buffer", "seal", "flush_stale",
          "reembed_backfill", "seal_document"}

NoTime == -1
Time == Nat \cup {NoTime}

ASSUME KindsAssumption == KindOf \in [Jobs -> Kinds]
ASSUME KeysAssumption == DOMAIN KeyOf = Jobs
ASSUME NoWorkerAssumption == NoWorker \notin Workers
ASSUME NumbersAssumption ==
    /\ MaxAttempts \in Nat \ {0}
    /\ LockDuration \in Nat \ {0}
    /\ RetryBase \in Nat /\ RetryCap \in Nat /\ RevisitDelay \in Nat
    /\ ExtraBatch \in Nat
    /\ MaxTime \in Nat /\ MaxInterruptions \in Nat /\ MaxDbErrors \in Nat
    /\ UsesLocal \in BOOLEAN

(* The kinds whose handlers hold the process-wide LLM slot. *)
LlmBound == {"extract_chunk", "seal", "reembed_backfill", "seal_document"}

(* The order in which claim_next drains the kinds, most downstream first. *)
Priority(kind) ==
    CASE kind = "seal"          -> 1
      [] kind = "flush_stale"   -> 2
      [] kind = "append_buffer" -> 4
      [] OTHER                  -> 5

VARIABLES
    now,            \* the wall clock, in ticks
    process,        \* "down", "up", or "stopping" (shutdown hooks have run)
    row,            \* the table: Jobs -> Row
    pc,             \* where each worker is in run_once
    claims,         \* the claims each worker still has to settle
    permit,         \* the worker holding the LLM slot, or NoWorker
    interruptions,  \* shutdowns and process ends so far
    dbErrors        \* failed statements so far

vars == <<now, process, row, pc, claims, permit, interruptions, dbErrors>>

Statuses == {"absent", "ready", "running", "done", "failed"}

(* Whether failure_reason and failure_class are set on a row. *)
Failures == {"none", "typed"}

Row == [status: Statuses, attempts: Nat, availableAt: Nat,
        lockedUntil: Time, startedAt: Time, failure: Failures]

(* The snapshot a claim returns; attempts and startedAt are its token. *)
Claim == [job: Jobs, attempts: Nat \ {0}, startedAt: Nat]

TypeOK ==
    /\ now \in Nat
    /\ process \in {"down", "up", "stopping"}
    /\ row \in [Jobs -> Row]
    /\ pc \in [Workers -> {"idle", "permitted", "batching", "running", "settling"}]
    /\ claims \in [Workers -> SUBSET Claim]
    /\ permit \in Workers \cup {NoWorker}
    /\ interruptions \in Nat
    /\ dbErrors \in Nat

AbsentRow == [status |-> "absent", attempts |-> 0, availableAt |-> 0,
              lockedUntil |-> NoTime, startedAt |-> NoTime, failure |-> "none"]

Init ==
    /\ now = 0
    /\ process = "down"
    /\ row = [j \in Jobs |-> AbsentRow]
    /\ pc = [w \in Workers |-> "idle"]
    /\ claims = [w \in Workers |-> {}]
    /\ permit = NoWorker
    /\ interruptions = 0
    /\ dbErrors = 0

-----------------------------------------------------------------------------
(* The table. *)

(* The rows the partial UNIQUE index on dedupe_key covers. *)
Active(j) == row[j].status \in {"ready", "running"}

SharesKey(j, k) == j # k /\ KeyOf[j] # NoKey /\ KeyOf[j] = KeyOf[k]

Expired(j) == row[j].status = "running" /\ row[j].lockedUntil < now

(* Mutant: a lease that ran out counts as due. *)
DueOrExpired ==
    {j \in Jobs : Expired(j) \/ (row[j].status = "ready" /\ row[j].availableAt <= now)}

Due == {j \in Jobs : row[j].status = "ready" /\ row[j].availableAt <= now}

(* j may be the row ORDER BY ... LIMIT 1 picks: nothing due comes before it. *)
Before(j, k) ==
    LET p == Priority(KindOf[j])
        q == Priority(KindOf[k])
    IN p < q \/ (p = q /\ row[j].availableAt < row[k].availableAt)

Leased(r) == [r EXCEPT !.status = "running", !.attempts = @ + 1,
                       !.startedAt = now, !.lockedUntil = now + LockDuration]

(* Mutant: the snapshot is read before the UPDATE. *)
ClaimOfOldRow(j) == [job |-> j, attempts |-> row[j].attempts, startedAt |-> now]

ClaimOf(j) == [job |-> j, attempts |-> row[j].attempts + 1, startedAt |-> now]

(* Mutants: settlements gated on the id, or on the attempts alone. *)
HoldsById(c) == TRUE
HoldsByAttempts(c) == row[c.job].attempts = c.attempts

(* The WHERE clause of every settlement. *)
Holds(c) == /\ row[c.job].attempts = c.attempts
            /\ row[c.job].startedAt = c.startedAt

(* min(RetryBase * 2^(n-1), RetryCap), with the shift capped at 20. *)
Backoff(n) ==
    LET shift == IF n = 0 THEN 0 ELSE IF n > 20 THEN 20 ELSE n - 1
        raw   == RetryBase * 2^shift
    IN IF raw \in 0..RetryCap THEN raw ELSE RetryCap

DoneRow(r) == [r EXCEPT !.status = "done", !.lockedUntil = NoTime]

FailedRow(r, cause) ==
    [r EXCEPT !.status = "failed", !.lockedUntil = NoTime,
              !.failure = IF cause = "untyped" THEN "none" ELSE "typed"]

RetriedRow(r) ==
    [r EXCEPT !.status = "ready", !.lockedUntil = NoTime,
              !.availableAt = now + Backoff(r.attempts)]

DeferredRow(r) ==
    [r EXCEPT !.status = "ready", !.attempts = @ - 1, !.startedAt = NoTime,
              !.lockedUntil = NoTime, !.availableAt = now + RevisitDelay]

(* What a handler's error carries: nothing, or a PipelineFailure. *)
Causes == {"untyped", "transient", "unrecoverable"}

(* Mutant: the budget is checked off by one. *)
AfterFailureLate(r, cause) ==
    IF r.attempts > MaxAttempts \/ cause = "unrecoverable"
        THEN FailedRow(r, cause)
        ELSE RetriedRow(r)

(* mark_failed_typed: terminal on a spent budget or an unrecoverable cause. *)
AfterFailure(r, cause) ==
    IF r.attempts >= MaxAttempts \/ cause = "unrecoverable"
        THEN FailedRow(r, cause)
        ELSE RetriedRow(r)

(* The rows a handler's outcome may leave behind; only the backfill defers. *)
Settlements(j) ==
    {DoneRow(row[j])}
        \cup {AfterFailure(row[j], cause) : cause \in Causes}
        \cup {d \in {DeferredRow(row[j])} : KindOf[j] = "reembed_backfill"}

-----------------------------------------------------------------------------
(* Producers and the retry RPCs. *)

(* Mutant: the index covers ready rows only. *)
SuppressedByReady(j) == \E k \in Jobs : SharesKey(j, k) /\ row[k].status = "ready"

(* The conflict that makes INSERT OR IGNORE insert nothing. *)
Suppressed(j) == \E k \in Jobs : SharesKey(j, k) /\ Active(k)

(* enqueue_conn *)
Enqueue(j) ==
    /\ process # "down"
    /\ row[j].status = "absent"
    /\ ~Suppressed(j)
    /\ row' = [row EXCEPT ![j] = [AbsentRow EXCEPT !.status = "ready", !.availableAt = now]]
    /\ UNCHANGED <<now, process, pc, claims, permit, interruptions, dbErrors>>

FailedJobs == {j \in Jobs : row[j].status = "failed"}

(* Mutant: failed rows of one key do not see each other. *)
RetryFitsActive ==
    \A j \in FailedJobs, k \in Jobs : SharesKey(j, k) => ~Active(k)

(* Whether setting every failed row to ready passes the UNIQUE index. *)
RetryFits ==
    \A j \in FailedJobs, k \in Jobs :
        SharesKey(j, k) => ~Active(k) /\ k \notin FailedJobs

Revived(r, failure) ==
    [r EXCEPT !.status = "ready", !.attempts = 0, !.availableAt = now,
              !.lockedUntil = NoTime, !.startedAt = NoTime, !.failure = failure]

(* One UPDATE over every failed row.  The rows failed in an earlier          *)
(* millisecond: nobody retries in the one in which the job failed.          *)
Retry(clearsFailure) ==
    /\ process # "down"
    /\ FailedJobs # {}
    /\ \A j \in FailedJobs : row[j].startedAt < now
    /\ RetryFits
    /\ row' = [j \in Jobs |->
                 IF j \in FailedJobs
                   THEN Revived(row[j], IF clearsFailure THEN "none" ELSE row[j].failure)
                   ELSE row[j]]
    /\ UNCHANGED <<now, process, pc, claims, permit, interruptions, dbErrors>>

(* the memory_tree_retry_failed RPC *)
RequeueFailed == Retry(TRUE)

(* the retry at the start of every sync, which leaves the classification *)
RetryAllFailed == Retry(FALSE)

-----------------------------------------------------------------------------
(* run_once, step by step. *)

Goto(w, here, there) == pc[w] = here /\ pc' = [pc EXCEPT ![w] = there]

DbError == dbErrors < MaxDbErrors /\ dbErrors' = dbErrors + 1

(* wait_for_capacity: the permit is taken before anything is claimed. *)
AcquirePermit(w) ==
    /\ process # "down"
    /\ Goto(w, "idle", "permitted")
    /\ permit = NoWorker
    /\ permit' = w
    /\ UNCHANGED <<now, process, row, claims, interruptions, dbErrors>>

(* Mutant: the test for a local model is inverted. *)
KeepsPermitForCloud(j) == KindOf[j] \in LlmBound /\ ~UsesLocal

KeepsPermit(j) == KindOf[j] \in LlmBound /\ UsesLocal

(* Mutant: the permit outlives the handler. *)
PermitKept(w) == permit

(* Dropping the permit w may hold. *)
PermitDropped(w) == IF permit = w THEN NoWorker ELSE permit

(* claim_next leases the first due row; the permit stays with local LLM work. *)
ClaimNext(w) ==
    \E j \in Due :
        /\ \A k \in Due : ~Before(k, j)
        /\ Goto(w, "permitted",
                IF KindOf[j] = "extract_chunk" THEN "batching" ELSE "running")
        /\ row' = [row EXCEPT ![j] = Leased(@)]
        /\ claims' = [claims EXCEPT ![w] = {ClaimOf(j)}]
        /\ permit' = IF KeepsPermit(j) THEN permit ELSE NoWorker
        /\ UNCHANGED <<now, process, interruptions, dbErrors>>

(* Nothing is due, or claim_next failed: back to the poll loop. *)
ClaimNothing(w) ==
    /\ Goto(w, "permitted", "idle")
    /\ permit' = NoWorker
    /\ (Due = {} /\ UNCHANGED dbErrors) \/ DbError
    /\ UNCHANGED <<now, process, row, claims, interruptions>>

DueExtracts == {j \in Due : KindOf[j] = "extract_chunk"}

(* claim_ready_extract_batch leases the oldest ExtraBatch due extracts. *)
ClaimBatch(w) ==
    \E S \in SUBSET DueExtracts :
        /\ \/ S = DueExtracts /\ Cardinality(S) <= ExtraBatch
           \/ Cardinality(S) = ExtraBatch
        /\ \A j \in S, k \in DueExtracts \ S : ~Before(k, j)
        /\ Goto(w, "batching", "running")
        /\ row' = [j \in Jobs |-> IF j \in S THEN Leased(row[j]) ELSE row[j]]
        /\ claims' = [claims EXCEPT ![w] = @ \cup {ClaimOf(j) : j \in S}]
        /\ UNCHANGED <<now, process, permit, interruptions, dbErrors>>

(* run_once returns the error with its first claim unsettled. *)
ClaimBatchFails(w) ==
    /\ Goto(w, "batching", "idle")
    /\ DbError
    /\ claims' = [claims EXCEPT ![w] = {}]
    /\ permit' = PermitDropped(w)
    /\ UNCHANGED <<now, process, row, interruptions>>

(* handle_job or handle_extract_batch returns and the permit is dropped. *)
HandlerReturns(w) ==
    /\ Goto(w, "running", "settling")
    /\ permit' = PermitDropped(w)
    /\ UNCHANGED <<now, process, row, claims, interruptions, dbErrors>>

(* Mutant: only the first result of a batch is settled. *)
RemainingNone(w, c) == {}

(* The results still to settle after c. *)
Remaining(w, c) == claims[w] \ {c}

(* One settle_job: a no-op unless the row still carries the claim's token. *)
Settle(w) ==
    \E c \in claims[w] :
        /\ Goto(w, "settling", IF Remaining(w, c) = {} THEN "idle" ELSE "settling")
        /\ \/ Holds(c) /\ \E r \in Settlements(c.job) : row' = [row EXCEPT ![c.job] = r]
           \/ ~Holds(c) /\ UNCHANGED row
        /\ claims' = [claims EXCEPT ![w] = Remaining(w, c)]
        /\ UNCHANGED <<now, process, permit, interruptions, dbErrors>>

(* The `?` after settle_job drops this result and every later one. *)
SettleFails(w) ==
    /\ Goto(w, "settling", "idle")
    /\ DbError
    /\ claims' = [claims EXCEPT ![w] = {}]
    /\ UNCHANGED <<now, process, row, permit, interruptions>>

Work(w) ==
    \/ AcquirePermit(w) \/ ClaimNext(w) \/ ClaimNothing(w)
    \/ ClaimBatch(w) \/ ClaimBatchFails(w)
    \/ HandlerReturns(w) \/ Settle(w) \/ SettleFails(w)

-----------------------------------------------------------------------------
(* The process. *)

Interruption == interruptions < MaxInterruptions /\ interruptions' = interruptions + 1

(* worker::start: recover_stale_locks, whose error is only logged, then the pool. *)
Start ==
    /\ process = "down"
    /\ process' = "up"
    /\ \/ /\ row' = [j \in Jobs |->
                       IF Expired(j) THEN [row[j] EXCEPT !.status = "ready"] ELSE row[j]]
          /\ UNCHANGED dbErrors
       \/ DbError /\ UNCHANGED row
    /\ UNCHANGED <<now, pc, claims, permit, interruptions>>

(* Mutant: the release refunds the attempt. *)
ReleasedRefunded(r) ==
    [r EXCEPT !.status = "ready", !.lockedUntil = NoTime, !.attempts = @ - 1]

Released(r) == [r EXCEPT !.status = "ready", !.lockedUntil = NoTime]

(* The shutdown hook: release_running_locks, whose error is only logged. *)
Shutdown ==
    /\ process = "up"
    /\ process' = "stopping"
    /\ Interruption
    /\ \/ /\ row' = [j \in Jobs |->
                       IF row[j].status = "running" THEN Released(row[j]) ELSE row[j]]
          /\ UNCHANGED dbErrors
       \/ DbError /\ UNCHANGED row
    /\ UNCHANGED <<now, pc, claims, permit>>

(* The process is gone, after the hooks or without them. *)
Exit ==
    /\ process # "down"
    /\ process' = "down"
    /\ Interruption
    /\ pc' = [w \in Workers |-> "idle"]
    /\ claims' = [w \in Workers |-> {}]
    /\ permit' = NoWorker
    /\ UNCHANGED <<now, row, dbErrors>>

Tick ==
    /\ now < MaxTime
    /\ now' = now + 1
    /\ UNCHANGED <<process, row, pc, claims, permit, interruptions, dbErrors>>

Next ==
    \/ \E j \in Jobs : Enqueue(j)
    \/ RequeueFailed \/ RetryAllFailed
    \/ \E w \in Workers : Work(w)
    \/ Start \/ Shutdown \/ Exit \/ Tick

Spec == Init /\ [][Next]_vars

(* The runtime keeps polling every worker task and its semaphore is fair     *)
(* (FIFO); the app is started again after it stopped; time passes.          *)
(* Statements are not obliged to fail.                                      *)
Fairness ==
    /\ WF_vars(Start) /\ WF_vars(Tick)
    /\ \A w \in Workers :
          /\ SF_vars(AcquirePermit(w))
          /\ WF_vars(ClaimNext(w) \/ ClaimNothing(w))
          /\ WF_vars(ClaimBatch(w) \/ HandlerReturns(w) \/ Settle(w))

FairSpec == Spec /\ Fairness

-----------------------------------------------------------------------------
(* Safety. *)

(* No two active rows share a dedupe key.  Producers and retries check the
   index; this says that no settlement, recovery or release can put a second
   row of a key back among the active ones (the UPDATEs of mark_failed,
   mark_deferred, recover_stale_locks and release_running_locks do not fail
   on the index). *)
ActiveKeysDistinct ==
    \A j, k \in Jobs : SharesKey(j, k) => ~(Active(j) /\ Active(k))

(* While the process runs, a row is executed by at most one worker: claims
   exclude each other however settlements, retries, deferrals, retry RPCs and
   restarts interleave.  (Once the shutdown hook has released the rows of
   handlers still running, two workers may execute one row.) *)
OneExecutor ==
    process = "up" =>
        \A v, w \in Workers : \A c \in claims[v], d \in claims[w] :
            v # w => c.job # d.job

(* Even then the claim token tells the executors apart: no two workers hold
   the same attempts and started_at_ms on a row. *)
TokensDistinct ==
    \A v, w \in Workers : v # w => claims[v] \cap claims[w] = {}

(* A settlement that passes the token gate finds the row active: the gate does
   not test the status, and needs not to. *)
GateFindsActive ==
    \A w \in Workers : \A c \in claims[w] : Holds(c) => Active(c.job)

(* With a local model at most one worker executes LLM-bound work. *)
OneLocalLlm ==
    UsesLocal =>
        \A v, w \in Workers : \A c \in claims[v], d \in claims[w] :
            /\ {pc[v], pc[w]} \subseteq {"batching", "running"}
            /\ {KindOf[c.job], KindOf[d.job]} \subseteq LlmBound
            => v = w

(* claim_next does not look at max_attempts: the budget holds because every
   failure does, and only a shutdown or a death of the process adds to it. *)
AttemptsBounded ==
    \A j \in Jobs : row[j].attempts <= MaxAttempts + interruptions

(* A running row nobody will settle. *)
Orphan(j) ==
    row[j].status = "running" /\ \A w \in Workers : \A c \in claims[w] :
                                    ~(c.job = j /\ Holds(c))

(* Without a failed statement or an interruption every leased row has a worker
   that is going to settle it, batches included. *)
OrphansNeedAFault ==
    (\E j \in Jobs : Orphan(j)) => dbErrors + interruptions > 0

(* While a worker holds the lease of a running row, nothing but the shutdown
   hook or the worker itself changes the row: neither another worker's late
   settlement nor a retry. *)
LeaseExclusive ==
    [][\A w \in Workers : \A c \in claims[w] \cap claims'[w] :
          Holds(c) /\ row[c.job].status = "running" /\ process' = process
            => row'[c.job] = row[c.job]]_vars

(* A done row is never touched again, and a failed one comes back only with a
   fresh budget: no late settlement of an older lease revives or rewrites it. *)
TerminalIsFinal ==
    [][\A j \in Jobs :
          /\ row[j].status = "done" => row'[j] = row[j]
          /\ row[j].status = "failed" =>
                row'[j] = row[j] \/ row'[j] \in {Revived(row[j], f) : f \in Failures}]_vars

(* The queue implements the promise of WorkQueue. *)
Promise == INSTANCE WorkQueue WITH
    outstanding <- {j \in Jobs : Active(j)},
    completed   <- {j \in Jobs : row[j].status = "done"},
    givenUp     <- {j \in Jobs : row[j].status = "failed"}

KeepsPromise == Promise!Spec

-----------------------------------------------------------------------------
(* Liveness. *)

(* The pool drains: in the end every row that is due has been claimed, also when
   a claim, a settlement or the process failed on the way, and without such a
   fault it has been settled too. *)
PoolDrains ==
    <>[](/\ Due = {}
         /\ interruptions + dbErrors = 0 => \A j \in Jobs : row[j].status # "running")

=============================================================================
