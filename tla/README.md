# Verification of the OpenHuman core

TLA+ modules, TLC configurations and TLAPS proofs about the parts of the OpenHuman
core (`openhuman-core-src/`, Rust) that have concurrency, crashes and retries of
their own: the memory subsystem, the approval gate and the task dispatcher.  Paths below are relative to
`openhuman-core-src/openhuman/` unless they start with `core/` or `src/`.

## The system

Gigi is three programs and their user interfaces.  The J.A.R.V.I.S. daemon
(`src/src`, TypeScript on Bun) serves chat, voice, workflows and a sidecar
protocol.  The OpenHuman core (Rust) is a JSON-RPC process with about eighty
domains under `openhuman/`.  The desktop and mobile apps (`src/app`, Tauri and
React) start and talk to both.

| Component | State | Operations | What is hard |
|---|---|---|---|
| Job queue (`memory_queue/`) | table `mem_tree_jobs` in SQLite; per worker the claims it executes | enqueue, claim, batch claim, settle (done, fail, defer), recover, release, retry | leases and crashes, late settlements, the partial UNIQUE index, a batch that fails half way |
| Memory tree (`memory_tree/`, `memory_store/trees`) | tables for trees, buffers, summaries; lifecycle and backlink of chunks | extract, append, seal, flush; `flush_source_tree`, `reset_tree` | a model call between read and write; replay after a crash; a cascade beside the jobs; a reset below both |
| Scheduler gate (`scheduler_gate/`) | policy, signals, one LLM permit | wait_for_capacity, decide | a permit held across an await that wants the permit again |
| Re-embed backfill (`memory_queue/ops.rs`, handlers) | one job per embedding signature, coverage of rows | ensure, run, defer | a wake-up lost between the coverage check and the end of the chain |
| Approval gate (`approval/`) | table `pending_approvals`, waiters in memory | intercept, decide, expire, clear a thread | a decision racing the timeout; rows whose waiter died with the process |
| Task dispatcher, todo boards (`agent/task_dispatcher/`, `todos/`) | a JSON file per board and one of its runs; registry of live runs, heartbeats | poll, dispatch, claim, reclaim, write back, cancel; edits by users and agents | unlocked read-modify-write of the file beside a locked claim; a run taken for dead; a restart between two files |
| Cron (`cron/`) | SQLite tables | due, run, reschedule | missed and doubled runs |
| Ingestion, sources, sync | chunk rows and files | canonicalise, chunk, persist | idempotence; text processing otherwise |
| Event bus, RPC, shutdown (`core/`) | subscribers, hooks | publish, dispatch, run hooks | order of hooks against running tasks |
| Agent harness, inference, channels, integrations, meetings, credentials | sessions and provider connections | external calls | behaviour is that of the external services |
| Bun daemon: workflows, authority, vault, sidecar (`src/src`) | SQLite tables, websockets | enqueue and run flows, approve, call a sidecar | correlation, reconnects |

How they interact.  Ingest writes chunks and their extract jobs in one
transaction.  A worker of the queue takes the gate's permit, leases a row, runs
the handler and settles the row; a handler writes the memory tables and enqueues
its follow-ups (extract, then append, then seal, then the seal of the next level)
in the same transaction.  The scheduler enqueues a flush at start and every three
hours.  The RPCs of the read API work on the same tables beside the workers; the
shutdown registry runs the queue's release hook before the process ends.  A turn
of the agent harness parks each external call at the approval gate; the RPC and
chat replies decide it.  The board poller and triage turns dispatch cards; a
dispatched card runs as a turn of its own, reports to the board, and can be
cancelled from the chat.

## Modules

    WorkQueue  <--implements--  JobQueue  <--EXTENDS--  MCJobQueue (TLC)
                                JobQueue  <--EXTENDS--  JobQueueProofs (TLAPS)
    SummaryTree <--implements-- SealPipeline <--EXTENDS-- MCSealPipeline (TLC)
                                SealPipeline <--EXTENDS-- SealPipelineProofs (TLAPS)
                                    <--EXTENDS-- SealOrderProofs, SealBufferProofs
    Consent <--implements-- ApprovalGate <--EXTENDS-- MCApprovalGate (TLC)
                            ApprovalGate <--EXTENDS-- ApprovalGateProofs (TLAPS)
    TaskLifecycle <--implements-- TaskDispatch <--EXTENDS-- MCTaskDispatch (TLC)
                                  TaskDispatch <--EXTENDS-- TaskDispatchProofs (TLAPS)
                                      <--EXTENDS-- TaskTurnProofs <--EXTENDS-- TaskLifeProofs

`PROJECT.json` maps every definition to its source lines.

### JobQueue: rows, leases, workers, process

| Model | Code |
|---|---|
| `row[j]` | a row of `mem_tree_jobs`; `absent` before the INSERT |
| `claims[w]` | the `Job` snapshots a worker holds from the claim to `settle_job`; `attempts` and `startedAt` are the claim token |
| `pc[w]` | where the worker is in `run_once` (`worker.rs:168-252`) |
| `permit` | the one LLM slot of the scheduler gate |
| `process` | `down`, `up`, and `stopping` once the shutdown hook has run while tasks still do |
| `Enqueue`, `RequeueFailed`, `RetryAllFailed` | `store.rs` `enqueue_conn`, `requeue_failed`, `retry_all_failed` |
| `AcquirePermit` .. `SettleFails` | the steps of `run_once`, one SQL statement or one await each |
| `Start`, `Shutdown`, `Exit` | `worker::start` with `recover_stale_locks`, the hook with `release_running_locks`, the end of the process |

Each statement is atomic: SQLite serialises writers.  A handler's work is left to
SealPipeline; here it returns one of its outcomes at some time.  Statements may
fail (`DbError`): the claim, the batch claim, the settlement, the recovery and
the release, with what the code does then.  Not in the model: a panic inside a
handler (tokio ends the task; the pool shrinks until restart), rows of the
retired kinds `topic_route` and `digest_daily`, the gate's pause and throttle,
and holders of the permit outside the queue.  The clock does not go back.  A
retry RPC acts on rows that failed in an earlier millisecond; in the same
millisecond a claim token could repeat, which is not a case anybody can produce
by hand.  `MaxAttempts` is one constant where the code has a field per row
(`reembed_backfill` is enqueued with 3, types.rs:408, the others with the default): no
statement compares the fields of two rows, so what is said of a row holds with its
own number.

### SealPipeline: from chunk to summary

| Model | Code |
|---|---|
| `chunk[l]` | `lifecycle_status` (`pending_extraction`, `admitted`, `buffered`, `dropped`; the code never writes `sealed`) |
| `buffer[n]` | the row of `mem_tree_buffers` at level n: items, `token_sum`, whether `oldest_at_ms` is set |
| `summaries`, `parent`, `root` | `mem_tree_summaries`, the backlinks of chunks and summaries, `root_id` and `max_level` |
| `job[k]`, `forced` | the status of the active row of a dedupe key, if there is one, and whether a seal's payload carries `force_now_ms` |
| `failed[k]`, `failedForced` | the failed rows of the key that stand beside it: the UNIQUE index covers `ready` and `running` only (chunks/store.rs:339-342), so an enqueue leaves them where they are |
| `task[w]` | the step of the handler a worker runs, with the buffer snapshot a seal read |
| `rpc`, `active` | the call of `flush_source_tree` and the scope's membership in `ACTIVE` |
| `resetting` | between the two transactions of `reset_tree` |

A handler is cut where the code awaits or opens a transaction: a seal reads the
buffer (`SealReads`), waits for the summariser, and commits (`SealCommits`); the
flush lists stale buffers and enqueues later; extract rewrites tags after its
commit and may return an error then.  A task remembers how many resets its row
and its tree have seen: after a reset its settlement changes nothing and the
transaction of a seal fails, as the missing tree row makes it fail.

`RetryFailed` is the retry RPC: one UPDATE revives every failed row, also one whose
key has completed since, and fails as a whole when a key would be active twice.
`UserRetries` says whether it is called, `Reingests` whether a chunk that is still
pending is ingested again, which enqueues its extract beside the failed one.

Abstractions.  One source, hence one tree.  A claim takes any due row, and whether
a failure is terminal is a choice: both are JobQueue's subject.  Whether a buffer
is old enough is a choice of each flush.  A summary weighs one token, because only
L0 is gated by tokens.  The tree lookup of an append and its transaction are one
step: a reset between them makes the foreign key fail, which is a failing step.
The shutdown hook releases rows while handlers still run in JobQueue; here an
interruption ends the handlers at once.

Not modelled: `seal_document` and its merge step, the synchronous `append_leaf` of
the tree writer, deletion of sources, files on disk, `MAX_CASCADE_DEPTH` (32),
entity index and embeddings.

### ApprovalGate: parked calls and their deciders

| Model | Code |
|---|---|
| `row[c]`, `executed` | the decision and the execution stamp of a row of `pending_approvals`; `absent` before the INSERT |
| `late` | requests whose `expires_at` has passed |
| `pc[c]` | where the call is in `intercept_audited` and then in `run_one_tool`; `gone` after its turn was aborted |
| `waiters`, `sent` | the map of oneshot senders and what was sent on each |
| `route` | `thread_to_request`: one entry per thread |
| `asking[c]` | the decisions of deciders whose sweep is done and whose UPDATE is to come |
| `deciding[c]` | a decider between its UPDATE, the wake-up and the save of `always` |
| `autoApprove` | tools whose calls pass without asking |

A call registers its waiter, inserts its row and waits; an RPC, a chat reply or the
timer decides.  Every SQL statement is a step, and every one may fail (`MaxErrors`),
with what the code does then.  A turn may be aborted while a call waits, which runs
none of the gate's clean-up, and the process may restart, which loses everything
but the rows.  A request expires on its own (`Elapse`), and `decide`, `list` and the
timer sweep expired rows before they look at theirs.  The sweep and the UPDATE are
two statements in no transaction, hence two steps (`Ask` and `Decide`,
`TimeoutSweeps` and `TimeoutDenies`), and the UPDATE tests `decided_at` alone;
`MaxDeciders` bounds how many deciders stand between the two.  Not modelled: the redaction of
arguments, session ids (they label rows and no query reads them but `purge_session`,
which nothing calls), and policy levels before the gate.

### TaskDispatch: a board, its runs and their owners

| Model | Code |
|---|---|
| `board[c]` | the status of a card in the board file; `absent` when there is no such card |
| `rec[r]` | the record of a run: card, outcome, and `fresh` while neither heartbeat age nor claim age makes it stale |
| `op[a]` | what an actor (poller, triage turn, user, run task, cancel) is in the middle of: the place in its code, the card, the status it sets, the copy of the board it is about to write, and where it goes on |
| `beating` | runs whose heartbeat task ticks |
| `registry`, `headless` | `ACTIVE_RUNS`, and the runs that have no session thread and are never entered |
| `moved` | cards a user moved by hand (at most `MaxMoved`, each once) |

Every board operation loads the file, changes one card and replaces the file
(`tempfile::persist`), so the read (`Edit`) and the write (`Save`) are steps of
their own and the write carries every card of the copy.  Only `claim_card` holds
`board_lock` over both, and nothing else takes that lock.  Records have a lock
that covers each change, so each is one step; `create_run`, the heartbeat's write,
the save of a board and the save of a closed record (`RecordFails`, `ReclaimFails`)
fail where `FailingSteps` says so.  `Sections` is how many pieces of
code without an await may overlap: the core runs on a pool of threads, so this is a
bound and never an assumption of a theorem.  `ApartSpec` is what `todos/ops.rs`
promises of the board operations, each atomic: any number of sections overlap, but
from the first look at a card to the save nobody else is in such an operation
(`EditsApart`).  The code does not enforce it, and dispatch_claim_lost runs without
it.  `write_back` is three steps: the test for a card
its agent has blocked, the edit, and the closing of the record.  An abort takes
effect at the run's next await.

Abstractions.  Records do not age while a heartbeat ticks or a write-back runs,
because the tick is 30 s and the limit 300 s; with `OutlivesTtl` they may, because
the claim's limit of 3600 s has no heartbeat.  Which card the poller prefers is a
choice.  A hand edit may set any status; an agent's may set `AgentStatuses`.  A
session thread exists or not (`NoSession`).  Not modelled: the scratch board, whose
operations hold one lock; `replace` and `clear`; fields of a card other than the
status; the reclaim RPC beside the poller; a failing read.

### The abstract specifications

`WorkQueue` is what producers rely on: a job is outstanding until completed or
given up, two outstanding jobs never share a key, a completed job is over.
`SummaryTree` is what a tree is for: a node stays on the open frontier until it is
taken into a batch and folded with it into one summary that takes its place; a batch
may be put back, and what joins a buffer while its batch is being summarised may
be lost with it, as in the code.
`Consent` is what a user is promised: a call is performed at most once, and only
after a grant of that very call, a standing grant of its tool or a trusted origin.
`TaskLifecycle` is the life of a card nobody moves by hand: approval before the
run, one run at a time, only its run reports on it, and only a run that ended
without a report sends it back.

## Runs

All runs finish in under three minutes with two TLC workers.  Deadlock is not
checked: every bounded model ends (clock, ids, interruptions, runs), and the code
has nothing to do when nothing is due.

| Run | Bounds | Shows |
|---|---|---|
| queue_leases | 2 rows (an extract, the deferring backfill), 2 workers, 2 attempts, 3 clock values, 2 interruptions, 1 failed statement | types; one executor per row; distinct claim tokens; the settlement gate; exclusive leases; terminal rows are final |
| queue_batch | 3 extract rows, two with one key, 2 workers, 1 attempt, 1 interruption, 1 failed statement | distinct active keys, the attempts bound, one local LLM executor, no orphan without a fault, refinement of WorkQueue; the pool drains, also after a fault |
| seal_in_order | 2 leaves, 2 workers, 1 error before a transaction, retry RPC | refinement of SummaryTree; no admitted chunk without an append; whoever ripens a buffer sees to its seal; every leaf leaves L0 |
| seal_faults | 1 leaf, 1 worker, the RPC, 1 error at any step, 1 interruption, 1 reset, retries and re-ingests, 4 summaries | types, fan-in, backlinks, buffer counters, root |
| approval_consent | 2 calls of one chat thread and 1 unlabelled call, one tool, 2 deciders between their statements, 1 failing statement, 1 abort, 1 restart | outcomes agree with the rows, stamps, approvals reach their calls, routes, refinement of Consent |
| approval_ends | the 2 chat calls, 1 decider between its statements, the same faults | every parked call ends; an approval that beats the timer is honoured |
| dispatch_races | 2 gated cards, poller, 1 triage turn, 1 user, 1 run, 2 overlapping sections, a run past its TTL, a hand edit, 1 restart (also inside a reclaim) or failing create, heartbeat, save or closing | types, one card in progress, one write-back, final records |
| dispatch_lifecycle | 2 cards, one gated, 2 runs, 2 sections that do not overlap on the board, 2 restarts or failing closings, 1 reclaim allowed | refinement of TaskLifecycle, approval before a gated run, bounded reclaims, tracked cards leave in progress |
| seal_leaf_lost | 2 leaves, 2 workers | violated: LeafKept |
| seal_folded_twice | 1 leaf, 1 worker, 1 error before a transaction, retry RPC, a re-ingest | violated: FoldedOnce |
| dispatch_claim_lost | 2 cards, poller and triage, 2 runs, 2 overlapping sections, no faults | violated: OneActiveRun |
| dispatch_orphaned | 2 cards, 1 run, 1 section, 1 restart | violated: InProgressIsTracked |

Why the bounds are enough.  A race in the queue needs a holder of an old claim, a
holder of the new one and a third party that made the row claimable again: two
workers and two interruptions give that, and the deferral that lowers `attempts`
needs a second tick for the token to differ.  The batch needs one extract beside
the first, and a pair of equal keys.  In the tree, fan-in 2 makes the second
summary ripen level 1 and the third stand on level 2; one leaf already yields four
summaries when its append is replayed, so seal_faults reaches a root at level 2
and a later summary below it.  `WORKER_COUNT` is 4, `SUMMARY_FANOUT` 10 and
`INPUT_TOKEN_BUDGET` 50000 in the code; leaves of one token and budgets of 1 and 2
keep the order of gate crossings.  The workers of queue_leases,
the chat calls of approval_consent and the two gated cards of dispatch_races are
symmetric; runs with a liveness property use no symmetry.

Two calls on one thread are what it takes to overwrite a route, and two deciders
with the timer are three parties to one row.  On the board two cards and two
overlapping sections give the lost update (one actor reads, another writes both
steps, the first writes); a third section would only repeat it, and the cap, the
write-back and the records are proved for any number.  dispatch_races has one run,
because what races there is its task, its cancel, its reclaim and the editors;
dispatch_lifecycle has two runs and two faults, so that a card is run, reclaimed and
run again, and with one reclaim allowed is given up; a restart inside a reclaim is
left to dispatch_races and to the proofs there, because such a card is no longer
tracked.  `max_reclaim_count` is 3 in the code.  A card that a user moves is in
the bounds of dispatch_races only.

Fairness.  A tokio task that can run is polled (weak fairness of each worker's
steps), the permit's semaphore is FIFO (strong fairness of taking it), the
process is started again and time passes.  An error of a worker's iteration is no end of its loop,
so `PoolDrains` asks for the due rows after a fault too.  In SealPipeline the scheduler enqueues
the flush again and again (weak), a due row is not passed over forever (strong on
each key's claim, because `claim_next` orders by age within a kind), and a buffer
nobody seals is old enough for some later flush (strong fairness of
`FlushFindsStale`, the passage of the age limit).  At the gate the timer fires and a
decision that is in a channel is received (weak fairness of each call's steps);
nobody is obliged to decide.  On the board the poller ticks and a dispatch goes on
(strong, because each must get its turn again and again while others are on the
board or use up the sections, as the runtime polls every ready task), an actor finishes its edit and its
record (weak), runs end (an agent run has a cap on its iterations, executor.rs:136, and every
iteration is assumed to return) and time passes.  A failing statement or handler
is never obliged to happen.

## What the violated runs show

* **LeafKept** (seal_leaf_lost).  A leaf appended between the seal's read and its
  commit is cleared with the buffer and is in no summary.
* **FoldedOnce** (seal_folded_twice).  The extract A of a chunk fails for good.  A
  re-ingest finds the chunk pending and inserts extract B, which A does not
  suppress; B is admitted, appended and sealed.  The retry RPC revives A, no handler
  looks at the lifecycle of the chunk, and the leaf is appended and folded a second
  time.  One worker is enough, and no crash.
* **OneActiveRun** (dispatch_claim_lost).  A triage turn reads the board to reject
  one card; the poller claims another and starts its run; the triage turn writes
  its copy, in which the claimed card is still `todo`; the next dispatch claims the
  card again.  Two runs work on it, and the first to end writes `done` over the
  other's claim.  The comment at `poller.rs:29` holds between two claims only.
* **InProgressIsTracked** (dispatch_orphaned).  A restart between the claim and
  `create_run` leaves a card in progress without an active record; nothing looks for
  such a card, and the poller starts nothing while it stands there.  A restart
  between the two writes of a reclaim and a failed edit of a write-back have the
  same end.  `todos/invariant_tests.rs:94` asserts the opposite, on boards where
  none of this happened.  `TrackedCardsSettle` says what is left.

Read on the way, without a run of their own:

* `settle_job(..)?` in `run_once` (`worker.rs:248`) drops the remaining results when
  one statement fails, and `recover_stale_locks` runs only at start, so those rows
  stay `running` for the life of the process, against the comment at
  `worker.rs:243-246`: that every lease ends is false with one failing statement.  A
  crash and a restart within the five-minute lease does the same.  `PoolDrains`
  therefore asks for the running rows only where no fault happened.
* The retry is one UPDATE over all failed rows (`store.rs:444`); one duplicate key
  makes it fail for all of them (`RetryFits`).
* An append replayed after a crash, when its leaf is already sealed, is sealed a
  second time, against `handlers/mod.rs:490-492`.
* An error of `flush_source_tree` leaves the scope in `ACTIVE` (`admin.rs:295`), and
  later calls answer `already running`.
* `retry_all_failed` keeps the failure classification on the rows it revives;
  `reset_tree` keeps the chunks' backlinks, which the rebuilt tree then cannot set;
  `should_seal` has no sibling-count gate for L0 though its comment describes one;
  the schema comment says a buffer row is deleted when it seals, and the code
  writes an empty one.
* `decide` sweeps the expired rows and then updates its own by `decided_at IS NULL`
  (`approval/store.rs:285`, 289-296, no transaction): a request that expires between
  the two is approved after its time, against `store.rs:277-278`.
* A yes on a chat thread whose turn was aborted goes to the dead request: nothing
  runs, but the reply is used up.  `clear_thread` removes whatever entry its thread
  has: when two calls of one turn park (subagents in parallel), the first to end
  takes the route of the other, and only the other's timer or an RPC ends it.
* `dispatch_card` takes every error of the parking claim for "not `todo`": after a
  failed save, or when another writer puts the card back to `todo` in between, the
  main claim accepts the card and it runs unapproved.  `GatedRunsApproved` holds
  when neither happens.
* When `complete_run` cannot save (`executor.rs:321`), or the process ends just before,
  the record stays active, goes stale, and the poller sends the done card back to
  `todo`.
* `decide_plan` tests the status in one read and edits in another: a card that moved on
  in between is set back to `ready` or `rejected`.
* A run past its TTL is reclaimed but not aborted; it goes on beside its successor
  and its late write-back sets the card `done`.
* `reclaim_stale` blocks a card at the reclaim that reaches `max_reclaim_count`, its
  comments say "exceeds".

## Proofs

`JobQueueProofs` proves for any rows, workers, kinds, keys and numbers that meet
the ASSUMEs of `JobQueue`:

| Theorem | Property |
|---|---|
| `TypeCorrect` | `TypeOK` |
| `Exclusive` | `OneExecutor` |
| `FreshTokens` | `TokensDistinct` |
| `GateSound` | `GateFindsActive` |
| `Terminal` | `TerminalIsFinal` |
| `Dedupe` | `ActiveKeysDistinct` |
| `LeaseKept` | `LeaseExclusive` |
| `Refinement` | `KeepsPromise`, the step simulation of WorkQueue |
| `LlmSlot` | `OneLocalLlm` |
| `Budget` | `AttemptsBounded` |
| `NoOrphans` | `OrphansNeedAFault` |

The argument.  None of the lease properties is inductive: the settlement gate
compares `attempts` and `started_at_ms` and nothing else, deferrals lower
`attempts` again, retries reset them.  The invariant behind them (theorem
`LeaseInvariant`) says how a row and every claim alive on it are ordered: a row is
at or past each of its claims in the order of (startedAt, attempts), a claim
whose token is the row's finds the row running or just released, two claims of one
row differ in their token, and while the process is up every claim is the
current one of its row.  Each action either leaves a row's token alone, advances
it, or ends the claims it would let repeat.  `TokensDistinct`, `GateFindsActive` and
`OneExecutor` are its consequences; `LeaseExclusive` and `TerminalIsFinal` follow
step by step from it.  `ActiveKeysDistinct` needs only the types and the
index checks of `Enqueue` and `Retry`.  `Refinement` uses the dedupe and lease
invariants: a settlement meets an active row, so it maps to Complete, GiveUp or a
stutter.

Three more need invariants of their own.  `OneLocalLlm` speaks of workers that run a
job; `PermitInv` follows the permit from the wait for it to the settlement.
`AttemptsBounded` is not inductive because a lease adds one whatever the count is:
`BudgetInv` says that a row that waits is strictly below the bound, and so is a
running row of a dead process, whose recovery makes it wait again; a settlement
that defers or retries keeps that through the token gate.  `OrphansNeedAFault`
looks at moments when nobody works; `HeldInv` says at every moment that, before
the first fault, a running row is held by a worker whose claim is its current one.

`SealPipelineProofs` proves for any leaves, workers, token weights and bounds that
meet the ASSUMEs of `SealPipeline`:

| Theorem | Property | Inductive with |
|---|---|---|
| `TypeCorrect` | `TypeOK` | a task that seals has a seal job, a cascade that seals is below the top (`SealsBelowTop`) |
| `HighestRoot` | `RootIsHighest` | a tree without summaries has level 0 (`RootInv`) |
| `FanIn` | `UpperFanIn` | only L0's seal row and a cascade's first iteration carry the force, and every snapshot in flight above L0 has its siblings (`FanInv`) |
| `Backlinks` | `BacklinksAgree` | every summary id has been minted (`LinksInv`) |

The argument.  Three steps write the tree: the commit of a seal job, the commit of
a cascade and the reset (lemma `TreeSteps`); both commits are `CommitSeal` applied
to a snapshot taken earlier.  A commit therefore meets a buffer that others have
pushed to or cleared, and what it writes must follow from the snapshot alone:
that is why `FanInv` speaks of the snapshots and not of the buffers, and why the
backlinks, which test IS NULL at the commit, agree even when one snapshot is
committed twice.  `BacklinksAgree` speaks of the time before the first reset because
`reset_tree` keeps the chunks' backlinks to summaries it deletes.

`SealBufferProofs` proves `CounterTrue`, that is `BufferConsistent`, without any
condition.  The counter is compared with `MapThenSumSet`, a recursive function that
takes the elements of a set in an order of its own, while the code adds and clears
in the order of the appends.  The lemmas show that adding an element adds its
weight, by a smallest counterexample among the subsets of a finite set, which needs
the well-founded order of the library and no induction theorem.

`SealOrderProofs` proves what holds of the order of the jobs, each theorem for any
number of workers and under the conditions in its ASSUME:

| Theorem | Property | Conditions | Inductive with |
|---|---|---|---|
| `RipeNoticed` | `RipeIsNoticed` | none | the types; a seal is enqueued in the transaction that fills the parent, or by the append |
| `AdmittedAppended` | `AdmittedIsQueued` | `Once`: nothing repeats an extraction that has committed | each leaf's two jobs, active and failed, at each status of its chunk (`OnceInv`) |
| `Refinement` | `FoldsOnce` | `Once`, no `flush_source_tree` | `OnceInv`; a snapshot that is being sealed is still part of the buffer (`FoldInv`) |

`Once` is: no reset, no interruption, no error after a transaction of an extract, and
not both the retry RPC and the re-ingest of a chunk still pending.  It cannot be
dropped: each of the four extracts a chunk a second time, and seal_folded_twice shows
what follows.  The refinement holds although a leaf may join a buffer between the
read and the commit of its seal: SummaryTree says that such a leaf may be lost, and
that it is in no other batch and in no summary.  One level has one seal row, a
running row has one worker, and so two batches share no node.

`ApprovalGateProofs` proves for any calls, tools, threads and bounds:

| Theorem | Property |
|---|---|
| `TypeCorrect` | `TypeOK` |
| `Agreement` | `OutcomeMatchesRow` |
| `Stamps` | `ExecutedWasApproved` |
| `RouteSound` | `RouteIsWaiting` |
| `Refinement` | `KeepsConsent`, the step simulation of Consent |
| `Delivery` | `ApprovalReachesCall` |

The argument.  A decision travels from the row to a decider's hands, to a channel
and to the caller, and the timer may cut in at any point.  `GateInvariant` says that
wherever a decision is in flight the row shows the same one, and that a decided
row is never decided again because `decide` updates only rows without
`decided_at`.  The re-read after a lost race (`Reread`) then finds the decision that
was sent, and the refinement maps the UPDATE to the grant.  `Delivery` rests on
`DeliveryInv`: a call has its waiter before its row exists, and whoever takes the
waiter out sends on it, so a parked call whose row says approved has a decider on
its way or the grant in its channel; the exception is the decide whose SELECT
failed after its UPDATE, counted in `errors`.

`TaskDispatchProofs` proves for any cards, runs, actors, bounds, faults and any
number of overlapping sections:

| Theorem | Property |
|---|---|
| `TypeCorrect` | `TypeOK` |
| `OneAtATime` | `OneInProgress` |
| `WrittenBackOnce` | `OneWriteBack` |
| `ClosedForGood` | `OutcomeFinal` |

The argument.  The cap survives lost updates because every writer checks the copy
it writes: the invariant (`DispatchInvariant`) says that the file and every copy in
an actor's hands are capped (`GoodOp`), wherever they come from.  A run is handed
on: unused, then held by one dispatcher, then by its task, and the registry entry
decides between task and cancel (`Owned`).  A run in the registry is therefore held
by no dispatcher, has not begun to report, and is not headless, so a cancel that
takes the entry finds a task that will look for it in vain.  The records need only
that an unused run has none and that `complete_run` tests `is_active`.

`TaskTurnProofs` and `TaskLifeProofs` prove what holds of `ApartSpec`, that is while no
two board operations overlap, for any cards, runs, dispatchers, users and any number
of threads:

| Theorem | Property | Conditions |
|---|---|---|
| `GatedByApproval` | `GatedRunsApproved` | `Orderly`: no failing save, no agent or user that sets a card in progress by hand |
| `Refinement` | `KeepsLifecycle`, the step simulation of TaskLifecycle | `Steady`: no failing heartbeat, agents that report `done` or `blocked`, no card moved by hand, no run past its TTL |
| `ReclaimBound` | `ReclaimsBounded` | `Steady` and `max_reclaim_count` at least 1 |

The argument.  What an operation has read of its card is still on the board when it
writes, because nobody else is in a board operation (`EditsApart`); everything off
the board, the records, the registry, heartbeats, spawns and aborts, overlaps freely.
`TurnInv` says that of the statuses `GatedRunsApproved` is
about: the copy that starts a gated card was taken from a board on which it was
ready, and one that found it in `todo` parks it.  `LifeInv` says it of every
operation (`UpToDate`), and beside it who works for a card: at any time at most one
run serves a card, by its record, its task, its canceller or the dispatcher that
will spawn it (`Matched`), a served card stands in a column that no dispatch starts
from, a card that was just claimed or is about to be sent back is served by nobody
(`Served`), and a record is stale only when nobody is left who could work on
the run (`Dead` in `Tracked`).  So a claim meets a card without a worker, a report comes from
the card's only run, and a reclaim returns a card that nobody works on, which are
the guards of TaskLifecycle.  The bound on reclaims is not inductive by itself: the
count reaches the bound before the card is blocked, and `Bounded` says that such a
card stays in the columns no dispatch starts from, and that the poller that sends it
back is about to block it.

The conditions are not for the proof's sake.  Overlapping operations lose a claim
(dispatch_claim_lost); a failed save of a parking starts a gated card unapproved; a
failing heartbeat or a TTL that ends sends back the card of a run that is alive.
With `max_reclaim_count` 0 one reclaim still happens, because
the count is compared after the record is closed.  `GatedByApproval` allows runs past
their TTL and heartbeats and records that fail; `Refinement` and `ReclaimBound` allow
saves and records that fail, and all three allow restarts anywhere, also inside a
reclaim.

Only model-checked: the liveness properties (`PoolDrains`, `LeavesAreSealed`, `ParkedCallsEnd`, `ApprovalIsHonoured`,
`TrackedCardsSettle`), because no prover here has rules
for fairness and ENABLED; and the lifecycle of cards that users move, which the
refinement's conditions exclude.  Every invariant, action property and refinement
that a passing run checks is also a theorem, for every value of the constants that
meets the conditions named.

## Not modelled

The scheduler gate but for the permit between queue workers, the re-embed chain,
`seal_document`, cron and the Bun programs are within reach and are the plan
below.  Ingestion, retrieval, credentials, channels, integrations, inference, the
desktop and mobile apps and the generated and vendored trees are text processing,
network and interface code whose behaviour is that of other programs; most of the
repository's lines are theirs.

## Plan

1. Done: JobQueue, SealPipeline, ApprovalGate and TaskDispatch, each with its
   abstract specification and its proofs.
2. Done: the proofs, for any workers and threads, that SealPipeline implements
   SummaryTree and TaskDispatch implements TaskLifecycle.  Left: TaskLifecycle with
   cards that users move, and SummaryTree with the RPC beside the workers.
3. ChatTurns: the turns of a chat thread, their abort and the replies to the
   approval gate, composed with ApprovalGate.
4. SchedulerGate: the permit with its other holders (`task_sources`, triage,
   `public_infer`), nested waits, pause and throttle.
5. ReembedBackfill: the chain, its coverage check and the lost wake-up; then
   `seal_document` in SealPipeline.
6. Cron, and the Bun workflow queue.
