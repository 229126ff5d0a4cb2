---------------------------- MODULE SealPipeline ----------------------------
(***************************************************************************)
(* How a chunk becomes part of a source's summary tree                     *)
(* (openhuman/memory_queue/handlers/mod.rs and                             *)
(* openhuman/memory_tree/tree/bucket_seal.rs): ingest enqueues an extract  *)
(* job, extract admits the chunk and enqueues an append, append pushes the *)
(* leaf into the tree's L0 buffer, a seal turns a buffer into a summary    *)
(* that is pushed one level up, and a flush seals what stays too long.     *)
(*                                                                         *)
(* A handler reads, waits for a model, and writes in one transaction: the  *)
(* reads and the write are separate steps and anything may run between     *)
(* them.  Beside the workers the RPCs flush_source_tree and reset_tree     *)
(* work on the same tables.  The queue is the one of JobQueue, seen        *)
(* through its dedupe keys: at most one row of a key is ready or running,  *)
(* and any number of older rows that failed stay in the table beside it.   *)
(* One source, hence one tree.                                             *)
(***************************************************************************)
EXTENDS Integers, FiniteSets, FiniteSetsExt

CONSTANTS
    Leaves,           \* chunk ids of the source
    Workers,          \* worker tasks of the pool
    TokensOf,         \* TokensOf[l]: token_count of chunk l
    TokenBudget,      \* INPUT_TOKEN_BUDGET
    Fanout,           \* SUMMARY_FANOUT
    TopLevel,         \* bound: the highest buffer
    MaxSummaries,     \* bound: how many summaries are minted
    FailingSteps,     \* the steps of a handler that may return an error
    MaxFaults,        \* bound: how many do
    MaxInterruptions, \* bound: how often the process stops or dies
    MaxResets,        \* bound: calls of reset_tree
    UserFlushes,      \* whether flush_source_tree is called
    UserRetries,      \* whether the failed rows are retried
    Reingests         \* whether a chunk still pending extraction is ingested again

Ids == 1..MaxSummaries
Nodes == Leaves \cup Ids
Levels == 0..TopLevel
NoId == 0

ASSUME LeavesAssumption == Leaves \cap Nat = {} /\ IsFiniteSet(Leaves)
ASSUME TokensAssumption == TokensOf \in [Leaves -> Nat]
ASSUME BoundsAssumption ==
    /\ TokenBudget \in Nat \ {0} /\ Fanout \in Nat \ {0, 1}
    /\ TopLevel \in Nat \ {0} /\ MaxSummaries \in Nat
    /\ FailingSteps \subseteq {"claimed", "committed", "sealing", "flushing"}
    /\ MaxFaults \in Nat /\ MaxInterruptions \in Nat /\ MaxResets \in Nat
    /\ UserFlushes \in BOOLEAN /\ UserRetries \in BOOLEAN /\ Reingests \in BOOLEAN

VARIABLES
    chunk,      \* lifecycle_status of each chunk
    parent,     \* parent_summary_id of a chunk, parent_id of a summary
    buffer,     \* mem_tree_buffers, by level
    summaries,  \* mem_tree_summaries
    minted,     \* summary ids handed out
    root,       \* root_id and max_level of the tree row
    job,        \* the status of the active row of each dedupe key, if it has one
    forced,     \* the levels whose active seal row carries force_now_ms
    failed,     \* how many failed rows of each key the table holds
    failedForced, \* the levels whose failed seal row carries force_now_ms
    task,       \* what each worker is doing
    rpc,        \* the flush_source_tree call in progress
    active,     \* whether ACTIVE holds the scope
    resetting,  \* whether reset_tree is between its transactions
    resets, interruptions, faults

tables == <<chunk, parent, buffer, summaries, minted, root>>
givenUp == <<failed, failedForced>>
queue == <<job, forced, givenUp>>
vars == <<tables, queue, task, rpc, active, resetting, resets, interruptions, faults>>

JobKeys ==
    [kind: {"extract_chunk", "append_buffer"}, on: Leaves]
        \cup [kind: {"seal"}, on: 0..(TopLevel - 1)]
        \cup {[kind |-> "flush_stale", on |-> 0]}

Extract(l) == [kind |-> "extract_chunk", on |-> l]
AppendOf(l) == [kind |-> "append_buffer", on |-> l]
Seal(n) == [kind |-> "seal", on |-> n]
Flush == [kind |-> "flush_stale", on |-> 0]
NoJob == [kind |-> "none", on |-> 0]

Buffer == [items: SUBSET Nodes, tokens: Nat, oldest: BOOLEAN]
EmptyBuffer == [items |-> {}, tokens |-> 0, oldest |-> FALSE]

Summary == [id: Ids, level: Nat, children: SUBSET Nodes]

Idle == [step |-> "idle", job |-> NoJob, row |-> 0, buf |-> EmptyBuffer, tree |-> 0]
NoCall == [step |-> "idle", level |-> 0, force |-> FALSE, buf |-> EmptyBuffer, tree |-> 0]

Task == [step: {"idle", "claimed", "committed", "sealing", "flushing", "settling", "failing"},
         job: JobKeys \cup {NoJob}, row: Nat, buf: Buffer, tree: Nat]
Call == [step: {"idle", "reading", "sealing"}, level: Levels, force: BOOLEAN,
         buf: Buffer, tree: Nat]

TablesTyped ==
    /\ chunk \in [Leaves -> {"absent", "pending_extraction", "admitted", "buffered", "dropped"}]
    /\ parent \in [Nodes -> Ids \cup {NoId}]
    /\ buffer \in [Levels -> Buffer]
    /\ summaries \subseteq Summary
    /\ minted \in Nat
    /\ root \in [id: Ids \cup {NoId}, level: Nat]

QueueTyped ==
    /\ job \in [JobKeys -> {"none", "ready", "running"}]
    /\ failed \in [JobKeys -> Nat]
    /\ forced \subseteq Levels /\ failedForced \subseteq Levels

TypeOK ==
    /\ TablesTyped /\ QueueTyped
    /\ task \in [Workers -> Task]
    /\ rpc \in Call
    /\ active \in BOOLEAN /\ resetting \in BOOLEAN
    /\ resets \in Nat /\ interruptions \in Nat /\ faults \in Nat

Init ==
    /\ chunk = [l \in Leaves |-> "absent"]
    /\ parent = [x \in Nodes |-> NoId]
    /\ buffer = [n \in Levels |-> EmptyBuffer]
    /\ summaries = {}
    /\ minted = 0
    /\ root = [id |-> NoId, level |-> 0]
    /\ job = [k \in JobKeys |-> "none"]
    /\ failed = [k \in JobKeys |-> 0]
    /\ forced = {} /\ failedForced = {}
    /\ task = [w \in Workers |-> Idle]
    /\ rpc = NoCall
    /\ active = FALSE /\ resetting = FALSE
    /\ resets = 0 /\ interruptions = 0 /\ faults = 0

-----------------------------------------------------------------------------
(* Rows and buffers. *)

(* Whether enqueue_tx inserts a row: no active row has the key. *)
Free(k) == job[k] = "none"

(* enqueue_tx for each key of K: the failed rows of the key stay as they are. *)
Enqueued(K) == [k \in JobKeys |-> IF k \in K /\ Free(k) THEN "ready" ELSE job[k]]

(* A row of the key is in the table, active or failed. *)
HasRow(k) == job[k] # "none" \/ failed[k] > 0

(* Enqueueing the seals of the levels N, forced or not. *)
EnqueueSeals(N, force) ==
    /\ job' = Enqueued({Seal(n) : n \in N})
    /\ forced' = IF force THEN forced \cup {n \in N : Free(Seal(n))}
                          ELSE forced \ {n \in N : Free(Seal(n))}
    /\ UNCHANGED givenUp

(* The levels the row of a key seals. *)
SealedBy(k) == IF k.kind = "seal" THEN {k.on} ELSE {}

(* mark_failed without another attempt: the row leaves the UNIQUE index. *)
GiveUp(k) ==
    /\ job' = [job EXCEPT ![k] = "none"]
    /\ failed' = [failed EXCEPT ![k] = @ + 1]
    /\ failedForced' = (failedForced \ SealedBy(k)) \cup (forced \cap SealedBy(k))

(* Mutant: the count fallback of the comment applies to L0 too. *)
ShouldSealAnyLevel(n, buf) ==
    buf.items # {} /\ (buf.tokens >= TokenBudget \/ Cardinality(buf.items) >= Fanout)

(* should_seal: tokens gate L0, siblings gate the levels above. *)
ShouldSeal(n, buf) ==
    /\ buf.items # {}
    /\ IF n = 0 THEN buf.tokens >= TokenBudget ELSE Cardinality(buf.items) >= Fanout

(* Mutant: the push does not look for the item. *)
PushedAgain(buf, x, tokens) ==
    [items |-> buf.items \cup {x}, tokens |-> buf.tokens + tokens, oldest |-> TRUE]

(* Mutant: the push leaves oldest_at as it was. *)
PushedKeepingAge(buf, x, tokens) ==
    [items |-> buf.items \cup {x}, oldest |-> buf.oldest,
     tokens |-> IF x \in buf.items THEN buf.tokens ELSE buf.tokens + tokens]

(* get_buffer_conn, the push and upsert_buffer_tx: an item is pushed once. *)
Pushed(buf, x, tokens) ==
    IF x \in buf.items THEN buf
    ELSE [items |-> buf.items \cup {x}, tokens |-> buf.tokens + tokens, oldest |-> TRUE]

(* A summary's own token count gates nothing: one token stands for it. *)
Weight(x) == IF x \in Leaves THEN TokensOf[x] ELSE 1

(* Mutant: clearing resets the sum and the age and keeps the list. *)
ClearedKeepingItems(buf) == [EmptyBuffer EXCEPT !.items = buf.items]

(* Mutant: clearing subtracts the sum from a row that is reset already. *)
ClearedBelowZero(buf) == [EmptyBuffer EXCEPT !.tokens = @ - buf.tokens]

(* clear_buffer_tx: whatever the buffer holds by now. *)
Cleared(buf) == EmptyBuffer

(* Mutant: the backlink is not guarded by IS NULL. *)
BacklinkedAnew(S, id) == [x \in Nodes |-> IF x \in S THEN id ELSE parent[x]]

(* The backlink of the children, WHERE parent IS NULL. *)
Backlinked(S, id) == [x \in Nodes |-> IF x \in S /\ parent[x] = NoId THEN id ELSE parent[x]]

(* Mutant: a summary of the top level becomes the root too. *)
RootAlways(id, level) == [id |-> id, level |-> level]

(* update_tree_after_seal_tx is called when the tree grows a level. *)
RootAfter(id, level) == IF level > root.level THEN [id |-> id, level |-> level] ELSE root

(* The write transaction of seal_one_level, for the snapshot S of level n. *)
CommitSeal(n, S, followUps) ==
    LET id == minted + 1
        up == Pushed(buffer[n + 1], id, 1)
    IN /\ id \in Ids
       /\ minted' = id
       /\ summaries' = summaries \cup {[id |-> id, level |-> n + 1, children |-> S]}
       /\ parent' = Backlinked(S, id)
       /\ buffer' = [buffer EXCEPT ![n] = Cleared(@), ![n + 1] = up]
       /\ root' = RootAfter(id, n + 1)
       /\ IF followUps /\ ShouldSeal(n + 1, up) /\ n + 1 < TopLevel
            THEN EnqueueSeals({n + 1}, FALSE)
            ELSE UNCHANGED queue
       /\ UNCHANGED chunk

-----------------------------------------------------------------------------
(* Producers. *)

(* The persist transaction of the ingest pipeline. *)
Ingest(l) ==
    /\ chunk[l] = "absent" \/ (Reingests /\ chunk[l] = "pending_extraction")
    /\ chunk' = [chunk EXCEPT ![l] = "pending_extraction"]
    /\ job' = Enqueued({Extract(l)})
    /\ UNCHANGED <<parent, buffer, summaries, minted, root, forced, givenUp, task, rpc, active,
                   resetting, resets, interruptions, faults>>

(* The scheduler's enqueue_flush_stale, and flush_now. *)
EnqueueFlush ==
    /\ Free(Flush)
    /\ job' = Enqueued({Flush})
    /\ UNCHANGED <<tables, forced, givenUp, task, rpc, active, resetting, resets,
                   interruptions, faults>>

(* The keys of the failed rows, and the levels they would seal. *)
FailedKeys == {k \in JobKeys : failed[k] > 0}
FailedSeals == UNION {SealedBy(k) : k \in FailedKeys}

(* requeue_failed and retry_all_failed: one UPDATE of all failed rows, older ones
   too.  It violates the UNIQUE index, and changes nothing, when a key would
   have two active rows. *)
RetryFailed ==
    /\ UserRetries /\ FailedKeys # {}
    /\ \A k \in FailedKeys : failed[k] = 1 /\ Free(k)
    /\ job' = [k \in JobKeys |-> IF k \in FailedKeys THEN "ready" ELSE job[k]]
    /\ forced' = (forced \ FailedSeals) \cup (failedForced \cap FailedSeals)
    /\ failed' = [k \in JobKeys |-> 0]
    /\ failedForced' = {}
    /\ UNCHANGED <<tables, task, rpc, active, resetting, resets, interruptions, faults>>

-----------------------------------------------------------------------------
(* The workers.  reset_tree deletes the tree row and every job row: a task     *)
(* remembers how many resets its job row and its tree have seen.            *)

Steps(w, here, there) ==
    task[w].step = here /\ task' = [task EXCEPT ![w].step = there]

Of(w, kind) == task[w].job.kind = kind

(* claim_next, for any due row. *)
Claim(w, k) ==
    /\ task[w].step = "idle"
    /\ job[k] = "ready"
    /\ job' = [job EXCEPT ![k] = "running"]
    /\ task' = [task EXCEPT ![w] = [step |-> "claimed", job |-> k, row |-> resets,
                                    buf |-> EmptyBuffer, tree |-> resets]]
    /\ UNCHANGED <<tables, forced, givenUp, rpc, active, resetting, resets, interruptions, faults>>

(* Mutant: the append is not part of the admission's transaction. *)
NothingFollows(l) == {}

(* The follow-up of an admission. *)
Follows(l) == {AppendOf(l)}

(* finalize_extract's transaction: the admission and the append go together. *)
ExtractCommits(w) ==
    LET l == task[w].job.on
    IN /\ Of(w, "extract_chunk")
       /\ Steps(w, "claimed", "committed")
       /\ \/ /\ chunk' = [chunk EXCEPT ![l] = "admitted"]
             /\ job' = Enqueued(Follows(l))
          \/ chunk' = [chunk EXCEPT ![l] = "dropped"] /\ UNCHANGED job
       /\ UNCHANGED <<parent, buffer, summaries, minted, root, forced, givenUp, rpc, active,
                      resetting, resets, interruptions, faults>>

(* The tag rewrite after the transaction, which reads the database again. *)
ExtractReturns(w) ==
    /\ Steps(w, "committed", "settling")
    /\ UNCHANGED <<tables, queue, rpc, active, resetting, resets, interruptions, faults>>

(* handle_append_buffer's transaction: push, seal enqueue, lifecycle. *)
AppendCommits(w) ==
    LET l   == task[w].job.on
        buf == Pushed(buffer[0], l, Weight(l))
    IN /\ Of(w, "append_buffer")
       /\ Steps(w, "claimed", "settling")
       /\ buffer' = [buffer EXCEPT ![0] = buf]
       /\ IF ShouldSeal(0, buf) THEN EnqueueSeals({0}, FALSE) ELSE UNCHANGED queue
       /\ chunk' = [chunk EXCEPT ![l] = "buffered"]
       /\ UNCHANGED <<parent, summaries, minted, root, rpc, active, resetting, resets,
                      interruptions, faults>>

(* Whether handle_seal goes on with the buffer it finds. *)
Seals(n) == n \in forced \/ ShouldSeal(n, buffer[n])

(* handle_seal up to the model: an empty or unripe buffer is left alone. *)
SealReads(w) ==
    LET n == task[w].job.on
    IN /\ Of(w, "seal")
       /\ task[w].step = "claimed"
       /\ IF task[w].tree = resets /\ buffer[n].items # {} /\ Seals(n)
            THEN task' = [task EXCEPT ![w].step = "sealing", ![w].buf = buffer[n]]
            ELSE task' = [task EXCEPT ![w].step = "settling"]
       /\ UNCHANGED <<tables, queue, rpc, active, resetting, resets, interruptions, faults>>

(* Mutant: the seal commits without its follow-up. *)
NoFollowUps == FALSE

(* handle_seal passes enqueue_follow_ups = true. *)
FollowUps == TRUE

(* The write transaction of the seal; it fails if the tree is gone. *)
SealCommits(w) ==
    /\ task[w].step = "sealing"
    /\ task[w].tree = resets
    /\ task' = [task EXCEPT ![w].step = "settling", ![w].buf = EmptyBuffer]
    /\ CommitSeal(task[w].job.on, task[w].buf.items, FollowUps)
    /\ UNCHANGED <<rpc, active, resetting, resets, interruptions, faults>>

(* list_stale_buffers: L0 only, by oldest_at. *)
Stale == {n \in {0} : buffer[n].oldest}

(* handle_flush_stale lists the buffers old enough... *)
FlushFindsStale(w) ==
    /\ Of(w, "flush_stale")
    /\ Stale # {}
    /\ task[w].step = "claimed"
    /\ task' = [task EXCEPT ![w].step = "flushing", ![w].tree = resets]
    /\ UNCHANGED <<tables, queue, rpc, active, resetting, resets, interruptions, faults>>

FlushFindsNothing(w) ==
    /\ Of(w, "flush_stale")
    /\ Steps(w, "claimed", "settling")
    /\ UNCHANGED <<tables, queue, rpc, active, resetting, resets, interruptions, faults>>

(* ... and enqueues a forced seal for each; the rows are looked up again later. *)
FlushEnqueues(w) ==
    /\ Steps(w, "flushing", "settling")
    /\ IF task[w].tree = resets THEN EnqueueSeals({0}, TRUE) ELSE UNCHANGED queue
    /\ UNCHANGED <<tables, rpc, active, resetting, resets, interruptions, faults>>

(* An error before or after the transaction, or because the tree is gone. *)
HandlerFails(w) ==
    /\ task[w].step \in {"claimed", "committed", "sealing", "flushing"}
    /\ task' = [task EXCEPT ![w].step = "failing", ![w].buf = EmptyBuffer]
    /\ \/ /\ task[w].step \in FailingSteps
          /\ faults < MaxFaults /\ faults' = faults + 1
       \/ /\ task[w].step = "sealing" /\ task[w].tree # resets
          /\ UNCHANGED faults
    /\ UNCHANGED <<tables, queue, rpc, active, resetting, resets, interruptions>>

(* settle_job: done frees the key, a failure retries or gives up.  The rows a  *)
(* reset deleted stay deleted.                                              *)
Settle(w) ==
    LET k == task[w].job
    IN /\ task' = [task EXCEPT ![w] = Idle]
       /\ \/ /\ task[w].step = "settling" /\ task[w].row = resets
             /\ job' = [job EXCEPT ![k] = "none"] /\ UNCHANGED givenUp
          \/ /\ task[w].step = "failing" /\ task[w].row = resets
             /\ \/ job' = [job EXCEPT ![k] = "ready"] /\ UNCHANGED givenUp
                \/ GiveUp(k)
          \/ /\ task[w].step \in {"settling", "failing"} /\ task[w].row # resets
             /\ UNCHANGED <<job, givenUp>>
       /\ UNCHANGED <<tables, forced, rpc, active, resetting, resets, interruptions, faults>>

Handle(w) ==
    \/ ExtractCommits(w) \/ ExtractReturns(w) \/ AppendCommits(w)
    \/ SealReads(w) \/ SealCommits(w)
    \/ FlushFindsStale(w) \/ FlushFindsNothing(w) \/ FlushEnqueues(w)
    \/ Settle(w)

-----------------------------------------------------------------------------
(* flush_source_tree: one call per scope at a time drives the cascade itself. *)

FlushCalled ==
    /\ UserFlushes /\ ~active
    /\ active' = TRUE
    /\ rpc' = [step |-> "reading", level |-> 0, force |-> TRUE, buf |-> EmptyBuffer,
               tree |-> resets]
    /\ UNCHANGED <<tables, queue, task, resetting, resets, interruptions, faults>>

(* Mutant: the force stays on for the levels above. *)
ForceAtEveryLevel == rpc.force

(* cascade_all_from forces its first iteration only. *)
ForceNext == FALSE

(* One iteration of cascade_all_from reads its buffer, or the call returns. *)
CascadeReads ==
    LET n   == rpc.level
        buf == IF rpc.tree = resets THEN buffer[n] ELSE EmptyBuffer
    IN /\ rpc.step = "reading"
       /\ IF buf.items # {} /\ (rpc.force \/ ShouldSeal(n, buf)) /\ n < TopLevel
            THEN rpc' = [rpc EXCEPT !.step = "sealing", !.buf = buf] /\ UNCHANGED active
            ELSE rpc' = NoCall /\ active' = FALSE
       /\ UNCHANGED <<tables, queue, task, resetting, resets, interruptions, faults>>

(* seal_one_level without follow-ups: the next iteration takes their place. *)
CascadeCommits ==
    /\ rpc.step = "sealing" /\ rpc.tree = resets
    /\ CommitSeal(rpc.level, rpc.buf.items, FALSE)
    /\ rpc' = [rpc EXCEPT !.step = "reading", !.level = @ + 1, !.force = ForceNext,
                          !.buf = EmptyBuffer]
    /\ UNCHANGED <<task, active, resetting, resets, interruptions, faults>>

(* The `?` on the cascade's error returns before the scope leaves ACTIVE. *)
CascadeFails ==
    /\ rpc.step = "sealing"
    /\ \/ faults < MaxFaults /\ faults' = faults + 1
       \/ rpc.tree # resets /\ UNCHANGED faults
    /\ rpc' = NoCall
    /\ UNCHANGED <<tables, queue, task, active, resetting, resets, interruptions>>

-----------------------------------------------------------------------------
(* reset_tree and the process. *)

RootAfterReset == [id |-> NoId, level |-> 0]

(* The first transaction of reset_tree deletes the trees, buffers and jobs. *)
ResetDeletes ==
    /\ ~resetting /\ resets < MaxResets
    /\ resetting' = TRUE /\ resets' = resets + 1
    /\ buffer' = [n \in Levels |-> EmptyBuffer]
    /\ summaries' = {}
    /\ parent' = [x \in Nodes |-> IF x \in Leaves THEN parent[x] ELSE NoId]
    /\ root' = RootAfterReset
    /\ job' = [k \in JobKeys |-> "none"]
    /\ failed' = [k \in JobKeys |-> 0]
    /\ forced' = {} /\ failedForced' = {}
    /\ UNCHANGED <<chunk, minted, task, rpc, active, interruptions, faults>>

(* The second sends every chunk through extraction again. *)
ResetRequeues ==
    LET S == {l \in Leaves : chunk[l] # "absent"}
    IN /\ resetting /\ resetting' = FALSE
       /\ chunk' = [l \in Leaves |-> IF l \in S THEN "pending_extraction" ELSE chunk[l]]
       /\ job' = Enqueued({Extract(l) : l \in S})
       /\ UNCHANGED <<parent, buffer, summaries, minted, root, forced, givenUp, task, rpc,
                      active, resets, interruptions, faults>>

(* The process stops or dies and is started again: the tasks and the calls are *)
(* gone, and the release or the recovery makes the running rows ready.      *)
Interrupt ==
    /\ interruptions < MaxInterruptions
    /\ interruptions' = interruptions + 1
    /\ job' = [k \in JobKeys |-> IF job[k] = "running" THEN "ready" ELSE job[k]]
    /\ task' = [w \in Workers |-> Idle]
    /\ rpc' = NoCall /\ active' = FALSE /\ resetting' = FALSE
    /\ UNCHANGED <<tables, forced, givenUp, resets, faults>>

Next ==
    \/ \E l \in Leaves : Ingest(l)
    \/ EnqueueFlush \/ RetryFailed
    \/ \E w \in Workers : Handle(w) \/ HandlerFails(w) \/ \E k \in JobKeys : Claim(w, k)
    \/ FlushCalled \/ CascadeReads \/ CascadeCommits \/ CascadeFails
    \/ ResetDeletes \/ ResetRequeues \/ Interrupt

Spec == Init /\ [][Next]_vars

(* A worker that has a task goes on with it, the scheduler enqueues the flush   *)
(* again and again, no due row is passed over forever, and a buffer that is   *)
(* not sealed is found stale by some later flush.                           *)
Fairness ==
    /\ WF_vars(EnqueueFlush)
    /\ WF_vars(CascadeReads) /\ WF_vars(CascadeCommits)
    /\ \A w \in Workers :
          /\ WF_vars(Handle(w))
          /\ SF_vars(FlushFindsStale(w))
    /\ \A k \in JobKeys : SF_vars(\E w \in Workers : Claim(w, k))

FairSpec == Spec /\ Fairness

-----------------------------------------------------------------------------
(* Safety. *)

Frontier == UNION {buffer[n].items : n \in Levels}
FoldedInto == [x \in Nodes |-> {s.id : s \in {t \in summaries : x \in t.children}}]

(* Above L0 a summary always has its full fan-in.  Only L0 is ever forced; the
   flag must not travel up a cascade, from the flush job or through a retry. *)
UpperFanIn == \A s \in summaries : s.level >= 2 => Cardinality(s.children) >= Fanout

(* The gate's counter is the sum of what the buffer holds, and a buffer with
   leaves in it is one the flush can find, whoever pushed and cleared it and
   however often a push was retried. *)
BufferConsistent ==
    \A n \in Levels :
        /\ buffer[n].tokens = MapThenSumSet(Weight, buffer[n].items)
        /\ buffer[n].oldest <=> buffer[n].items # {}

(* The tree row points at a summary of the highest level there is, also when
   the cascade of an RPC and the seal jobs climb the tree together. *)
RootIsHighest ==
    IF summaries = {} THEN root.id = NoId
    ELSE /\ \E s \in summaries : s.id = root.id /\ s.level = root.level
         /\ \A s \in summaries : s.level <= root.level

(* Backlinks and child lists agree as long as no tree was reset, which leaves the
   chunks' backlinks behind: a child has a parent, the parent lists it, and of
   several summaries of a child the first is the parent. *)
BacklinksAgree ==
    resets = 0 => \A x \in Nodes :
        IF FoldedInto[x] = {} THEN parent[x] = NoId
        ELSE parent[x] \in FoldedInto[x] /\ \A id \in FoldedInto[x] : parent[x] <= id

(* An admitted chunk has its append job, or the job failed and can be retried:
   the transaction leaves no window between the two, and no other append of
   the chunk, running or being settled, suppresses the enqueue. *)
AdmittedIsQueued ==
    \A l \in Leaves : chunk[l] = "admitted" => HasRow(AppendOf(l))

(* A seal of the level is due or running, or the cascade reads it next. *)
Noticed(n) == job[Seal(n)] # "none" \/ (rpc.step = "reading" /\ rpc.level = n)

(* Whatever changes a buffer and leaves it ripe sees to its seal in the same
   step: jobs by an enqueue, the cascade by going on with that level.  (What an
   append finds running it does not enqueue again, so that a ripe buffer can
   be without a seal later on, until the next push or the flush.) *)
RipeIsNoticed ==
    [][\A n \in 0..(TopLevel - 1) :
           buffer'[n] # buffer[n] /\ ShouldSeal(n, buffer'[n]) => Noticed(n)']_vars

(* The snapshots that are being summarised. *)
Batches == {task[w].buf.items : w \in {v \in Workers : task[v].step = "sealing"}}

(* The pipeline implements SummaryTree, with any number of workers. *)
Tree == INSTANCE SummaryTree
            WITH frontier <- Frontier, batches <- Batches, foldedInto <- FoldedInto

FoldsOnce == Tree!Spec

-----------------------------------------------------------------------------
(* Liveness. *)

(* Every leaf leaves the L0 buffer, if need be by a flush, whatever seals race
   with the append that pushed it. *)
LeavesAreSealed == \A l \in Leaves : l \in buffer[0].items ~> l \notin buffer[0].items

-----------------------------------------------------------------------------
(* What a comment of the code says and a run refutes. *)

(* trees/store.rs:928: the items of a cleared buffer are in a summary. *)
LeafKept ==
    \A l \in Leaves : chunk[l] = "buffered" => l \in buffer[0].items \/ FoldedInto[l] # {}

(* ingest_pipeline.rs:380-386: what has progressed through the pipeline is not sent
   through it again, into a second summary of the same tree. *)
FoldedOnce == \A l \in Leaves : Cardinality(FoldedInto[l]) <= 1
=============================================================================
