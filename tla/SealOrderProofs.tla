-------------------------- MODULE SealOrderProofs --------------------------
(***************************************************************************)
(* Proofs about the order in which SealPipeline's jobs run, on any number  *)
(* of workers: what is admitted is appended, what a step leaves ripe is    *)
(* noticed, and a node is folded once.                                     *)
(***************************************************************************)
EXTENDS SealPipelineProofs

-----------------------------------------------------------------------------
(* Steps and kinds. *)

Busy(w) == task[w].step # "idle"

(* A step belongs to the handler of one kind, and only the flush job looks its
   tree up again. *)
StepKinds ==
    \A w \in Workers :
        /\ Busy(w) => task[w].job \in JobKeys
        /\ task[w].step = "committed" => Of(w, "extract_chunk")
        /\ task[w].step = "flushing" => Of(w, "flush_stale")
        /\ Busy(w) /\ ~Of(w, "flush_stale") => task[w].tree = task[w].row

(* A running row has one worker. *)
Owned ==
    /\ \A w \in Workers :
          Busy(w) => job[task[w].job] = "running" /\ task[w].row = resets
    /\ \A v, w \in Workers : Busy(v) /\ Busy(w) /\ task[v].job = task[w].job => v = w

At(k, S) == \A w \in Workers : Busy(w) /\ task[w].job = k => task[w].step \in S

(* The two jobs of a leaf at each status of its chunk.  A failed row counts only
   where a retry may revive it: an older failed extraction is harmless as long
   as nobody does. *)
LeafAt(l) ==
    LET extract == Extract(l)
        append  == AppendOf(l)
    IN /\ chunk[l] = "absent" => job[extract] = "none" /\ failed[extract] = 0
       /\ chunk[l] \in {"absent", "pending_extraction"} =>
             /\ job[append] = "none" /\ failed[append] = 0
             /\ At(extract, {"claimed", "failing"})
             /\ UserRetries => job[extract] = "none" \/ failed[extract] = 0
       /\ chunk[l] \in {"admitted", "buffered", "dropped"} =>
             /\ job[extract] \in {"none", "running"} /\ At(extract, {"committed", "settling"})
             /\ UserRetries => failed[extract] = 0
       /\ chunk[l] = "admitted" =>
             /\ IF job[append] = "none" THEN failed[append] > 0 ELSE failed[append] = 0
             /\ At(append, {"claimed", "failing"})
       /\ chunk[l] = "buffered" =>
             /\ job[append] \in {"none", "running"} /\ failed[append] = 0
             /\ At(append, {"settling"})
       /\ chunk[l] = "dropped" => job[append] = "none" /\ failed[append] = 0

(* What repeats an extraction of a chunk that is past it: a restart or an error
   after its transaction, reset_tree, or the retry of an older failed row after
   a newer one, which the ingest of a chunk still pending inserts. *)
NoOlderRow == ~(UserRetries /\ Reingests)

Once ==
    /\ NoOlderRow
    /\ MaxResets = 0 /\ MaxInterruptions = 0
    /\ "committed" \notin FailingSteps

(* When nothing repeats a committed extraction, a leaf is extracted once and
   appended once, by any number of workers. *)
OnceInv ==
    /\ StepKinds /\ Owned
    /\ resets = 0 /\ interruptions = 0 /\ ~resetting
    /\ \A l \in Leaves : LeafAt(l)

(* What makes the fold of a snapshot the fold of the frontier. *)
FoldInv ==
    /\ rpc.step = "idle"
    /\ \A l \in Leaves : chunk[l] # "buffered" => l \notin Frontier /\ FoldedInto[l] = {}
    /\ \A x \in Frontier : FoldedInto[x] = {} /\ (x \in Ids => x <= minted)
    /\ \A s \in summaries : \A x \in s.children : x \in Ids => x <= minted
    /\ \A m, n \in Levels : m # n => buffer[m].items \cap buffer[n].items = {}
    /\ \A w \in Workers :
          task[w].step = "sealing" =>
              task[w].buf.items \subseteq buffer[task[w].job.on].items /\ task[w].buf.items # {}

-----------------------------------------------------------------------------
(* Operators. *)

LEMMA KeysDiffer ==
  ASSUME NEW l, NEW m, NEW n
  PROVE  /\ Extract(l) # AppendOf(m) /\ Extract(l) # Seal(n) /\ AppendOf(l) # Seal(n)
         /\ Extract(l) # Flush /\ AppendOf(l) # Flush /\ Seal(n) # Flush
         /\ Extract(l) = Extract(m) <=> l = m
         /\ AppendOf(l) = AppendOf(m) <=> l = m
         /\ Seal(l) = Seal(m) <=> l = m
         /\ Extract(l).kind = "extract_chunk" /\ AppendOf(l).kind = "append_buffer"
         /\ Seal(l).kind = "seal" /\ Flush.kind = "flush_stale"
         /\ Extract(l).on = l /\ AppendOf(l).on = l /\ Seal(l).on = l
  BY DEF Extract, AppendOf, Seal, Flush

(* The row of each kind. *)
LEMMA KeyOf ==
  ASSUME NEW k \in JobKeys
  PROVE  /\ k.kind = "extract_chunk" => k = Extract(k.on) /\ k.on \in Leaves
         /\ k.kind = "append_buffer" => k = AppendOf(k.on) /\ k.on \in Leaves
         /\ k.kind = "seal" => k = Seal(k.on) /\ k.on \in 0..(TopLevel - 1)
         /\ k.kind = "flush_stale" => k = Flush
         /\ k.kind \in {"extract_chunk", "append_buffer", "seal", "flush_stale"}
  BY DEF JobKeys, Extract, AppendOf, Seal, Flush

(* Enqueueing touches no row that is active, and leaves none of K without. *)
LEMMA EnqueuedRows ==
  ASSUME NEW K, NEW k \in JobKeys
  PROVE  /\ k \in K => Enqueued(K)[k] # "none"
         /\ job[k] # "none" => Enqueued(K)[k] # "none"
         /\ job[k] = "running" => Enqueued(K)[k] = "running"
         /\ k \notin K => Enqueued(K)[k] = job[k]
         /\ Enqueued(K)[k] \in {job[k], "ready"}
  BY DEF Enqueued, Free

-----------------------------------------------------------------------------
(* The worker's steps and the kinds of their jobs. *)

(* What a step of the handler leaves of the task: its job, its row and, unless
   the flush looks its tree up, its tree. *)
LEMMA TaskMoves ==
  ASSUME TypeInv, NEW w \in Workers
  PROVE  /\ \A here, there : Steps(w, here, there) =>
               /\ task[w].step = here /\ task'[w].step = there
               /\ task'[w].job = task[w].job /\ task'[w].row = task[w].row
               /\ task'[w].tree = task[w].tree /\ task'[w].buf = task[w].buf
         /\ SealReads(w) =>
               /\ task[w].step = "claimed" /\ task'[w].step \in {"sealing", "settling"}
               /\ task'[w].job = task[w].job /\ task'[w].row = task[w].row
               /\ task'[w].tree = task[w].tree
         /\ SealCommits(w) \/ HandlerFails(w) =>
               /\ task'[w].step \in {"settling", "failing"}
               /\ SealCommits(w) => task[w].step = "sealing" /\ task'[w].step = "settling"
               /\ HandlerFails(w) => task[w].step # "idle" /\ task'[w].step = "failing"
               /\ task'[w].job = task[w].job /\ task'[w].row = task[w].row
               /\ task'[w].tree = task[w].tree
         /\ FlushFindsStale(w) =>
               /\ task[w].step = "claimed" /\ task'[w].step = "flushing"
               /\ task'[w].job = task[w].job /\ task'[w].row = task[w].row
  <1>t. task \in [Workers -> Task]
    BY DEF TypeInv, TypeOK
  <1>1. ASSUME NEW here, NEW there, Steps(w, here, there)
        PROVE  /\ task[w].step = here /\ task'[w].step = there
               /\ task'[w].job = task[w].job /\ task'[w].row = task[w].row
               /\ task'[w].tree = task[w].tree /\ task'[w].buf = task[w].buf
    BY <1>t, <1>1 DEF Steps, Task
  <1>2. ASSUME SealReads(w)
        PROVE  /\ task[w].step = "claimed" /\ task'[w].step \in {"sealing", "settling"}
               /\ task'[w].job = task[w].job /\ task'[w].row = task[w].row
               /\ task'[w].tree = task[w].tree
    <2>1. \/ task' = [task EXCEPT ![w].step = "settling"]
          \/ \E b : task' = [task EXCEPT ![w].step = "sealing", ![w].buf = b]
      BY <1>2 DEF SealReads
    <2>2. task[w].step = "claimed"
      BY <1>2 DEF SealReads
    <2> QED
      BY <1>t, <2>1, <2>2 DEF Task
  <1>3. ASSUME SealCommits(w) \/ HandlerFails(w)
        PROVE  /\ task'[w].step \in {"settling", "failing"}
               /\ SealCommits(w) => task[w].step = "sealing" /\ task'[w].step = "settling"
               /\ HandlerFails(w) => task[w].step # "idle" /\ task'[w].step = "failing"
               /\ task'[w].job = task[w].job /\ task'[w].row = task[w].row
               /\ task'[w].tree = task[w].tree
    <2>1. CASE SealCommits(w)
      <3>1. /\ task[w].step = "sealing"
            /\ task' = [task EXCEPT ![w].step = "settling", ![w].buf = EmptyBuffer]
        BY <2>1 DEF SealCommits
      <3>2. ~HandlerFails(w)
        BY <1>t, <3>1 DEF HandlerFails, Task
      <3> QED
        BY <1>t, <3>1, <3>2 DEF Task
    <2>2. CASE HandlerFails(w)
      <3>1. /\ task[w].step # "idle"
            /\ task' = [task EXCEPT ![w].step = "failing", ![w].buf = EmptyBuffer]
        BY <2>2 DEF HandlerFails
      <3>2. ~SealCommits(w)
        BY <1>t, <3>1 DEF SealCommits, Task
      <3> QED
        BY <1>t, <3>1, <3>2 DEF Task
    <2> QED
      BY <1>3, <2>1, <2>2
  <1>4. ASSUME FlushFindsStale(w)
        PROVE  /\ task[w].step = "claimed" /\ task'[w].step = "flushing"
               /\ task'[w].job = task[w].job /\ task'[w].row = task[w].row
    BY <1>t, <1>4 DEF FlushFindsStale, Task
  <1> QED
    BY <1>1, <1>2, <1>3, <1>4

LEMMA StepKindsStep ==
  ASSUME TypeInv, StepKinds, [Next]_vars
  PROVE  StepKinds'
  <1>t. task \in [Workers -> Task]
    BY DEF TypeInv, TypeOK
  <1>1. ASSUME NEW w \in Workers,
               Handle(w) \/ HandlerFails(w) \/ \E k \in JobKeys : Claim(w, k)
        PROVE  StepKinds'
    <2>1. \A v \in Workers \ {w} : task'[v] = task[v]
      BY <1>1, <1>t
         DEF Handle, ExtractCommits, ExtractReturns, AppendCommits, SealReads, SealCommits,
             FlushFindsStale, FlushFindsNothing, FlushEnqueues, Settle, HandlerFails, Claim, Steps
    <2>2. /\ Busy(w)' => task'[w].job \in JobKeys
          /\ task'[w].step = "committed" => task'[w].job.kind = "extract_chunk"
          /\ task'[w].step = "flushing" => task'[w].job.kind = "flush_stale"
          /\ Busy(w)' /\ task'[w].job.kind # "flush_stale" => task'[w].tree = task'[w].row
      <3>1. CASE Settle(w) \/ \E k \in JobKeys : Claim(w, k)
        BY <1>t, <3>1 DEF Settle, Claim, Idle, Busy
      <3>2. CASE ExtractCommits(w)
        BY <3>2, TaskMoves DEF ExtractCommits, StepKinds, Busy, Of
      <3>3. CASE ExtractReturns(w) \/ AppendCommits(w) \/ FlushFindsNothing(w)
                   \/ FlushEnqueues(w)
        <4>1. \E here \in {"committed", "claimed", "flushing"} : Steps(w, here, "settling")
          BY <3>3 DEF ExtractReturns, AppendCommits, FlushFindsNothing, FlushEnqueues
        <4> QED
          BY <4>1, TaskMoves DEF StepKinds, Busy, Of
      <3>4. CASE SealReads(w) \/ SealCommits(w) \/ HandlerFails(w)
        BY <3>4, TaskMoves DEF StepKinds, Busy, Of, SealCommits
      <3>5. CASE FlushFindsStale(w)
        BY <3>5, TaskMoves DEF FlushFindsStale, StepKinds, Busy, Of
      <3> QED
        BY <1>1, <3>1, <3>2, <3>3, <3>4, <3>5 DEF Handle
    <2> QED
      BY <2>1, <2>2 DEF StepKinds, Busy, Of
  <1>2. CASE Interrupt
    BY <1>2 DEF Interrupt, StepKinds, Busy, Of, Idle
  <1>3. ASSUME \/ (\E l \in Leaves : Ingest(l)) \/ EnqueueFlush \/ RetryFailed
               \/ FlushCalled \/ CascadeReads \/ CascadeCommits \/ CascadeFails
               \/ ResetDeletes \/ ResetRequeues \/ UNCHANGED vars
        PROVE  StepKinds'
    <2>1. task' = task
      BY <1>3 DEF Ingest, EnqueueFlush, RetryFailed, FlushCalled, CascadeReads, CascadeCommits,
                  CascadeFails, ResetDeletes, ResetRequeues, vars
    <2> QED
      BY <2>1 DEF StepKinds, Busy, Of
  <1> QED
    BY <1>1, <1>2, <1>3 DEF Next

LEMMA StepKindsInit == Init => StepKinds
  BY DEF Init, StepKinds, Busy, Of, Idle

(* Without flush_source_tree no cascade runs. *)
LEMMA NoCascade ==
  ASSUME UserFlushes = FALSE, rpc.step = "idle", [Next]_vars
  PROVE  /\ rpc'.step = "idle"
         /\ ~FlushCalled /\ ~CascadeReads /\ ~CascadeCommits /\ ~CascadeFails
  <1>1. ~FlushCalled /\ ~CascadeReads /\ ~CascadeCommits /\ ~CascadeFails
    BY DEF FlushCalled, CascadeReads, CascadeCommits, CascadeFails
  <1>2. rpc' = rpc \/ rpc' = NoCall
    BY <1>1 DEF Next, vars, Ingest, EnqueueFlush, RetryFailed, Handle, ExtractCommits,
                ExtractReturns, AppendCommits, SealReads, SealCommits, FlushFindsStale,
                FlushFindsNothing, FlushEnqueues, Settle, HandlerFails, Claim, ResetDeletes,
                ResetRequeues, Interrupt
  <1> QED
    BY <1>1, <1>2 DEF NoCall

-----------------------------------------------------------------------------
(* Ripe buffers. *)

(* The rows an EnqueueSeals leaves. *)
LEMMA EnqueueSealsRows ==
  ASSUME NEW N, NEW force, EnqueueSeals(N, force)
  PROVE  /\ \A k \in JobKeys : job[k] # "none" => job'[k] # "none"
         /\ \A k \in JobKeys : job[k] = "running" => job'[k] = "running"
         /\ \A k \in JobKeys : k.kind # "seal" => job'[k] = job[k]
         /\ \A n \in N : Seal(n) \in JobKeys => job'[Seal(n)] # "none"
         /\ UNCHANGED failed
  <1>1. job' = Enqueued({Seal(n) : n \in N})
    BY DEF EnqueueSeals
  <1>2. \A k \in JobKeys : k.kind # "seal" => k \notin {Seal(n) : n \in N}
    BY DEF Seal
  <1> QED
    BY <1>1, <1>2, EnqueuedRows DEF EnqueueSeals, givenUp

(* The write transaction of a seal notices the level above, with its follow-ups. *)
LEMMA CommitNotices ==
  ASSUME TypeInv, NEW n \in 0..(TopLevel - 1), NEW S, NEW f, CommitSeal(n, S, f),
         NEW m \in 0..(TopLevel - 1), buffer'[m] # buffer[m], ShouldSeal(m, buffer'[m])
  PROVE  m = n + 1 /\ (f => job'[Seal(m)] # "none")
  <1> DEFINE up == Pushed(buffer[n + 1], minted + 1, 1)
  <1>1. /\ n \in Levels /\ n + 1 \in Levels /\ n + 1 \in Nat /\ m \in Levels
        /\ Seal(m) \in JobKeys /\ m < TopLevel
    BY LevelFacts, KeyTypes, BoundsAssumption
  <1>2. buffer' = [buffer EXCEPT ![n] = Cleared(@), ![n + 1] = up]
    BY DEF CommitSeal
  <1>3. m # n
    BY <1>1, <1>2 DEF TypeInv, TypeOK, TablesTyped, Cleared, EmptyBuffer, ShouldSeal
  <1>4. m = n + 1 /\ buffer'[m] = up
    BY <1>1, <1>2, <1>3 DEF TypeInv, TypeOK, TablesTyped
  <1>5. ASSUME f PROVE job'[Seal(m)] # "none"
    <2>1. ShouldSeal(n + 1, up) /\ n + 1 < TopLevel
      BY <1>1, <1>4
    <2>2. EnqueueSeals({n + 1}, FALSE)
      BY <1>5, <2>1 DEF CommitSeal
    <2> QED
      BY <1>1, <1>4, <2>2, EnqueueSealsRows
  <1> QED
    BY <1>4, <1>5

LEMMA NoticedStep ==
  ASSUME TypeInv, [Next]_vars, NEW n \in 0..(TopLevel - 1),
         buffer'[n] # buffer[n], ShouldSeal(n, buffer'[n])
  PROVE  Noticed(n)'
  <1>k. n \in Levels /\ Seal(n) \in JobKeys
    BY LevelFacts, KeyTypes
  <1>1. ASSUME NEW w \in Workers, SealCommits(w) PROVE Noticed(n)'
    BY <1>1, CommitArguments, CommitNotices DEF SealCommits, FollowUps, Noticed
  <1>2. CASE CascadeCommits
    <2>1. n = rpc.level + 1
      BY <1>2, CommitArguments, CommitNotices DEF CascadeCommits
    <2>2. rpc'.step = "reading" /\ rpc'.level = rpc.level + 1
      BY <1>2 DEF CascadeCommits, TypeInv, TypeOK, Call
    <2> QED
      BY <2>1, <2>2 DEF Noticed
  <1>3. ASSUME NEW w \in Workers, AppendCommits(w) PROVE Noticed(n)'
    <2> DEFINE buf == Pushed(buffer[0], task[w].job.on, Weight(task[w].job.on))
    <2>1. n = 0 /\ buffer'[n] = buf
      BY <1>3, <1>k DEF AppendCommits, TypeInv, TypeOK, TablesTyped
    <2>2. EnqueueSeals({0}, FALSE)
      BY <1>3, <2>1 DEF AppendCommits
    <2> QED
      BY <1>k, <2>1, <2>2, EnqueueSealsRows DEF Noticed
  <1>4. CASE ResetDeletes
    BY <1>4, <1>k DEF ResetDeletes, EmptyBuffer, ShouldSeal
  <1>5. ASSUME NEW w \in Workers,
               Handle(w) \/ HandlerFails(w) \/ \E k \in JobKeys : Claim(w, k)
        PROVE  UNCHANGED buffer \/ SealCommits(w) \/ AppendCommits(w)
    BY <1>5 DEF Handle, ExtractCommits, ExtractReturns, SealReads, FlushFindsStale,
                FlushFindsNothing, FlushEnqueues, Settle, HandlerFails, Claim, tables
  <1>6. ASSUME \/ (\E l \in Leaves : Ingest(l)) \/ EnqueueFlush \/ RetryFailed
               \/ FlushCalled \/ CascadeReads \/ CascadeFails
               \/ ResetRequeues \/ Interrupt \/ UNCHANGED vars
        PROVE  UNCHANGED buffer
    BY <1>6 DEF Ingest, EnqueueFlush, RetryFailed, FlushCalled, CascadeReads, CascadeFails,
                ResetRequeues, Interrupt, vars, tables
  <1> QED
    BY <1>1, <1>2, <1>3, <1>4, <1>5, <1>6 DEF Next

(* Every step that leaves a buffer it changes over its gate has a seal of the
   level due or running in the same transaction, or is the cascade that turns
   to that level next: for any workers, errors, retries, RPCs and restarts. *)
THEOREM RipeNoticed == Spec => RipeIsNoticed
  <1>1. TypeInv /\ [Next]_vars =>
          [\A n \in 0..(TopLevel - 1) :
              buffer'[n] # buffer[n] /\ ShouldSeal(n, buffer'[n]) => Noticed(n)']_vars
    BY NoticedStep
  <1> QED
    BY <1>1, Typed, PTL DEF Spec, RipeIsNoticed

-----------------------------------------------------------------------------
(* Rows and workers. *)

(* The steps no worker takes that the conditions of the theorems leave. *)
LEMMA OtherSteps ==
  ASSUME TypeInv, (\E l \in Leaves : Ingest(l)) \/ EnqueueFlush \/ RetryFailed \/ ResetRequeues
                     \/ FlushCalled \/ CascadeReads \/ CascadeCommits \/ CascadeFails
                     \/ UNCHANGED vars
  PROVE  /\ UNCHANGED <<task, resets, interruptions>>
         /\ \A k \in JobKeys : job[k] # "none" => job'[k] # "none"
         /\ \A k \in JobKeys : job[k] = "running" => job'[k] = "running"
  <1>1. UNCHANGED <<task, resets, interruptions>>
    BY DEF Ingest, EnqueueFlush, RetryFailed, ResetRequeues, FlushCalled, CascadeReads,
           CascadeCommits, CascadeFails, vars
  <1>2. CASE \E K : job' = Enqueued(K)
    BY <1>1, <1>2, EnqueuedRows
  <1>3. CASE RetryFailed \/ UNCHANGED job
    BY <1>1, <1>3 DEF RetryFailed, Free
  <1>4. CASE CascadeCommits
    <2>1. UNCHANGED queue
      BY <1>4 DEF CascadeCommits, CommitSeal
    <2> QED
      BY <1>1, <1>3, <2>1 DEF queue
  <1> QED
    BY <1>2, <1>3, <1>4
       DEF Ingest, EnqueueFlush, ResetRequeues, FlushCalled, CascadeReads, CascadeFails, vars, queue

(* A worker touches no other task, and only settling ends a running row. *)
LEMMA WorkerRows ==
  ASSUME TypeInv, NEW w \in Workers,
         Handle(w) \/ HandlerFails(w) \/ \E k \in JobKeys : Claim(w, k)
  PROVE  /\ \A v \in Workers \ {w} : task'[v] = task[v]
         /\ UNCHANGED <<resets, interruptions, resetting>>
         /\ \A k \in JobKeys : job[k] = "running" =>
               job'[k] = "running" \/ (Settle(w) /\ task[w].job = k)
  <1>t. task \in [Workers -> Task] /\ job \in [JobKeys -> {"none", "ready", "running"}]
    BY DEF TypeInv, TypeOK, QueueTyped
  <1>1. \A v \in Workers \ {w} : task'[v] = task[v]
    BY <1>t
       DEF Handle, ExtractCommits, ExtractReturns, AppendCommits, SealReads, SealCommits,
           FlushFindsStale, FlushFindsNothing, FlushEnqueues, Settle, HandlerFails, Claim, Steps
  <1>2. UNCHANGED <<resets, interruptions, resetting>>
    BY DEF Handle, ExtractCommits, ExtractReturns, AppendCommits, SealReads, SealCommits,
           FlushFindsStale, FlushFindsNothing, FlushEnqueues, Settle, HandlerFails, Claim
  <1> DEFINE Kept == \A k \in JobKeys : job[k] = "running" => job'[k] = "running"
  <1>3. ASSUME UNCHANGED job PROVE Kept
    BY <1>3
  <1>4. ASSUME NEW K, job' = Enqueued(K) PROVE Kept
    BY <1>4, EnqueuedRows
  <1>5. ASSUME NEW k \in JobKeys, Claim(w, k) PROVE Kept
    BY <1>5, <1>t DEF Claim
  <1>6. ASSUME Settle(w), NEW k \in JobKeys, job[k] = "running"
        PROVE  job'[k] = "running" \/ task[w].job = k
    <2>1. job' = job \/ \E s : job' = [job EXCEPT ![task[w].job] = s]
      BY <1>6 DEF Settle, GiveUp
    <2> QED
      BY <1>t, <1>6, <2>1
  <1>7. ASSUME ~Settle(w), ~(\E k \in JobKeys : Claim(w, k)) PROVE Kept
    <2>1. UNCHANGED job \/ \E K : job' = Enqueued(K)
      BY <1>7 DEF Handle, ExtractCommits, ExtractReturns, AppendCommits, SealReads, SealCommits,
                  CommitSeal, EnqueueSeals, FlushFindsStale, FlushFindsNothing, FlushEnqueues,
                  HandlerFails, queue
    <2> QED
      BY <1>3, <1>4, <2>1
  <1>8. CASE Settle(w)
    BY <1>1, <1>2, <1>6, <1>8, Zenon
  <1>9. CASE ~Settle(w)
    <2>1. Kept
      BY <1>5, <1>7, <1>9
    <2> QED
      BY <1>1, <1>2, <2>1
  <1> QED
    BY <1>8, <1>9

-----------------------------------------------------------------------------
(* Every leaf once. *)

LEMMA OwnedStep ==
  ASSUME TypeInv, StepKinds, Owned, [Next]_vars, ~Interrupt, ~ResetDeletes
  PROVE  Owned'
  <1>1. ASSUME NEW w \in Workers,
               Handle(w) \/ HandlerFails(w) \/ \E k \in JobKeys : Claim(w, k)
        PROVE  Owned'
    <2>t. task \in [Workers -> Task] /\ job \in [JobKeys -> {"none", "ready", "running"}]
      BY DEF TypeInv, TypeOK, QueueTyped
    <2>1. /\ \A v \in Workers \ {w} : task'[v] = task[v]
          /\ resets' = resets
          /\ \A k \in JobKeys : job[k] = "running" =>
                job'[k] = "running" \/ (Settle(w) /\ task[w].job = k)
      BY <1>1, WorkerRows
    <2>2. ASSUME NEW v \in Workers \ {w}, Busy(v)'
          PROVE  /\ Busy(v) /\ task'[v] = task[v] /\ task[v].job \in JobKeys
                 /\ job'[task[v].job] = "running" /\ task[v].row = resets
      <3>1. /\ Busy(v) /\ task'[v] = task[v] /\ task[v].job \in JobKeys
            /\ job[task[v].job] = "running" /\ task[v].row = resets
        BY <2>1, <2>2 DEF Busy, StepKinds, Owned
      <3>2. CASE Settle(w) /\ task[w].job = task[v].job
        <4>1. Busy(w)
          BY <3>2 DEF Settle, Busy
        <4> QED
          BY <3>1, <3>2, <4>1 DEF Owned
      <3> QED
        BY <2>1, <3>1, <3>2
    <2>3. CASE Settle(w)
      <3>1. ~Busy(w)'
        BY <2>t, <2>3 DEF Settle, Idle, Busy
      <3> QED
        BY <2>1, <2>2, <3>1 DEF Owned
    <2>4. ASSUME NEW k \in JobKeys, Claim(w, k) PROVE Owned'
      <3>1. /\ job[k] = "ready" /\ job'[k] = "running"
            /\ task'[w].job = k /\ task'[w].row = resets
        BY <2>t, <2>4 DEF Claim
      <3>2. \A v \in Workers \ {w} : Busy(v)' => task'[v].job # k
        BY <2>2, <3>1 DEF Owned
      <3> QED
        BY <2>1, <2>2, <3>1, <3>2 DEF Owned
    <2>5. CASE ~Settle(w) /\ ~(\E k \in JobKeys : Claim(w, k))
      <3>1. Busy(w) /\ task'[w].job = task[w].job /\ task'[w].row = task[w].row
        <4>1. CASE ExtractCommits(w) \/ ExtractReturns(w) \/ AppendCommits(w)
                      \/ FlushFindsNothing(w) \/ FlushEnqueues(w)
          <5>1. \E here \in {"claimed", "committed", "flushing"} : \E there : Steps(w, here, there)
            BY <4>1 DEF ExtractCommits, ExtractReturns, AppendCommits, FlushFindsNothing,
                        FlushEnqueues
          <5> QED
            BY <5>1, TaskMoves DEF Busy
        <4>2. CASE SealReads(w) \/ SealCommits(w) \/ HandlerFails(w) \/ FlushFindsStale(w)
          BY <4>2, TaskMoves DEF Busy
        <4> QED
          BY <1>1, <2>5, <4>1, <4>2 DEF Handle
      <3>2. job'[task[w].job] = "running"
        BY <2>1, <2>5, <3>1 DEF Owned, StepKinds
      <3>3. \A v \in Workers \ {w} : Busy(v)' => task'[v].job # task'[w].job
        BY <2>2, <3>1 DEF Owned
      <3> QED
        BY <2>1, <2>2, <3>1, <3>2, <3>3 DEF Owned
    <2> QED
      BY <2>3, <2>4, <2>5
  <1>2. ASSUME (\E l \in Leaves : Ingest(l)) \/ EnqueueFlush \/ RetryFailed \/ ResetRequeues
                  \/ FlushCalled \/ CascadeReads \/ CascadeCommits \/ CascadeFails
                  \/ UNCHANGED vars
        PROVE  Owned'
    <2>1. /\ UNCHANGED <<task, resets>>
          /\ \A k \in JobKeys : job[k] = "running" => job'[k] = "running"
      BY <1>2, OtherSteps
    <2> QED
      BY <2>1 DEF Owned, Busy, StepKinds
  <1> QED
    BY <1>1, <1>2 DEF Next

(* The steps of a task that no status of a chunk tells apart: it stays, it
   claims a due row, it fails before its transaction, or an extraction that
   committed returns. *)
Inert(v) ==
    Busy(v)' =>
        \/ /\ task'[v].step = "claimed"
           /\ job[task'[v].job] \notin {"none", "running"}
        \/ /\ Busy(v) /\ task'[v].job = task[v].job
           /\ \/ task'[v].step = task[v].step
              \/ task[v].step = "claimed" /\ task'[v].step = "failing"
              \/ task[v].step = "committed" /\ task'[v].step = "settling"

(* The rows of a key that nobody ends, retries or gives up. *)
RowKept(k) ==
    /\ failed'[k] = failed[k]
    /\ job[k] \in {"none", "running"} => job'[k] = job[k]
    /\ job[k] # "none" => job'[k] # "none"

LEMMA LeafKeptAt ==
  ASSUME NEW l \in Leaves, LeafAt(l), chunk'[l] = chunk[l],
         RowKept(Extract(l)), RowKept(AppendOf(l)),
         \A v \in Workers : Busy(v)' /\ task'[v].job \in {Extract(l), AppendOf(l)} => Inert(v)
  PROVE  LeafAt(l)'
  <1> DEFINE e == Extract(l)
             a == AppendOf(l)
  <1>1. At(e, {"claimed", "failing"}) => At(e, {"claimed", "failing"})'
    BY DEF At, Inert, Busy
  <1>2. /\ At(a, {"claimed", "failing"}) => At(a, {"claimed", "failing"})'
        /\ job[e] \in {"none", "running"} /\ At(e, {"committed", "settling"}) =>
              At(e, {"committed", "settling"})'
        /\ job[a] \in {"none", "running"} /\ At(a, {"settling"}) => At(a, {"settling"})'
    BY DEF At, Inert, Busy
  <1>3. /\ job[e] \in {"none", "running"} => job'[e] \in {"none", "running"}
        /\ job[a] \in {"none", "running"} => job'[a] \in {"none", "running"}
        /\ job[e] = "none" <=> job'[e] = "none"
        /\ job[a] = "none" <=> job'[a] = "none"
        /\ failed'[e] = failed[e] /\ failed'[a] = failed[a]
    BY DEF RowKept
  <1> QED
    BY <1>1, <1>2, <1>3 DEF LeafAt

(* The steps that write no chunk, by a worker. *)
LEMMA LeafOtherWork ==
  ASSUME TypeInv, OnceInv, "committed" \notin FailingSteps, NEW w \in Workers,
         \/ ExtractReturns(w) \/ SealReads(w) \/ SealCommits(w) \/ FlushFindsStale(w)
         \/ FlushFindsNothing(w) \/ FlushEnqueues(w) \/ HandlerFails(w)
         \/ \E k \in JobKeys : Claim(w, k),
         NEW l \in Leaves
  PROVE  LeafAt(l)'
  <1>t. task \in [Workers -> Task] /\ job \in [JobKeys -> {"none", "ready", "running"}]
    BY DEF TypeInv, TypeOK, QueueTyped
  <1>k. /\ Extract(l) \in JobKeys /\ AppendOf(l) \in JobKeys
        /\ Extract(l).kind = "extract_chunk" /\ AppendOf(l).kind = "append_buffer"
    BY KeyTypes, KeysDiffer
  <1>w. /\ \A v \in Workers \ {w} : task'[v] = task[v]
        /\ chunk' = chunk
    <2>1. Handle(w) \/ HandlerFails(w) \/ \E k \in JobKeys : Claim(w, k)
      BY DEF Handle
    <2>2. \A v \in Workers \ {w} : task'[v] = task[v]
      BY <2>1, WorkerRows
    <2> QED
      BY <2>2 DEF ExtractReturns, SealReads, SealCommits, CommitSeal, FlushFindsStale,
                  FlushFindsNothing, FlushEnqueues, HandlerFails, Claim, tables
  <1>1. RowKept(Extract(l)) /\ RowKept(AppendOf(l))
    <2>1. CASE UNCHANGED <<job, failed>>
      BY <2>1 DEF RowKept
    <2>2. CASE \E N, force : EnqueueSeals(N, force)
      BY <1>k, <2>2, EnqueueSealsRows DEF RowKept
    <2>3. CASE \E k \in JobKeys : Claim(w, k)
      BY <1>t, <1>k, <2>3 DEF Claim, givenUp, RowKept
    <2> QED
      BY <2>1, <2>2, <2>3
         DEF ExtractReturns, SealReads, SealCommits, CommitSeal, FlushFindsStale,
             FlushFindsNothing, FlushEnqueues, HandlerFails, queue, givenUp
  <1>2. ASSUME Busy(w)', task'[w].job \in {Extract(l), AppendOf(l)} PROVE Inert(w)
    <2>1. CASE ExtractReturns(w)
      BY <2>1, TaskMoves DEF ExtractReturns, Inert, Busy
    <2>2. CASE HandlerFails(w)
      <3>1. task[w].step = "claimed"
        <4>1. task[w].step \in {"claimed", "sealing", "flushing"}
          BY <2>2 DEF HandlerFails
        <4>2. task[w].job.kind \in {"extract_chunk", "append_buffer"}
          BY <1>2, <1>k, <2>2, TaskMoves
        <4> QED
          BY <4>1, <4>2 DEF TypeInv, SealsBelowTop, OnceInv, StepKinds, Of
      <3> QED
        BY <2>2, <3>1, TaskMoves DEF Inert, Busy
    <2>3. ASSUME NEW k \in JobKeys, Claim(w, k) PROVE Inert(w)
      BY <1>t, <2>3 DEF Claim, Inert
    <2>4. CASE SealReads(w) \/ SealCommits(w) \/ FlushFindsStale(w) \/ FlushFindsNothing(w)
                  \/ FlushEnqueues(w)
      <3>1. task'[w].job.kind \in {"seal", "flush_stale"}
        <4>1. CASE SealReads(w) \/ SealCommits(w)
          BY <4>1, TaskMoves DEF SealReads, SealCommits, TypeInv, SealsBelowTop, Of
        <4>2. CASE FlushFindsStale(w) \/ FlushFindsNothing(w)
          BY <4>2, TaskMoves DEF FlushFindsStale, FlushFindsNothing, Of
        <4>3. CASE FlushEnqueues(w)
          BY <4>3, TaskMoves DEF FlushEnqueues, OnceInv, StepKinds, Of
        <4> QED
          BY <2>4, <4>1, <4>2, <4>3
      <3> QED
        BY <1>2, <1>k, <3>1
    <2> QED
      BY <2>1, <2>2, <2>3, <2>4
  <1>3. \A v \in Workers : Busy(v)' /\ task'[v].job \in {Extract(l), AppendOf(l)} => Inert(v)
    BY <1>2, <1>w DEF Inert, Busy
  <1> QED
    BY <1>w, <1>1, <1>3, LeafKeptAt DEF OnceInv

(* The jobs of a leaf, settled. *)
LEMMA LeafSettled ==
  ASSUME TypeInv, OnceInv, NEW w \in Workers, Settle(w), NEW l \in Leaves
  PROVE  LeafAt(l)'
  <1> DEFINE e == Extract(l)
             a == AppendOf(l)
             k == task[w].job
  <1>t. task \in [Workers -> Task] /\ job \in [JobKeys -> {"none", "ready", "running"}]
    BY DEF TypeInv, TypeOK, QueueTyped
  <1>k. e \in JobKeys /\ a \in JobKeys /\ e # a
    BY KeyTypes, KeysDiffer
  <1>f. failed \in [JobKeys -> Nat]
    BY DEF TypeInv, TypeOK, QueueTyped
  <1>c. chunk[l] \in {"absent", "pending_extraction", "admitted", "buffered", "dropped"}
    BY DEF TypeInv, TypeOK, TablesTyped
  <1>1. /\ UNCHANGED chunk /\ \A v \in Workers \ {w} : task'[v] = task[v]
        /\ Busy(w) /\ ~Busy(w)' /\ k \in JobKeys
    BY <1>t DEF Settle, Busy, Idle, tables, OnceInv, StepKinds
  <1>2. \/ /\ task[w].step = "settling" /\ job' = [job EXCEPT ![k] = "none"]
           /\ failed' = failed
        \/ /\ task[w].step = "failing" /\ job' = [job EXCEPT ![k] = "ready"]
           /\ failed' = failed
        \/ /\ task[w].step = "failing" /\ job' = [job EXCEPT ![k] = "none"]
           /\ failed' = [failed EXCEPT ![k] = failed[k] + 1]
    BY <1>1 DEF Settle, GiveUp, givenUp, OnceInv, Owned
  <1>3. \A S : /\ At(e, S) => At(e, S)'
               /\ At(a, S) => At(a, S)'
    BY <1>1 DEF At, Busy
  <1>4. LeafAt(l)
    BY DEF OnceInv
  <1>5. job[k] = "running"
    BY <1>1 DEF OnceInv, Owned
  <1>6. CASE k = e
    <2>1. job'[a] = job[a] /\ failed'[a] = failed[a]
      BY <1>k, <1>t, <1>f, <1>2, <1>6
    <2>2. CASE task[w].step = "settling"
      <3>1. /\ job'[e] = "none" /\ failed'[e] = failed[e]
            /\ chunk[l] \notin {"absent", "pending_extraction"}
        BY <1>1, <1>2, <1>4, <1>6, <1>t, <2>2 DEF LeafAt, At
      <3> QED
        BY <1>1, <1>3, <1>4, <2>1, <3>1 DEF LeafAt
    <2>3. CASE task[w].step = "failing"
      <3>1. chunk[l] \notin {"admitted", "buffered", "dropped"}
        BY <1>1, <1>4, <1>6, <2>3 DEF LeafAt, At
      <3>2. chunk[l] # "absent"
        BY <1>1, <1>4, <1>5, <1>6 DEF LeafAt
      <3>3. job'[e] = "none" \/ failed'[e] = failed[e]
        BY <1>k, <1>t, <1>2, <1>6, <2>3
      <3>4. UserRetries => job'[e] = "none" \/ failed'[e] = 0
        BY <1>4, <1>5, <1>6, <3>1, <3>2, <3>3, <1>t, <1>c DEF LeafAt
      <3> QED
        BY <1>1, <1>3, <1>4, <2>1, <3>1, <3>2, <3>4 DEF LeafAt
    <2> QED
      BY <1>2, <2>2, <2>3
  <1>7. CASE k = a
    <2>1. job'[e] = job[e] /\ failed'[e] = failed[e]
      BY <1>k, <1>t, <1>f, <1>2, <1>7
    <2>2. CASE task[w].step = "settling"
      <3>1. /\ job'[a] = "none" /\ failed'[a] = failed[a]
            /\ chunk[l] \notin {"absent", "pending_extraction", "admitted", "dropped"}
        BY <1>1, <1>2, <1>4, <1>5, <1>7, <1>t, <2>2 DEF LeafAt, At
      <3> QED
        BY <1>1, <1>3, <1>4, <2>1, <3>1 DEF LeafAt
    <2>3. CASE task[w].step = "failing"
      <3>1. chunk[l] \notin {"absent", "pending_extraction", "buffered", "dropped"}
        BY <1>1, <1>2, <1>4, <1>5, <1>7, <1>t, <2>3 DEF LeafAt, At
      <3>2. chunk[l] = "admitted" => failed[a] = 0
        BY <1>4, <1>5, <1>7 DEF LeafAt
      <3>3. chunk[l] = "admitted" =>
              IF job'[a] = "none" THEN failed'[a] > 0 ELSE failed'[a] = 0
        BY <1>k, <1>t, <1>f, <1>2, <1>7, <2>3, <3>2
      <3> QED
        BY <1>1, <1>3, <1>4, <2>1, <3>1, <3>3 DEF LeafAt
    <2> QED
      BY <1>2, <2>2, <2>3
  <1>8. CASE k # e /\ k # a
    <2>1. /\ job'[e] = job[e] /\ job'[a] = job[a]
          /\ failed'[e] = failed[e] /\ failed'[a] = failed[a]
      BY <1>k, <1>t, <1>f, <1>2, <1>8
    <2> QED
      BY <1>1, <1>3, <1>4, <2>1 DEF LeafAt
  <1> QED
    BY <1>6, <1>7, <1>8

(* The two transactions that move a leaf on. *)
LEMMA LeafMoves ==
  ASSUME TypeInv, OnceInv, NEW w \in Workers, ExtractCommits(w) \/ AppendCommits(w),
         NEW l \in Leaves
  PROVE  LeafAt(l)'
  <1> DEFINE e == Extract(l)
             a == AppendOf(l)
             m == task[w].job.on
  <1>t. /\ task \in [Workers -> Task] /\ job \in [JobKeys -> {"none", "ready", "running"}]
        /\ chunk \in [Leaves -> {"absent", "pending_extraction", "admitted", "buffered", "dropped"}]
    BY DEF TypeInv, TypeOK, QueueTyped, TablesTyped
  <1>k. /\ e \in JobKeys /\ a \in JobKeys /\ e # a
        /\ \A n \in Leaves : n # l => a # AppendOf(n) /\ e # AppendOf(n) /\ a # Extract(n)
                                        /\ e # Extract(n)
        /\ a.kind = "append_buffer" /\ e.kind = "extract_chunk"
    BY KeyTypes, KeysDiffer
  <1>1. /\ \A v \in Workers \ {w} : task'[v] = task[v]
        /\ task[w].step = "claimed" /\ Busy(w) /\ task'[w].job = task[w].job
        /\ job[task[w].job] = "running" /\ m \in Leaves
        /\ \A v \in Workers : Busy(v) /\ task[v].job = task[w].job => v = w
    <2>1. \E there : Steps(w, "claimed", there)
      BY DEF ExtractCommits, AppendCommits
    <2>2. task[w].step = "claimed" /\ task'[w].job = task[w].job /\ Busy(w)
      BY <2>1, TaskMoves DEF Busy
    <2>3. m \in Leaves
      BY <1>t, KeyKinds DEF ExtractCommits, AppendCommits, Of, Task
    <2> QED
      BY <2>2, <2>3, WorkerRows DEF Handle, OnceInv, Owned
  <1>4. LeafAt(l)
    BY DEF OnceInv
  <1>5. CASE ExtractCommits(w)
    <2>1. task[w].job = Extract(m) /\ task'[w].step = "committed"
      BY <1>1, <1>5, KeyOf, TaskMoves DEF ExtractCommits, Of, OnceInv, StepKinds
    <2>2. CASE m = l
      <3>1. chunk[l] = "pending_extraction" /\ job[e] = "running"
        BY <1>1, <1>4, <1>t, <2>1, <2>2 DEF LeafAt, At
      <3>2. job[a] = "none" /\ failed[a] = 0 /\ \A v \in Workers : ~(Busy(v) /\ task[v].job = a)
        BY <1>4, <3>1 DEF LeafAt, OnceInv, Owned
      <3>3. /\ \/ chunk'[l] = "admitted" /\ job'[a] # "none"
               \/ chunk'[l] = "dropped" /\ job'[a] = "none"
            /\ job'[e] = "running" /\ failed' = failed
        <4>1. CASE chunk' = [chunk EXCEPT ![m] = "admitted"] /\ job' = Enqueued({AppendOf(m)})
          BY <1>5, <1>k, <1>t, <2>2, <3>1, <4>1, EnqueuedRows DEF ExtractCommits, givenUp
        <4>2. CASE chunk' = [chunk EXCEPT ![m] = "dropped"] /\ UNCHANGED job
          BY <1>5, <1>t, <2>2, <3>1, <3>2, <4>2 DEF ExtractCommits, givenUp
        <4> QED
          BY <1>5, <4>1, <4>2 DEF ExtractCommits, Follows
      <3>4. \A v \in Workers : ~(Busy(v)' /\ task'[v].job = a)
        BY <1>1, <1>k, <2>1, <2>2, <3>2 DEF Busy
      <3>5. At(e, {"committed", "settling"})'
        BY <1>1, <2>1, <2>2 DEF At, Busy
      <3> QED
        BY <1>4, <3>1, <3>2, <3>3, <3>4, <3>5 DEF LeafAt, At
    <2>3. CASE m # l
      <3>1. chunk'[l] = chunk[l] /\ job'[e] = job[e] /\ job'[a] = job[a] /\ failed' = failed
        <4>1. AppendOf(m) \notin {e, a}
          BY <1>1, <1>k, <2>3
        <4>2. UNCHANGED job \/ job' = Enqueued({AppendOf(m)})
          BY <1>5 DEF ExtractCommits, Follows
        <4>3. job'[e] = job[e] /\ job'[a] = job[a]
          BY <1>k, <4>1, <4>2, EnqueuedRows
        <4> QED
          BY <1>5, <1>t, <2>3, <4>3 DEF ExtractCommits, givenUp
      <3>2. \A v \in Workers : Busy(v)' /\ task'[v].job \in {e, a} => Inert(v)
        BY <1>1, <1>k, <2>1, <2>3 DEF Inert, Busy
      <3> QED
        BY <1>4, <3>1, <3>2, LeafKeptAt DEF RowKept
    <2> QED
      BY <2>2, <2>3
  <1>6. CASE AppendCommits(w)
    <2>1. task[w].job = AppendOf(m) /\ task'[w].step = "settling"
      BY <1>1, <1>6, KeyOf, TaskMoves DEF AppendCommits, Of, OnceInv, StepKinds
    <2>j. job'[e] = job[e] /\ job'[a] = job[a] /\ failed' = failed
      BY <1>k, <1>6, EnqueueSealsRows DEF AppendCommits, queue, givenUp
    <2>2. CASE m = l
      <3>1. job[a] = "running" /\ failed[a] = 0 /\ chunk[l] = "admitted"
        BY <1>1, <1>4, <1>t, <2>1, <2>2 DEF LeafAt, At
      <3>2. chunk'[l] = "buffered"
        BY <1>6, <1>t, <2>2 DEF AppendCommits
      <3>3. At(a, {"settling"})'
        BY <1>1, <2>1, <2>2 DEF At, Busy
      <3>4. At(e, {"committed", "settling"})'
        BY <1>1, <1>4, <1>k, <2>1, <2>2, <3>1 DEF LeafAt, At, Busy
      <3> QED
        BY <1>4, <2>j, <3>1, <3>2, <3>3, <3>4 DEF LeafAt
    <2>3. CASE m # l
      <3>1. chunk'[l] = chunk[l]
        BY <1>6, <1>t, <2>3 DEF AppendCommits
      <3>2. \A v \in Workers : Busy(v)' /\ task'[v].job \in {e, a} => Inert(v)
        BY <1>1, <1>k, <2>1, <2>3 DEF Inert, Busy
      <3> QED
        BY <1>4, <2>j, <3>1, <3>2, LeafKeptAt DEF RowKept
    <2> QED
      BY <2>2, <2>3
  <1> QED
    BY <1>5, <1>6

LEMMA LeafOthers ==
  ASSUME TypeInv, OnceInv, NEW l \in Leaves,
         NoOlderRow,
         (\E m \in Leaves : Ingest(m)) \/ EnqueueFlush \/ RetryFailed
            \/ FlushCalled \/ CascadeReads \/ CascadeCommits \/ CascadeFails \/ UNCHANGED vars
  PROVE  LeafAt(l)'
  <1>k. /\ Extract(l) \in JobKeys /\ AppendOf(l) \in JobKeys
        /\ Extract(l).kind = "extract_chunk" /\ AppendOf(l).kind = "append_buffer"
    BY KeyTypes, KeysDiffer
  <1>1. UNCHANGED task
    BY OtherSteps
  <1>2. \A v \in Workers : Inert(v)
    BY <1>1 DEF Inert, Busy
  <1>4. LeafAt(l)
    BY DEF OnceInv
  <1>5. ASSUME NEW m \in Leaves, Ingest(m) PROVE LeafAt(l)'
    <2>1. /\ chunk[m] = "absent" \/ (chunk[m] = "pending_extraction" /\ Reingests)
          /\ chunk' = [chunk EXCEPT ![m] = "pending_extraction"]
          /\ job' = Enqueued({Extract(m)}) /\ failed' = failed
      BY <1>5 DEF Ingest, givenUp
    <2>2. job'[AppendOf(l)] = job[AppendOf(l)]
      <3>1. AppendOf(l) \notin {Extract(m)}
        BY KeysDiffer
      <3> QED
        BY <1>k, <2>1, <3>1, EnqueuedRows
    <2>3. CASE m = l
      <3>1. chunk'[l] = "pending_extraction"
        BY <2>1, <2>3 DEF TypeInv, TypeOK, TablesTyped
      <3> QED
        <4>1. /\ job[AppendOf(l)] = "none" /\ failed[AppendOf(l)] = 0
              /\ At(Extract(l), {"claimed", "failing"})
          BY <1>4, <2>1, <2>3 DEF LeafAt
        <4>2. At(Extract(l), {"claimed", "failing"})'
          BY <1>1, <4>1 DEF At, Busy
        <4>3. UserRetries => failed'[Extract(l)] = 0
          BY <1>4, <2>1, <2>3 DEF NoOlderRow, LeafAt
        <4>4. job'[AppendOf(l)] = "none" /\ failed'[AppendOf(l)] = 0
          BY <2>1, <2>2, <4>1
        <4> QED
          BY <3>1, <4>2, <4>3, <4>4 DEF LeafAt
    <2>4. CASE m # l
      <3>1. chunk'[l] = chunk[l]
        BY <2>1, <2>4 DEF TypeInv, TypeOK, TablesTyped
      <3>2. job'[Extract(l)] = job[Extract(l)]
        <4>1. Extract(l) \notin {Extract(m)}
          BY <2>4, KeysDiffer
        <4> QED
          BY <1>k, <2>1, <4>1, EnqueuedRows
      <3> QED
        BY <1>2, <1>4, <2>1, <2>2, <3>1, <3>2, LeafKeptAt DEF RowKept
    <2> QED
      BY <2>3, <2>4
  <1>6. CASE EnqueueFlush
    <2>1. Extract(l) \notin {Flush} /\ AppendOf(l) \notin {Flush}
      BY KeysDiffer
    <2>2. RowKept(Extract(l)) /\ RowKept(AppendOf(l))
      BY <1>6, <1>k, <2>1, EnqueuedRows DEF EnqueueFlush, givenUp, RowKept
    <2> QED
      BY <1>2, <1>4, <1>6, <2>2, LeafKeptAt DEF EnqueueFlush, tables
  <1>7. CASE RetryFailed
    <2> DEFINE e == Extract(l)
               a == AppendOf(l)
    <2>1. /\ chunk' = chunk /\ UserRetries /\ failed'[e] = 0 /\ failed'[a] = 0
          /\ failed[e] = 0 => job'[e] = job[e]
          /\ failed[a] = 0 => job'[a] = job[a]
          /\ failed[e] > 0 => job[e] = "none" /\ job'[e] = "ready"
          /\ failed[a] > 0 => job[a] = "none" /\ job'[a] = "ready"
      BY <1>7, <1>k DEF RetryFailed, FailedKeys, Free, tables
    <2>2. failed[e] \in Nat /\ failed[a] \in Nat
      BY <1>k DEF TypeInv, TypeOK, QueueTyped
    <2>3. \A k, S : At(k, S)' <=> At(k, S)
      BY <1>1 DEF At, Busy
    <2> QED
      BY <1>4, <2>1, <2>2, <2>3 DEF LeafAt
  <1>8. CASE FlushCalled \/ CascadeReads \/ CascadeCommits \/ CascadeFails \/ UNCHANGED vars
    <2>1. UNCHANGED <<job, failed, chunk>>
      BY <1>8 DEF FlushCalled, CascadeReads, CascadeCommits, CommitSeal, CascadeFails, vars,
                  tables, queue, givenUp
    <2> QED
      BY <1>2, <1>4, <2>1, LeafKeptAt DEF RowKept
  <1> QED
    BY <1>5, <1>6, <1>7, <1>8

LEMMA OnceInvStep ==
  ASSUME Once,
         TypeInv, OnceInv, [Next]_vars
  PROVE  OnceInv'
  <1>0. MaxResets = 0 /\ MaxInterruptions = 0 /\ "committed" \notin FailingSteps /\ NoOlderRow
    BY DEF Once
  <1>1. ~Interrupt /\ ~ResetDeletes /\ ~ResetRequeues
    BY <1>0 DEF Interrupt, ResetDeletes, ResetRequeues, OnceInv
  <1>2. StepKinds' /\ Owned'
    BY <1>1, StepKindsStep, OwnedStep DEF OnceInv
  <1>3. resets' = 0 /\ interruptions' = 0 /\ ~resetting'
    <2>1. ASSUME NEW w \in Workers,
                 Handle(w) \/ HandlerFails(w) \/ \E k \in JobKeys : Claim(w, k)
          PROVE  UNCHANGED <<resets, interruptions, resetting>>
      BY <2>1, WorkerRows
    <2>2. ASSUME (\E l \in Leaves : Ingest(l)) \/ EnqueueFlush \/ RetryFailed
                    \/ FlushCalled \/ CascadeReads \/ CascadeCommits \/ CascadeFails
                    \/ UNCHANGED vars
          PROVE  UNCHANGED <<resets, interruptions, resetting>>
      BY <2>2 DEF Ingest, EnqueueFlush, RetryFailed, FlushCalled, CascadeReads, CascadeCommits,
                  CascadeFails, vars
    <2> QED
      BY <1>1, <2>1, <2>2 DEF Next, OnceInv
  <1>4. ASSUME NEW l \in Leaves PROVE LeafAt(l)'
    <2>1. ASSUME NEW w \in Workers,
                 Handle(w) \/ HandlerFails(w) \/ \E k \in JobKeys : Claim(w, k)
          PROVE  LeafAt(l)'
      BY <1>0, <2>1, LeafOtherWork, LeafSettled, LeafMoves DEF Handle
    <2> QED
      BY <1>0, <1>1, <2>1, LeafOthers DEF Next
  <1> QED
    BY <1>2, <1>3, <1>4 DEF OnceInv

LEMMA OnceInvInit == Init => OnceInv
  <1> SUFFICES ASSUME Init PROVE OnceInv
    OBVIOUS
  <1>1. \A l \in Leaves :
          /\ chunk[l] = "absent" /\ job[AppendOf(l)] = "none" /\ job[Extract(l)] = "none"
          /\ failed[AppendOf(l)] = 0 /\ failed[Extract(l)] = 0
    BY KeyTypes DEF Init
  <1>2. \A w \in Workers : ~Busy(w)
    BY DEF Init, Busy, Idle
  <1> QED
    BY <1>1, <1>2, StepKindsInit DEF Init, OnceInv, Owned, LeafAt, At

(* An admitted chunk is never without a row of its append job, whatever the
   workers, errors before a transaction, retries and cascades do, as long as no
   extraction is repeated.  (An append that is being settled suppresses the
   append of a second admission.) *)
THEOREM AdmittedAppended ==
  ASSUME Once
  PROVE  Spec => []AdmittedIsQueued
  <1>1. TypeInv /\ OnceInv /\ [Next]_vars => OnceInv'
    BY OnceInvStep
  <1>2. TypeInv /\ OnceInv => AdmittedIsQueued
    BY KeyTypes DEF OnceInv, LeafAt, AdmittedIsQueued, HasRow, TypeInv, TypeOK, QueueTyped
  <1> QED
    BY <1>1, <1>2, OnceInvInit, Typed, PTL DEF Spec

-----------------------------------------------------------------------------
(* Every node is folded once. *)

LEMMA FrontierFacts ==
  ASSUME NEW x
  PROVE  x \in Frontier <=> \E n \in Levels : x \in buffer[n].items
  BY DEF Frontier

LEMMA FoldedFacts ==
  ASSUME NEW x \in Nodes
  PROVE  /\ FoldedInto[x] = {s.id : s \in {t \in summaries : x \in t.children}}
         /\ FoldedInto[x] = {} <=> \A s \in summaries : x \notin s.children
  BY DEF FoldedInto

LEMMA FrontierNodes ==
  ASSUME TypeInv
  PROVE  Frontier \subseteq Nodes
  BY DEF Frontier, TypeInv, TypeOK, TablesTyped, Buffer

LEMMA BatchFacts ==
  ASSUME NEW S
  PROVE  S \in Batches <=> \E w \in Workers : task[w].step = "sealing" /\ S = task[w].buf.items
  BY DEF Batches

(* The sealers of a level: there is one. *)
LEMMA OneSealer ==
  ASSUME TypeInv, OnceInv, NEW v \in Workers, NEW w \in Workers,
         task[v].step = "sealing", task[w].step = "sealing", task[v].job.on = task[w].job.on
  PROVE  v = w
  <1>1. Busy(v) /\ Busy(w) /\ task[v].job \in JobKeys /\ task[w].job \in JobKeys
    BY DEF Busy, OnceInv, StepKinds
  <1>2. task[v].job = Seal(task[v].job.on) /\ task[w].job = Seal(task[w].job.on)
    BY <1>1, KeyOf DEF TypeInv, SealsBelowTop
  <1> QED
    BY <1>1, <1>2 DEF OnceInv, Owned

(* The batches are disjoint sets of the frontier, each in the buffer it is of. *)
LEMMA BatchesOpen ==
  ASSUME TypeInv, FoldInv, NEW w \in Workers, task[w].step = "sealing"
  PROVE  /\ task[w].job.on \in Levels
         /\ task[w].buf.items \subseteq buffer[task[w].job.on].items
         /\ task[w].buf.items # {}
  <1>1. task[w].job \in JobKeys \cup {NoJob} /\ task[w].job.kind = "seal"
    BY DEF TypeInv, TypeOK, Task, SealsBelowTop
  <1> QED
    BY <1>1, KeyKinds, LevelFacts DEF FoldInv

(* What waits in a buffer that nobody seals is in no batch. *)
LEMMA OpenItems ==
  ASSUME TypeInv, FoldInv, NEW n \in Levels, NEW x \in buffer[n].items,
         \A w \in Workers : task[w].step = "sealing" /\ task[w].job.on = n => x \notin task[w].buf.items
  PROVE  x \in Tree!Open
  <1>1. x \in Frontier
    BY DEF Frontier
  <1>2. ASSUME NEW S \in Batches, x \in S PROVE FALSE
    <2>1. PICK w \in Workers : task[w].step = "sealing" /\ S = task[w].buf.items
      BY BatchFacts
    <2>2. task[w].job.on \in Levels /\ x \in buffer[task[w].job.on].items
      BY <1>2, <2>1, BatchesOpen
    <2>3. task[w].job.on = n
      BY <2>2 DEF FoldInv
    <2> QED
      BY <1>2, <2>1, <2>3
  <1> QED
    BY <1>1, <1>2 DEF Tree!Open

(* A step of the pipeline that folds and pushes nothing. *)
LEMMA FoldKept ==
  ASSUME TypeInv, FoldInv, UNCHANGED <<buffer, summaries, minted>>, rpc'.step = "idle",
         \A l \in Leaves : chunk'[l] # "buffered" => chunk[l] # "buffered",
         \A w \in Workers : task'[w].step = "sealing" =>
             /\ task'[w].buf.items \subseteq buffer[task'[w].job.on].items
             /\ task'[w].buf.items # {}
  PROVE  FoldInv' /\ UNCHANGED <<Frontier, FoldedInto>>
  <1>1. UNCHANGED <<Frontier, FoldedInto>>
    BY DEF Frontier, FoldedInto
  <1> QED
    BY <1>1 DEF FoldInv

(* An append puts its leaf on the frontier. *)
LEMMA FoldAppend ==
  ASSUME TypeInv, OnceInv, FoldInv, NEW w \in Workers, AppendCommits(w)
  PROVE  FoldInv' /\ \E x \in Nodes : Tree!Hold(x)
  <1> DEFINE l == task[w].job.on
  <1>1. /\ l \in Leaves /\ l \in Nodes /\ 0 \in Levels
        /\ task[w].step = "claimed" /\ task'[w].step = "settling" /\ Busy(w)
        /\ task[w].job = AppendOf(l)
        /\ \A v \in Workers \ {w} : task'[v] = task[v]
    <2>1. /\ l \in Leaves /\ l \in Nodes /\ 0 \in Levels
          /\ task[w].step = "claimed" /\ task'[w].step = "settling" /\ Busy(w)
      BY TaskMoves, KeyKinds, BoundsAssumption
         DEF AppendCommits, Of, TypeInv, TypeOK, Task, Nodes, Busy, Levels
    <2>2. task[w].job = AppendOf(l)
      BY <2>1, KeyOf DEF AppendCommits, Of, OnceInv, StepKinds
    <2> QED
      BY <2>1, <2>2, WorkerRows DEF Handle
  <1>2. chunk[l] = "admitted"
    <2>1. LeafAt(l) /\ job[AppendOf(l)] = "running"
      BY <1>1 DEF OnceInv, Owned
    <2> QED
      BY <1>1, <2>1 DEF LeafAt, At, TypeInv, TypeOK, TablesTyped
  <1>3. l \notin Frontier /\ FoldedInto[l] = {} /\ l \notin Ids
    BY <1>1, <1>2, LeavesAssumption DEF FoldInv, Ids
  <1>4. /\ buffer'[0].items = buffer[0].items \cup {l}
        /\ \A n \in Levels : n # 0 => buffer'[n] = buffer[n]
    <2>1. l \notin buffer[0].items
      BY <1>1, <1>3, FrontierFacts
    <2>2. Pushed(buffer[0], l, Weight(l)).items = buffer[0].items \cup {l}
      BY <2>1 DEF Pushed
    <2> QED
      BY <1>1, <2>2 DEF AppendCommits, TypeInv, TypeOK, TablesTyped
  <1>5. Frontier' = Frontier \cup {l}
    BY <1>1, <1>4 DEF Frontier
  <1>6. UNCHANGED <<summaries, minted, rpc>> /\ FoldedInto' = FoldedInto
    BY DEF AppendCommits, FoldedInto
  <1>b. Batches' = Batches
    BY <1>1 DEF Batches
  <1>7. Tree!Hold(l)
    BY <1>3, <1>5, <1>6, <1>b DEF Tree!Hold
  <1>8. FoldInv'
    <2>1. \A k \in Leaves : chunk'[k] # "buffered" => k \notin Frontier' /\ FoldedInto'[k] = {}
      BY <1>1, <1>5, <1>6 DEF AppendCommits, FoldInv, TypeInv, TypeOK, TablesTyped
    <2>2. \A x \in Frontier' : FoldedInto'[x] = {} /\ (x \in Ids => x <= minted')
      BY <1>3, <1>5, <1>6 DEF FoldInv
    <2>3. \A m, n \in Levels : m # n => buffer'[m].items \cap buffer'[n].items = {}
      <3>1. \A n \in Levels : l \notin buffer[n].items
        BY <1>3, FrontierFacts
      <3> QED
        BY <1>1, <1>4, <3>1 DEF FoldInv
    <2>4. ASSUME NEW v \in Workers, task'[v].step = "sealing"
          PROVE  task'[v].buf.items \subseteq buffer'[task'[v].job.on].items
                   /\ task'[v].buf.items # {}
      <3>1. task'[v] = task[v] /\ task[v].step = "sealing"
        BY <1>1, <2>4
      <3>2. /\ task[v].job.on \in Levels /\ task[v].buf.items # {}
            /\ task[v].buf.items \subseteq buffer[task[v].job.on].items
        BY <3>1, BatchesOpen
      <3>3. buffer[task[v].job.on].items \subseteq buffer'[task[v].job.on].items
        BY <1>4, <3>2
      <3> QED
        BY <3>1, <3>2, <3>3
    <2> QED
      BY <1>6, <2>1, <2>2, <2>3, <2>4 DEF FoldInv
  <1> QED
    BY <1>1, <1>7, <1>8

(* A seal folds its batch and loses what was pushed beside it. *)
LEMMA FoldSeal ==
  ASSUME TypeInv, OnceInv, FoldInv, NEW w \in Workers, SealCommits(w)
  PROVE  FoldInv' /\ \E S \in Batches, late \in SUBSET Tree!Open, x \in Nodes :
                        Tree!Fold(S, late, x)
  <1> DEFINE n == task[w].job.on
             S == task[w].buf.items
             late == buffer[n].items \ S
             id == minted + 1
             new == [id |-> id, level |-> n + 1, children |-> S]
  <1>1. /\ n \in Levels /\ n + 1 \in Levels /\ n \in Nat
        /\ S \subseteq buffer[n].items /\ S # {} /\ task'[w].step = "settling"
        /\ S \in Batches /\ task[w].step = "sealing"
        /\ \A v \in Workers \ {w} : task'[v] = task[v]
    <2>1. n \in 0..(TopLevel - 1)
      BY CommitArguments
    <2>2. task[w].step = "sealing"
      BY DEF SealCommits
    <2>3. S \subseteq buffer[n].items /\ S # {} /\ S \in Batches
      BY <2>2, BatchesOpen, BatchFacts
    <2>4. task'[w].step = "settling"
      BY TaskMoves
    <2> QED
      BY <2>1, <2>2, <2>3, <2>4, LevelFacts, WorkerRows DEF Handle
  <1>2. /\ CommitSeal(n, S, FollowUps) /\ id \in Ids /\ id \in Nodes /\ minted \in Nat
        /\ minted' = id /\ summaries' = summaries \cup {new} /\ UNCHANGED <<chunk, rpc>>
    BY DEF SealCommits, CommitSeal, Nodes, TypeInv, TypeOK, TablesTyped
  <1>3. id \notin Frontier /\ FoldedInto[id] = {} /\ id \notin Leaves
    <2>1. \A s \in summaries : id \notin s.children
      BY <1>2 DEF FoldInv
    <2>2. id \notin Frontier
      BY <1>2 DEF FoldInv
    <2> QED
      BY <1>2, <2>1, <2>2, FoldedFacts, LeavesAssumption
  <1>4. /\ buffer'[n].items = {}
        /\ buffer'[n + 1].items = buffer[n + 1].items \cup {id}
        /\ \A m \in Levels : m # n /\ m # n + 1 => buffer'[m] = buffer[m]
    <2>1. Pushed(buffer[n + 1], id, 1).items = buffer[n + 1].items \cup {id}
      BY DEF Pushed
    <2>2. buffer' = [buffer EXCEPT ![n] = Cleared(@), ![n + 1] = Pushed(buffer[n + 1], id, 1)]
      BY <1>2 DEF CommitSeal
    <2> QED
      BY <1>1, <2>1, <2>2 DEF TypeInv, TypeOK, TablesTyped, Cleared, EmptyBuffer
  <1>5. S \subseteq Frontier /\ S \subseteq Nodes
    BY <1>1, FrontierFacts, FrontierNodes
  <1>v. ASSUME NEW v \in Workers \ {w}, task[v].step = "sealing"
        PROVE  /\ task[v].job.on # n /\ task[v].job.on \in Levels
               /\ task[v].buf.items # {} /\ task[v].buf.items \cap buffer[n].items = {}
               /\ task[v].buf.items \subseteq buffer[task[v].job.on].items
    <2>1. task[v].job.on # n
      BY <1>1, <1>v, OneSealer
    <2> QED
      BY <1>1, <1>v, <2>1, BatchesOpen DEF FoldInv
  <1>b. Batches' = Batches \ {S}
    <2>1. ASSUME NEW B
          PROVE  B \in Batches' <=>
                   \E v \in Workers \ {w} : task[v].step = "sealing" /\ B = task[v].buf.items
      BY <1>1 DEF Batches
    <2>2. ASSUME NEW B PROVE B \in Batches' <=> B \in Batches \ {S}
      BY <1>1, <1>v, <2>1, BatchFacts
    <2> QED
      BY <2>2
  <1>l. late \subseteq Tree!Open
    <2> SUFFICES ASSUME NEW x \in late PROVE x \in Tree!Open
      OBVIOUS
    <2>1. \A v \in Workers : task[v].step = "sealing" /\ task[v].job.on = n =>
              x \notin task[v].buf.items
      BY <1>v
    <2> QED
      BY <1>1, <2>1, OpenItems
  <1>6. Frontier' = (Frontier \ (S \cup late)) \cup {id}
    <2>1. ASSUME NEW x PROVE x \in Frontier' <=> x \in (Frontier \ (S \cup late)) \cup {id}
      <3>1. x \in Frontier' <=> \E m \in Levels : x \in buffer'[m].items
        BY DEF Frontier
      <3>2. x \in Frontier' => x \in (Frontier \ (S \cup late)) \cup {id}
        <4> SUFFICES ASSUME NEW m \in Levels, x \in buffer'[m].items, x # id
                     PROVE  x \in Frontier \ (S \cup late)
          BY <3>1
        <4>1. m # n /\ x \in buffer[m].items
          BY <1>1, <1>4
        <4> QED
          BY <1>1, <4>1, FrontierFacts DEF FoldInv
      <3>3. x \in Frontier /\ x \notin S \cup late => x \in Frontier'
        <4> SUFFICES ASSUME NEW m \in Levels, x \in buffer[m].items, x \notin S \cup late
                     PROVE  x \in buffer'[m].items
          BY <3>1, FrontierFacts
        <4> QED
          BY <1>1, <1>4
      <3>4. id \in Frontier'
        BY <1>1, <1>4 DEF Frontier
      <3> QED
        BY <3>2, <3>3, <3>4
    <2> QED
      BY <2>1
  <1>7. \A x \in Nodes : FoldedInto'[x] = IF x \in S THEN {id} ELSE FoldedInto[x]
    <2> SUFFICES ASSUME NEW x \in Nodes
                 PROVE  FoldedInto'[x] = IF x \in S THEN {id} ELSE FoldedInto[x]
      OBVIOUS
    <2>1. FoldedInto'[x] = {s.id : s \in {t \in summaries' : x \in t.children}}
      BY DEF FoldedInto
    <2>2. CASE x \in S
      <3>1. \A s \in summaries : x \notin s.children
        BY <1>5, <2>2, FoldedFacts DEF FoldInv
      <3>2. {t \in summaries' : x \in t.children} = {new}
        BY <1>2, <2>2, <3>1
      <3>3. FoldedInto'[x] = {s.id : s \in {new}}
        BY <2>1, <3>2
      <3>4. {s.id : s \in {new}} = {new.id} /\ new.id = id
        OBVIOUS
      <3> QED
        BY <2>2, <3>3, <3>4
    <2>3. CASE x \notin S
      <3>1. {t \in summaries' : x \in t.children} = {t \in summaries : x \in t.children}
        BY <1>2, <2>3
      <3> QED
        BY <2>1, <2>3, <3>1, FoldedFacts
    <2> QED
      BY <2>2, <2>3
  <1>8. FoldedInto' = [x \in Nodes |-> IF x \in S THEN {id} ELSE FoldedInto[x]]
    <2>1. FoldedInto' = [x \in Nodes |-> FoldedInto'[x]]
      BY DEF FoldedInto
    <2> QED
      BY <1>7, <2>1
  <1>9. Tree!Fold(S, late, id)
    BY <1>1, <1>3, <1>l, <1>b, <1>6, <1>8 DEF Tree!Fold
  <1>10. FoldInv'
    <2>1. \A l \in Leaves : chunk'[l] # "buffered" => l \notin Frontier' /\ FoldedInto'[l] = {}
      BY <1>2, <1>3, <1>5, <1>6, <1>7 DEF FoldInv, Nodes
    <2>2. \A x \in Frontier' : FoldedInto'[x] = {} /\ (x \in Ids => x <= minted')
      <3> SUFFICES ASSUME NEW x \in Frontier'
                   PROVE  FoldedInto'[x] = {} /\ (x \in Ids => x <= minted')
        OBVIOUS
      <3>1. CASE x = id
        <4>1. id \notin S
          BY <1>3, <1>5
        <4> QED
          BY <1>2, <1>3, <1>7, <3>1, <4>1
      <3>2. CASE x # id
        <4>1. x \in Frontier /\ x \notin S /\ x \in Nodes
          BY <1>6, <3>2, FrontierNodes
        <4>2. FoldedInto[x] = {} /\ (x \in Ids => x <= minted)
          BY <4>1 DEF FoldInv
        <4> QED
          BY <1>2, <1>7, <4>1, <4>2 DEF Ids
      <3> QED
        BY <3>1, <3>2
    <2>3. \A s \in summaries' : \A x \in s.children : x \in Ids => x <= minted'
      <3>1. \A s \in summaries : \A x \in s.children : x \in Ids => x <= minted
        BY DEF FoldInv
      <3>2. \A x \in S : x \in Ids => x <= minted
        BY <1>5 DEF FoldInv
      <3>3. \A x \in Ids : x <= minted => x <= minted'
        BY <1>2 DEF Ids
      <3>4. new.children = S
        OBVIOUS
      <3> QED
        BY <1>2, <3>1, <3>2, <3>3, <3>4
    <2>4. \A k, m \in Levels : k # m => buffer'[k].items \cap buffer'[m].items = {}
      <3>1. \A m \in Levels : id \notin buffer[m].items
        BY <1>3, FrontierFacts
      <3>2. \A k, m \in Levels : k # m => buffer[k].items \cap buffer[m].items = {}
        BY DEF FoldInv
      <3>3. \A m \in Levels : \/ m = n /\ buffer'[m].items = {}
                              \/ m = n + 1 /\ buffer'[m].items = buffer[m].items \cup {id}
                              \/ m # n + 1 /\ buffer'[m].items = buffer[m].items
        BY <1>1, <1>4
      <3> QED
        BY <3>1, <3>2, <3>3
    <2>5. ASSUME NEW v \in Workers, task'[v].step = "sealing"
          PROVE  task'[v].buf.items \subseteq buffer'[task'[v].job.on].items
                   /\ task'[v].buf.items # {}
      <3>1. v # w /\ task'[v] = task[v]
        BY <1>1, <2>5
      <3>2. /\ task[v].job.on \in Levels \ {n} /\ task[v].buf.items # {}
            /\ task[v].buf.items \subseteq buffer[task[v].job.on].items
        BY <1>v, <2>5, <3>1
      <3>3. buffer[task[v].job.on].items \subseteq buffer'[task[v].job.on].items
        BY <1>4, <3>2
      <3> QED
        BY <3>1, <3>2, <3>3
    <2> QED
      BY <1>2, <2>1, <2>2, <2>3, <2>4, <2>5 DEF FoldInv
  <1> QED
    BY <1>1, <1>2, <1>l, <1>9, <1>10

(* The other steps of a worker: some take a batch, some put it back. *)
LEMMA FoldWorker ==
  ASSUME TypeInv, OnceInv, FoldInv, NEW w \in Workers,
         Handle(w) \/ HandlerFails(w) \/ \E k \in JobKeys : Claim(w, k),
         ~AppendCommits(w), ~SealCommits(w)
  PROVE  /\ FoldInv' /\ UNCHANGED <<Frontier, FoldedInto>>
         /\ \/ Batches' = Batches
            \/ \E S \in SUBSET Tree!Open : S # {} /\ Batches' = Batches \cup {S}
            \/ \E S \in Batches : Batches' = Batches \ {S}
  <1>t. /\ task \in [Workers -> Task] /\ resets' = resets
        /\ \A v \in Workers \ {w} : task'[v] = task[v]
    BY WorkerRows DEF TypeInv, TypeOK
  <1>1. /\ UNCHANGED <<buffer, summaries, minted, rpc>>
        /\ ExtractCommits(w) \/ UNCHANGED chunk
    BY DEF Handle, ExtractCommits, ExtractReturns, SealReads, FlushFindsStale, FlushFindsNothing,
           FlushEnqueues, Settle, HandlerFails, Claim, tables
  <1>2. \A l \in Leaves : chunk'[l] # "buffered" => chunk[l] # "buffered"
    <2>1. CASE UNCHANGED chunk
      BY <2>1
    <2>2. CASE ExtractCommits(w)
      <3> DEFINE m == task[w].job.on
      <3>1. /\ m \in Leaves /\ task[w].step = "claimed" /\ Busy(w)
            /\ chunk' = [chunk EXCEPT ![m] = "admitted"] \/ chunk' = [chunk EXCEPT ![m] = "dropped"]
        BY <1>t, <2>2, KeyKinds DEF ExtractCommits, Steps, Of, Task, Busy
      <3>2. task[w].job = Extract(m)
        BY <2>2, <3>1, KeyOf DEF ExtractCommits, Of, OnceInv, StepKinds
      <3>3. chunk[m] # "buffered"
        BY <3>1, <3>2 DEF OnceInv, LeafAt, At
      <3> QED
        BY <3>1, <3>3 DEF TypeInv, TypeOK, TablesTyped
    <2> QED
      BY <1>1, <2>1, <2>2
  <1> DEFINE n == task[w].job.on
             B == buffer[n].items
  <1>3. \/ task'[w].step # "sealing"
        \/ /\ task'[w].step = "sealing" /\ task[w].step = "claimed" /\ Of(w, "seal")
           /\ B # {} /\ task'[w].buf.items = B /\ task'[w].job = task[w].job
    <2>1. CASE SealReads(w)
      <3>1. CASE task' = [task EXCEPT ![w].step = "settling"]
        BY <1>t, <3>1 DEF Task
      <3>2. CASE /\ buffer[task[w].job.on].items # {}
                 /\ task' = [task EXCEPT ![w].step = "sealing",
                                         ![w].buf = buffer[task[w].job.on]]
        BY <1>t, <2>1, <3>2 DEF SealReads, Task
      <3> QED
        BY <2>1, <3>1, <3>2 DEF SealReads
    <2>2. CASE ExtractCommits(w) \/ ExtractReturns(w) \/ FlushFindsNothing(w) \/ FlushEnqueues(w)
      <3>1. \E here, there \in {"claimed", "committed", "flushing", "settling"} :
              Steps(w, here, there)
        BY <2>2 DEF ExtractCommits, ExtractReturns, FlushFindsNothing, FlushEnqueues
      <3> QED
        BY <3>1, TaskMoves
    <2>3. CASE HandlerFails(w) \/ FlushFindsStale(w)
      BY <2>3, TaskMoves
    <2>4. CASE Settle(w) \/ \E k \in JobKeys : Claim(w, k)
      BY <1>t, <2>4 DEF Settle, Claim, Idle
    <2> QED
      BY <2>1, <2>2, <2>3, <2>4 DEF Handle
  <1>4. FoldInv' /\ UNCHANGED <<Frontier, FoldedInto>>
    <2>1. rpc'.step = "idle"
      BY <1>1 DEF FoldInv
    <2>2. ASSUME NEW v \in Workers, task'[v].step = "sealing"
          PROVE  /\ task'[v].buf.items \subseteq buffer[task'[v].job.on].items
                 /\ task'[v].buf.items # {}
      <3>1. CASE v = w
        BY <1>3, <2>2, <3>1
      <3>2. CASE v # w
        BY <1>t, <2>2, <3>2 DEF FoldInv
      <3> QED
        BY <3>1, <3>2
    <2> QED
      BY <1>1, <1>2, <2>1, <2>2, FoldKept
  <1>v. ASSUME NEW S
        PROVE  S \in Batches' <=>
                 \/ \E v \in Workers \ {w} : task[v].step = "sealing" /\ S = task[v].buf.items
                 \/ task'[w].step = "sealing" /\ S = task'[w].buf.items
    BY <1>t DEF Batches
  <1>5. CASE task'[w].step = "sealing"
    <2>1. Batches' = Batches \cup {B}
      BY <1>3, <1>5, <1>v, BatchFacts
    <2>2. n \in Levels /\ Busy(w) /\ task[w].job = Seal(n)
      <3>1. Busy(w) /\ task[w].job \in JobKeys
        BY <1>3, <1>5 DEF Busy, OnceInv, StepKinds
      <3> QED
        BY <1>3, <1>5, <3>1, KeyOf, LevelFacts DEF Of
    <2>3. \A v \in Workers : task[v].step = "sealing" => task[v].job.on # n
      <3> SUFFICES ASSUME NEW v \in Workers, task[v].step = "sealing", task[v].job.on = n
                   PROVE  FALSE
        OBVIOUS
      <3>1. Busy(v) /\ task[v].job \in JobKeys /\ task[v].job.kind = "seal"
        BY DEF Busy, OnceInv, StepKinds, TypeInv, SealsBelowTop
      <3>2. task[v].job = Seal(n)
        BY <3>1, KeyOf
      <3> QED
        BY <1>3, <1>5, <2>2, <3>1, <3>2 DEF OnceInv, Owned
    <2>4. B \subseteq Tree!Open
      BY <2>2, <2>3, OpenItems
    <2> QED
      BY <1>3, <1>4, <1>5, <2>1, <2>4
  <1>6. CASE task'[w].step # "sealing" /\ task[w].step # "sealing"
    <2>1. \A S : S \in Batches' <=> S \in Batches
      BY <1>6, <1>v, BatchFacts
    <2> QED
      BY <1>4, <2>1, Zenon
  <1>7. CASE task'[w].step # "sealing" /\ task[w].step = "sealing"
    <2> DEFINE S == task[w].buf.items
    <2>1. S \in Batches
      BY <1>7, BatchFacts
    <2>2. ASSUME NEW v \in Workers \ {w}, task[v].step = "sealing" PROVE task[v].buf.items # S
      <3>1. task[v].job.on # n
        BY <1>7, <2>2, OneSealer
      <3> QED
        BY <1>7, <2>2, <3>1, BatchesOpen DEF FoldInv
    <2>3. ASSUME NEW T PROVE T \in Batches' <=> T \in Batches \ {S}
      BY <1>7, <1>v, <2>2, BatchFacts
    <2>4. Batches' = Batches \ {S}
      BY <2>3
    <2> QED
      BY <1>4, <2>1, <2>4
  <1> QED
    BY <1>5, <1>6, <1>7

(* Everybody else, when flush_source_tree is not called. *)
LEMMA FoldOthers ==
  ASSUME TypeInv, FoldInv,
         (\E l \in Leaves : Ingest(l)) \/ EnqueueFlush \/ RetryFailed \/ UNCHANGED vars
  PROVE  FoldInv' /\ UNCHANGED <<Frontier, Batches, FoldedInto>>
  <1>1. UNCHANGED <<buffer, summaries, minted, rpc, task>>
    BY DEF Ingest, EnqueueFlush, RetryFailed, vars, tables
  <1>2. \A l \in Leaves : chunk'[l] # "buffered" => chunk[l] # "buffered"
    <2>1. CASE UNCHANGED chunk
      BY <2>1
    <2>2. ASSUME NEW m \in Leaves, Ingest(m)
          PROVE  \A l \in Leaves : chunk'[l] # "buffered" => chunk[l] # "buffered"
      BY <2>2 DEF Ingest, TypeInv, TypeOK, TablesTyped
    <2> QED
      BY <2>1, <2>2 DEF EnqueueFlush, RetryFailed, vars, tables
  <1>3. Batches' = Batches
    BY <1>1 DEF Batches
  <1> QED
    BY <1>1, <1>2, <1>3, FoldKept DEF FoldInv

LEMMA FoldStep ==
  ASSUME Once, UserFlushes = FALSE, TypeInv, OnceInv, FoldInv, [Next]_vars
  PROVE  FoldInv' /\ [Tree!Next]_<<Frontier, Batches, FoldedInto>>
  <1>1. ~Interrupt /\ ~ResetDeletes /\ ~ResetRequeues
    BY DEF Interrupt, ResetDeletes, ResetRequeues, OnceInv, Once
  <1>2. ~FlushCalled /\ ~CascadeReads /\ ~CascadeCommits /\ ~CascadeFails
    BY NoCascade DEF FoldInv
  <1>3. ASSUME NEW w \in Workers,
               Handle(w) \/ HandlerFails(w) \/ \E k \in JobKeys : Claim(w, k)
        PROVE  FoldInv' /\ [Tree!Next]_<<Frontier, Batches, FoldedInto>>
    <2>1. CASE AppendCommits(w)
      BY <2>1, FoldAppend DEF Tree!Next
    <2>2. CASE SealCommits(w)
      BY <2>2, FoldSeal DEF Tree!Next
    <2>3. CASE ~AppendCommits(w) /\ ~SealCommits(w)
      <3>1. /\ FoldInv' /\ UNCHANGED <<Frontier, FoldedInto>>
            /\ \/ Batches' = Batches
               \/ \E S \in SUBSET Tree!Open : S # {} /\ Batches' = Batches \cup {S}
               \/ \E S \in Batches : Batches' = Batches \ {S}
        BY <1>3, <2>3, FoldWorker
      <3> QED
        BY <3>1 DEF Tree!Next, Tree!Take, Tree!PutBack
    <2> QED
      BY <2>1, <2>2, <2>3
  <1> QED
    BY <1>1, <1>2, <1>3, FoldOthers DEF Next

(* With any number of workers, and as long as no extraction is repeated, every
   node is put on the frontier once, is in one batch at a time and leaves it
   once, into the summary that lists it or with the buffer a seal clears: no
   node is summarised twice.  The pipeline implements SummaryTree. *)
THEOREM Refinement ==
  ASSUME Once, UserFlushes = FALSE
  PROVE  Spec => FoldsOnce
  <1>1. Init => Tree!Init /\ FoldInv
    <2> SUFFICES ASSUME Init PROVE Tree!Init /\ FoldInv
      OBVIOUS
    <2>1. \A n \in Levels : buffer[n].items = {}
      BY DEF Init, EmptyBuffer
    <2>2. Frontier = {}
      BY <2>1 DEF Frontier
    <2>3. FoldedInto = [x \in Nodes |-> {}]
      BY DEF Init, FoldedInto
    <2>4. \A w \in Workers : task[w].step # "sealing"
      BY DEF Init, Idle
    <2>5. Batches = {}
      BY <2>4 DEF Batches
    <2> QED
      BY <2>1, <2>2, <2>3, <2>4, <2>5 DEF Init, NoCall, Tree!Init, FoldInv, Nodes
  <1>2. TypeInv /\ OnceInv /\ FoldInv /\ [Next]_vars =>
          FoldInv' /\ [Tree!Next]_<<Frontier, Batches, FoldedInto>>
    BY FoldStep
  <1>3. TypeInv /\ OnceInv /\ [Next]_vars => OnceInv'
    BY OnceInvStep
  <1>4. Spec => []OnceInv
    BY <1>3, OnceInvInit, Typed, PTL DEF Spec
  <1>5. Spec => []FoldInv
    BY <1>1, <1>2, <1>4, Typed, PTL DEF Spec
  <1> QED
    BY <1>1, <1>2, <1>4, <1>5, Typed, PTL DEF Spec, FoldsOnce, Tree!Spec
=============================================================================
