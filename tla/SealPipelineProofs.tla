------------------------- MODULE SealPipelineProofs -------------------------
(***************************************************************************)
(* Proofs about SealPipeline, for any leaves, workers, weights and bounds. *)
(***************************************************************************)
EXTENDS SealPipeline, TLAPS

-----------------------------------------------------------------------------
(* Types. *)

LEMMA LevelFacts ==
  ASSUME NEW n \in 0..(TopLevel - 1)
  PROVE  n \in Levels /\ n + 1 \in Levels /\ n + 1 \in Nat /\ n + 1 > 0
  BY BoundsAssumption DEF Levels

LEMMA EmptyBufferType == EmptyBuffer \in Buffer
  BY DEF EmptyBuffer, Buffer

(* A leaf and a summary weigh a number of tokens. *)
LEMMA WeightType == \A x \in Nodes : Weight(x) \in Nat
  BY TokensAssumption DEF Weight

(* Pushing and clearing keep a buffer a buffer. *)
LEMMA BufferTypes ==
  ASSUME NEW buf \in Buffer, NEW x \in Nodes, NEW t \in Nat
  PROVE  Pushed(buf, x, t) \in Buffer /\ Cleared(buf) \in Buffer
  <1>1. buf.tokens + t \in Nat /\ buf.items \cup {x} \in SUBSET Nodes
    BY DEF Buffer
  <1> QED
    BY <1>1, EmptyBufferType DEF Pushed, Cleared, Buffer

LEMMA KeyTypes ==
  /\ \A l \in Leaves : Extract(l) \in JobKeys /\ AppendOf(l) \in JobKeys
  /\ \A n \in 0..(TopLevel - 1) : Seal(n) \in JobKeys
  /\ Flush \in JobKeys
  BY DEF JobKeys, Extract, AppendOf, Seal, Flush

(* What a job of each kind is about. *)
LEMMA KeyKinds ==
  ASSUME NEW k \in JobKeys \cup {NoJob}
  PROVE  /\ k.kind \in {"extract_chunk", "append_buffer"} => k.on \in Leaves
         /\ k.kind = "seal" => k.on \in 0..(TopLevel - 1)
         /\ k.kind # "none" => k \in JobKeys
  BY DEF JobKeys, NoJob

LEMMA EnqueuedType ==
  ASSUME QueueTyped, NEW K
  PROVE  Enqueued(K) \in [JobKeys -> {"none", "ready", "running"}]
  BY DEF Enqueued, QueueTyped

LEMMA EnqueueSealsType ==
  ASSUME QueueTyped, NEW N \in SUBSET Levels, NEW force, EnqueueSeals(N, force)
  PROVE  QueueTyped'
  BY EnqueuedType DEF EnqueueSeals, QueueTyped, givenUp

LEMMA GiveUpType ==
  ASSUME QueueTyped, NEW k, GiveUp(k), UNCHANGED forced
  PROVE  QueueTyped'
  <1>1. failed' \in [JobKeys -> Nat]
    <2>1. failed' = [failed EXCEPT ![k] = failed[k] + 1] /\ failed \in [JobKeys -> Nat]
      BY DEF GiveUp, QueueTyped
    <2>2. CASE k \in JobKeys
      BY <2>1, <2>2
    <2>3. CASE k \notin JobKeys
      BY <2>1, <2>3
    <2> QED
      BY <2>2, <2>3
  <1>2. failedForced' \subseteq Levels
    BY DEF GiveUp, QueueTyped
  <1> QED
    BY <1>1, <1>2 DEF GiveUp, QueueTyped

(* The write transaction of a seal, by the handler or by the RPC's cascade. *)
LEMMA CommitType ==
  ASSUME TypeOK, NEW n \in 0..(TopLevel - 1), NEW S \in SUBSET Nodes, NEW f,
         CommitSeal(n, S, f)
  PROVE  TablesTyped' /\ QueueTyped'
  <1> DEFINE id == minted + 1
             up == Pushed(buffer[n + 1], id, 1)
  <1>1. id \in Ids /\ id \in Nat /\ id \in Nodes
    BY DEF CommitSeal, TypeOK, TablesTyped, Nodes
  <1>2. up \in Buffer /\ Cleared(buffer[n]) \in Buffer
    BY <1>1, LevelFacts, BufferTypes DEF TypeOK, TablesTyped
  <1>3. chunk' = chunk /\ minted' \in Nat
    BY <1>1 DEF CommitSeal
  <1>4. parent' \in [Nodes -> Ids \cup {NoId}]
    BY <1>1 DEF CommitSeal, Backlinked, TypeOK, TablesTyped
  <1>5. buffer' \in [Levels -> Buffer]
    <2>1. buffer' = [buffer EXCEPT ![n] = Cleared(@), ![n + 1] = up]
      BY DEF CommitSeal
    <2> QED
      BY <2>1, <1>2 DEF TypeOK, TablesTyped
  <1>6. summaries' \subseteq Summary
    <2>1. [id |-> id, level |-> n + 1, children |-> S] \in Summary
      BY <1>1, LevelFacts DEF Summary
    <2> QED
      BY <2>1 DEF CommitSeal, TypeOK, TablesTyped
  <1>7. root' \in [id: Ids \cup {NoId}, level: Nat]
    BY <1>1, LevelFacts DEF CommitSeal, RootAfter, TypeOK, TablesTyped
  <1>8. QueueTyped'
    <2>1. CASE UNCHANGED queue
      BY <2>1 DEF queue, givenUp, TypeOK, QueueTyped
    <2>2. CASE EnqueueSeals({n + 1}, FALSE)
      BY <2>2, LevelFacts, EnqueueSealsType DEF TypeOK
    <2> QED
      BY <2>1, <2>2 DEF CommitSeal
  <1> QED
    BY <1>3, <1>4, <1>5, <1>6, <1>7, <1>8 DEF TypeOK, TablesTyped

(* The steps that leave tables and queue alone keep them typed. *)
LEMMA QuietTypes ==
  ASSUME TypeOK PROVE /\ UNCHANGED tables => TablesTyped'
                      /\ UNCHANGED queue => QueueTyped'
  BY DEF TypeOK, tables, queue, givenUp, TablesTyped, QueueTyped

(* What the producers write is typed. *)
LEMMA ProducerTypes ==
  ASSUME TypeOK,
         (\E l \in Leaves : Ingest(l)) \/ EnqueueFlush \/ RetryFailed
  PROVE  TypeOK'
  <1>1. ASSUME NEW l \in Leaves, Ingest(l) PROVE TypeOK'
    <2>1. QueueTyped'
      BY <1>1, EnqueuedType DEF Ingest, givenUp, TypeOK, QueueTyped
    <2> QED
      BY <1>1, <2>1 DEF Ingest, TypeOK, TablesTyped
  <1>2. CASE EnqueueFlush
    <2>1. QueueTyped'
      BY <1>2, EnqueuedType DEF EnqueueFlush, givenUp, TypeOK, QueueTyped
    <2> QED
      BY <1>2, <2>1, QuietTypes DEF EnqueueFlush, TypeOK
  <1>3. CASE RetryFailed
    <2>1. QueueTyped'
      BY <1>3 DEF RetryFailed, TypeOK, QueueTyped
    <2> QED
      BY <1>3, <2>1, QuietTypes DEF RetryFailed, TypeOK
  <1> QED
    BY <1>1, <1>2, <1>3

LEMMA IdleTypes == Idle \in Task /\ NoCall \in Call
  <1>1. 0 \in Levels
    BY BoundsAssumption DEF Levels
  <1> QED
    BY <1>1, EmptyBufferType DEF Idle, NoCall, Task, Call

(* A task that seals has a seal job, and the cascade seals below the top. *)
SealsBelowTop ==
    /\ \A w \in Workers : task[w].step = "sealing" => task[w].job.kind = "seal"
    /\ rpc.step = "sealing" => rpc.level < TopLevel

(* A worker's steps keep the types. *)
LEMMA WorkerTypes ==
  ASSUME TypeOK, SealsBelowTop, NEW w \in Workers,
         Handle(w) \/ HandlerFails(w) \/ \E k \in JobKeys : Claim(w, k)
  PROVE  TypeOK'
  <1>t. /\ task \in [Workers -> Task] /\ task[w] \in Task
        /\ task[w].job \in JobKeys \cup {NoJob} /\ task[w].buf \in Buffer
    BY DEF TypeOK, Task
  <1>s. \A s \in {"idle", "claimed", "committed", "sealing", "flushing", "settling", "failing"} :
          [task EXCEPT ![w].step = s] \in [Workers -> Task]
    BY <1>t DEF Task
  <1>1. ASSUME NEW k \in JobKeys, Claim(w, k) PROVE TypeOK'
    <2>1. QueueTyped'
      BY <1>1 DEF Claim, givenUp, TypeOK, QueueTyped
    <2>2. [step |-> "claimed", job |-> k, row |-> resets, buf |-> EmptyBuffer, tree |-> resets]
            \in Task
      BY EmptyBufferType DEF Task, TypeOK
    <2> QED
      BY <1>1, <2>1, <2>2, QuietTypes DEF Claim, TypeOK
  <1>2. CASE ExtractCommits(w)
    <2>1. task[w].job.on \in Leaves
      BY <1>2, <1>t, KeyKinds DEF ExtractCommits, Of
    <2>2. QueueTyped'
      BY <1>2, EnqueuedType DEF ExtractCommits, givenUp, TypeOK, QueueTyped
    <2>3. TablesTyped'
      BY <1>2, <2>1 DEF ExtractCommits, TypeOK, TablesTyped
    <2> QED
      BY <1>2, <1>s, <2>2, <2>3 DEF ExtractCommits, Steps, TypeOK
  <1>3. CASE AppendCommits(w)
    <2>1. task[w].job.on \in Leaves /\ task[w].job.on \in Nodes
      BY <1>3, <1>t, KeyKinds DEF AppendCommits, Of, Nodes
    <2>2. 0 \in Levels
      BY BoundsAssumption DEF Levels
    <2>3. Pushed(buffer[0], task[w].job.on, Weight(task[w].job.on)) \in Buffer
      BY <2>1, <2>2, WeightType, BufferTypes DEF TypeOK, TablesTyped
    <2>4. QueueTyped'
      BY <1>3, <2>2, EnqueueSealsType, QuietTypes DEF AppendCommits, TypeOK
    <2>5. TablesTyped'
      BY <1>3, <2>1, <2>2, <2>3 DEF AppendCommits, TypeOK, TablesTyped
    <2> QED
      BY <1>3, <1>s, <2>4, <2>5 DEF AppendCommits, Steps, TypeOK
  <1>4. CASE SealReads(w)
    <2>1. task[w].job.on \in Levels
      BY <1>4, <1>t, KeyKinds, LevelFacts DEF SealReads, Of
    <2>2. [task EXCEPT ![w].step = "sealing", ![w].buf = buffer[task[w].job.on]]
            \in [Workers -> Task]
      BY <1>t, <2>1 DEF Task, TypeOK, TablesTyped
    <2> QED
      BY <1>4, <1>s, <2>2, QuietTypes DEF SealReads, TypeOK
  <1>5. CASE SealCommits(w)
    <2>1. task[w].job.on \in 0..(TopLevel - 1) /\ task[w].buf.items \in SUBSET Nodes
      BY <1>5, <1>t, KeyKinds DEF SealCommits, SealsBelowTop, Buffer
    <2>2. TablesTyped' /\ QueueTyped'
      BY <1>5, <2>1, CommitType DEF SealCommits
    <2>3. task' \in [Workers -> Task]
      BY <1>5, <1>t, EmptyBufferType DEF SealCommits, Task
    <2> QED
      BY <1>5, <2>2, <2>3 DEF SealCommits, TypeOK
  <1>6. CASE ExtractReturns(w) \/ FlushFindsNothing(w)
    BY <1>6, <1>s, QuietTypes DEF ExtractReturns, FlushFindsNothing, Steps, TypeOK
  <1>7. CASE FlushFindsStale(w)
    <2>1. task' \in [Workers -> Task]
      BY <1>7, <1>t DEF FlushFindsStale, Task, TypeOK
    <2> QED
      BY <1>7, <2>1, QuietTypes DEF FlushFindsStale, TypeOK
  <1>8. CASE FlushEnqueues(w)
    <2>1. {0} \in SUBSET Levels
      BY BoundsAssumption DEF Levels
    <2>2. QueueTyped'
      BY <1>8, <2>1, EnqueueSealsType, QuietTypes DEF FlushEnqueues, TypeOK
    <2> QED
      BY <1>8, <1>s, <2>2, QuietTypes DEF FlushEnqueues, Steps, TypeOK
  <1>9. CASE Settle(w)
    <2>1. QueueTyped'
      <3>1. CASE GiveUp(task[w].job)
        BY <1>9, <3>1, GiveUpType DEF Settle, TypeOK
      <3>2. CASE ~GiveUp(task[w].job)
        BY <1>9, <3>2 DEF Settle, givenUp, TypeOK, QueueTyped
      <3> QED
        BY <3>1, <3>2
    <2>2. task' \in [Workers -> Task]
      BY <1>9, IdleTypes DEF Settle, TypeOK
    <2> QED
      BY <1>9, <2>1, <2>2, QuietTypes DEF Settle, TypeOK
  <1>10. CASE HandlerFails(w)
    <2>1. task' \in [Workers -> Task]
      BY <1>10, <1>t, EmptyBufferType DEF HandlerFails, Task
    <2>2. faults' \in Nat
      BY <1>10 DEF HandlerFails, TypeOK
    <2> QED
      BY <1>10, <2>1, <2>2, QuietTypes DEF HandlerFails, TypeOK
  <1> QED
    BY <1>1, <1>2, <1>3, <1>4, <1>5, <1>6, <1>7, <1>8, <1>9, <1>10 DEF Handle

(* The calls of flush_source_tree keep the types. *)
LEMMA RpcTypes ==
  ASSUME TypeOK, SealsBelowTop, FlushCalled \/ CascadeReads \/ CascadeCommits \/ CascadeFails
  PROVE  TypeOK'
  <1>1. CASE FlushCalled
    <2>1. rpc' \in Call
      BY <1>1, EmptyBufferType, BoundsAssumption DEF FlushCalled, Call, Levels, TypeOK
    <2> QED
      BY <1>1, <2>1, QuietTypes DEF FlushCalled, TypeOK
  <1>2. CASE CascadeReads
    <2>1. buffer[rpc.level] \in Buffer
      BY DEF TypeOK, TablesTyped, Call
    <2>2. \A b \in Buffer : [rpc EXCEPT !.step = "sealing", !.buf = b] \in Call
      BY DEF TypeOK, Call
    <2>3. rpc' \in Call
      BY <1>2, <2>1, <2>2, EmptyBufferType, IdleTypes DEF CascadeReads
    <2> QED
      BY <1>2, <2>3, QuietTypes DEF CascadeReads, TypeOK
  <1>3. CASE CascadeCommits
    <2>1. rpc.level \in 0..(TopLevel - 1) /\ rpc.buf.items \in SUBSET Nodes
      BY <1>3, BoundsAssumption DEF CascadeCommits, SealsBelowTop, TypeOK, Call, Levels, Buffer
    <2>2. TablesTyped' /\ QueueTyped'
      BY <1>3, <2>1, CommitType DEF CascadeCommits
    <2>3. rpc' \in Call
      BY <1>3, <2>1, LevelFacts, EmptyBufferType DEF CascadeCommits, ForceNext, TypeOK, Call
    <2> QED
      BY <1>3, <2>2, <2>3 DEF CascadeCommits, TypeOK
  <1>4. CASE CascadeFails
    <2>1. faults' \in Nat
      BY <1>4 DEF CascadeFails, TypeOK
    <2> QED
      BY <1>4, <2>1, IdleTypes, QuietTypes DEF CascadeFails, TypeOK
  <1> QED
    BY <1>1, <1>2, <1>3, <1>4

(* The reset and the end of a process keep the types. *)
LEMMA ProcessTypes ==
  ASSUME TypeOK, ResetDeletes \/ ResetRequeues \/ Interrupt
  PROVE  TypeOK'
  <1>1. CASE ResetDeletes
    <2>1. TablesTyped' /\ QueueTyped'
      BY <1>1, EmptyBufferType DEF ResetDeletes, RootAfterReset, TypeOK, TablesTyped, QueueTyped
    <2> QED
      BY <1>1, <2>1 DEF ResetDeletes, TypeOK
  <1>2. CASE ResetRequeues
    <2>1. TablesTyped'
      BY <1>2 DEF ResetRequeues, TypeOK, TablesTyped
    <2>2. QueueTyped'
      BY <1>2, EnqueuedType DEF ResetRequeues, givenUp, TypeOK, QueueTyped
    <2> QED
      BY <1>2, <2>1, <2>2 DEF ResetRequeues, TypeOK
  <1>3. CASE Interrupt
    <2>1. QueueTyped'
      BY <1>3 DEF Interrupt, givenUp, TypeOK, QueueTyped
    <2>2. task' \in [Workers -> Task] /\ rpc' \in Call
      BY <1>3, IdleTypes DEF Interrupt
    <2>3. TablesTyped'
      BY <1>3, QuietTypes DEF Interrupt
    <2>4. interruptions' \in Nat /\ resets' \in Nat /\ faults' \in Nat
      BY <1>3 DEF Interrupt, TypeOK
    <2>5. active' \in BOOLEAN /\ resetting' \in BOOLEAN
      BY <1>3 DEF Interrupt
    <2> QED
      BY <2>1, <2>2, <2>3, <2>4, <2>5 DEF TypeOK
  <1> QED
    BY <1>1, <1>2, <1>3


(* The snapshot a seal commits stays that of a seal below the top. *)
LEMMA SealsBelowTopStep ==
  ASSUME TypeOK, SealsBelowTop, [Next]_vars
  PROVE  SealsBelowTop'
  <1>t. task \in [Workers -> Task]
    BY DEF TypeOK
  <1>1. ASSUME NEW w \in Workers,
               Handle(w) \/ HandlerFails(w) \/ \E k \in JobKeys : Claim(w, k)
        PROVE  SealsBelowTop'
    <2>1. rpc' = rpc
      BY <1>1 DEF Handle, ExtractCommits, ExtractReturns, AppendCommits, SealReads, SealCommits,
                  FlushFindsStale, FlushFindsNothing, FlushEnqueues, Settle, HandlerFails, Claim
    <2>2. ASSUME NEW v \in Workers, task'[v].step = "sealing"
          PROVE  task'[v].job.kind = "seal"
      <3>1. CASE SealReads(w)
        BY <1>t, <2>2, <3>1 DEF SealReads, Of, SealsBelowTop, Task
      <3>2. CASE \E k \in JobKeys : Claim(w, k)
        BY <1>t, <2>2, <3>2 DEF Claim, SealsBelowTop
      <3>3. CASE ExtractCommits(w) \/ ExtractReturns(w) \/ AppendCommits(w)
        BY <1>t, <2>2, <3>3 DEF ExtractCommits, ExtractReturns, AppendCommits, Steps,
                                 SealsBelowTop, Task
      <3>4. CASE SealCommits(w) \/ HandlerFails(w)
        BY <1>t, <2>2, <3>4 DEF SealCommits, HandlerFails, SealsBelowTop, Task
      <3>5. CASE FlushFindsStale(w) \/ FlushFindsNothing(w) \/ FlushEnqueues(w)
        BY <1>t, <2>2, <3>5 DEF FlushFindsStale, FlushFindsNothing, FlushEnqueues, Steps,
                                 SealsBelowTop, Task
      <3>6. CASE Settle(w)
        BY <1>t, <2>2, <3>6 DEF Settle, Idle, SealsBelowTop
      <3> QED
        BY <1>1, <3>1, <3>2, <3>3, <3>4, <3>5, <3>6 DEF Handle
    <2> QED
      BY <2>1, <2>2 DEF SealsBelowTop
  <1>2. ASSUME FlushCalled \/ CascadeReads \/ CascadeCommits \/ CascadeFails
        PROVE  SealsBelowTop'
    <2>1. task' = task
      BY <1>2 DEF FlushCalled, CascadeReads, CascadeCommits, CascadeFails
    <2>2. rpc'.step = "sealing" => rpc'.level < TopLevel
      <3>t. rpc \in Call
        BY DEF TypeOK
      <3>1. CASE FlushCalled \/ CascadeFails
        BY <3>1 DEF FlushCalled, CascadeFails, NoCall
      <3>2. CASE CascadeReads
        <4>1. CASE rpc' = NoCall
          BY <4>1 DEF NoCall
        <4>2. CASE \E b : rpc' = [rpc EXCEPT !.step = "sealing", !.buf = b] /\ rpc.level < TopLevel
          BY <3>t, <4>2 DEF Call
        <4> QED
          BY <3>2, <4>1, <4>2 DEF CascadeReads
      <3>3. CASE CascadeCommits
        BY <3>t, <3>3 DEF CascadeCommits, Call
      <3> QED
        BY <1>2, <3>1, <3>2, <3>3
    <2> QED
      BY <2>1, <2>2 DEF SealsBelowTop
  <1>3. CASE Interrupt
    BY <1>3 DEF Interrupt, SealsBelowTop, Idle, NoCall
  <1>4. ASSUME \/ (\E l \in Leaves : Ingest(l)) \/ EnqueueFlush \/ RetryFailed
               \/ ResetDeletes \/ ResetRequeues \/ UNCHANGED vars
        PROVE  SealsBelowTop'
    <2>1. UNCHANGED <<task, rpc>>
      BY <1>4 DEF Ingest, EnqueueFlush, RetryFailed, ResetDeletes, ResetRequeues, vars
    <2> QED
      BY <2>1 DEF SealsBelowTop
  <1> QED
    BY <1>1, <1>2, <1>3, <1>4 DEF Next

TypeInv == TypeOK /\ SealsBelowTop

LEMMA TypeInvStep == TypeInv /\ [Next]_vars => TypeInv'
  <1> SUFFICES ASSUME TypeOK, SealsBelowTop, [Next]_vars PROVE TypeOK'
    BY SealsBelowTopStep DEF TypeInv
  <1>1. CASE UNCHANGED vars
    <2>1. UNCHANGED tables /\ UNCHANGED queue
      BY <1>1 DEF vars
    <2> QED
      BY <1>1, <2>1, QuietTypes DEF vars, TypeOK
  <1>2. CASE Next
    BY <1>2, ProducerTypes, WorkerTypes, RpcTypes, ProcessTypes DEF Next
  <1> QED
    BY <1>1, <1>2

LEMMA TypeInvInit == Init => TypeInv
  <1> SUFFICES ASSUME Init PROVE TypeInv
    OBVIOUS
  <1>1. TablesTyped /\ QueueTyped
    BY EmptyBufferType DEF Init, TablesTyped, QueueTyped
  <1>2. task \in [Workers -> Task] /\ rpc \in Call
    BY IdleTypes DEF Init
  <1>3. SealsBelowTop
    BY DEF Init, SealsBelowTop, Idle, NoCall
  <1> QED
    BY <1>1, <1>2, <1>3 DEF Init, TypeInv, TypeOK

LEMMA Typed == Spec => []TypeInv
  BY TypeInvInit, TypeInvStep, PTL DEF Spec

(* Every handler, RPC and restart keeps the tables, the queue and the tasks
   in their types, whatever they had read before somebody else wrote. *)
THEOREM TypeCorrect == Spec => []TypeOK
  <1>1. TypeInv => TypeOK
    BY DEF TypeInv
  <1> QED
    BY <1>1, Typed, PTL

-----------------------------------------------------------------------------
(* The tree.  Only three steps write it. *)

LEMMA TreeSteps ==
  ASSUME [Next]_vars
  PROVE  \/ UNCHANGED <<parent, summaries, minted, root>>
         \/ \E w \in Workers : SealCommits(w)
         \/ CascadeCommits
         \/ ResetDeletes
  <1>1. ASSUME NEW w \in Workers,
               Handle(w) \/ HandlerFails(w) \/ \E k \in JobKeys : Claim(w, k)
        PROVE  UNCHANGED <<parent, summaries, minted, root>> \/ SealCommits(w)
    BY <1>1 DEF Handle, ExtractCommits, ExtractReturns, AppendCommits, SealReads,
                FlushFindsStale, FlushFindsNothing, FlushEnqueues, Settle, HandlerFails,
                Claim, tables
  <1>2. ASSUME \/ (\E l \in Leaves : Ingest(l)) \/ EnqueueFlush \/ RetryFailed
               \/ FlushCalled \/ CascadeReads \/ CascadeFails
               \/ ResetRequeues \/ Interrupt \/ UNCHANGED vars
        PROVE  UNCHANGED <<parent, summaries, minted, root>>
    BY <1>2 DEF Ingest, EnqueueFlush, RetryFailed, FlushCalled, CascadeReads, CascadeFails,
                ResetRequeues, Interrupt, vars, tables
  <1> QED
    BY <1>1, <1>2 DEF Next

(* What a commit is given: a level below the top and nodes. *)
LEMMA CommitArguments ==
  ASSUME TypeInv
  PROVE  /\ \A w \in Workers : SealCommits(w) =>
              task[w].job.on \in 0..(TopLevel - 1) /\ task[w].buf.items \in SUBSET Nodes
         /\ CascadeCommits =>
              rpc.level \in 0..(TopLevel - 1) /\ rpc.buf.items \in SUBSET Nodes
  <1>1. ASSUME NEW w \in Workers, SealCommits(w)
        PROVE  task[w].job.on \in 0..(TopLevel - 1) /\ task[w].buf.items \in SUBSET Nodes
    <2>1. task[w].job \in JobKeys \cup {NoJob} /\ task[w].buf \in Buffer
      BY DEF TypeInv, TypeOK, Task
    <2> QED
      BY <1>1, <2>1, KeyKinds DEF SealCommits, TypeInv, SealsBelowTop, Buffer
  <1>2. ASSUME CascadeCommits
        PROVE  rpc.level \in 0..(TopLevel - 1) /\ rpc.buf.items \in SUBSET Nodes
    BY <1>2, BoundsAssumption
       DEF CascadeCommits, TypeInv, SealsBelowTop, TypeOK, Call, Levels, Buffer
  <1> QED
    BY <1>1, <1>2

-----------------------------------------------------------------------------
(* The root. *)

(* RootIsHighest is inductive with the level of a tree that has no summary. *)
RootInv ==
    /\ RootIsHighest
    /\ summaries = {} => root.level = 0

LEMMA RootAfterCommit ==
  ASSUME TypeInv, RootInv, NEW n \in 0..(TopLevel - 1), NEW S, NEW f, CommitSeal(n, S, f)
  PROVE  RootInv'
  <1> DEFINE id == minted + 1
             new == [id |-> id, level |-> n + 1, children |-> S]
  <1>1. /\ summaries' = summaries \cup {new} /\ root' = RootAfter(id, n + 1)
        /\ n + 1 \in Nat /\ n + 1 > 0 /\ root.level \in Nat
        /\ \A s \in summaries : s.level \in Nat
    BY LevelFacts DEF CommitSeal, TypeInv, TypeOK, TablesTyped, Summary
  <1>2. CASE n + 1 > root.level
    <2>1. root' = [id |-> id, level |-> n + 1]
      BY <1>1, <1>2 DEF RootAfter
    <2>2. \A s \in summaries : s.level <= n + 1
      BY <1>1, <1>2 DEF RootInv, RootIsHighest
    <2>3. new \in summaries' /\ new.id = root'.id /\ new.level = root'.level
      BY <1>1, <2>1
    <2>4. \A s \in summaries' : s.level <= root'.level
      BY <1>1, <2>1, <2>2
    <2> QED
      BY <2>3, <2>4 DEF RootInv, RootIsHighest
  <1>3. CASE ~(n + 1 > root.level)
    <2>1. root' = root /\ n + 1 <= root.level
      BY <1>1, <1>3 DEF RootAfter
    <2>2. summaries # {}
      BY <1>1, <1>3 DEF RootInv
    <2>3. \E s \in summaries' : s.id = root'.id /\ s.level = root'.level
      BY <1>1, <2>1, <2>2 DEF RootInv, RootIsHighest
    <2>4. \A s \in summaries' : s.level <= root'.level
      BY <1>1, <2>1, <2>2 DEF RootInv, RootIsHighest
    <2> QED
      BY <2>3, <2>4 DEF RootInv, RootIsHighest
  <1> QED
    BY <1>2, <1>3

LEMMA RootInvStep == TypeInv /\ RootInv /\ [Next]_vars => RootInv'
  <1> SUFFICES ASSUME TypeInv, RootInv, [Next]_vars PROVE RootInv'
    OBVIOUS
  <1>1. CASE UNCHANGED <<parent, summaries, minted, root>>
    BY <1>1 DEF RootInv, RootIsHighest
  <1>2. ASSUME NEW w \in Workers, SealCommits(w) PROVE RootInv'
    BY <1>2, CommitArguments, RootAfterCommit DEF SealCommits
  <1>3. CASE CascadeCommits
    BY <1>3, CommitArguments, RootAfterCommit DEF CascadeCommits
  <1>4. CASE ResetDeletes
    BY <1>4 DEF ResetDeletes, RootAfterReset, RootInv, RootIsHighest
  <1> QED
    BY TreeSteps, <1>1, <1>2, <1>3, <1>4

(* The seal jobs of several workers, the cascades of flush_source_tree and
   reset_tree leave the tree row at a summary of the highest level, in
   whatever order they commit: update_tree_after_seal_tx never goes down. *)
THEOREM HighestRoot == Spec => []RootIsHighest
  <1>1. Init => RootInv
    BY DEF Init, RootInv, RootIsHighest
  <1>2. RootInv => RootIsHighest
    BY DEF RootInv
  <1> QED
    BY <1>1, <1>2, Typed, RootInvStep, PTL DEF Spec
-----------------------------------------------------------------------------

-----------------------------------------------------------------------------
(* Fan-in. *)

ForceAtL0 == forced \subseteq {0} /\ failedForced \subseteq {0}

(* UpperFanIn is inductive with what keeps the force at L0: no seal row above
   L0 carries it, a cascade has it in its first iteration only, and so a
   snapshot taken above L0 has its siblings, also while the buffer it was
   taken from is cleared by somebody else. *)
FanInv ==
    /\ UpperFanIn
    /\ ForceAtL0
    /\ rpc.force => rpc.level = 0
    /\ rpc.step = "sealing" /\ rpc.level # 0 => Cardinality(rpc.buf.items) >= Fanout
    /\ \A w \in Workers :
          task[w].step = "sealing" /\ task[w].job.on # 0 =>
              Cardinality(task[w].buf.items) >= Fanout

LEMMA EnqueueSealsForced ==
  ASSUME FanInv, NEW N, NEW force, EnqueueSeals(N, force), force => N = {0}
  PROVE  ForceAtL0'
  BY DEF EnqueueSeals, givenUp, ForceAtL0, FanInv

(* A commit of a snapshot that, above L0, has its siblings. *)
LEMMA FanInCommit ==
  ASSUME TypeInv, FanInv, NEW n \in 0..(TopLevel - 1), NEW S, NEW f, CommitSeal(n, S, f),
         n # 0 => Cardinality(S) >= Fanout
  PROVE  UpperFanIn' /\ ForceAtL0'
  <1> DEFINE new == [id |-> minted + 1, level |-> n + 1, children |-> S]
  <1>1. summaries' = summaries \cup {new}
    BY DEF CommitSeal
  <1>2. new.level >= 2 => Cardinality(new.children) >= Fanout
    BY BoundsAssumption
  <1>3. ForceAtL0'
    <2>1. CASE UNCHANGED queue
      BY <2>1 DEF queue, givenUp, ForceAtL0, FanInv
    <2>2. CASE EnqueueSeals({n + 1}, FALSE)
      BY <2>2, EnqueueSealsForced
    <2> QED
      BY <2>1, <2>2 DEF CommitSeal
  <1> QED
    BY <1>1, <1>2, <1>3 DEF UpperFanIn, FanInv

(* The snapshots of the workers. *)
LEMMA FanInWorker ==
  ASSUME TypeInv, FanInv, NEW w \in Workers,
         Handle(w) \/ HandlerFails(w) \/ \E k \in JobKeys : Claim(w, k)
  PROVE  FanInv'
  <1>t. task \in [Workers -> Task] /\ task[w].job \in JobKeys \cup {NoJob}
    BY DEF TypeInv, TypeOK, Task
  <1>r. rpc' = rpc
    BY DEF Handle, ExtractCommits, ExtractReturns, AppendCommits, SealReads, SealCommits,
           FlushFindsStale, FlushFindsNothing, FlushEnqueues, Settle, HandlerFails, Claim
  <1> DEFINE Snapshots ==
          \A v \in Workers : task'[v].step = "sealing" /\ task'[v].job.on # 0 =>
              Cardinality(task'[v].buf.items) >= Fanout
  <1>s. ASSUME UNCHANGED summaries, ForceAtL0', Snapshots PROVE FanInv'
    BY <1>r, <1>s DEF FanInv, ForceAtL0, UpperFanIn
  <1>1. CASE SealReads(w)
    <2>1. UNCHANGED <<summaries, forced, failedForced>>
      BY <1>1 DEF SealReads, tables, queue, givenUp
    <2>2. CASE task' = [task EXCEPT ![w].step = "settling"]
      BY <1>s, <1>t, <2>1, <2>2 DEF FanInv, ForceAtL0, Task
    <2>3. CASE /\ Seals(task[w].job.on)
               /\ task' = [task EXCEPT ![w].step = "sealing",
                                       ![w].buf = buffer[task[w].job.on]]
      <3>1. task[w].job.on # 0 => Cardinality(buffer[task[w].job.on].items) >= Fanout
        BY <2>3 DEF Seals, ShouldSeal, FanInv, ForceAtL0
      <3>2. Snapshots
        BY <1>t, <2>3, <3>1 DEF FanInv, Task
      <3> QED
        BY <1>s, <2>1, <3>2 DEF FanInv, ForceAtL0
    <2> QED
      BY <1>1, <2>2, <2>3 DEF SealReads
  <1>2. CASE SealCommits(w)
    <2>1. task[w].job.on # 0 => Cardinality(task[w].buf.items) >= Fanout
      BY <1>2 DEF SealCommits, FanInv
    <2>2. UpperFanIn' /\ ForceAtL0'
      BY <1>2, <2>1, CommitArguments, FanInCommit DEF SealCommits
    <2>3. Snapshots
      BY <1>t, <1>2 DEF SealCommits, FanInv, Task
    <2> QED
      BY <1>r, <2>2, <2>3 DEF FanInv
  <1>3. CASE AppendCommits(w)
    <2>1. ForceAtL0'
      BY <1>3, EnqueueSealsForced DEF AppendCommits, queue, givenUp, ForceAtL0, FanInv
    <2>2. Snapshots
      BY <1>t, <1>3 DEF AppendCommits, Steps, FanInv, Task
    <2> QED
      BY <1>s, <1>3, <2>1, <2>2 DEF AppendCommits
  <1>4. CASE FlushEnqueues(w)
    <2>1. ForceAtL0'
      BY <1>4, EnqueueSealsForced DEF FlushEnqueues, queue, givenUp, ForceAtL0, FanInv
    <2>2. Snapshots
      BY <1>t, <1>4 DEF FlushEnqueues, Steps, FanInv, Task
    <2> QED
      BY <1>s, <1>4, <2>1, <2>2 DEF FlushEnqueues, tables
  <1>5. CASE ExtractCommits(w) \/ ExtractReturns(w) \/ FlushFindsNothing(w)
    <2>1. UNCHANGED <<summaries, forced, failedForced>>
      BY <1>5 DEF ExtractCommits, ExtractReturns, FlushFindsNothing, tables, queue, givenUp
    <2>2. Snapshots
      BY <1>t, <1>5 DEF ExtractCommits, ExtractReturns, FlushFindsNothing, Steps, FanInv, Task
    <2> QED
      BY <1>s, <2>1, <2>2 DEF FanInv, ForceAtL0
  <1>6. CASE FlushFindsStale(w) \/ HandlerFails(w)
    <2>1. UNCHANGED <<summaries, forced, failedForced>>
      BY <1>6 DEF FlushFindsStale, HandlerFails, tables, queue, givenUp
    <2>2. Snapshots
      BY <1>t, <1>6 DEF FlushFindsStale, HandlerFails, FanInv, Task
    <2> QED
      BY <1>s, <2>1, <2>2 DEF FanInv, ForceAtL0
  <1>7. CASE Settle(w) \/ \E k \in JobKeys : Claim(w, k)
    <2>1. UNCHANGED summaries /\ ForceAtL0'
      BY <1>7 DEF Settle, Claim, GiveUp, givenUp, tables, FanInv, ForceAtL0
    <2>2. Snapshots
      BY <1>t, <1>7 DEF Settle, Claim, Idle, FanInv
    <2> QED
      BY <1>s, <2>1, <2>2
  <1> QED
    BY <1>1, <1>2, <1>3, <1>4, <1>5, <1>6, <1>7 DEF Handle

(* The snapshot of the cascade. *)
LEMMA FanInCascade ==
  ASSUME TypeInv, FanInv, FlushCalled \/ CascadeReads \/ CascadeCommits \/ CascadeFails
  PROVE  FanInv'
  <1>t. rpc \in Call /\ rpc.level \in Nat
    BY DEF TypeInv, TypeOK, Call, Levels
  <1>k. task' = task
    BY DEF FlushCalled, CascadeReads, CascadeCommits, CascadeFails
  <1>1. CASE FlushCalled \/ CascadeFails
    <2>1. UNCHANGED <<summaries, forced, failedForced>>
      BY <1>1 DEF FlushCalled, CascadeFails, tables, queue, givenUp
    <2>2. rpc'.step # "sealing" /\ rpc'.level = 0
      BY <1>1 DEF FlushCalled, CascadeFails, NoCall
    <2> QED
      BY <1>k, <2>1, <2>2 DEF FanInv, ForceAtL0, UpperFanIn
  <1>2. CASE CascadeReads
    <2>1. UNCHANGED <<summaries, forced, failedForced>>
      BY <1>2 DEF CascadeReads, tables, queue, givenUp
    <2>2. CASE rpc' = NoCall
      BY <1>k, <2>1, <2>2 DEF NoCall, FanInv, ForceAtL0, UpperFanIn
    <2>3. CASE \E b : /\ rpc' = [rpc EXCEPT !.step = "sealing", !.buf = b]
                      /\ rpc.force \/ ShouldSeal(rpc.level, b)
      <3>1. /\ rpc'.level = rpc.level /\ rpc'.force = rpc.force
            /\ rpc.level # 0 => Cardinality(rpc'.buf.items) >= Fanout
        BY <1>t, <2>3 DEF Call, ShouldSeal, FanInv
      <3> QED
        BY <1>k, <2>1, <3>1 DEF FanInv, ForceAtL0, UpperFanIn
    <2> QED
      BY <1>2, <2>2, <2>3 DEF CascadeReads
  <1>3. CASE CascadeCommits
    <2>1. rpc.level # 0 => Cardinality(rpc.buf.items) >= Fanout
      BY <1>3 DEF CascadeCommits, FanInv
    <2>2. UpperFanIn' /\ ForceAtL0'
      BY <1>3, <2>1, CommitArguments, FanInCommit DEF CascadeCommits
    <2>3. rpc'.step # "sealing" /\ ~rpc'.force
      BY <1>t, <1>3 DEF CascadeCommits, ForceNext, Call
    <2> QED
      BY <1>k, <2>2, <2>3 DEF FanInv
  <1> QED
    BY <1>1, <1>2, <1>3

LEMMA FanInvStep == TypeInv /\ FanInv /\ [Next]_vars => FanInv'
  <1> SUFFICES ASSUME TypeInv, FanInv, [Next]_vars PROVE FanInv'
    OBVIOUS
  <1>1. CASE ResetDeletes
    BY <1>1 DEF ResetDeletes, FanInv, ForceAtL0, UpperFanIn
  <1>2. CASE Interrupt
    BY <1>2 DEF Interrupt, Idle, NoCall, tables, givenUp, FanInv, ForceAtL0, UpperFanIn
  <1>4. CASE RetryFailed
    <2>1. UNCHANGED <<summaries, task, rpc>> /\ ForceAtL0'
      BY <1>4 DEF RetryFailed, tables, FanInv, ForceAtL0
    <2> QED
      BY <2>1 DEF FanInv, UpperFanIn
  <1>3. CASE \/ (\E l \in Leaves : Ingest(l)) \/ EnqueueFlush
             \/ ResetRequeues \/ UNCHANGED vars
    <2>1. UNCHANGED <<summaries, forced, failedForced, task, rpc>>
      BY <1>3 DEF Ingest, EnqueueFlush, ResetRequeues, vars, tables, queue, givenUp
    <2> QED
      BY <2>1 DEF FanInv, ForceAtL0, UpperFanIn
  <1> QED
    BY <1>1, <1>2, <1>3, <1>4, FanInWorker, FanInCascade DEF Next

(* No summary above L1 is made of fewer than SUMMARY_FANOUT children: the
   forced flush never leaves L0, through jobs, retries, cascades or restarts. *)
THEOREM FanIn == Spec => []UpperFanIn
  <1>1. Init => FanInv
    BY DEF Init, FanInv, ForceAtL0, UpperFanIn, NoCall, Idle
  <1>2. FanInv => UpperFanIn
    BY DEF FanInv
  <1> QED
    BY <1>1, <1>2, Typed, FanInvStep, PTL DEF Spec

-----------------------------------------------------------------------------
(* Backlinks. *)

(* The ids are minted upwards and nothing is deleted. *)
LinksInv ==
    /\ BacklinksAgree
    /\ \A s \in summaries : s.id <= minted

LEMMA IdsOfOneMore ==
  ASSUME NEW A, NEW e
  PROVE  {s.id : s \in A \cup {e}} = {s.id : s \in A} \cup {e.id}
  OBVIOUS

LEMMA LinksAfterCommit ==
  ASSUME TypeInv, LinksInv, NEW n \in 0..(TopLevel - 1), NEW S \in SUBSET Nodes, NEW f,
         CommitSeal(n, S, f), resets' = resets
  PROVE  BacklinksAgree' /\ \A s \in summaries' : s.id <= minted'
  <1> DEFINE id == minted + 1
             new == [id |-> id, level |-> n + 1, children |-> S]
  <1>1. /\ summaries' = summaries \cup {new} /\ minted' = id /\ id \in Ids
        /\ parent' = [x \in Nodes |-> IF x \in S /\ parent[x] = NoId THEN id ELSE parent[x]]
        /\ minted \in Nat /\ \A s \in summaries : s.id \in Ids
    BY DEF CommitSeal, Backlinked, TypeInv, TypeOK, TablesTyped, Summary
  <1>2. \A s \in summaries' : s.id <= minted'
    BY <1>1 DEF LinksInv, Ids
  <1>3. ASSUME resets = 0, NEW x \in Nodes
        PROVE  IF FoldedInto'[x] = {} THEN parent'[x] = NoId
               ELSE parent'[x] \in FoldedInto'[x] /\ \A i \in FoldedInto'[x] : parent'[x] <= i
    <2>1. /\ FoldedInto[x] = {s.id : s \in {t \in summaries : x \in t.children}}
          /\ FoldedInto'[x] = {s.id : s \in {t \in summaries' : x \in t.children}}
      BY DEF FoldedInto
    <2>2. IF FoldedInto[x] = {} THEN parent[x] = NoId
          ELSE parent[x] \in FoldedInto[x] /\ \A i \in FoldedInto[x] : parent[x] <= i
      BY <1>3 DEF LinksInv, BacklinksAgree
    <2>3. \A i \in FoldedInto[x] : i \in Ids /\ i <= minted
      BY <1>1, <2>1 DEF LinksInv
    <2>4. CASE x \notin S
      <3>1. FoldedInto'[x] = FoldedInto[x]
        BY <1>1, <2>1, <2>4
      <3> QED
        BY <1>1, <2>2, <2>4, <3>1
    <2>5. CASE x \in S
      <3>1. FoldedInto'[x] = FoldedInto[x] \cup {id}
        <4>1. {t \in summaries' : x \in t.children}
                = {t \in summaries : x \in t.children} \cup {new}
          BY <1>1, <2>5
        <4>2. FoldedInto'[x] = {s.id : s \in {t \in summaries : x \in t.children} \cup {new}}
          BY <2>1, <4>1
        <4>3. new.id = id
          OBVIOUS
        <4> QED
          BY <2>1, <4>2, <4>3, IdsOfOneMore
      <3>2. CASE FoldedInto[x] = {}
        BY <1>1, <2>2, <2>5, <3>1, <3>2 DEF Ids
      <3>3. CASE FoldedInto[x] # {}
        <4>1. parent[x] \in FoldedInto[x] /\ parent[x] # NoId /\ parent[x] <= id
          BY <1>1, <2>2, <2>3, <3>3 DEF Ids, NoId
        <4>2. parent'[x] = parent[x]
          BY <1>1, <4>1
        <4> QED
          BY <2>2, <3>1, <3>3, <4>1, <4>2
      <3> QED
        BY <3>2, <3>3
    <2> QED
      BY <2>4, <2>5
  <1> QED
    BY <1>2, <1>3 DEF BacklinksAgree

LEMMA LinksInvStep == TypeInv /\ LinksInv /\ [Next]_vars => LinksInv'
  <1> SUFFICES ASSUME TypeInv, LinksInv, [Next]_vars PROVE LinksInv'
    OBVIOUS
  <1>1. CASE ResetDeletes
    BY <1>1 DEF ResetDeletes, LinksInv, BacklinksAgree, TypeInv, TypeOK
  <1>2. CASE ~ResetDeletes
    <2>1. resets' = resets
      BY <1>2 DEF Next, vars, Ingest, EnqueueFlush, RetryFailed, Handle, ExtractCommits,
                  ExtractReturns, AppendCommits, SealReads, SealCommits, FlushFindsStale,
                  FlushFindsNothing, FlushEnqueues, Settle, HandlerFails, Claim, FlushCalled,
                  CascadeReads, CascadeCommits, CascadeFails, ResetRequeues, Interrupt
    <2>2. CASE UNCHANGED <<parent, summaries, minted, root>>
      BY <2>1, <2>2 DEF LinksInv, BacklinksAgree, FoldedInto
    <2>3. ASSUME NEW w \in Workers, SealCommits(w) PROVE LinksInv'
      BY <2>1, <2>3, CommitArguments, LinksAfterCommit DEF SealCommits, LinksInv
    <2>4. CASE CascadeCommits
      BY <2>1, <2>4, CommitArguments, LinksAfterCommit DEF CascadeCommits, LinksInv
    <2> QED
      BY TreeSteps, <1>2, <2>2, <2>3, <2>4
  <1> QED
    BY <1>1, <1>2

(* Until reset_tree leaves the chunks' backlinks dangling, every node that a
   summary lists points at the first summary that did, even when two seals
   commit the same snapshot. *)
THEOREM Backlinks == Spec => []BacklinksAgree
  <1>1. Init => LinksInv
    BY DEF Init, LinksInv, BacklinksAgree, FoldedInto
  <1>2. LinksInv => BacklinksAgree
    BY DEF LinksInv
  <1> QED
    BY <1>1, <1>2, Typed, LinksInvStep, PTL DEF Spec
=============================================================================
