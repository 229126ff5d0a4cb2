-------------------------- MODULE SealBufferProofs --------------------------
(***************************************************************************)
(* Proofs about the buffers of SealPipeline: the counter the gate reads is *)
(* the sum of what the buffer holds.  The sum is MapThenSumSet, a recursive*)
(* function that takes the elements in an order of its own; what is proved *)
(* first is that adding an element adds its weight, whatever the order.    *)
(* Induction over the subsets of a finite set is by a smallest             *)
(* counterexample.                                                         *)
(***************************************************************************)
EXTENDS SealPipelineProofs, FiniteSetTheorems, WellFoundedInduction

-----------------------------------------------------------------------------
(* The sum of a finite set. *)

Pick(s) == CHOOSE x \in s : TRUE

(* f is the recursive function behind the sum of S. *)
Sums(f, S) ==
    f = [s \in SUBSET S |-> IF s = {} THEN 0 ELSE Weight(Pick(s)) + f[s \ {Pick(s)}]]

Sum(S) == MapThenSumSet(Weight, S)

LEMMA SumIsChosen ==
  ASSUME NEW S
  PROVE  Sum(S) = (CHOOSE f : Sums(f, S))[S]
  BY DEF Sum, MapThenSumSet, MapThenFoldSet, Sums, Pick

LEMMA PickFacts ==
  ASSUME NEW s, s # {}
  PROVE  Pick(s) \in s
  BY DEF Pick

(* Of any sets of subsets of a finite set there is a smallest one. *)
LEMMA SmallestSubset ==
  ASSUME NEW S, IsFiniteSet(S), NEW T \in SUBSET (SUBSET S), T # {}
  PROVE  \E s \in T : \A r \in T : ~(r \subseteq s /\ r # s)
  <1>1. IsWellFoundedOn(StrictSubsetOrdering(S), FiniteSubsetsOf(S))
    BY FS_StrictSubsetOrderingWellFounded
  <1>2. T \subseteq FiniteSubsetsOf(S)
    BY FS_Subset DEF FiniteSubsetsOf
  <1>3. \E s \in T : \A r \in T : ~(<<r, s>> \in StrictSubsetOrdering(S))
    BY <1>1, <1>2, WFMin
  <1> QED
    BY <1>3 DEF StrictSubsetOrdering

LEMMA SumsAt ==
  ASSUME NEW f, NEW S, Sums(f, S), NEW s, s \subseteq S
  PROVE  f[s] = IF s = {} THEN 0 ELSE Weight(Pick(s)) + f[s \ {Pick(s)}]
  BY DEF Sums

(* Two such functions agree where both are defined. *)
LEMMA SumsAgree ==
  ASSUME NEW A, NEW B, NEW f, NEW g, Sums(f, A), Sums(g, B),
         NEW s, s \subseteq A, s \subseteq B, IsFiniteSet(s)
  PROVE  f[s] = g[s]
  <1> DEFINE Bad == {r \in SUBSET s : f[r] # g[r]}
  <1> SUFFICES ASSUME Bad # {} PROVE FALSE
    OBVIOUS
  <1>1. PICK r \in Bad : \A q \in Bad : ~(q \subseteq r /\ q # r)
    <2>1. Bad \in SUBSET (SUBSET s)
      OBVIOUS
    <2> HIDE DEF Bad
    <2> QED
      BY <2>1, SmallestSubset
  <1>2. /\ r \in SUBSET A /\ r \in SUBSET B /\ f[r] # g[r]
        /\ f[r] = IF r = {} THEN 0 ELSE Weight(Pick(r)) + f[r \ {Pick(r)}]
        /\ g[r] = IF r = {} THEN 0 ELSE Weight(Pick(r)) + g[r \ {Pick(r)}]
    BY DEF Sums
  <1>3. r # {}
    BY <1>2
  <1>4. Pick(r) \in r
    BY <1>3, PickFacts
  <1>5. r \ {Pick(r)} \notin Bad
    BY <1>1, <1>4
  <1>6. f[r \ {Pick(r)}] = g[r \ {Pick(r)}]
    BY <1>5
  <1> QED
    BY <1>2, <1>3, <1>6

(* And there is one. *)
LEMMA SumsExist ==
  ASSUME NEW S, IsFiniteSet(S)
  PROVE  \E f : Sums(f, S)
  <1> DEFINE Bad == {r \in SUBSET S : ~\E f : Sums(f, r)}
  <1> SUFFICES ASSUME Bad # {} PROVE FALSE
    OBVIOUS
  <1>1. PICK T \in Bad : \A q \in Bad : ~(q \subseteq T /\ q # T)
    <2>1. Bad \in SUBSET (SUBSET S)
      OBVIOUS
    <2> HIDE DEF Bad
    <2> QED
      BY <2>1, SmallestSubset
  <1> DEFINE G(s) == CHOOSE g : Sums(g, s)
             Of1(s) == IF s = {} THEN 0 ELSE Weight(Pick(s)) + G(s \ {Pick(s)})[s \ {Pick(s)}]
             F == [s \in SUBSET T |-> Of1(s)]
  <1>2. \A s \in SUBSET T : s # T => Sums(G(s), s)
    <2> SUFFICES ASSUME NEW s \in SUBSET T, s # T PROVE Sums(G(s), s)
      OBVIOUS
    <2>1. \E g : Sums(g, s)
      BY <1>1
    <2> QED
      BY <2>1
  <1>3. \A s \in SUBSET T : s # T => G(s)[s] = Of1(s)
    <2> SUFFICES ASSUME NEW s \in SUBSET T, s # T PROVE G(s)[s] = Of1(s)
      OBVIOUS
    <2>1. G(s)[s] = IF s = {} THEN 0 ELSE Weight(Pick(s)) + G(s)[s \ {Pick(s)}]
      BY <1>2, SumsAt
    <2>2. CASE s = {}
      BY <2>1, <2>2
    <2>3. CASE s # {}
      <3> DEFINE r == s \ {Pick(s)}
      <3>1. r \in SUBSET T /\ r # T /\ r \subseteq s /\ IsFiniteSet(r)
        BY <2>3, PickFacts, FS_Subset
      <3>2. G(s)[r] = G(r)[r]
        BY <1>2, <3>1, SumsAgree
      <3> QED
        BY <2>1, <2>3, <3>2
    <2> QED
      BY <2>2, <2>3
  <1>4. \A s \in SUBSET T : F[s] = Of1(s)
    OBVIOUS
  <1>5. \A s \in SUBSET T : s # {} => Of1(s) = Weight(Pick(s)) + F[s \ {Pick(s)}]
    <2> SUFFICES ASSUME NEW s \in SUBSET T, s # {}
                 PROVE  Of1(s) = Weight(Pick(s)) + F[s \ {Pick(s)}]
      OBVIOUS
    <2> DEFINE r == s \ {Pick(s)}
    <2>1. r \in SUBSET T /\ r # T
      BY PickFacts
    <2>2. Of1(s) = Weight(Pick(s)) + G(r)[r]
      OBVIOUS
    <2>3. G(r)[r] = F[r]
      <3> HIDE DEF G, F, Of1
      <3> QED
        BY <1>3, <1>4, <2>1
    <2> QED
      BY <2>2, <2>3
  <1>6. Of1({}) = 0
    OBVIOUS
  <1>7. Sums(F, T)
    <2> DEFINE H == [s \in SUBSET T |->
                       IF s = {} THEN 0 ELSE Weight(Pick(s)) + F[s \ {Pick(s)}]]
    <2>1. \A s \in SUBSET T : Of1(s) = IF s = {} THEN 0 ELSE Weight(Pick(s)) + F[s \ {Pick(s)}]
      <3> HIDE DEF F, Of1
      <3> QED
        BY <1>5, <1>6
    <2>2. F = H
      <3> HIDE DEF Of1
      <3> QED
        BY <2>1
    <2> QED
      BY <2>2 DEF Sums
  <1> QED
    BY <1>1, <1>7

(* The recursion of the sum itself. *)
LEMMA SumRecursion ==
  ASSUME NEW S, IsFiniteSet(S)
  PROVE  Sum(S) = IF S = {} THEN 0 ELSE Weight(Pick(S)) + Sum(S \ {Pick(S)})
  <1> DEFINE G(s) == CHOOSE g : Sums(g, s)
             r == S \ {Pick(S)}
  <1>1. Sums(G(S), S) /\ Sum(S) = G(S)[S]
    BY SumsExist, SumIsChosen
  <1>2. IsFiniteSet(r) /\ r \subseteq S
    BY FS_Subset
  <1>3. Sums(G(r), r) /\ Sum(r) = G(r)[r]
    BY <1>2, SumsExist, SumIsChosen
  <1>4. G(S)[r] = G(r)[r]
    BY <1>1, <1>2, <1>3, SumsAgree
  <1>5. G(S)[S] = IF S = {} THEN 0 ELSE Weight(Pick(S)) + G(S)[r]
    BY <1>1 DEF Sums
  <1> QED
    BY <1>1, <1>3, <1>4, <1>5

LEMMA SumType ==
  ASSUME NEW S, IsFiniteSet(S), S \subseteq Nodes
  PROVE  Sum(S) \in Nat
  <1> DEFINE Bad == {r \in SUBSET S : Sum(r) \notin Nat}
  <1> SUFFICES ASSUME Bad # {} PROVE FALSE
    OBVIOUS
  <1>1. PICK r \in Bad : \A q \in Bad : ~(q \subseteq r /\ q # r)
    <2>1. Bad \in SUBSET (SUBSET S)
      OBVIOUS
    <2> HIDE DEF Bad
    <2> QED
      BY <2>1, SmallestSubset
  <1>2. r \subseteq S /\ Sum(r) \notin Nat /\ IsFiniteSet(r)
    BY FS_Subset
  <1>3. Sum(r) = IF r = {} THEN 0 ELSE Weight(Pick(r)) + Sum(r \ {Pick(r)})
    BY <1>2, SumRecursion
  <1>4. CASE r = {}
    BY <1>2, <1>3, <1>4
  <1>5. CASE r # {}
    <2>1. Pick(r) \in r
      BY <1>5, PickFacts
    <2>2. Sum(r \ {Pick(r)}) \in Nat
      BY <1>1, <1>2, <2>1
    <2>3. Weight(Pick(r)) \in Nat
      BY <1>2, <2>1, WeightType
    <2> QED
      BY <1>2, <1>3, <1>5, <2>2, <2>3
  <1> QED
    BY <1>4, <1>5

(* Whatever order the sum is taken in, one more element adds its weight. *)
LEMMA SumAdds ==
  ASSUME NEW S, IsFiniteSet(S), S \subseteq Nodes, NEW x \in S, NEW s \in SUBSET S, x \notin s
  PROVE  Sum(s \cup {x}) = Sum(s) + Weight(x)
  <1> DEFINE Fine(r) == \A y \in S : y \notin r => Sum(r \cup {y}) = Sum(r) + Weight(y)
             Bad == {r \in SUBSET S : ~Fine(r)}
  <1> SUFFICES ASSUME Bad # {} PROVE FALSE
    OBVIOUS
  <1>1. PICK r \in Bad : \A q \in Bad : ~(q \subseteq r /\ q # r)
    <2>1. Bad \in SUBSET (SUBSET S)
      OBVIOUS
    <2> HIDE DEF Bad
    <2> QED
      BY <2>1, SmallestSubset
  <1>2. PICK y \in S : y \notin r /\ Sum(r \cup {y}) # Sum(r) + Weight(y)
    OBVIOUS
  <1> DEFINE t == r \cup {y}
             c == Pick(t)
  <1>3. /\ r \subseteq S /\ t \subseteq S /\ t # {} /\ IsFiniteSet(r) /\ IsFiniteSet(t)
    BY FS_Subset
  <1>4. c \in t /\ Sum(t) = Weight(c) + Sum(t \ {c})
    BY <1>3, PickFacts, SumRecursion
  <1>5. Weight(c) \in Nat /\ Weight(y) \in Nat
    BY <1>3, <1>4, WeightType
  <1>6. Sum(r) \in Nat
    BY <1>3, SumType
  <1>7. CASE c = y
    <2>1. t \ {c} = r
      BY <1>2, <1>7
    <2>2. Sum(t) = Weight(y) + Sum(r)
      <3> HIDE DEF t, c
      <3> QED
        BY <1>4, <1>7, <2>1
    <2> QED
      BY <1>2, <1>5, <1>6, <2>2
  <1>8. CASE c # y
    <2> DEFINE q == r \ {c}
    <2>1. c \in r /\ q \subseteq r /\ q # r /\ q \in SUBSET S
      BY <1>3, <1>4, <1>8
    <2>2. Fine(q)
      BY <1>1, <2>1
    <2>3. Sum(q \cup {y}) = Sum(q) + Weight(y)
      BY <1>2, <2>2
    <2>4. Sum(q \cup {c}) = Sum(q) + Weight(c)
      BY <1>3, <2>1, <2>2
    <2>5. q \cup {c} = r /\ t \ {c} = q \cup {y}
      BY <1>2, <1>8, <2>1
    <2>6. Sum(q) \in Nat
      <3>1. IsFiniteSet(q) /\ q \subseteq Nodes
        BY <1>3, <2>1, FS_Subset
      <3> QED
        BY <3>1, SumType
    <2>7. Sum(t) = Weight(c) + (Sum(q) + Weight(y)) /\ Sum(r) = Sum(q) + Weight(c)
      BY <1>4, <2>3, <2>4, <2>5
    <2> QED
      BY <1>2, <1>5, <2>6, <2>7
  <1> QED
    BY <1>7, <1>8

-----------------------------------------------------------------------------
(* The buffers. *)

LEMMA NodesFinite == IsFiniteSet(Nodes)
  <1>1. IsFiniteSet(Ids)
    BY FS_Interval, BoundsAssumption DEF Ids
  <1> QED
    BY <1>1, LeavesAssumption, FS_Union DEF Nodes

(* What BufferConsistent says of one buffer. *)
Consistent(buf) ==
    /\ buf.tokens = Sum(buf.items)
    /\ buf.oldest <=> buf.items # {}

LEMMA ConsistentBuffers == BufferConsistent <=> \A n \in Levels : Consistent(buffer[n])
  BY DEF BufferConsistent, Consistent, Sum

LEMMA EmptyConsistent == Consistent(EmptyBuffer)
  <1>1. Sum({}) = 0
    BY FS_EmptySet, SumRecursion
  <1> QED
    BY <1>1 DEF Consistent, EmptyBuffer

LEMMA PushConsistent ==
  ASSUME NEW buf \in Buffer, Consistent(buf), NEW x \in Nodes
  PROVE  Consistent(Pushed(buf, x, Weight(x)))
  <1>1. CASE x \in buf.items
    BY <1>1 DEF Pushed
  <1>2. CASE x \notin buf.items
    <2>1. Sum(buf.items \cup {x}) = Sum(buf.items) + Weight(x)
      BY <1>2, NodesFinite, SumAdds DEF Buffer
    <2> QED
      BY <1>2, <2>1 DEF Pushed, Consistent
  <1> QED
    BY <1>1, <1>2

LEMMA CommitConsistent ==
  ASSUME TypeInv, BufferConsistent, NEW n \in 0..(TopLevel - 1), NEW S, NEW f, CommitSeal(n, S, f)
  PROVE  BufferConsistent'
  <1> DEFINE up == Pushed(buffer[n + 1], minted + 1, 1)
  <1>1. n \in Levels /\ n + 1 \in Levels /\ n + 1 # n
    BY LevelFacts, BoundsAssumption DEF Levels
  <1>2. minted + 1 \in Nodes /\ Weight(minted + 1) = 1
    <2>1. minted + 1 \in Ids
      BY DEF CommitSeal
    <2> QED
      BY <2>1, LeavesAssumption DEF Nodes, Ids, Weight
  <1>3. Consistent(up)
    BY <1>1, <1>2, PushConsistent, ConsistentBuffers DEF TypeInv, TypeOK, TablesTyped
  <1>4. buffer' = [buffer EXCEPT ![n] = Cleared(@), ![n + 1] = up]
    BY DEF CommitSeal
  <1>5. \A m \in Levels : buffer'[m] \in {EmptyBuffer, up, buffer[m]}
    BY <1>1, <1>4 DEF Cleared, TypeInv, TypeOK, TablesTyped
  <1>6. \A m \in Levels : Consistent(buffer'[m])
    BY <1>3, <1>5, EmptyConsistent, ConsistentBuffers
  <1> QED
    BY <1>6 DEF BufferConsistent, Consistent, Sum

LEMMA BufferStep == TypeInv /\ BufferConsistent /\ [Next]_vars => BufferConsistent'
  <1> SUFFICES ASSUME TypeInv, BufferConsistent, [Next]_vars PROVE BufferConsistent'
    OBVIOUS
  <1>1. CASE UNCHANGED buffer
    BY <1>1 DEF BufferConsistent
  <1>2. ASSUME NEW w \in Workers, SealCommits(w) PROVE BufferConsistent'
    BY <1>2, CommitArguments, CommitConsistent DEF SealCommits
  <1>3. CASE CascadeCommits
    BY <1>3, CommitArguments, CommitConsistent DEF CascadeCommits
  <1>4. ASSUME NEW w \in Workers, AppendCommits(w) PROVE BufferConsistent'
    <2> DEFINE l == task[w].job.on
               up == Pushed(buffer[0], l, Weight(l))
    <2>1. l \in Nodes /\ 0 \in Levels
      BY <1>4, KeyKinds, BoundsAssumption
         DEF AppendCommits, Of, TypeInv, TypeOK, Task, Nodes, Levels
    <2>2. Consistent(up)
      BY <2>1, PushConsistent, ConsistentBuffers DEF TypeInv, TypeOK, TablesTyped
    <2>3. \A m \in Levels : buffer'[m] \in {up, buffer[m]}
      BY <1>4, <2>1 DEF AppendCommits, TypeInv, TypeOK, TablesTyped
    <2>4. \A m \in Levels : Consistent(buffer'[m])
      BY <2>2, <2>3, ConsistentBuffers
    <2> QED
      BY <2>4 DEF BufferConsistent, Consistent, Sum
  <1>5. CASE ResetDeletes
    <2>1. \A m \in Levels : Consistent(buffer'[m])
      BY <1>5, EmptyConsistent DEF ResetDeletes
    <2> QED
      BY <2>1 DEF BufferConsistent, Consistent, Sum
  <1>6. ASSUME NEW w \in Workers,
               Handle(w) \/ HandlerFails(w) \/ \E k \in JobKeys : Claim(w, k)
        PROVE  UNCHANGED buffer \/ SealCommits(w) \/ AppendCommits(w)
    BY <1>6 DEF Handle, ExtractCommits, ExtractReturns, SealReads, FlushFindsStale,
                FlushFindsNothing, FlushEnqueues, Settle, HandlerFails, Claim, tables
  <1>7. ASSUME \/ (\E l \in Leaves : Ingest(l)) \/ EnqueueFlush \/ RetryFailed
               \/ FlushCalled \/ CascadeReads \/ CascadeFails
               \/ ResetRequeues \/ Interrupt \/ UNCHANGED vars
        PROVE  UNCHANGED buffer
    BY <1>7 DEF Ingest, EnqueueFlush, RetryFailed, FlushCalled, CascadeReads, CascadeFails,
                ResetRequeues, Interrupt, vars, tables
  <1> QED
    BY <1>1, <1>2, <1>3, <1>4, <1>5, <1>6, <1>7 DEF Next

(* The token count that gates L0 is the sum of the buffer's items, and a
   buffer is dated exactly when it holds something, so that the flush can find
   it: with any number of workers, retries, cascades, resets and restarts. *)
THEOREM CounterTrue == Spec => []BufferConsistent
  <1>1. Init => BufferConsistent
    <2> SUFFICES ASSUME Init PROVE \A n \in Levels : Consistent(buffer[n])
      BY ConsistentBuffers
    <2> QED
      BY EmptyConsistent DEF Init
  <1> QED
    BY <1>1, Typed, BufferStep, PTL DEF Spec
=============================================================================
