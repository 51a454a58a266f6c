------------------------------ MODULE PeelProofs ------------------------------
(***************************************************************************)
(* Proofs about try_build_batch, for every value of the constants.  The    *)
(* loop peeks the heap's top entry and tests only it; these facts are why  *)
(* that is enough:                                                         *)
(*   - a queue at which the test passes is feasible for every entry, not   *)
(*     only the peeked one, because the peeked entry bids the least        *)
(*     max_fee (PeekCheckSufficient);                                      *)
(*   - each pop keeps the batch made of the entries the heap pops last     *)
(*     (PopKeepsPopClosed), and the whole queue trivially is;              *)
(*   - batch_size, decreased by each popped entry's size, stays the size   *)
(*     of the entries left (BatchSizeRemove).                              *)
(* Carried through the steps of the loop of PeelLoop by the inductive      *)
(* invariant LInv, they give LoopBatchFeasible (LoopBatchFeasibleHolds).   *)
(* The same facts carried through the stages of PeelResults would give     *)
(* PeelBatchFeasible; that is an induction over a recursive function,      *)
(* which the prover cannot instantiate, and stays with TLC (run peel,      *)
(* where LoopResultInPeelResults also checks that the loop and PeelResults *)
(* agree).                                                                 *)
(***************************************************************************)
EXTENDS PeelLoop, FiniteSetTheorems, WellFoundedInduction, TLAPS

\* The (entry, byte) pairs BatchSize counts.
SizeUnits(S) == {p \in S \X (1 .. MaxSize) : p[2] <= p[1].size}

-----------------------------------------------------------------------------
(* Lemmas on BatchSize.                                                    *)

\* The largest size bounds every size.
LEMMA MaxSizeFacts ==
  MaxSize \in Sizes /\ MaxSize \in Nat /\ \A z \in Sizes : z <= MaxSize
BY BQAssumption DEF MaxSize

\* A finite set of entries has a finite set of size units, and a natural
\* batch size.
LEMMA BatchSizeType ==
  ASSUME NEW S \in SUBSET QueueEntry, IsFiniteSet(S)
  PROVE  /\ IsFiniteSet(SizeUnits(S))
         /\ Cardinality(SizeUnits(S)) \in Nat
         /\ BatchSize(S) \in Nat
<1>1. IsFiniteSet(1 .. MaxSize)
  BY MaxSizeFacts, FS_Interval
<1>2. IsFiniteSet(SizeUnits(S))
  BY <1>1, FS_Product, FS_Subset DEF SizeUnits
<1>3. Cardinality(SizeUnits(S)) \in Nat
  BY <1>2, FS_CardinalityType
<1> QED
  BY <1>2, <1>3 DEF BatchSize, SizeUnits, CborArrayMaxOverhead

\* Adding an entry not yet in a finite set adds its size units.
LEMMA SizeUnitsAdd ==
  ASSUME NEW S \in SUBSET QueueEntry, IsFiniteSet(S),
         NEW e \in QueueEntry, e \notin S
  PROVE  Cardinality(SizeUnits(S \cup {e})) = Cardinality(SizeUnits(S)) + e.size
<1> DEFINE E == {e} \X (1 .. e.size)
<1>1. e.size \in 1 .. MaxSize /\ MaxSize \in Nat
  <2>1. e.size \in Sizes
    BY DEF QueueEntry
  <2>2. e.size \in Nat \ {0} /\ e.size <= MaxSize /\ MaxSize \in Nat
    BY <2>1, MaxSizeFacts, BQAssumption
  <2> QED
    BY <2>2
<1>2. SizeUnits(S \cup {e}) = SizeUnits(S) \cup E
  <2>1. ASSUME NEW p \in SizeUnits(S \cup {e}) PROVE p \in SizeUnits(S) \cup E
    <3>1. PICK x \in S \cup {e}, i \in 1 .. MaxSize : p = <<x, i>> /\ i <= x.size
      BY <2>1 DEF SizeUnits
    <3>2. CASE x = e
      <4>1. i \in 1 .. e.size
        BY <3>1, <3>2, <1>1
      <4> QED
        BY <3>1, <3>2, <4>1
    <3>3. CASE x # e
      BY <3>1, <3>3 DEF SizeUnits
    <3> QED
      BY <3>2, <3>3
  <2>2. ASSUME NEW p \in SizeUnits(S) \cup E PROVE p \in SizeUnits(S \cup {e})
    <3>1. CASE p \in SizeUnits(S)
      BY <3>1 DEF SizeUnits
    <3>2. CASE p \in E
      <4>1. PICK i \in 1 .. e.size : p = <<e, i>>
        BY <3>2
      <4>2. i \in 1 .. MaxSize /\ i <= e.size
        BY <4>1, <1>1
      <4> QED
        BY <4>1, <4>2 DEF SizeUnits
    <3> QED
      BY <3>1, <3>2
  <2> QED
    BY <2>1, <2>2
<1>3. SizeUnits(S) \cap E = {}
  BY DEF SizeUnits
<1>4. IsFiniteSet(SizeUnits(S)) /\ Cardinality(SizeUnits(S)) \in Nat
  BY BatchSizeType
<1>5. IsFiniteSet(E) /\ Cardinality(E) = e.size
  <2>1. IsFiniteSet({e}) /\ Cardinality({e}) = 1
    BY FS_Singleton
  <2>2. IsFiniteSet(1 .. e.size) /\ Cardinality(1 .. e.size) = e.size
    <3>1. e.size \in Int /\ 1 \in Int
      BY <1>1
    <3>2. IsFiniteSet(1 .. e.size)
          /\ Cardinality(1 .. e.size) = IF 1 > e.size THEN 0 ELSE e.size - 1 + 1
      BY <3>1, FS_Interval
    <3> QED
      BY <3>2, <1>1
  <2>3. IsFiniteSet(E) /\ Cardinality(E) = 1 * e.size
    BY <2>1, <2>2, FS_Product
  <2> QED
    BY <2>3, <1>1
<1>6. Cardinality(SizeUnits(S) \cup E) = Cardinality(SizeUnits(S)) + e.size
  <2>1. Cardinality(SizeUnits(S) \cap E) = 0
    BY <1>3, FS_EmptySet
  <2>2. Cardinality(SizeUnits(S) \cup E)
          = Cardinality(SizeUnits(S)) + Cardinality(E) - Cardinality(SizeUnits(S) \cap E)
    BY <1>4, <1>5, FS_Union
  <2> QED
    BY <1>1, <1>4, <1>5, <2>1, <2>2
<1> QED
  BY <1>2, <1>6

\* Popping an entry takes its size off the batch size, as batch_size -=
\* verification_data_size does.
LEMMA BatchSizeRemove ==
  ASSUME NEW S \in SUBSET QueueEntry, IsFiniteSet(S), NEW e \in S
  PROVE  BatchSize(S \ {e}) = BatchSize(S) - e.size
<1>1. IsFiniteSet(S \ {e}) /\ (S \ {e}) \cup {e} = S
  BY FS_RemoveElement
<1>2. Cardinality(SizeUnits(S)) = Cardinality(SizeUnits(S \ {e})) + e.size
  BY <1>1, SizeUnitsAdd
<1>3. Cardinality(SizeUnits(S \ {e})) \in Nat /\ e.size \in Nat
  BY <1>1, BatchSizeType, BQAssumption DEF QueueEntry
<1> QED
  BY <1>2, <1>3 DEF BatchSize, SizeUnits, CborArrayMaxOverhead

-----------------------------------------------------------------------------
(* Lemmas on the heap order.                                               *)

\* A non-empty set of naturals has a least element.
LEMMA NatLeast ==
  ASSUME NEW T \in SUBSET Nat, T # {}
  PROVE  \E m \in T : \A y \in T : m <= y
<1>1. PICK x \in T : \A y \in T : ~(<<y, x>> \in OpToRel(<, Nat))
  BY NatLessThanWellFounded, WFMin
<1>2. ASSUME NEW y \in T PROVE x <= y
  <2>1. ~(<<y, x>> \in OpToRel(<, Nat))
    BY <1>1
  <2>2. <<y, x>> \in Nat \X Nat
    OBVIOUS
  <2>3. ~(y < x)
    BY <2>1, <2>2 DEF OpToRel
  <2> QED
    BY <2>3
<1> QED
  BY <1>2

\* A non-empty set of queue entries has an entry the heap may peek: the
\* least max_fee, and among those the highest nonce.
LEMMA TopNonEmpty ==
  ASSUME NEW s \in SUBSET QueueEntry, s # {}
  PROVE  Top(s) # {}
<1>1. \A e \in s : e.fee \in Nat /\ e.nonce \in 0 .. MaxNonce
  BY BQAssumption DEF QueueEntry, Nonces
<1>2. PICK f0 \in {e.fee : e \in s} : \A y \in {e.fee : e \in s} : f0 <= y
  <2>1. {e.fee : e \in s} \in SUBSET Nat /\ {e.fee : e \in s} # {}
    BY <1>1
  <2> QED
    BY <2>1, NatLeast
<1> DEFINE Low == {e \in s : e.fee = f0}
<1>3. PICK d0 \in {MaxNonce - e.nonce : e \in Low} :
             \A y \in {MaxNonce - e.nonce : e \in Low} : d0 <= y
  <2>1. {MaxNonce - e.nonce : e \in Low} \in SUBSET Nat
    BY <1>1, BQAssumption
  <2>2. {MaxNonce - e.nonce : e \in Low} # {}
    BY <1>2
  <2> QED
    BY <2>1, <2>2, NatLeast
<1>4. PICK t \in Low : MaxNonce - t.nonce = d0
  BY <1>3
<1>5. \A o \in s : ~PoppedBefore(o, t)
  <2> SUFFICES ASSUME NEW o \in s, PoppedBefore(o, t) PROVE FALSE
    OBVIOUS
  <2>1. f0 <= o.fee /\ t.fee = f0
    BY <1>2
  <2>2. CASE o.fee < t.fee
    BY <2>1, <2>2, <1>1
  <2>3. CASE o.fee = t.fee /\ o.nonce > t.nonce
    <3>1. o \in Low /\ d0 <= MaxNonce - o.nonce
      BY <1>3, <2>1, <2>3
    <3> QED
      BY <3>1, <1>4, <2>3, <1>1, BQAssumption
  <2> QED
    BY <2>2, <2>3 DEF PoppedBefore
<1> QED
  BY <1>5 DEF Top

\* The peeked entry bids no more than any entry of the queue.
LEMMA TopLeastFee ==
  ASSUME NEW s \in SUBSET QueueEntry, NEW t \in Top(s), NEW e \in s
  PROVE  t.fee <= e.fee
<1>1. t.fee \in Nat /\ e.fee \in Nat /\ ~PoppedBefore(e, t)
  BY BQAssumption DEF Top, QueueEntry
<1> QED
  BY <1>1 DEF PoppedBefore

\* What the heap's peek returns under Ord for BatchQueueEntryPriority
\* (batch_queue.rs 90-120): every non-empty queue has a peek; it bids the
\* least max_fee of the queue and, among the entries bidding that fee, has
\* the highest nonce; and when no two entries share a priority the peek
\* is a single entry, so try_build_batch's pops are determined.
THEOREM PeekOrder ==
  ASSUME NEW s \in SUBSET QueueEntry, s # {}
  PROVE  /\ Top(s) # {}
         /\ \A t \in Top(s), e \in s :
              t.fee <= e.fee /\ (t.fee = e.fee => e.nonce <= t.nonce)
         /\ DistinctPriorities(s) => \E t \in s : Top(s) = {t}
<1>1. Top(s) # {}
  BY TopNonEmpty
<1>2. ASSUME NEW t \in Top(s), NEW e \in s
      PROVE  t.fee <= e.fee /\ (t.fee = e.fee => e.nonce <= t.nonce)
  <2>1. t \in s /\ ~PoppedBefore(e, t)
    BY DEF Top
  <2>2. \A x \in s : x.fee \in Nat /\ x.nonce \in 0 .. MaxNonce
    BY BQAssumption DEF QueueEntry, Nonces
  <2> QED
    BY <2>1, <2>2 DEF PoppedBefore
<1>3. ASSUME DistinctPriorities(s) PROVE \E t \in s : Top(s) = {t}
  <2>1. PICK t \in Top(s) : TRUE
    BY <1>1
  <2>2. ASSUME NEW u \in Top(s) PROVE u = t
    <3>1. t \in s /\ u \in s /\ ~PoppedBefore(u, t) /\ ~PoppedBefore(t, u)
      BY DEF Top
    <3> QED
      BY <3>1, <1>3 DEF DistinctPriorities
  <2>3. t \in s
    BY DEF Top
  <2> QED
    BY <2>2, <2>3
<1> QED
  BY <1>1, <1>2, <1>3

\* The test of the loop passed on a peeked entry t of a finite, non-empty
\* queue makes the queue a feasible batch.
LEMMA PassedTestFeasible ==
  ASSUME NEW s \in SUBSET QueueEntry, IsFiniteSet(s), s # {},
         NEW g \in Nat, NEW t \in Top(s),
         ~(BatchSize(s) > MaxBatchByteSize),
         ~(FeePerProof(Cardinality(s), g) > t.fee),
         ~(Cardinality(s) > MaxBatchProofQty)
  PROVE  Feasible(s, g)
<1>1. Cardinality(s) \in Nat \ {0} /\ BatchSize(s) \in Nat
  BY FS_CardinalityType, FS_EmptySet, BatchSizeType
<1>2. FeePerProof(Cardinality(s), g) \in Int
  BY <1>1, BQAssumption DEF FeePerProof
<1>3. \A e \in s : e.fee \in Nat
  BY BQAssumption DEF QueueEntry
<1>4. BatchSize(s) <= MaxBatchByteSize /\ Cardinality(s) <= MaxBatchProofQty
  BY <1>1, BQAssumption
<1>5. ASSUME NEW e \in s PROVE FeePerProof(Cardinality(s), g) <= e.fee
  <2>1. t.fee <= e.fee /\ t.fee \in Nat
    BY <1>3, TopLeastFee DEF Top
  <2> QED
    BY <1>2, <1>3, <2>1
<1> QED
  BY <1>4, <1>5 DEF Feasible

\* try_build_batch tests only the peeked entry's max_fee, the byte count
\* and the proof count (batch_queue.rs 168-176): when that test passes on
\* a non-empty queue, the queue is a feasible batch: every entry's max_fee,
\* not only the peeked one's, covers the fee per proof, and the byte and
\* proof counts are within their limits.
THEOREM PeekCheckSufficient ==
  ASSUME NEW s \in SUBSET QueueEntry, IsFiniteSet(s), s # {},
         NEW g \in Nat, ~BatchNotAcceptable(s, g)
  PROVE  Feasible(s, g)
<1>1. PICK t \in Top(s) : TRUE
  BY TopNonEmpty
<1>2. /\ ~(BatchSize(s) > MaxBatchByteSize)
      /\ ~(FeePerProof(Cardinality(s), g) > t.fee)
      /\ ~(Cardinality(s) > MaxBatchProofQty)
  BY <1>1 DEF BatchNotAcceptable
<1> QED
  BY <1>1, <1>2, PassedTestFeasible

\* Popping the peeked entry keeps a batch made of the entries the heap
\* pops last: nothing left out pops after an entry kept.
LEMMA PopKeepsPopClosed ==
  ASSUME NEW q, NEW s \in SUBSET q, PopClosed(s, q), NEW t \in Top(s)
  PROVE  PopClosed(s \ {t}, q)
BY DEF PopClosed, Top


-----------------------------------------------------------------------------
(***************************************************************************)
(* The loop of PeelLoop.  LoopBatchFeasible is not inductive by itself: a  *)
(* pop must know that batchSize is still the size of the clone, that the   *)
(* clone is made of the entries the heap pops last and is finite, and the  *)
(* break must know that the peeked entry passed the test.  LInv states     *)
(* these facts for each phase of the build; TLC checks it as an invariant   *)
(* of the peel run's spec before it is proved here.                        *)
(***************************************************************************)
LInv ==
  /\ queue \in SUBSET QueueEntry /\ IsFiniteSet(queue)
  /\ gas \in CheckGasPrices
  /\ lpc \in {"idle", "loop", "done"}
  /\ finalized \subseteq queue
  /\ lpc = "idle" => finalized = {}
  /\ lpc # "idle" => PopClosed(finalized, queue) /\ batchSize = BatchSize(finalized)
  /\ lpc = "done" => finalized = {} \/ \E e \in Top(finalized) : ~EntryFailsTest(e)

\* The initial state satisfies LInv.
LEMMA LInvInit == LoopInit => LInv
BY FS_EmptySet DEF LoopInit, BQInit, LInv

\* Push, remove and pop of the queue between builds keep it a finite set
\* of entries; the loop's variables are untouched.
LEMMA LInvQueueStep == LInv /\ QueueStep => LInv'
<1> SUFFICES ASSUME LInv, QueueStep PROVE LInv'
  OBVIOUS
<1>1. queue' \in SUBSET QueueEntry /\ IsFiniteSet(queue')
  <2>1. CASE \E e \in QueueEntry : BQPush(e)
    BY <2>1, FS_AddElement DEF LInv, BQPush
  <2>2. CASE \E e \in queue : BQRemove(e)
    <3>1. queue' \subseteq queue
      BY <2>2 DEF BQRemove
    <3> QED
      BY <3>1, FS_Subset DEF LInv
  <2>3. CASE BQPop
    <3>1. queue' \subseteq queue
      BY <2>3 DEF BQPop
    <3> QED
      BY <3>1, FS_Subset DEF LInv
  <2> QED
    BY <2>1, <2>2, <2>3 DEF QueueStep, BQNext
<1>2. lpc' = "idle" /\ finalized' = {} /\ gas' = gas
  BY DEF LInv, QueueStep, loopVars
<1> QED
  BY <1>1, <1>2 DEF LInv

\* Cloning the queue starts the loop with the whole queue, which pops last
\* trivially, and batchSize its size.
LEMMA LInvStartBuild ==
  ASSUME LInv, NEW g \in CheckGasPrices, StartBuild(g)
  PROVE  LInv'
<1>1. PopClosed(queue, queue)
  BY DEF PopClosed
<1> QED
  BY <1>1 DEF LInv, StartBuild


\* Popping the peeked entry keeps the clone made of the entries the heap
\* pops last, and the decremented batchSize its size.
LEMMA LInvPopPeeked == LInv /\ PopPeeked => LInv'
<1> SUFFICES ASSUME LInv, PopPeeked PROVE LInv'
  OBVIOUS
<1>1. PICK e \in Top(finalized) :
        /\ finalized' = finalized \ {e}
        /\ batchSize' = batchSize - e.size
  BY DEF PopPeeked
<1>2. lpc = "loop" /\ lpc' = "loop" /\ UNCHANGED <<queue, gas>>
  BY DEF PopPeeked
<1>3. finalized \in SUBSET QueueEntry /\ IsFiniteSet(finalized) /\ e \in finalized
  BY FS_Subset DEF LInv, Top
<1>4. PopClosed(finalized', queue')
  BY <1>1, <1>2, PopKeepsPopClosed DEF LInv
<1>5. batchSize' = BatchSize(finalized')
  BY <1>1, <1>2, <1>3, BatchSizeRemove DEF LInv
<1>6. finalized' \subseteq queue'
  BY <1>1, <1>2 DEF LInv
<1> QED
  BY <1>2, <1>4, <1>5, <1>6 DEF LInv

\* The loop breaks only on an empty clone or a peeked entry that passes
\* the test, and nothing but the phase changes.
LEMMA LInvStopLoop == LInv /\ StopLoop => LInv'
<1> SUFFICES ASSUME LInv, StopLoop PROVE LInv'
  OBVIOUS
<1>1. lpc' = "done" /\ UNCHANGED <<queue, finalized, batchSize, gas>>
  BY DEF StopLoop
<1>2. finalized' = {} \/ \E e \in Top(finalized') : ~EntryFailsTest(e)'
  BY <1>1 DEF StopLoop, EntryFailsTest
<1> QED
  BY <1>1, <1>2 DEF LInv, StopLoop

\* Returning drops the clone.
LEMMA LInvReturnBatch == LInv /\ ReturnBatch => LInv'
BY DEF LInv, ReturnBatch

\* LInv is inductive.
LEMMA LInvNext == LInv /\ [LoopNext]_LoopVars => LInv'
<1> SUFFICES ASSUME LInv, [LoopNext]_LoopVars PROVE LInv'
  OBVIOUS
<1>1. CASE QueueStep
  BY <1>1, LInvQueueStep
<1>2. CASE \E g \in CheckGasPrices : StartBuild(g)
  BY <1>2, LInvStartBuild
<1>3. CASE PopPeeked
  BY <1>3, LInvPopPeeked
<1>4. CASE StopLoop
  BY <1>4, LInvStopLoop
<1>5. CASE ReturnBatch
  BY <1>5, LInvReturnBatch
<1>6. CASE UNCHANGED LoopVars
  BY <1>6 DEF LInv, LoopVars, EntryFailsTest
<1> QED
  BY <1>1, <1>2, <1>3, <1>4, <1>5, <1>6 DEF LoopNext

\* LInv gives LoopBatchFeasible: the peeked entry at the break passed the
\* test on the clone, whose size batchSize still is.
LEMMA LInvFeasible == LInv => LoopBatchFeasible
<1> SUFFICES ASSUME LInv, lpc = "done", finalized # {}
             PROVE  Feasible(finalized, gas) /\ PopClosed(finalized, queue)
  BY DEF LoopBatchFeasible
<1>1. PICK t \in Top(finalized) : ~EntryFailsTest(t)
  BY DEF LInv
<1>2. finalized \in SUBSET QueueEntry /\ IsFiniteSet(finalized) /\ gas \in Nat
  BY FS_Subset, BQAssumption DEF LInv
<1>3. batchSize = BatchSize(finalized) /\ PopClosed(finalized, queue)
  BY DEF LInv
<1>4. /\ ~(BatchSize(finalized) > MaxBatchByteSize)
      /\ ~(FeePerProof(Cardinality(finalized), gas) > t.fee)
      /\ ~(Cardinality(finalized) > MaxBatchProofQty)
  BY <1>1, <1>3 DEF EntryFailsTest
<1> QED
  BY <1>2, <1>3, <1>4, PassedTestFeasible

\* Every batch try_build_batch's loop stops with, on a queue the batcher's
\* push, remove and pop can reach, is feasible (every entry's max_fee
\* covers the fee per proof, the byte and proof counts are within their
\* limits) and made of the entries the heap pops last.
THEOREM LoopBatchFeasibleHolds == LoopSpec => []LoopBatchFeasible
<1>1. LoopInit => LInv
  BY LInvInit
<1>2. LInv /\ [LoopNext]_LoopVars => LInv'
  BY LInvNext
<1>3. LInv => LoopBatchFeasible
  BY LInvFeasible
<1> QED
  BY <1>1, <1>2, <1>3, PTL DEF LoopSpec

=============================================================================
