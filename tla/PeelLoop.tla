------------------------------- MODULE PeelLoop -------------------------------
(***************************************************************************)
(* try_build_batch step by step (batch_queue.rs 158-205), as               *)
(* is_batch_ready runs it on a clone of the queue with the batch state     *)
(* lock held (lib.rs 1113-1163): the queue does not change while the loop  *)
(* runs, and push, remove and pop of the stand-alone queue happen only     *)
(* between two builds.  One step of the loop is one peek and, when the     *)
(* peeked entry fails the test, one pop; batch_size is kept as the code    *)
(* keeps it, by subtracting the popped entry's size.                       *)
(*                                                                         *)
(* BatchQueue's PeelResults is the same loop taken as one atomic step, as  *)
(* Batcher uses it; LoopResultInPeelResults checks that the two agree.     *)
(***************************************************************************)
EXTENDS BatchQueue

VARIABLES
  finalized,  \* finalized_batch: the clone the loop pops from
  batchSize,  \* batch_size
  gas,        \* gas_price of this build
  lpc         \* "idle" between builds, "loop" in the while, "done" after it

loopVars == <<finalized, batchSize, gas, lpc>>

LoopVars == <<queue, finalized, batchSize, gas, lpc>>

\* The test of the while loop on the peeked entry e (batch_queue.rs 169-176).
EntryFailsTest(e) ==
  \/ batchSize > MaxBatchByteSize
  \/ FeePerProof(Cardinality(finalized), gas) > e.fee
  \/ Cardinality(finalized) > MaxBatchProofQty

LoopInit ==
  /\ BQInit
  /\ finalized = {}
  /\ batchSize = 0
  /\ gas \in CheckGasPrices
  /\ lpc = "idle"

\* The queue changes only while no build holds the lock.
QueueStep ==
  /\ lpc = "idle"
  /\ BQNext
  /\ UNCHANGED loopVars

\* is_batch_ready clones the queue and try_build_batch computes its size
\* (lib.rs 1144-1150, batch_queue.rs 165-166).
StartBuild(g) ==
  /\ lpc = "idle"
  /\ finalized' = queue
  /\ batchSize' = BatchSize(queue)
  /\ gas' = g
  /\ lpc' = "loop"
  /\ UNCHANGED queue

\* Mutants of the pop: any entry failing the test taken instead of the
\* peeked one, and batch_size not decreased.
PopAnyFailing ==
  /\ lpc = "loop"
  /\ \E e \in finalized :
       /\ EntryFailsTest(e)
       /\ finalized' = finalized \ {e}
       /\ batchSize' = batchSize - e.size
  /\ UNCHANGED <<queue, gas, lpc>>

PopKeepSize ==
  /\ lpc = "loop"
  /\ \E e \in Top(finalized) :
       /\ EntryFailsTest(e)
       /\ finalized' = finalized \ {e}
  /\ UNCHANGED <<queue, batchSize, gas, lpc>>

\* The peeked entry fails the test: its size is subtracted and it is popped
\* (batch_queue.rs 168-191).
PopPeeked ==
  /\ lpc = "loop"
  /\ \E e \in Top(finalized) :
       /\ EntryFailsTest(e)
       /\ finalized' = finalized \ {e}
       /\ batchSize' = batchSize - e.size
  /\ UNCHANGED <<queue, gas, lpc>>

\* The clone is empty, or the peeked entry passes the test: break
\* (batch_queue.rs 168, 194-196).
StopLoop ==
  /\ lpc = "loop"
  /\ \/ finalized = {}
     \/ \E e \in Top(finalized) : ~EntryFailsTest(e)
  /\ lpc' = "done"
  /\ UNCHANGED <<queue, finalized, batchSize, gas>>

\* The batch, or BatchCostTooHigh for an empty clone, is returned, the
\* clone dropped and the lock released (batch_queue.rs 198-204,
\* lib.rs 1151-1163).
ReturnBatch ==
  /\ lpc = "done"
  /\ lpc' = "idle"
  /\ finalized' = {}
  /\ batchSize' = 0
  /\ UNCHANGED <<queue, gas>>

LoopNext ==
  \/ QueueStep
  \/ \E g \in CheckGasPrices : StartBuild(g)
  \/ PopPeeked
  \/ StopLoop
  \/ ReturnBatch

LoopSpec == LoopInit /\ [][LoopNext]_LoopVars

-----------------------------------------------------------------------------
\* A batch the loop stops with is feasible and made of the entries the heap
\* pops last: the loop tests only the peeked entry and subtracts sizes as
\* it pops, yet every entry kept pays the fee per proof and the byte and
\* proof counts are within their limits.
LoopBatchFeasible ==
  lpc = "done" /\ finalized # {} =>
    Feasible(finalized, gas) /\ PopClosed(finalized, queue)

\* The loop, popping one peeked entry at a time with a running batch_size,
\* ends with one of the batches PeelResults (the atomic selection the
\* batcher model uses) allows.
LoopResultInPeelResults ==
  lpc = "done" => finalized \in PeelResults(queue, gas)

=============================================================================
