----------------------------- MODULE BatchQueue -----------------------------
(***************************************************************************)
(* The batcher's priority queue and batch-selection algorithm, from        *)
(* batcher/aligned-batcher/src/types/batch_queue.rs.                       *)
(*                                                                         *)
(* An entry is a record with at least the fields sender, nonce, fee (the   *)
(* max_fee of its NoncedVerificationData, also its priority) and size (the *)
(* length of the CBOR serialisation of its VerificationData).  Entries are *)
(* equal, for the queue, when they share (sender, nonce).  The queue is    *)
(* the set of its entries; the order in which the heap pops them is the    *)
(* priority order below, and entries of equal priority are popped in an    *)
(* order the model leaves open.                                            *)
(*                                                                         *)
(* The module has a state machine of its own (variable queue, BQ* actions) *)
(* that drives the queue through the operations the batcher calls on it,  *)
(* so that TLC checks the selection algorithm on every queue they reach.   *)
(***************************************************************************)
EXTENDS Integers, FiniteSets

CONSTANTS
  Users,                 \* addresses of proof submitters (model values)
  MaxNonce,              \* nonces range over 0..MaxNonce
  Fees,                  \* max_fee values a client may bid
  Sizes,                 \* serialised sizes of a proof's verification data
  MaxBatchByteSize,      \* config batcher.max_batch_byte_size
  MaxBatchProofQty,      \* config batcher.max_batch_proof_qty
  ConstantGasCost,       \* Batcher::constant_gas_cost() (lib.rs 1861-1864)
  AdditionalGasPerProof, \* ADDITIONAL_SUBMISSION_GAS_COST_PER_PROOF
  MaxQueueLen,           \* bound on the queue of the stand-alone check
  CheckGasPrices         \* gas prices the stand-alone check selects at

ASSUME BQAssumption ==
  /\ Users # {}
  /\ MaxNonce \in Nat
  /\ Fees \subseteq Nat /\ Fees # {}
  /\ Sizes \subseteq Nat \ {0} /\ Sizes # {}
  /\ \E m \in Sizes : \A z \in Sizes : z <= m   \* sizes are usize values
  /\ MaxBatchByteSize \in Nat /\ MaxBatchProofQty \in Nat
  /\ ConstantGasCost \in Nat /\ AdditionalGasPerProof \in Nat
  /\ MaxQueueLen \in Nat
  /\ CheckGasPrices \subseteq Nat

\* CBOR_ARRAY_MAX_OVERHEAD (aligned-sdk core/constants.rs line 21).
CborArrayMaxOverhead == 9

Nonces == 0 .. MaxNonce

\* The fields the queue and the selection algorithm look at.
QueueEntry == [sender : Users, nonce : Nonces, fee : Fees, size : Sizes]

\* PartialEq / Hash of BatchQueueEntry: (sender, nonce).
SameKey(x, y) == x.sender = y.sender /\ x.nonce = y.nonce

\* Ord of BatchQueueEntryPriority: x is popped before y.  A lower max_fee
\* is a higher priority; on equal max_fee the higher nonce is.
PoppedBefore(x, y) == \/ x.fee < y.fee
                      \/ x.fee = y.fee /\ x.nonce > y.nonce

\* The entries PriorityQueue::peek may return: those of highest priority.
Top(q) == {e \in q : \A o \in q : ~PoppedBefore(o, e)}

\* The largest serialised size.
MaxSize == CHOOSE m \in Sizes : \A z \in Sizes : z <= m

\* calculate_batch_size: overhead plus the sum of the entries' sizes, the
\* sum counted as the (entry, byte) pairs.
BatchSize(q) ==
  CborArrayMaxOverhead + Cardinality({p \in q \X (1 .. MaxSize) : p[2] <= p[1].size})

\* calculate_fee_per_proof (integer division first, as in the code).
FeePerProof(len, gasPrice) ==
  ((ConstantGasCost + AdditionalGasPerProof * len) \div len) * gasPrice

\* Mutants of the loop condition: the byte-size test left out, and the
\* proof-count test off by one.
BatchNotAcceptableNoSizeCheck(q, gasPrice) ==
  \E e \in Top(q) :
    \/ FeePerProof(Cardinality(q), gasPrice) > e.fee
    \/ Cardinality(q) > MaxBatchProofQty

BatchNotAcceptableQtyOffByOne(q, gasPrice) ==
  \E e \in Top(q) :
    \/ BatchSize(q) > MaxBatchByteSize
    \/ FeePerProof(Cardinality(q), gasPrice) > e.fee
    \/ Cardinality(q) >= MaxBatchProofQty

\* The loop condition of try_build_batch, for the entry peek returns.
BatchNotAcceptable(q, gasPrice) ==
  \E e \in Top(q) :
    \/ BatchSize(q) > MaxBatchByteSize
    \/ FeePerProof(Cardinality(q), gasPrice) > e.fee
    \/ Cardinality(q) > MaxBatchProofQty

(***************************************************************************)
(* try_build_batch: while the queue is non-empty and its peek fails the    *)
(* test, pop.  PeelStage[k] is the set of queues the loop can hold after   *)
(* k pops (one per way of breaking ties); PeelResults the queues it can    *)
(* stop with.  The empty queue among them is BatchCostTooHigh.             *)
(***************************************************************************)
PeelResults(q, gasPrice) ==
  LET Continue(s) == s # {} /\ BatchNotAcceptable(s, gasPrice)
      stage[k \in 0 .. Cardinality(q)] ==
        IF k = 0 THEN {q}
        ELSE UNION {{s \ {e} : e \in Top(s)} : s \in {s \in stage[k - 1] : Continue(s)}}
  IN  {s \in UNION {stage[k] : k \in 0 .. Cardinality(q)} : ~Continue(s)}

(***************************************************************************)
(* Stand-alone state machine: the queue operations the batcher performs.  *)
(***************************************************************************)
VARIABLE queue

BQInit == queue = {}

\* PriorityQueue::push of an entry whose key is not queued (add_to_batch).
BQPush(e) ==
  /\ Cardinality(queue) < MaxQueueLen
  /\ ~\E x \in queue : SameKey(x, e)
  /\ queue' = queue \cup {e}

\* PriorityQueue::remove by key (handle_replacement_message,
\* remove_proofs_from_queue).
BQRemove(e) ==
  /\ queue' = {x \in queue : ~SameKey(x, e)}

\* PriorityQueue::pop (try_build_batch).
BQPop ==
  /\ queue # {}
  /\ \E e \in Top(queue) : queue' = queue \ {e}

BQNext ==
  \/ \E e \in QueueEntry : BQPush(e)
  \/ \E e \in queue : BQRemove(e)
  \/ BQPop

BQSpec == BQInit /\ [][BQNext]_queue

(***************************************************************************)
(* Properties of the stand-alone check.                                    *)
(***************************************************************************)
BQTypeOK == queue \subseteq QueueEntry

\* A batch that could be submitted: within the byte and count limits, and
\* every entry's max_fee covers the fee per proof of a batch of its size.
Feasible(s, gasPrice) ==
  /\ s # {}
  /\ BatchSize(s) <= MaxBatchByteSize
  /\ Cardinality(s) <= MaxBatchProofQty
  /\ \A e \in s : FeePerProof(Cardinality(s), gasPrice) <= e.fee

\* s keeps the entries the heap pops last: none left out pops after one kept.
PopClosed(s, q) == \A x \in s, y \in q \ s : ~PoppedBefore(x, y)

\* Reference definition of the batch (spec section 8, "peel optimality"):
\* the largest feasible sets the heap can leave; BatchCostTooHigh ({}) when
\* there is none.
MaximalBatches(q, gasPrice) ==
  LET cands == {s \in SUBSET q : PopClosed(s, q) /\ Feasible(s, gasPrice)}
  IN  IF cands = {} THEN {{}}
      ELSE {s \in cands : \A t \in cands : Cardinality(t) <= Cardinality(s)}

\* Every batch try_build_batch returns is feasible and made of the entries
\* the heap pops last: checking only the peeked entry's max_fee, the byte
\* count and the proof count is enough for every entry the batch keeps.
PeelBatchFeasible ==
  \A g \in CheckGasPrices : \A s \in PeelResults(queue, g) :
    s # {} => Feasible(s, g) /\ PopClosed(s, queue)

\* No two queued entries have the same priority (max_fee, nonce).
DistinctPriorities(q) ==
  \A x, y \in q : x # y => PoppedBefore(x, y) \/ PoppedBefore(y, x)

\* When the heap's pop order is fixed by the priorities, try_build_batch
\* returns the largest feasible batch, and BatchCostTooHigh only when no
\* feasible batch exists (spec section 8, "peel optimality").
PeelMaximalUnderDistinctPriorities ==
  DistinctPriorities(queue) =>
    \A g \in CheckGasPrices : PeelResults(queue, g) = MaximalBatches(queue, g)

=============================================================================
