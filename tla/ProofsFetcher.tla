---------------------------- MODULE ProofsFetcher ----------------------------
(***************************************************************************)
(* The aggregation mode's ProofsFetcher (aggregation_mode/src/backend/     *)
(* fetcher.rs).  Each call of fetch reads the current block number, asks   *)
(* the service manager for the NewBatchV3 logs of the blocks from          *)
(* last_aggregated_block to that number, both included, stores the number *)
(* as last_aggregated_block, and downloads each logged batch from S3.  A   *)
(* batch whose download fails, or whose proofs are all filtered out        *)
(* (not SP1, undecodable, failing verification), contributes no proofs.    *)
(*                                                                         *)
(* The chain is the environment: blocks are mined, some carrying a         *)
(* NewBatchV3 event.  The RPC node may lag behind the chain.  Proofs are   *)
(* abstracted to the batch that carried them.                              *)
(***************************************************************************)
EXTENDS Integers

CONSTANTS
  BatchIds,     \* the batches the batcher posts
  MaxBlock,     \* the chain grows up to block MaxBlock
  InitialLast,  \* config.get_last_aggregated_block()
  MaxFetches    \* bound on the calls of fetch

ASSUME FetcherAssumption ==
  /\ MaxBlock \in Nat
  /\ InitialLast \in 0 .. MaxBlock
  /\ MaxFetches \in Nat

\* The block of a batch that has not been posted yet.
NotPosted == -1

VARIABLES
  height,         \* the newest mined block
  postedAt,       \* postedAt[x]: the block whose logs hold batch x's event
  lastAggregated, \* ProofsFetcher.last_aggregated_block
  logged,         \* logged[x]: calls of fetch whose logs held batch x
  fetched,        \* fetched[x]: calls of fetch that returned x's proofs
  fetches         \* calls of fetch so far

vars == <<height, postedAt, lastAggregated, logged, fetched, fetches>>

\* ProofsFetcher::new: last_aggregated_block from the configuration; the
\* chain has reached it, and the batches of earlier blocks are not
\* considered.
Init ==
  /\ height = InitialLast
  /\ postedAt = [x \in BatchIds |-> NotPosted]
  /\ lastAggregated = InitialLast
  /\ logged = [x \in BatchIds |-> 0]
  /\ fetched = [x \in BatchIds |-> 0]
  /\ fetches = 0

\* A block with no NewBatchV3 event is mined.
MineBlock ==
  /\ height < MaxBlock
  /\ height' = height + 1
  /\ UNCHANGED <<postedAt, lastAggregated, logged, fetched, fetches>>

\* A block carrying the NewBatchV3 event of batch x is mined.
PostBatch(x) ==
  /\ height < MaxBlock
  /\ postedAt[x] = NotPosted
  /\ height' = height + 1
  /\ postedAt' = [postedAt EXCEPT ![x] = height + 1]
  /\ UNCHANGED <<lastAggregated, logged, fetched, fetches>>

\* The batches whose events lie in blocks from .. to.
LogsIn(from, to) == {x \in BatchIds : postedAt[x] \in from .. to}

\* fetch returns an error and leaves last_aggregated_block alone: the
\* block number or the logs could not be read, or the (lagging) node's
\* block number is below last_aggregated_block (fetcher.rs 51-61, 69-76).
FetchFailed ==
  /\ fetches < MaxFetches
  /\ fetches' = fetches + 1
  /\ UNCHANGED <<height, postedAt, lastAggregated, logged, fetched>>

\* Mutant: the logs queried up to the block before the current one.
FetchToBlockOffByOne ==
  /\ fetches < MaxFetches
  /\ \E current \in lastAggregated .. height :
     \E ok \in SUBSET LogsIn(lastAggregated, current - 1) :
       /\ lastAggregated' = current
       /\ logged' = [x \in BatchIds |->
                      IF x \in LogsIn(lastAggregated, current - 1)
                        THEN logged[x] + 1 ELSE logged[x]]
       /\ fetched' = [x \in BatchIds |->
                       IF x \in ok THEN fetched[x] + 1 ELSE fetched[x]]
  /\ fetches' = fetches + 1
  /\ UNCHANGED <<height, postedAt>>

\* fetch succeeds (fetcher.rs 49-137): the node reports block current, at
\* or below the chain's head and not below last_aggregated_block; the logs
\* of last_aggregated_block ..= current are read, current becomes
\* last_aggregated_block, and the batches whose download and proofs pass
\* (ok) are returned.
Fetch ==
  /\ fetches < MaxFetches
  /\ \E current \in lastAggregated .. height :
     \E ok \in SUBSET LogsIn(lastAggregated, current) :
       /\ lastAggregated' = current
       /\ logged' = [x \in BatchIds |->
                      IF x \in LogsIn(lastAggregated, current)
                        THEN logged[x] + 1 ELSE logged[x]]
       /\ fetched' = [x \in BatchIds |->
                       IF x \in ok THEN fetched[x] + 1 ELSE fetched[x]]
  /\ fetches' = fetches + 1
  /\ UNCHANGED <<height, postedAt>>

Next ==
  \/ MineBlock
  \/ \E x \in BatchIds : PostBatch(x)
  \/ Fetch
  \/ FetchFailed

Spec == Init /\ [][Next]_vars

-----------------------------------------------------------------------------
TypeOK ==
  /\ height \in 0 .. MaxBlock
  /\ postedAt \in [BatchIds -> {NotPosted} \cup 0 .. MaxBlock]
  /\ lastAggregated \in 0 .. MaxBlock
  /\ logged \in [BatchIds -> Nat]
  /\ fetched \in [BatchIds -> Nat]
  /\ fetches \in 0 .. MaxFetches

\* The ranges successive calls of fetch scan leave no gap: every batch
\* posted in a block up to last_aggregated_block was in the logs of some
\* call, whatever the node's lag and the failed calls between.
NoBatchSkipped ==
  \A x \in BatchIds :
    postedAt[x] \in InitialLast .. lastAggregated => logged[x] > 0

\* last_aggregated_block is the "last processed block": once a call has
\* scanned it, no later call returns the proofs of a batch of that block
\* again, so no proof is handed to the aggregator twice.
BatchFetchedAtMostOnce == \A x \in BatchIds : fetched[x] <= 1

=============================================================================
