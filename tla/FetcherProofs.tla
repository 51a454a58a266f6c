---------------------------- MODULE FetcherProofs ----------------------------
(***************************************************************************)
(* Proof that successive calls of ProofsFetcher::fetch scan the blocks    *)
(* from the configured last aggregated block onwards with no gap, for     *)
(* every number of batches, blocks and calls, and whatever the lag of the *)
(* RPC node.                                                               *)
(*                                                                         *)
(* NoBatchSkipped is not inductive on its own: a batch posted later must   *)
(* land above last_aggregated_block, which holds because the node never    *)
(* reports a block above the chain's head.  FInv adds that                 *)
(* last_aggregated_block lies between its configured value and the head,   *)
(* and that posted batches lie above the configured value and at or below *)
(* the head.                                                               *)
(***************************************************************************)
EXTENDS ProofsFetcher, TLAPS

USE FetcherAssumption

FInv ==
  /\ height \in Int
  /\ postedAt \in [BatchIds -> Int]
  /\ lastAggregated \in Int
  /\ logged \in [BatchIds -> Nat]
  /\ fetched \in [BatchIds -> Nat]
  /\ fetches \in Nat
  /\ InitialLast <= lastAggregated /\ lastAggregated <= height
  /\ \A x \in BatchIds :
       postedAt[x] # NotPosted => InitialLast < postedAt[x] /\ postedAt[x] <= height
  /\ NoBatchSkipped

LEMMA InitFInv == Init => FInv
BY DEF Init, FInv, NoBatchSkipped, NotPosted

\* Mining a block, with or without a batch: the new batch lies above
\* last_aggregated_block, so no scanned range should have held it.
LEMMA MineFInv ==
  ASSUME FInv, MineBlock \/ \E x \in BatchIds : PostBatch(x)
  PROVE  FInv'
<1>1. CASE MineBlock
  BY <1>1 DEF FInv, MineBlock, NoBatchSkipped
<1>2. ASSUME NEW y \in BatchIds, PostBatch(y) PROVE FInv'
  <2>1. postedAt' = [postedAt EXCEPT ![y] = height + 1]
        /\ height' = height + 1
        /\ UNCHANGED <<lastAggregated, logged, fetched, fetches>>
    BY <1>2 DEF PostBatch
  <2>2. \A x \in BatchIds : postedAt'[x] # NotPosted =>
          InitialLast < postedAt'[x] /\ postedAt'[x] <= height'
    BY <2>1 DEF FInv, NotPosted
  <2>3. NoBatchSkipped'
    BY <2>1 DEF FInv, NoBatchSkipped
  <2> QED
    BY <2>1, <2>2, <2>3 DEF FInv
<1> QED
  BY <1>1, <1>2

\* A failed call changes nothing but the count of calls.
LEMMA FetchFailedFInv ==
  ASSUME FInv, FetchFailed
  PROVE  FInv'
BY DEF FInv, FetchFailed, NoBatchSkipped

\* A successful call scans last_aggregated_block ..= current: a batch up to
\* the new last_aggregated_block either lay below the old one, and was
\* logged before, or lies in the range just scanned.
LEMMA FetchFInv ==
  ASSUME FInv, Fetch
  PROVE  FInv'
<1>1. PICK current \in lastAggregated .. height :
        \E ok \in SUBSET LogsIn(lastAggregated, current) :
          /\ lastAggregated' = current
          /\ logged' = [x \in BatchIds |->
                         IF x \in LogsIn(lastAggregated, current)
                           THEN logged[x] + 1 ELSE logged[x]]
          /\ fetched' = [x \in BatchIds |->
                          IF x \in ok THEN fetched[x] + 1 ELSE fetched[x]]
  BY DEF Fetch
<1>2. PICK ok \in SUBSET LogsIn(lastAggregated, current) :
          /\ lastAggregated' = current
          /\ logged' = [x \in BatchIds |->
                         IF x \in LogsIn(lastAggregated, current)
                           THEN logged[x] + 1 ELSE logged[x]]
          /\ fetched' = [x \in BatchIds |->
                          IF x \in ok THEN fetched[x] + 1 ELSE fetched[x]]
  BY <1>1
<1>3. UNCHANGED <<height, postedAt>> /\ fetches' = fetches + 1
  BY DEF Fetch
<1>4. ASSUME NEW x \in BatchIds,
             postedAt[x] \in InitialLast .. current
      PROVE  logged'[x] > 0
  <2>1. CASE postedAt[x] < lastAggregated
    <3>1. logged[x] > 0
      BY <2>1, <1>4 DEF FInv, NoBatchSkipped
    <3> QED
      BY <1>2, <3>1 DEF FInv
  <2>2. CASE postedAt[x] >= lastAggregated
    <3>1. x \in LogsIn(lastAggregated, current)
      BY <2>2, <1>4 DEF FInv, LogsIn
    <3> QED
      BY <1>2, <3>1 DEF FInv
  <2> QED
    BY <2>1, <2>2, <1>4 DEF FInv
<1>5. fetched' \in [BatchIds -> Nat] /\ logged' \in [BatchIds -> Nat]
  BY <1>2 DEF FInv
<1> QED
  BY <1>2, <1>3, <1>4, <1>5 DEF FInv, NoBatchSkipped

LEMMA NextFInv == FInv /\ [Next]_vars => FInv'
<1> SUFFICES ASSUME FInv, [Next]_vars PROVE FInv'
  OBVIOUS
<1>1. CASE MineBlock \/ \E x \in BatchIds : PostBatch(x)
  BY <1>1, MineFInv
<1>2. CASE Fetch
  BY <1>2, FetchFInv
<1>3. CASE FetchFailed
  BY <1>3, FetchFailedFInv
<1>4. CASE UNCHANGED vars
  BY <1>4 DEF FInv, vars, NoBatchSkipped
<1> QED
  BY <1>1, <1>2, <1>3, <1>4 DEF Next

\* For every number of batches, blocks and calls of fetch, and whatever
\* the lag of the RPC node and the calls that fail, every batch posted in
\* a block from the configured last aggregated block up to
\* last_aggregated_block has been in the logs of some call of fetch (run
\* fetcher): the inclusive from_block never lets a block fall between two
\* calls.
THEOREM NoBatchSkippedHolds == Spec => []NoBatchSkipped
<1>1. FInv => NoBatchSkipped
  BY DEF FInv
<1> QED
  BY InitFInv, NextFInv, <1>1, PTL DEF Spec

=============================================================================
