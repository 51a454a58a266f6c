# TLA+ models of the Aligned batcher

This directory holds TLA+ models of the Aligned batcher
(`src/batcher/aligned-batcher/src/lib.rs` and `src/types/batch_queue.rs`),
of the aggregation mode's proof fetcher
(`src/aggregation_mode/src/backend/fetcher.rs`):
- TLC configurations that model-check the models on small instances;
- TLAPS proofs of the central invariants, of the block subscription's
  deduplication, of the fetcher's gap-free scanning, and of the refinement of
  an abstract posting protocol.

`PROJECT.json` lists every component, run, mutant, finding and hazard. Its
`map` names the source lines each definition translates.

## The system and how its parts interact

The batcher is a single Tokio process with two kinds of task.

- **Request tasks.** There is one task per `SubmitProof` message, running
  `handle_submit_proof_msg`. It checks the message (signature, verifier,
  pre-verification), reads the user's nonce and balance from the chain, and
  then takes the `BatchState` lock. Under the lock it either adds the entry to
  the priority queue (`add_to_batch`) or replaces a queued entry with a higher
  bid (`handle_replacement_message`). The answer goes to the client's
  websocket sink.
- **Block tasks.** There is one task per new block, running
  `handle_new_block`. It reads `posting_batch`, `last_uploaded_batch_block` and
  the disabled verifiers. Under the lock it then runs `try_build_batch`, which
  peels entries off the heap until the top one can pay the fee per proof, and
  sets `posting_batch`. After that it uploads and calls `createNewTask`. When
  the transaction lands, the payment service debits every submitter, and the
  task removes the batch's proofs from the queue and recomputes the user
  states (`remove_proofs_from_queue`). On a failure it answers the clients
  and flushes the whole queue (`flush_queue_and_clear_nonce_cache`).

Both kinds of task share the queue, the user states and the `posting_batch`
flag, so the interesting behaviours are their interleavings. The chain's
state can also change between the time a task reads it and the time it uses
it.

- **Block subscription.** `listen_new_blocks_retryable` merges the new-head
  streams of a primary and a fallback provider with `select!`. It spawns a
  block task for every head above its local `last_seen_block`. When a stream
  ends, `retry_function` runs it again with a fresh `last_seen_block`.
- **Proof fetcher.** The aggregation mode reads the current block, asks for
  the `NewBatchV3` logs from `last_aggregated_block` to that block (both
  included), stores the block as `last_aggregated_block`, and downloads each
  logged batch.

## Modules

| Module | Models |
|---|---|
| `BatchQueue` | The priority order and key equality of `BatchQueueEntry`; `calculate_batch_size`, `calculate_fee_per_proof` and `try_build_batch` (`PeelResults`, a recursive function over the pop stages); a reference definition `MaximalBatches` of the optimal batch. `BatchSize` counts (entry, byte) pairs, which is the sum of the sizes; `MaxSize`, the largest size, exists because sizes are `usize` values. It also has a small state machine of push, remove and pop that feeds queues to the check. |
| `PeelLoop` | `try_build_batch` one step at a time, as `is_batch_ready` runs it on a clone of the queue while holding the batch-state lock (lib.rs 1113-1163). `StartBuild` clones the queue and computes `batch_size`. `PopPeeked` subtracts the peeked entry's size and pops it when the test fails. `StopLoop` breaks on an empty clone or a passing entry. `ReturnBatch` drops the clone. The queue changes only between builds (`QueueStep`). |
| `Batcher` | The batcher's concurrent core. See below. |
| `BatchPosting` | The abstract posting protocol: blocks are observed; one batch at a time is begun for a block at least `block_interval` past the last upload, recorded as uploaded, and ended. `Batcher` refines it through `Posting`. |
| `BlockSubscription` | `listen_new_blocks` and `listen_new_blocks_retryable`: the two streams, `last_seen_block`, the streams ending, and the retries. The nodes importing blocks are the environment. |
| `ProofsFetcher` | `ProofsFetcher::new` and `fetch`. A lagging node, failed calls, and failed downloads or filtered proofs are nondeterministic outcomes. |
| `MCBatchQueue`, `MCBatcher`, `MCBlockSubscription`, `MCProofsFetcher` | The instances for TLC: message choices, small sets, model values, symmetry. |
| `BatcherProofs`, `AccountingProofs`, `PostingProofs`, `PeelProofs`, `SubscriptionProofs`, `FetcherProofs` | The TLAPS proofs. |

### Batcher: state

| Variable | Code |
|---|---|
| `queue` | `BatchState.batch_queue`, as a set of entries (sender, nonce, fee, size, sys, req) |
| `userStates` | `BatchState.user_states` (nonce, last_max_fee_limit, proofs_in_batch, total_fees_in_queue) |
| `hpc` | The program counter of each request task |
| `fpc`, `fbatch` | The program counter and the popped batch of each block task |
| `posting` | `posting_batch` |
| `lastUploaded` | `last_uploaded_batch_block` |
| `disabled` | The cached disabled verifiers |
| `answered` / `accepted` | The answers sent to each request's sink |
| `block`, `chainNonce`, `chainBalance`, `chainDisabled`, `landed` | The chain |

### Batcher: actions

Each action is one stretch of a task between two awaits, or one whole stretch
under the lock. Every early return of the code is an action, or a disjunct of
one, that answers the client and ends the task.

- Receiving and checking a request: `Receive*`, `CheckUser`, `ReadBalance` and
  `InsertUser`.
- The checks under the lock: `Locked*`.
- Adding an entry: `AddToBatch`.
- Replacement: `ReplacementNotFound`, `ReplacementFeeTooLow`,
  `ReplacementRejected` and `ReplaceEntry`.
- The non-paying path: `NonPayingBalance` and `NonPayingAdd`.
- The block side: `NewBlock`, `ReadChain`, `CheckVerifiers`, `BatchNotReady`,
  `BatchReady`, `SubmitInsufficientBalance`, `SubmitFailed`, `SubmitLanded`,
  `SubmitLandedLate`, `RemoveProofs` and `ResetPosting`.
- The service manager disabling a verifier: `ToggleVerifier`.

A trailing flush or recompute in the code is part of the action that calls
it. For example, `SubmitFailed` answers the batch's clients, flushes the
queue and resets the user states in one step, because the code does all of
this under one lock.

Data is abstracted:
- payloads, signatures and proofs are left out;
- a request carries one of a small set of messages (`MsgChoices`).

The upload and the RPC retries are abstracted to their outcomes. The
`ReceiptNotFound` path has two outcomes:
- the cancel wins (`SubmitFailed`);
- the original transaction is mined first (`SubmitLandedLate`).

## Runs

| Run | Checks | Result |
|---|---|---|
| `peel` | `PeelBatchFeasible` (every batch `try_build_batch` returns is within limits and every entry pays); `PeelMaximalUnderDistinctPriorities` (the batch is the largest feasible one when priorities are distinct); on `PeelLoop`'s spec, `LoopBatchFeasible` (the loop stops with a feasible batch of the entries popped last) and `LoopResultInPeelResults` (the step-by-step loop, with its running `batch_size`, stops with a batch `PeelResults` allows) | pass, 9760 states |
| `batcher` | `QueueWithinUserState`, `UserStateAccounting`, `AtMostOneBatchInFlight`, `LastUploadedNeverDecreases`, with a balance that covers only part of the bids, so the insufficient-balance paths fire | pass, about 1.24M states |
| `silent_drop` | `NoSilentDrop`: every queued or finished request has been answered or is still queued | **violation**: a replacement arriving while its batch is in flight |
| `block_behind` | `NoBlockBehindLastUploaded` | **violation**: `block_number - last_uploaded_batch_block` underflows for an older block task |
| `landed_requeued` | `LandedNotRequeued` | **violation**: after `ReceiptNotFound`, the original transaction lands, and the charged proofs stay queued for resubmission |
| `stale_balance` | `BalanceSufficiency`: an entry is added only if the balance covers the user's queued fees | **violation**: the balance checked is read before the lock and can be stale when used |
| `batcher_posting` | `PostingRefinement` (the batcher implements `BatchPosting`), and `PostingEventuallyReleased` (`posting_batch` is always eventually reset) under `FairSpec`, with a non-paying principal | pass, about 262K states |
| `stale_verifier_cache` | `BatchedVerifiersEnabled`: no batch in flight holds a proof for a verifier the chain has disabled | **violation**: a request checks the cache, then awaits RPCs while a block task refreshes the cache and flushes; its proof is then queued and batched |
| `user_nonce_behind_chain` | `UserNonceNotBehindChain`: a user state's nonce is at least the contract's | **violation**: the chain nonce is read before `or_insert`. A batch of the user lands and a flush clears the states in between, so the stale nonce is inserted |
| `block_subscription` | `HandledAtMostOncePerRun` (no block gets more tasks than there have been runs), and `AnnouncedBlockHandled` (a head announced while subscribed leads to a task for it or a newer block, unless the stream ends) | pass |
| `fetcher` | `NoBatchSkipped`: every batch posted up to `last_aggregated_block` has been in the logs of some call | pass |
| `fetched_twice` | `BatchFetchedAtMostOnce` | **violation**: the inclusive `from_block` rescans the last processed block |

`PROJECT.json` has the findings in detail.

Each property of a passing run has a mutant of a mapped definition that TLC
must catch, for example:
- `BatchReadyIgnorePosting`: the `posting_batch` test is dropped;
- `TakeNoRecord`: `last_seen_block` is not updated when a block is let through;
- `BatchNotAcceptableQtyOffByOne`: an off-by-one in the proof-count test.

### Bounds

The instances are small, but each reaches the cases the properties are about:
- **Users and nonces.** Two users (three with a non-paying principal) and
  nonces 0..1 allow a replacement (same nonce), a second nonce of the same
  user, and a second sender.
- **Requests.** Three requests let a replacement race a batch that holds its
  original.
- **Blocks.** Two blocks allow two block tasks to overlap, which is needed for
  `AtMostOneBatchInFlight` and the underflow.
- **Fees and gas costs.** These are chosen so that the fee per proof is 5, 3
  and 2 for batches of 1, 2 and 3 proofs. Peeling therefore really drops
  cheap entries, and a batch is sometimes too expensive.
- **Balance.** `InitBalance` 8 pays for every batch, so a bid above the
  fee limit or a too-low replacement is rejected for that reason
  (`batcher_posting` and the violation runs). 7 (run `batcher`) does not, so
  admission and the simulation also reject for balance.
- **Liveness run.** `batcher_posting` has two requests, which keeps the
  fair-behaviour check small; its non-paying principal b is signed for by c.
- **Subscription.** Two providers, three blocks and three runs. This is
  enough for a lagging provider to replay a block after a reconnect, and for
  the two streams to deliver the same head in either order.
- **Fetcher.** Two batches (symmetric model values), blocks up to 4 from a
  configured block 1, and four calls. A batch can then land in the last
  processed block, in a block the lagging node has not reported yet, and after
  a failed call.

Larger instances only multiply interleavings of the same kinds.

### Fairness

The safety runs use `Spec` with no fairness. Two liveness properties are
checked, each under fairness that the code's scheduling justifies:
- `PostingEventuallyReleased` uses `FairSpec`: weak fairness of every
  request task's and block task's step (`HandlerStep`, `BlockTaskStep`).
  Each task is a spawned Tokio task, and the runtime keeps polling it while it
  is ready. Its awaits on RPCs are modelled by their outcomes, so an enabled
  step stays enabled. The chain and the arrival of blocks get no fairness.
- `AnnouncedBlockHandled` uses weak fairness of `Take(s)` for each stream
  (`select!` polls both branches in random order, so a ready stream is not
  starved) and of `Subscribe` (`retry_function` calls the listener again
  until its retries run out). The nodes importing blocks and streams ending
  get no fairness.

### Refinement

`Batcher` declares `Posting == INSTANCE BatchPosting WITH phase <-
PostingPhase, inFlight <- PostingBlock`. Under this mapping:
- a batch is "posting" from `is_batch_ready` setting `posting_batch` until a
  task leaves "submit";
- it is "uploaded" until the reset in `handle_new_block`;
- `inFlight` is the block of the task between the two.

The run `batcher_posting` checks `PostingRefinement == Posting!Spec` as a
`PROPERTY`, and `PostingProofs` proves it.

## Proofs (checked by `tlapm`)

### `BatcherProofs`

- `TypeCorrect == ~NonPaying => (Spec => []TypeOK)`. It is the base the
  other batcher proofs rest on. No run checks `TypeOK`: its only part that
  the batcher code could break, a balance charged below zero, is decided by
  the contract's revert, which the model takes from the spec. So no
  mutation of the batcher code violates it.
- `QueueWithinUserStateHolds == ~NonPaying => (Spec => []QueueWithinUserState)`.

These hold for every value of the constants that meets the module's `ASSUME`s
(`BatcherAssumption`, `FeesWellOrdered`, `NonPayingAssumption`,
`MsgChoicesAssumption`).

Neither invariant is inductive on its own, so both rest on `IInv`. `IInv` is
`TypeOK /\ QueueWithinUserState` plus these conjuncts:
- the queue is finite;
- every block's batch is finite;
- a block task at "submit" holds a non-empty batch.

The finiteness conjuncts are needed because `FeeSum`, `MinFeeInQueue` and
`Cardinality` are only well typed on finite sets. The non-empty batch
conjunct is needed because the fee per proof divides by the batch size.

The proof has three parts:
- `InitIInv`: `Init` establishes `IInv`.
- `NextIInv`: every action preserves it, with one lemma per action or group of
  actions.
- Frame lemmas (`FrameIInv`, `FrameBlockIInv`) for the steps that leave the
  lock-protected state alone.

The non-paying principal is excluded (`~NonPaying`) because the model shows
`QueueWithinUserState` is false with it: two non-paying requests that read
the same nonce are both counted in the replacement signer's user state, but
only one entry is queued, since the push finds an equal entry (lib.rs 1020,
1730).

### `AccountingProofs`

`UserStateAccountingHolds == ~NonPaying => (Spec => []UserStateAccounting)`:
every known user's `proof_count` and `total_fees_in_queue` are the number and
the max_fee sum (`FeeSum`) of its queued entries. It holds under the same
assumptions as `BatcherProofs`.

`UserStateAccounting` is not inductive on its own. Its preservation needs
facts about the queue:
- `add_to_batch` adds one to the count only if the pushed entry is new;
- a replacement changes the total by the fee difference only if the replaced
  entry is the only one queued with its key;
- `or_insert` starts a new user at zero only if the user has no queued entry;
- counting needs a finite queue.

`QueueWithinUserState` and the finiteness conjunct of `IInv` give all of
these. So the proof conjoins `UserStateAccounting` to `IInv` and reuses
`NextIInv`. It rests on lemmas about `FeeSum`:
- `FeeSumAdd`: adding a new entry adds its max_fee;
- `FeeSumRemove`: removing an entry subtracts it.

These are proved by counting fee units, `FeeSum(S)` being the cardinality of
the pairs (entry, unit). Then there is one lemma per step that changes the
queue or the user states:
- `InsertUserAccounting`;
- `AddToBatchAccounting`;
- `ReplaceEntryAccounting`;
- `RemoveProofsAccounting`;
- `FlushAccounting`.

The non-paying principal is excluded for the reason given under
`BatcherProofs`. TLC confirms that `QueueWithinUserState` fails with it.

### `PeelProofs`

`try_build_batch` tests only the entry the heap peeks. Two theorems say why
that is enough, for every value of the constants:
- `PeekCheckSufficient`: if the test passes on a finite, non-empty queue,
  then it is `Feasible`: every entry's max_fee covers the fee per proof,
  not only the peeked entry's, and the byte and proof counts are within
  their limits. The peeked entry
  bids the least max_fee (`TopLeastFee`). The heap always has such an entry
  (`TopNonEmpty`, from the well-foundedness of `<` on `Nat`).
- `PeekOrder`: what the peek returns under `Ord for BatchQueueEntryPriority`.
  Every non-empty queue has a peek. It bids the least max_fee, and has the
  highest nonce among the entries bidding that fee. When no two entries
  share a priority, the peek is a single entry, so the pops are determined.

The lemma `PopKeepsPopClosed` says that popping the top keeps the batch made
of the entries the heap pops last. It holds for any order.

`BatchSize` counts (entry, byte) pairs, so it is a natural number of a
finite set (`BatchSizeType`). Removing an entry takes exactly its size off
(`BatchSizeRemove`, from `SizeUnitsAdd`). Both rest on `MaxSize`, the
largest size, which exists because sizes are `usize` values (`BQAssumption`).
`PeekCheckSufficient` therefore concludes `Feasible`, the byte limit
included.

`LoopBatchFeasibleHolds == LoopSpec => []LoopBatchFeasible` carries these
facts through the steps of `PeelLoop`. `LoopBatchFeasible` is not inductive
by itself, and the inductive invariant `LInv` adds:
- the queue is a finite set of entries;
- the clone is a subset of the queue, and is empty between builds;
- during and after the loop, the clone is made of the entries the heap pops
  last, and `batchSize` equals `BatchSize(clone)`;
- after the loop, the clone is empty or its peeked entry passed the test.

Each action gets its own lemma. The pop uses `PopKeepsPopClosed` and
`BatchSizeRemove`, and the break keeps the passing peeked entry.
`PassedTestFeasible` then turns the last conjunct into `Feasible`. TLC
checked `LInv` on the `peel` instance before the proof.

The same facts would give `PeelBatchFeasible` carried through the stages of
`PeelResults`. That is an induction over a recursive function, which the
provers cannot do, so it is left to TLC. The `peel` run also checks that the
loop and `PeelResults` agree (`LoopResultInPeelResults`).

### `PostingProofs`

- `PostingRefinementHolds == Spec => PostingRefinement`.
- `AtMostOneBatchInFlightHolds`.
- `LastUploadedNeverDecreasesHolds`.

These hold for every configuration, including one with a non-paying
principal. The invariant `PInv` speaks only of the block tasks:
- a task has a step only for an observed block;
- at most one task is between `is_batch_ready` and the reset;
- `posting_batch` is set exactly while there is one;
- a task about to submit has a block at or past the last uploaded one.

Each batcher step is shown to map to a `BatchPosting` step or a stutter.

### `SubscriptionProofs`

`HandledAtMostOncePerRunHolds == Spec => []HandledAtMostOncePerRun`. The
property is not inductive, so `SInv` adds that a block above
`last_seen_block` of a running subscription still owes one task to the
current run: its count is strictly below `runs`. A `Take` that lets a block
through raises its count by one and closes it. A new run raises `runs`.

### `FetcherProofs`

`NoBatchSkippedHolds == Spec => []NoBatchSkipped`. `FInv` adds three facts:
- `last_aggregated_block` lies between its configured value and the chain's
  head;
- every posted batch lies above the configured value and at or below the
  head;
- consequently, a batch posted later lands above `last_aggregated_block`.

A successful call then covers every block from the old
`last_aggregated_block` to the new one.

## What is only model-checked

The following are checked by TLC on the instances above and are not proved:
- The selection algorithm's properties `PeelBatchFeasible` and
  `PeelMaximalUnderDistinctPriorities`. `PeelResults` is a recursive function
  over the pop stages, and the provers cannot do induction over it. The
  same safety fact for the step-by-step loop, `LoopBatchFeasible`, is proved
  (`LoopBatchFeasibleHolds`). `LoopResultInPeelResults`, which ties the loop
  to `PeelResults`, is also TLC-only for the same reason.
- The liveness properties `PostingEventuallyReleased` and
  `AnnouncedBlockHandled`. TLAPS does not handle liveness under fairness or
  `ENABLED`.
- The violations.

## Not modelled

- Connection handling (`listen_connections`, `handle_connection`,
  `handle_message`), the read-only nonce query
  (`handle_get_nonce_for_address_msg`) and metrics: I/O.
- The Aligned CLI and the zkquiz example: argument parsing and I/O around the
  SDK, which is not in this repository.
- Restarts. Nothing is persisted (spec section 1), so a restarted batcher is
  a fresh `Init`, which the model's `Init` already covers with any chain state.
  A stream ending and reconnecting is modelled, in `BlockSubscription`.
- The contents of proofs and signatures.
- The gas-bump schedule of retries.
