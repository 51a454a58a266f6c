------------------------------- MODULE Batcher -------------------------------
(***************************************************************************)
(* The batcher's concurrent core, from batcher/aligned-batcher/src/lib.rs: *)
(* the BatchState behind its lock (queue and user states), the             *)
(* posting_batch flag, last_uploaded_batch_block and the cached            *)
(* disabled_verifiers; one task per SubmitProof message                    *)
(* (handle_submit_proof_msg) and one per new block (handle_new_block).     *)
(* Every await of a task is a step boundary; a stretch the code runs while *)
(* holding the BatchState lock is a single step.                           *)
(*                                                                         *)
(* The chain is an environment: the BatcherPaymentService's user nonces    *)
(* and balances, which createNewTask debits, and the service manager's     *)
(* disabled verifiers, which may change at any time.                       *)
(***************************************************************************)
EXTENDS BatchQueue

CONSTANTS
  Reqs,                   \* SubmitProof messages (one task each)
  Systems,                \* proving systems
  MaxBlock,               \* blocks 1..MaxBlock are observed
  GasPrices,              \* gas prices the RPC may report
  InitBalance,            \* every user's deposit in the payment service
  U256Max,                \* U256::MAX, the fee limit of a fresh user state
  MinBlockInterval,       \* config batcher.block_interval
  PreVerificationEnabled, \* config batcher.pre_verification_is_enabled
  ReplacementMayBeInvalid,\* replacement_entry_is_valid may return false
  MsgChoices,             \* the messages the requests may carry
  NonPaying,              \* config batcher.non_paying is present
  NonPayingUser,          \*   its address (the non-paying principal)
  ReplacementUser,        \*   the address of its replacement signer
  DefaultMaxFee           \* DEFAULT_MAX_FEE_PER_PROOF

ASSUME BatcherAssumption ==
  /\ IsFiniteSet(Reqs) /\ IsFiniteSet(Users) /\ IsFiniteSet(Systems)
  /\ MaxBlock \in Nat /\ GasPrices \subseteq Nat /\ GasPrices # {}
  /\ InitBalance \in Nat /\ U256Max \in Nat /\ MinBlockInterval \in Nat
  /\ Fees \subseteq 0 .. U256Max
  /\ PreVerificationEnabled \in BOOLEAN /\ ReplacementMayBeInvalid \in BOOLEAN

\* Every non-empty set of fee bids has a least element (true of any finite
\* set of naturals; stated for the fee set so that proofs may use it).
ASSUME FeesWellOrdered ==
  \A S \in SUBSET Fees : S # {} => \E m \in S : \A f \in S : m <= f

\* GAS_PRICE_PERCENTAGE_MULTIPLIER and PERCENTAGE_DIVIDER (constants.rs).
GasPricePercentageMultiplier == 110
PercentageDivider == 100

Blocks == 1 .. MaxBlock

\* A queued BatchQueueEntry: its data, and the request whose connection
\* sink (messaging_sink) it answers on.
Entry == [sender : Users, nonce : Nonces, fee : Fees, size : Sizes,
          sys : Systems, req : Reqs]

\* The NoncedVerificationData a SubmitProof message carries, once its
\* signature is recovered (sender).
Msg == [sender : Users, nonce : Nonces, fee : Fees, size : Sizes, sys : Systems]

\* The messages the requests may carry, once their signature is recovered.
ASSUME NonPayingAssumption ==
  /\ NonPaying \in BOOLEAN
  /\ NonPayingUser \in Users /\ ReplacementUser \in Users
  /\ NonPayingUser # ReplacementUser
  /\ DefaultMaxFee \in Fees

ASSUME MsgChoicesAssumption == MsgChoices \subseteq [Reqs -> Msg] /\ MsgChoices # {}

UserState == [nonce : Nat, limit : Nat, count : Nat, total : Nat]

\* UserState::new(nonce).
NewUserState(n) == [nonce |-> n, limit |-> U256Max, count |-> 0, total |-> 0]

\* Steps of a SubmitProof task and of a new-block task.
HandlerPCs == {"idle", "checkUser", "insertUser", "balance", "locked", "done"}
              \cup IF NonPaying THEN {"nonpaying"} ELSE {}
BlockPCs == {"none", "read", "verifiers", "ready", "submit", "remove",
             "reset", "done"}

VARIABLES
  userStates,     \* BatchState.user_states: a function on known addresses
  posting,        \* Batcher.posting_batch
  lastUploaded,   \* Batcher.last_uploaded_batch_block
  disabledCache,  \* Batcher.disabled_verifiers
  block,          \* the newest block the subscription has delivered
  chainDisabled,  \* service manager: disabled verifiers
  chainNonce,     \* payment service: user_nonces
  chainBalance,   \* payment service: user_balances
  hpc, msg,       \* SubmitProof task: step, message
  hnonce, hbal,   \*   nonce and balance it read from the chain
  fpc,            \* new-block task: step
  fgas, fdis,     \*   gas price and disabled verifiers it read
  fbatch,         \*   the batch it is submitting
  answer,         \* responses delivered on each request's connection
  closed,         \* requests whose connection sink the batcher closed
  accepted,       \* requests whose proof entered the queue
  superseded,     \* requests whose entry a replacement took over
  landed          \* requests whose proof a landed createNewTask carried

batcherVars == <<queue, userStates, posting, lastUploaded, disabledCache>>
chainVars == <<block, chainDisabled, chainNonce, chainBalance, landed>>
handlerVars == <<hpc, msg, hnonce, hbal>>
blockVars == <<fpc, fgas, fdis, fbatch>>
clientVars == <<answer, closed, accepted, superseded>>
vars == <<batcherVars, chainVars, handlerVars, blockVars, clientVars>>

-----------------------------------------------------------------------------
(* Helpers on the queue and the user states.                               *)

\* The queued entries of user a.
EntriesOf(a, q) == {e \in q : e.sender = a}

\* The sum of max_fee over a set of entries, counted in fee units: the
\* pairs <<e, i>> with 1 <= i <= e.max_fee.
FeeSum(S) == Cardinality({p \in S \X (1 .. U256Max) : p[2] <= p[1].fee})

\* BatchState::get_user_min_fee_in_batch: least max_fee of a's entries,
\* U256::MAX when a has none.
MinFeeInQueue(a, q) ==
  LET fees == {e.fee : e \in EntriesOf(a, q)}
  IN  IF fees = {} THEN U256Max
      ELSE CHOOSE f \in fees : \A g \in fees : f <= g

\* calculate_new_user_states_data applied to every known user (the nonce is
\* kept; the counters are recomputed from the queue left).
RecomputedUserStates(us, q) ==
  [a \in DOMAIN us |-> [nonce |-> us[a].nonce,
                        limit |-> MinFeeInQueue(a, q),
                        count |-> Cardinality(EntriesOf(a, q)),
                        total |-> FeeSum(EntriesOf(a, q))]]

\* send_message to the sink of request r: lost once the sink is closed.
Deliver(ans, rs, kind) ==
  [r \in Reqs |-> IF r \in rs \ closed THEN ans[r] \cup {kind} ELSE ans[r]]

\* The entry a message becomes when request r enqueues it.
EntryOf(r) == [sender |-> msg[r].sender, nonce |-> msg[r].nonce,
               fee |-> msg[r].fee, size |-> msg[r].size, sys |-> msg[r].sys,
               req |-> r]

\* is_nonpaying (lib.rs 1683-1687).
IsNonPaying(a) == NonPaying /\ a = NonPayingUser

\* The user states a flush leaves: none; with a non-paying configuration,
\* the replacement signer's fresh state when its nonce could be read
\* (lib.rs 1349-1371).
FlushedUserStates ==
  {[a \in {} |-> NewUserState(0)]} \cup
  IF NonPaying
    THEN {[a \in {ReplacementUser} |-> NewUserState(chainNonce[ReplacementUser])]}
    ELSE {}

\* flush_queue_and_clear_nonce_cache (no non-paying address configured):
\* BatchReset to every queued entry's sink, then both maps cleared.
Flush ==
  /\ answer' = Deliver(answer, {e.req : e \in queue}, "reset")
  /\ queue' = {}
  /\ userStates' \in FlushedUserStates

-----------------------------------------------------------------------------
Init ==
  /\ queue = {}
  /\ userStates = IF NonPaying
                   THEN [a \in {ReplacementUser} |-> NewUserState(0)]
                   ELSE [a \in {} |-> NewUserState(0)]
  /\ posting = FALSE
  /\ lastUploaded = 0
  /\ disabledCache = {}
  /\ block = 0
  /\ chainDisabled = {}
  /\ chainNonce = [a \in Users |-> 0]
  /\ chainBalance = [a \in Users |-> InitBalance]
  /\ hpc = [r \in Reqs |-> "idle"]
  /\ msg \in MsgChoices
  /\ hnonce = [r \in Reqs |-> 0]
  /\ hbal = [r \in Reqs |-> 0]
  /\ fpc = [b \in Blocks |-> "none"]
  /\ fgas = [b \in Blocks |-> 0]
  /\ fdis = [b \in Blocks |-> {}]
  /\ fbatch = [b \in Blocks |-> {}]
  /\ answer = [r \in Reqs |-> {}]
  /\ closed = {}
  /\ accepted = {}
  /\ superseded = {}
  /\ landed = {}


-----------------------------------------------------------------------------
(***************************************************************************)
(* handle_submit_proof_msg (lib.rs 553-819), one task per request r.      *)
(***************************************************************************)

\* The message fails a check that depends on the message alone: chain id,
\* payment service address, proof size, signature, the pre-verification of
\* the proof; or the user's deposit is unlocked (an RPC error reads as
\* locked).  Each answers with its rejection and ends the task.
ReceiveRejected(r) ==
  /\ hpc[r] = "idle"
  /\ hpc' = [hpc EXCEPT ![r] = "done"]
  /\ answer' = Deliver(answer, {r}, "rejected")
  /\ UNCHANGED <<batcherVars, chainVars, msg, hnonce, hbal, blockVars,
                 closed, accepted, superseded>>

\* is_verifier_disabled against the cached bitmap (lib.rs 596-617).
ReceiveDisabledVerifier(r) ==
  /\ hpc[r] = "idle"
  /\ PreVerificationEnabled
  /\ msg[r].sys \in disabledCache
  /\ hpc' = [hpc EXCEPT ![r] = "done"]
  /\ answer' = Deliver(answer, {r}, "disabledVerifier")
  /\ UNCHANGED <<batcherVars, chainVars, msg, hnonce, hbal, blockVars,
                 closed, accepted, superseded>>

\* Every check before the user state passes.
Receive(r) ==
  /\ hpc[r] = "idle"
  /\ PreVerificationEnabled => msg[r].sys \notin disabledCache
  /\ hpc' = [hpc EXCEPT ![r] = "checkUser"]
  /\ UNCHANGED <<batcherVars, chainVars, msg, hnonce, hbal, blockVars,
                 clientVars>>

\* contains_key under a short lock; on a miss, get_user_nonce_from_ethereum
\* (lib.rs 656-677).  The nonce is read now and inserted later.
CheckUser(r) ==
  LET a == msg[r].sender IN
  /\ hpc[r] = "checkUser"
  /\ ~IsNonPaying(a)
  /\ \/ /\ a \in DOMAIN userStates
        /\ hpc' = [hpc EXCEPT ![r] = "balance"]
        /\ UNCHANGED <<hnonce, answer>>
     \/ /\ a \notin DOMAIN userStates
        /\ hpc' = [hpc EXCEPT ![r] = "insertUser"]
        /\ hnonce' = [hnonce EXCEPT ![r] = chainNonce[a]]
        /\ UNCHANGED answer
     \/ /\ a \notin DOMAIN userStates
        /\ hpc' = [hpc EXCEPT ![r] = "done"]
        /\ answer' = Deliver(answer, {r}, "rpcError")
        /\ UNCHANGED hnonce
  /\ UNCHANGED <<batcherVars, chainVars, msg, hbal, blockVars,
                 closed, accepted, superseded>>

\* entry(addr).or_insert(UserState::new(nonce)) (lib.rs 678-683).
InsertUser(r) ==
  LET a == msg[r].sender IN
  /\ hpc[r] = "insertUser"
  /\ userStates' = IF a \in DOMAIN userStates THEN userStates
                   ELSE [x \in DOMAIN userStates \cup {a} |->
                           IF x = a THEN NewUserState(hnonce[r])
                           ELSE userStates[x]]
  /\ hpc' = [hpc EXCEPT ![r] = "balance"]
  /\ UNCHANGED <<queue, posting, lastUploaded, disabledCache, chainVars,
                 msg, hnonce, hbal, blockVars, clientVars>>

\* get_user_balance (lib.rs 690-699), read before the lock is taken.
ReadBalance(r) ==
  LET a == msg[r].sender IN
  /\ hpc[r] = "balance"
  /\ \/ /\ hpc' = [hpc EXCEPT ![r] = "locked"]
        /\ hbal' = [hbal EXCEPT ![r] = chainBalance[a]]
        /\ UNCHANGED answer
     \/ /\ hpc' = [hpc EXCEPT ![r] = "done"]
        /\ answer' = Deliver(answer, {r}, "rpcError")
        /\ UNCHANGED hbal
  /\ UNCHANGED <<batcherVars, chainVars, msg, hnonce, blockVars,
                 closed, accepted, superseded>>

\* The locked section ends the task with a rejection kind.
LockedReject(r, kind) ==
  /\ hpc' = [hpc EXCEPT ![r] = "done"]
  /\ answer' = Deliver(answer, {r}, kind)
  /\ UNCHANGED <<batcherVars, chainVars, msg, hnonce, hbal, blockVars,
                 closed, accepted, superseded>>

\* The user state is gone (a flush ran since it was inserted): the getters
\* return None and the task answers AddToBatchError (lib.rs 707-731, 744-755).
LockedNoUserState(r) ==
  /\ hpc[r] = "locked"
  /\ msg[r].sender \notin DOMAIN userStates
  /\ LockedReject(r, "addToBatchError")

\* verify_user_has_enough_balance fails (lib.rs 733-742, 827-835).
LockedInsufficientBalance(r) ==
  LET a == msg[r].sender IN
  /\ hpc[r] = "locked"
  /\ a \in DOMAIN userStates
  /\ hbal[r] < userStates[a].total + msg[r].fee
  /\ LockedReject(r, "insufficientBalance")

\* The locked checks that pass before the nonce comparison.
BalanceChecked(r) ==
  LET a == msg[r].sender IN
  /\ hpc[r] = "locked"
  /\ a \in DOMAIN userStates
  /\ hbal[r] >= userStates[a].total + msg[r].fee

\* A nonce ahead of the expected one (lib.rs 757-767).
LockedInvalidNonce(r) ==
  /\ BalanceChecked(r)
  /\ msg[r].nonce > userStates[msg[r].sender].nonce
  /\ LockedReject(r, "invalidNonce")

\* A max_fee above the user's limit (lib.rs 785-795).
LockedInvalidMaxFee(r) ==
  LET us == userStates[msg[r].sender] IN
  /\ BalanceChecked(r)
  /\ msg[r].nonce = us.nonce
  /\ msg[r].fee > us.limit
  /\ LockedReject(r, "invalidMaxFee")

\* Mutant: the fee limit left unchanged by an admission.
AddToBatchKeepLimit(r) ==
  LET a == msg[r].sender
      us == userStates[a]
  IN
  /\ BalanceChecked(r)
  /\ msg[r].nonce = us.nonce
  /\ msg[r].fee <= us.limit
  /\ queue' = queue \cup {EntryOf(r)}
  /\ userStates' = [userStates EXCEPT ![a] =
                      [nonce |-> msg[r].nonce + 1, limit |-> us.limit,
                       count |-> us.count + 1, total |-> us.total + msg[r].fee]]
  /\ hpc' = [hpc EXCEPT ![r] = "done"]
  /\ accepted' = accepted \cup {r}
  /\ UNCHANGED <<posting, lastUploaded, disabledCache, chainVars, msg,
                 hnonce, hbal, blockVars, answer, closed, superseded>>

\* add_to_batch (lib.rs 1006-1091): push, then update_user_state with
\* nonce + 1, the new max_fee as the limit, count + 1 and total + max_fee.
AddToBatch(r) ==
  LET a == msg[r].sender
      us == userStates[a]
  IN
  /\ BalanceChecked(r)
  /\ msg[r].nonce = us.nonce
  /\ msg[r].fee <= us.limit
  /\ queue' = queue \cup {EntryOf(r)}
  /\ userStates' = [userStates EXCEPT ![a] =
                      [nonce |-> msg[r].nonce + 1, limit |-> msg[r].fee,
                       count |-> us.count + 1, total |-> us.total + msg[r].fee]]
  /\ hpc' = [hpc EXCEPT ![r] = "done"]
  /\ accepted' = accepted \cup {r}
  /\ UNCHANGED <<posting, lastUploaded, disabledCache, chainVars, msg,
                 hnonce, hbal, blockVars, answer, closed, superseded>>


(***************************************************************************)
(* handle_nonpaying_msg (lib.rs 1695-1762), entered after the checks on    *)
(* the message when its signer is the non-paying principal (lib.rs        *)
(* 636-641).  The proof is queued under the replacement signer's address   *)
(* with the client's nonce and DEFAULT_MAX_FEE_PER_PROOF.                  *)
(***************************************************************************)

\* get_user_balance of the replacement signer: an RPC error, or a zero
\* balance, answers InsufficientBalance (lib.rs 1707-1726).
NonPayingBalance(r) ==
  /\ hpc[r] = "checkUser"
  /\ IsNonPaying(msg[r].sender)
  /\ \/ /\ chainBalance[ReplacementUser] > 0
        /\ hpc' = [hpc EXCEPT ![r] = "nonpaying"]
        /\ UNCHANGED answer
     \/ /\ hpc' = [hpc EXCEPT ![r] = "done"]
        /\ answer' = Deliver(answer, {r}, "insufficientBalance")
  /\ UNCHANGED <<batcherVars, chainVars, msg, hnonce, hbal, blockVars,
                 closed, accepted, superseded>>

\* The entry a non-paying request becomes.
NonPayingEntry(r) ==
  [EntryOf(r) EXCEPT !.sender = ReplacementUser, !.fee = DefaultMaxFee]

\* Under the lock, add_to_batch with no check of the nonce or the fee
\* limit (lib.rs 1728-1758).  PriorityQueue::push of an entry equal to a
\* queued one keeps the queued item (with its sink) and only sets its
\* priority, here the same.  The push comes before the user-state lookup
\* (lib.rs 1020-1070): when the replacement signer has no user state (its
\* nonce could not be read at the last flush) the entry stays queued and
\* the client is answered AddToBatchError.
NonPayingAdd(r) ==
  LET R == ReplacementUser
      e == NonPayingEntry(r)
  IN
  /\ hpc[r] = "nonpaying"
  /\ queue' = IF \E x \in queue : SameKey(x, e) THEN queue ELSE queue \cup {e}
  /\ IF R \in DOMAIN userStates
       THEN /\ userStates' = [userStates EXCEPT ![R] =
                               [nonce |-> msg[r].nonce + 1, limit |-> DefaultMaxFee,
                                count |-> userStates[R].count + 1,
                                total |-> userStates[R].total + DefaultMaxFee]]
            /\ accepted' = accepted \cup {r}
            /\ UNCHANGED answer
       ELSE /\ UNCHANGED <<userStates, accepted>>
            /\ answer' = Deliver(answer, {r}, "addToBatchError")
  /\ hpc' = [hpc EXCEPT ![r] = "done"]
  /\ UNCHANGED <<posting, lastUploaded, disabledCache, chainVars, msg,
                 hnonce, hbal, blockVars, closed, superseded>>


(***************************************************************************)
(* handle_replacement_message (lib.rs 844-968), entered with the lock held *)
(* when the nonce is below the expected one.                               *)
(***************************************************************************)

\* The queued entry with the message's (sender, nonce): get_entry.
QueuedWithKey(r) == {e \in queue : SameKey(e, msg[r])}

\* No such entry: InvalidNonce (lib.rs 854-865).
ReplacementNotFound(r) ==
  /\ BalanceChecked(r)
  /\ msg[r].nonce < userStates[msg[r].sender].nonce
  /\ QueuedWithKey(r) = {}
  /\ LockedReject(r, "invalidNonce")

\* The queued entry bids more: InvalidReplacementMessage (lib.rs 867-879).
ReplacementFeeTooLow(r) ==
  /\ BalanceChecked(r)
  /\ msg[r].nonce < userStates[msg[r].sender].nonce
  /\ \E old \in QueuedWithKey(r) : old.fee > msg[r].fee
  /\ LockedReject(r, "invalidReplacement")

\* The old entry's sink is closed first (lib.rs 890-904); then
\* replacement_entry_is_valid, whose body is not in this repository,
\* rejects the replacement: the old entry stays queued with its sink
\* closed (lib.rs 907-918).
ReplacementRejected(r) ==
  /\ BalanceChecked(r)
  /\ ReplacementMayBeInvalid
  /\ msg[r].nonce < userStates[msg[r].sender].nonce
  /\ \E old \in QueuedWithKey(r) :
       /\ old.fee <= msg[r].fee
       /\ closed' = closed \cup {old.req}
       /\ hpc' = [hpc EXCEPT ![r] = "done"]
       /\ answer' = Deliver(answer, {r}, "invalidReplacement")
  /\ UNCHANGED <<batcherVars, chainVars, msg, hnonce, hbal, blockVars,
                 accepted, superseded>>

\* The old sink is closed, the entry is removed and the replacement pushed
\* under the same key; the limit becomes the least max_fee queued for the
\* user and the total moves by the fee difference (lib.rs 890-967).
ReplaceEntry(r) ==
  LET a == msg[r].sender IN
  /\ BalanceChecked(r)
  /\ msg[r].nonce < userStates[a].nonce
  /\ \E old \in QueuedWithKey(r) :
       /\ old.fee <= msg[r].fee
       /\ queue' = (queue \ {old}) \cup {EntryOf(r)}
       /\ userStates' = [userStates EXCEPT ![a].limit = MinFeeInQueue(a, queue'),
                                           ![a].total = @ + msg[r].fee - old.fee]
       /\ closed' = closed \cup {old.req}
       /\ superseded' = superseded \cup {old.req}
  /\ hpc' = [hpc EXCEPT ![r] = "done"]
  /\ accepted' = accepted \cup {r}
  /\ UNCHANGED <<posting, lastUploaded, disabledCache, chainVars, msg,
                 hnonce, hbal, blockVars, answer>>


(***************************************************************************)
(* listen_new_blocks_retryable and handle_new_block: one task per block.  *)
(***************************************************************************)

\* A block newer than last_seen_block arrives and a task is spawned for it
\* (lib.rs 356-374).
NewBlock ==
  /\ block < MaxBlock
  /\ block' = block + 1
  /\ fpc' = [fpc EXCEPT ![block + 1] = "read"]
  /\ UNCHANGED <<batcherVars, chainDisabled, chainNonce, chainBalance, landed,
                 handlerVars, fgas, fdis, fbatch, clientVars>>

\* The gas price and the disabled verifiers, read concurrently
\* (lib.rs 1379-1386); an error of either ends the task.
ReadChain(b) ==
  /\ fpc[b] = "read"
  /\ \/ /\ fpc' = [fpc EXCEPT ![b] = "verifiers"]
        /\ \E g \in GasPrices : fgas' = [fgas EXCEPT ![b] = g]
        /\ fdis' = [fdis EXCEPT ![b] = chainDisabled]
     \/ /\ fpc' = [fpc EXCEPT ![b] = "done"]
        /\ UNCHANGED <<fgas, fdis>>
  /\ UNCHANGED <<batcherVars, chainVars, handlerVars, fbatch, clientVars>>

\* A bitmap that differs from the cache replaces it and flushes the queue
\* (lib.rs 1388-1397).
CheckVerifiers(b) ==
  /\ fpc[b] = "verifiers"
  /\ fpc' = [fpc EXCEPT ![b] = "ready"]
  /\ IF fdis[b] # disabledCache
       THEN /\ disabledCache' = fdis[b]
            /\ Flush
       ELSE UNCHANGED <<disabledCache, queue, userStates, answer>>
  /\ UNCHANGED <<posting, lastUploaded, chainVars, handlerVars, fgas, fdis,
                 fbatch, closed, accepted, superseded>>

\* modified_gas_price (lib.rs 1399-1400).
ModifiedGasPrice(b) ==
  (fgas[b] * GasPricePercentageMultiplier) \div PercentageDivider

\* is_batch_ready returns None before touching posting_batch: empty queue,
\* too few blocks since the last upload, or a batch being posted
\* (lib.rs 1113-1140).
BatchNotReady(b) ==
  /\ fpc[b] = "ready"
  /\ \/ queue = {}
     \/ b < lastUploaded + MinBlockInterval
     \/ posting
  /\ fpc' = [fpc EXCEPT ![b] = "done"]
  /\ UNCHANGED <<batcherVars, chainVars, handlerVars, fgas, fdis, fbatch,
                 clientVars>>

\* Mutants of is_batch_ready: the posting_batch test, and the block
\* interval test, left out.
BatchReadyIgnorePosting(b) ==
  /\ fpc[b] = "ready"
  /\ queue # {}
  /\ b >= lastUploaded + MinBlockInterval
  /\ \E s \in SUBSET queue :
       /\ s \in PeelResults(queue, ModifiedGasPrice(b))
       /\ IF s = {}
            THEN /\ fpc' = [fpc EXCEPT ![b] = "done"]
                 /\ UNCHANGED <<posting, fbatch>>
            ELSE /\ posting' = TRUE
                 /\ fbatch' = [fbatch EXCEPT ![b] = s]
                 /\ fpc' = [fpc EXCEPT ![b] = "submit"]
  /\ UNCHANGED <<queue, userStates, lastUploaded, disabledCache, chainVars,
                 handlerVars, fgas, fdis, clientVars>>

BatchReadyIgnoreInterval(b) ==
  /\ fpc[b] = "ready"
  /\ queue # {}
  /\ ~posting
  /\ \E s \in SUBSET queue :
       /\ s \in PeelResults(queue, ModifiedGasPrice(b))
       /\ IF s = {}
            THEN /\ fpc' = [fpc EXCEPT ![b] = "done"]
                 /\ UNCHANGED <<posting, fbatch>>
            ELSE /\ posting' = TRUE
                 /\ fbatch' = [fbatch EXCEPT ![b] = s]
                 /\ fpc' = [fpc EXCEPT ![b] = "submit"]
  /\ UNCHANGED <<queue, userStates, lastUploaded, disabledCache, chainVars,
                 handlerVars, fgas, fdis, clientVars>>

\* posting_batch is set and try_build_batch runs on a copy of the queue;
\* BatchCostTooHigh resets the flag (lib.rs 1143-1166).
BatchReady(b) ==
  /\ fpc[b] = "ready"
  /\ queue # {}
  /\ b >= lastUploaded + MinBlockInterval
  /\ ~posting
  /\ \E s \in SUBSET queue :
       /\ s \in PeelResults(queue, ModifiedGasPrice(b))
       /\ IF s = {}
            THEN /\ fpc' = [fpc EXCEPT ![b] = "done"]
                 /\ UNCHANGED <<posting, fbatch>>
            ELSE /\ posting' = TRUE
                 /\ fbatch' = [fbatch EXCEPT ![b] = s]
                 /\ fpc' = [fpc EXCEPT ![b] = "submit"]
  /\ UNCHANGED <<queue, userStates, lastUploaded, disabledCache, chainVars,
                 handlerVars, fgas, fdis, clientVars>>

\* The proofs of user a in batch s.
ProofsOf(a, s) == Cardinality(EntriesOf(a, s))

\* fee_per_proof of submit_batch (lib.rs 1428-1433) for the batch of b.
BatchFeePerProof(b) == FeePerProof(Cardinality(fbatch[b]), ModifiedGasPrice(b))

\* The payment service can charge every submitter of the batch of b.
SubmittersCanPay(b) ==
  \A a \in Users : ProofsOf(a, fbatch[b]) * BatchFeePerProof(b) <= chainBalance[a]

\* createNewTask lands: each submitter is charged fee_per_proof per proof
\* and its nonce advances by its number of proofs.
ChargeBatch(b) ==
  /\ chainBalance' = [a \in Users |->
                        chainBalance[a] - ProofsOf(a, fbatch[b]) * BatchFeePerProof(b)]
  /\ chainNonce' = [a \in Users |-> chainNonce[a] + ProofsOf(a, fbatch[b])]
  /\ landed' = landed \cup {x.req : x \in fbatch[b]}

\* finalize_batch up to the result of submit_batch: last_uploaded_batch_block
\* is set, then the simulation, the upload and createNewTask run
\* (lib.rs 1235-1320, 1418-1509).
\* The simulation reverts for lack of a submitter's balance: the queue is
\* flushed (lib.rs 1306-1319).
SubmitInsufficientBalance(b) ==
  /\ fpc[b] = "submit"
  /\ ~SubmittersCanPay(b)
  /\ lastUploaded' = b
  /\ Flush
  /\ fpc' = [fpc EXCEPT ![b] = "reset"]
  /\ UNCHANGED <<posting, disabledCache, chainVars, handlerVars, fgas, fdis,
                 fbatch, closed, accepted, superseded>>

\* Mutant: a failed submission returns without resetting posting_batch.
SubmitFailedNoReset(b) ==
  /\ fpc[b] = "submit"
  /\ lastUploaded' = b
  /\ fpc' = [fpc EXCEPT ![b] = "done"]
  /\ UNCHANGED <<queue, userStates, posting, disabledCache, chainVars,
                 handlerVars, fgas, fdis, fbatch, clientVars>>

\* Any other failure (RPC, upload, a reverted or unconfirmed transaction
\* that never lands): the queue is left as it is.
SubmitFailed(b) ==
  /\ fpc[b] = "submit"
  /\ lastUploaded' = b
  /\ fpc' = [fpc EXCEPT ![b] = "reset"]
  /\ UNCHANGED <<queue, userStates, posting, disabledCache, chainVars,
                 handlerVars, fgas, fdis, fbatch, clientVars>>

\* The task is created on chain.
SubmitLanded(b) ==
  /\ fpc[b] = "submit"
  /\ SubmittersCanPay(b)
  /\ lastUploaded' = b
  /\ ChargeBatch(b)
  /\ fpc' = [fpc EXCEPT ![b] = "remove"]
  /\ UNCHANGED <<queue, userStates, posting, disabledCache, block,
                 chainDisabled, handlerVars, fgas, fdis, fbatch, clientVars>>

\* create_new_task waits transaction_wait_timeout for a receipt in vain and
\* returns ReceiptNotFoundError; cancel_create_new_task_tx sends a
\* transaction with the same nonce, but the original is mined first and the
\* cancel fails.  The task is created on chain, finalize_batch returns the
\* error and the queue is left as it is (lib.rs 1546-1565, 1606-1660).
SubmitLandedLate(b) ==
  /\ fpc[b] = "submit"
  /\ SubmittersCanPay(b)
  /\ lastUploaded' = b
  /\ ChargeBatch(b)
  /\ fpc' = [fpc EXCEPT ![b] = "reset"]
  /\ UNCHANGED <<queue, userStates, posting, disabledCache, block,
                 chainDisabled, handlerVars, fgas, fdis, fbatch, clientVars>>

\* Mutant: the user states not recomputed after the removal.
RemoveProofsKeepUserStates(b) ==
  /\ fpc[b] = "remove"
  /\ queue' = {e \in queue : \A x \in fbatch[b] : ~SameKey(e, x)}
  /\ UNCHANGED userStates
  /\ answer' = Deliver(answer, {x.req : x \in fbatch[b]}, "inclusion")
  /\ fpc' = [fpc EXCEPT ![b] = "reset"]
  /\ UNCHANGED <<posting, lastUploaded, disabledCache, chainVars, handlerVars,
                 fgas, fdis, fbatch, closed, accepted, superseded>>

\* remove_proofs_from_queue: the batch's entries are removed by key and
\* every known user's counters recomputed (lib.rs 1171-1226); then
\* BatchInclusion goes to the sinks the batch's entries carry (lib.rs 1335).
RemoveProofs(b) ==
  /\ fpc[b] = "remove"
  /\ queue' = {e \in queue : \A x \in fbatch[b] : ~SameKey(e, x)}
  /\ userStates' = RecomputedUserStates(userStates, queue')
  /\ answer' = Deliver(answer, {x.req : x \in fbatch[b]}, "inclusion")
  /\ fpc' = [fpc EXCEPT ![b] = "reset"]
  /\ UNCHANGED <<posting, lastUploaded, disabledCache, chainVars, handlerVars,
                 fgas, fdis, fbatch, closed, accepted, superseded>>

\* handle_new_block resets posting_batch after finalize_batch, whatever its
\* result (lib.rs 1406-1408).
ResetPosting(b) ==
  /\ fpc[b] = "reset"
  /\ posting' = FALSE
  /\ fpc' = [fpc EXCEPT ![b] = "done"]
  /\ UNCHANGED <<queue, userStates, lastUploaded, disabledCache, chainVars,
                 handlerVars, fgas, fdis, fbatch, clientVars>>

\* The service manager's owner disables or enables a verifier.
ToggleVerifier(sys) ==
  /\ chainDisabled' = IF sys \in chainDisabled THEN chainDisabled \ {sys}
                      ELSE chainDisabled \cup {sys}
  /\ UNCHANGED <<batcherVars, block, chainNonce, chainBalance, landed, handlerVars,
                 blockVars, clientVars>>

-----------------------------------------------------------------------------
\* The steps of the task handling request r.
HandlerStep(r) ==
  \/ ReceiveRejected(r) \/ ReceiveDisabledVerifier(r) \/ Receive(r)
  \/ CheckUser(r) \/ InsertUser(r) \/ ReadBalance(r)
  \/ LockedNoUserState(r) \/ LockedInsufficientBalance(r)
  \/ LockedInvalidNonce(r) \/ LockedInvalidMaxFee(r) \/ AddToBatch(r)
  \/ ReplacementNotFound(r) \/ ReplacementFeeTooLow(r)
  \/ ReplacementRejected(r) \/ ReplaceEntry(r)
  \/ NonPayingBalance(r) \/ NonPayingAdd(r)

\* The steps of the task handling block b.
BlockTaskStep(b) ==
  \/ ReadChain(b) \/ CheckVerifiers(b) \/ BatchNotReady(b)
  \/ BatchReady(b) \/ SubmitInsufficientBalance(b) \/ SubmitFailed(b)
  \/ SubmitLanded(b) \/ SubmitLandedLate(b) \/ RemoveProofs(b)
  \/ ResetPosting(b)

Next ==
  \/ \E r \in Reqs : HandlerStep(r)
  \/ NewBlock
  \/ \E b \in Blocks : BlockTaskStep(b)
  \/ \E sys \in Systems : ToggleVerifier(sys)

Spec == Init /\ [][Next]_vars

\* Tokio schedules every spawned task again once what it awaits is ready:
\* the BatchState and posting_batch mutexes are fair (FIFO), and every RPC,
\* upload and receipt wait returns, with an error at the latest when its
\* retries or transaction_wait_timeout run out.  So a task that can take a
\* step eventually takes one.  New blocks, requests and the service
\* manager's owner are the environment, and get no fairness.
Fairness ==
  /\ \A r \in Reqs : WF_vars(HandlerStep(r))
  /\ \A b \in Blocks : WF_vars(BlockTaskStep(b))

FairSpec == Spec /\ Fairness

-----------------------------------------------------------------------------
(***************************************************************************)
(* The finalizer seen as BatchPosting.  A batch is in flight from          *)
(* is_batch_ready setting posting_batch until handle_new_block resets it;  *)
(* it is "posting" until finalize_batch has recorded its block in          *)
(* last_uploaded_batch_block, and "uploaded" after.                         *)
(***************************************************************************)
InFlightPCs == {"submit", "remove", "reset"}

InFlightBlocks == {b \in Blocks : fpc[b] \in InFlightPCs}

PostingPhase ==
  IF ~posting THEN "idle"
  ELSE IF \E b \in Blocks : fpc[b] = "submit" THEN "posting"
  ELSE "uploaded"

PostingBlock ==
  IF InFlightBlocks = {} THEN 0 ELSE CHOOSE b \in InFlightBlocks : TRUE

Posting == INSTANCE BatchPosting WITH phase <- PostingPhase,
                                      inFlight <- PostingBlock


(***************************************************************************)
(* Properties.                                                             *)
(***************************************************************************)
Answers == {"rejected", "disabledVerifier", "rpcError", "addToBatchError",
            "insufficientBalance", "invalidNonce", "invalidMaxFee",
            "invalidReplacement", "inclusion", "reset"}

TypeOK ==
  /\ queue \subseteq Entry
  /\ DOMAIN userStates \subseteq Users
  /\ userStates \in [DOMAIN userStates -> UserState]
  /\ posting \in BOOLEAN
  /\ lastUploaded \in 0 .. MaxBlock
  /\ disabledCache \subseteq Systems
  /\ block \in 0 .. MaxBlock
  /\ chainDisabled \subseteq Systems
  /\ chainNonce \in [Users -> Nat]
  /\ chainBalance \in [Users -> Nat]
  /\ hpc \in [Reqs -> HandlerPCs]
  /\ msg \in [Reqs -> Msg]
  /\ hnonce \in [Reqs -> Nat]
  /\ hbal \in [Reqs -> Nat]
  /\ fpc \in [Blocks -> BlockPCs]
  /\ fgas \in [Blocks -> Nat]
  /\ fdis \in [Blocks -> SUBSET Systems]
  /\ fbatch \in [Blocks -> SUBSET Entry]
  /\ answer \in [Reqs -> SUBSET Answers]
  /\ closed \subseteq Reqs
  /\ accepted \subseteq Reqs
  /\ superseded \subseteq Reqs
  /\ landed \subseteq Reqs

\* The user-state invariant of spec section 3, as the locked section and
\* remove_proofs_from_queue keep it: every queued entry belongs to a known
\* user, its nonce is below the user's next expected nonce and its max_fee
\* at or above the user's fee limit, and no two queued entries share a key
\* (so the push of add_to_batch never meets an equal entry).
QueueWithinUserState ==
  /\ \A e \in queue :
       /\ e.sender \in DOMAIN userStates
       /\ e.nonce < userStates[e.sender].nonce
       /\ userStates[e.sender].limit <= e.fee
  /\ \A x, y \in queue : SameKey(x, y) => x = y

\* Accounting conservation (spec section 8): a known user's proof count and
\* total of queued max_fees equal those of its queued entries, after
\* add_to_batch, a replacement, a batch removal or a flush.
UserStateAccounting ==
  \A a \in DOMAIN userStates :
    /\ userStates[a].count = Cardinality(EntriesOf(a, queue))
    /\ userStates[a].total = FeeSum(EntriesOf(a, queue))

\* At most one new-block task is between is_batch_ready and the reset of
\* posting_batch, and the flag is up while one is (spec section 5).
AtMostOneBatchInFlight ==
  LET inFlight == {b \in Blocks : fpc[b] \in {"submit", "remove", "reset"}}
  IN  /\ Cardinality(inFlight) <= 1
      /\ inFlight # {} => posting

\* finalize_batch never moves last_uploaded_batch_block back, though the
\* tasks of consecutive blocks run concurrently.
LastUploadedNeverDecreases == [][lastUploaded' >= lastUploaded]_vars

\* The new-block tasks implement BatchPosting: batches are posted one at a
\* time, each for an observed block at least block_interval blocks past
\* the last uploaded one, and each records its block before it ends,
\* however the tasks of consecutive blocks interleave with the requests.
PostingRefinement == Posting!Spec

\* posting_batch, once is_batch_ready sets it, is reset whatever
\* finalize_batch returns: no outcome of a submission stops batching for
\* good.
PostingEventuallyReleased == posting ~> ~posting

\* Every request whose proof was accepted, and not taken over by a
\* replacement, is still queued, is in a batch being submitted, or has had
\* an answer (BatchInclusion or BatchReset): no accepted proof is dropped
\* silently.
NoSilentDrop ==
  \A r \in accepted \ superseded :
    \/ \E e \in queue : e.req = r
    \/ \E b \in Blocks : \E x \in fbatch[b] : x.req = r /\ fpc[b] \in {"submit", "remove"}
    \/ answer[r] \cap {"inclusion", "reset"} # {}

\* Balance sufficiency (spec section 8): no step adds to a user's queued
\* max_fees beyond the user's balance in the payment service at that step.
BalanceSufficiency ==
  [][\A a \in Users :
       FeeSum(EntriesOf(a, queue')) > FeeSum(EntriesOf(a, queue))
         => FeeSum(EntriesOf(a, queue')) <= chainBalance'[a]]_vars

\* is_batch_ready computes block_number - last_uploaded_batch_block in u64
\* for its log line (lib.rs 1128): a task reaching it with a non-empty queue
\* never has a block below the last uploaded one.
NoBlockBehindLastUploaded ==
  \A b \in Blocks : fpc[b] = "ready" /\ queue # {} => b >= lastUploaded

\* A proof that a landed createNewTask carried is no longer queued once the
\* task that submitted it has finished (spec section 5: on success the
\* exact entries are removed): the batcher never keeps, and submits again,
\* a proof already on chain, whatever the receipt wait reports.
LandedNotRequeued ==
  \A e \in queue : e.req \in landed =>
    \E b \in Blocks : fpc[b] = "remove" /\ e \in fbatch[b]

\* With pre-verification enabled, no batch a new-block task submits holds a
\* proof of a verifier that the task read as disabled on chain (spec
\* section 4.7: the flush on a changed bitmap "invalidates in-flight proofs
\* that may now be unverifiable"), although requests check the cached
\* bitmap before their nonce and balance reads and enqueue after them.
BatchedVerifiersEnabled ==
  PreVerificationEnabled =>
    \A b \in Blocks : fpc[b] = "submit" => \A e \in fbatch[b] : e.sys \notin fdis[b]

\* The nonce the batcher expects next from a user is never one the payment
\* service has already consumed: a user state's nonce is at least the
\* user's nonce on chain (spec section 3: the cached nonce is synchronized
\* against on-chain state), although the chain nonce is read before the
\* user state is inserted and batches land concurrently.
UserNonceNotBehindChain ==
  \A a \in DOMAIN userStates : userStates[a].nonce >= chainNonce[a]

=============================================================================
