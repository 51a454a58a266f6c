---------------------------- MODULE BatcherProofs ----------------------------
(***************************************************************************)
(* Proofs about Batcher, for every value of its constants: the type        *)
(* invariant and the user-state invariant QueueWithinUserState hold in     *)
(* every reachable state.                                                  *)
(*                                                                         *)
(* Neither is inductive alone.  The type of a recomputed user state needs  *)
(* the queue to be finite (its count and fee total are cardinalities), and *)
(* the charge of a batch needs the batch to be finite and, while it is     *)
(* submitted, non-empty (the fee per proof divides by its size).  IInv adds *)
(* these facts.                                                            *)
(***************************************************************************)
EXTENDS Batcher, FiniteSetTheorems, TLAPS

\* The inductive invariant.
IInv ==
  /\ TypeOK
  /\ QueueWithinUserState
  /\ IsFiniteSet(queue)
  /\ \A b \in Blocks : IsFiniteSet(fbatch[b]) /\ (fpc[b] = "submit" => fbatch[b] # {})

-----------------------------------------------------------------------------
(* Lemmas on the helpers.                                                  *)

\* The least max_fee of a user's queued entries is a fee bid at or below
\* each of them (get_user_min_fee_in_batch).
LEMMA MinFeeBelow ==
  ASSUME NEW a, NEW q \in SUBSET Entry, NEW e \in q, e.sender = a
  PROVE  /\ MinFeeInQueue(a, q) \in Fees
         /\ MinFeeInQueue(a, q) <= e.fee
<1> DEFINE fees == {x.fee : x \in EntriesOf(a, q)}
<1>1. fees \in SUBSET Fees /\ fees # {}
  BY DEF EntriesOf, Entry
<1>2. \E m \in fees : \A f \in fees : m <= f
  BY <1>1, FeesWellOrdered
<1>3. e.fee \in fees
  BY DEF EntriesOf
<1> QED
  BY <1>1, <1>2, <1>3 DEF MinFeeInQueue

\* MinFeeInQueue is a natural number, queued entries or not.
LEMMA MinFeeType ==
  ASSUME NEW a, NEW q \in SUBSET Entry
  PROVE  MinFeeInQueue(a, q) \in Nat
<1>1. CASE EntriesOf(a, q) = {}
  BY <1>1, BatcherAssumption DEF MinFeeInQueue
<1>2. CASE EntriesOf(a, q) # {}
  <2>1. PICK e \in q : e.sender = a
    BY <1>2 DEF EntriesOf
  <2>2. MinFeeInQueue(a, q) \in Fees
    BY <2>1, MinFeeBelow
  <2> QED
    BY <2>2, BQAssumption
<1> QED
  BY <1>1, <1>2

\* A user's queued entries form a finite set whose count and fee total are
\* natural numbers.
LEMMA EntriesOfFinite ==
  ASSUME NEW a, NEW q, IsFiniteSet(q)
  PROVE  /\ IsFiniteSet(EntriesOf(a, q))
         /\ Cardinality(EntriesOf(a, q)) \in Nat
         /\ FeeSum(EntriesOf(a, q)) \in Nat
<1> DEFINE S == EntriesOf(a, q)
<1>1. IsFiniteSet(S)
  BY FS_Subset DEF EntriesOf
<1>2. Cardinality(S) \in Nat
  BY <1>1, FS_CardinalityType
<1>3. IsFiniteSet(1 .. U256Max)
  BY BatcherAssumption, FS_Interval
<1>4. IsFiniteSet(S \X (1 .. U256Max))
  BY <1>1, <1>3, FS_Product
<1>5. IsFiniteSet({p \in S \X (1 .. U256Max) : p[2] <= p[1].fee})
  BY <1>4, FS_Subset
<1> QED
  BY <1>1, <1>2, <1>5, FS_CardinalityType DEF FeeSum

\* User states recomputed from a finite queue are well typed.
LEMMA RecomputedType ==
  ASSUME NEW us, NEW q \in SUBSET Entry, IsFiniteSet(q),
         \A a \in DOMAIN us : us[a].nonce \in Nat
  PROVE  RecomputedUserStates(us, q) \in [DOMAIN us -> UserState]
<1> SUFFICES ASSUME NEW a \in DOMAIN us
             PROVE  RecomputedUserStates(us, q)[a] \in UserState
  BY DEF RecomputedUserStates
<1>1. MinFeeInQueue(a, q) \in Nat
  BY MinFeeType
<1>2. Cardinality(EntriesOf(a, q)) \in Nat /\ FeeSum(EntriesOf(a, q)) \in Nat
  BY EntriesOfFinite
<1> QED
  BY <1>1, <1>2 DEF RecomputedUserStates, UserState

\* The fee per proof of a non-empty batch is a natural number.
LEMMA FeePerProofType ==
  ASSUME NEW len \in Nat \ {0}, NEW g \in Nat
  PROVE  FeePerProof(len, g) \in Nat
BY BQAssumption DEF FeePerProof


-----------------------------------------------------------------------------
(* The inductive invariant holds initially.                                *)

LEMMA InitIInv == Init => IInv
<1> SUFFICES ASSUME Init PROVE IInv
  OBVIOUS
<1>1. TypeOK
  <2>1. userStates \in [DOMAIN userStates -> UserState]
        /\ DOMAIN userStates \subseteq Users
    <3>1. NewUserState(0) \in UserState
      BY BatcherAssumption DEF NewUserState, UserState
    <3> QED
      BY <3>1, NonPayingAssumption DEF Init
  <2>2. msg \in [Reqs -> Msg]
    BY MsgChoicesAssumption DEF Init
  <2>3. lastUploaded \in 0 .. MaxBlock /\ block \in 0 .. MaxBlock
    BY BatcherAssumption DEF Init
  <2>4. chainBalance \in [Users -> Nat]
    BY BatcherAssumption DEF Init
  <2> QED
    BY <2>1, <2>2, <2>3, <2>4
    DEF Init, TypeOK, BlockPCs, HandlerPCs
<1>2. IsFiniteSet(queue) /\ \A b \in Blocks : IsFiniteSet(fbatch[b])
  BY FS_EmptySet DEF Init
<1> QED
  BY <1>1, <1>2 DEF Init, IInv, QueueWithinUserState

-----------------------------------------------------------------------------
(* Each step of a SubmitProof task preserves the inductive invariant.      *)

\* Definitions every step proof expands.
USE DEF batcherVars, chainVars, handlerVars, blockVars, clientVars

\* A step that leaves the queue, the user states and the block tasks'
\* steps and batches alone preserves every conjunct but the type.
LEMMA FrameIInv ==
  ASSUME IInv, TypeOK',
         UNCHANGED <<queue, userStates, fpc, fbatch>>
  PROVE  IInv'
BY DEF IInv, QueueWithinUserState

\* Deliver keeps the answers well typed.
LEMMA DeliverType ==
  ASSUME NEW ans \in [Reqs -> SUBSET Answers], NEW rs, NEW kind \in Answers
  PROVE  Deliver(ans, rs, kind) \in [Reqs -> SUBSET Answers]
BY DEF Deliver

LEMMA ReceiveSteps ==
  ASSUME IInv, NEW r \in Reqs,
         ReceiveRejected(r) \/ ReceiveDisabledVerifier(r) \/ Receive(r)
  PROVE  IInv'
<1>1. TypeOK'
  BY DeliverType DEF IInv, TypeOK, ReceiveRejected, ReceiveDisabledVerifier,
                     Receive, HandlerPCs, Answers
<1> QED
  BY <1>1, FrameIInv DEF ReceiveRejected, ReceiveDisabledVerifier, Receive

LEMMA CheckUserStep ==
  ASSUME IInv, NEW r \in Reqs, CheckUser(r)
  PROVE  IInv'
<1>1. msg[r].sender \in Users
  BY DEF IInv, TypeOK, Msg
<1>2. TypeOK'
  BY <1>1, DeliverType DEF IInv, TypeOK, CheckUser, HandlerPCs, Answers
<1> QED
  BY <1>2, FrameIInv DEF CheckUser

LEMMA ReadBalanceStep ==
  ASSUME IInv, NEW r \in Reqs, ReadBalance(r)
  PROVE  IInv'
<1>1. msg[r].sender \in Users
  BY DEF IInv, TypeOK, Msg
<1>2. TypeOK'
  BY <1>1, DeliverType DEF IInv, TypeOK, ReadBalance, HandlerPCs, Answers
<1> QED
  BY <1>2, FrameIInv DEF ReadBalance


\* or_insert adds a fresh state only for a user with no queued entry.
LEMMA InsertUserStep ==
  ASSUME IInv, NEW r \in Reqs, InsertUser(r)
  PROVE  IInv'
<1> DEFINE a == msg[r].sender
<1>1. a \in Users
  BY DEF IInv, TypeOK, Msg
<1>2. NewUserState(hnonce[r]) \in UserState
  BY BatcherAssumption DEF IInv, TypeOK, NewUserState, UserState
<1>3. CASE a \in DOMAIN userStates
  BY <1>3, FrameIInv DEF InsertUser, IInv, TypeOK, HandlerPCs
<1>4. CASE a \notin DOMAIN userStates
  <2>1. userStates' = [x \in DOMAIN userStates \cup {a} |->
                         IF x = a THEN NewUserState(hnonce[r]) ELSE userStates[x]]
    BY <1>4 DEF InsertUser
  <2>2. \A e \in queue : e.sender # a
    BY <1>4 DEF IInv, QueueWithinUserState
  <2>3. TypeOK'
    BY <1>1, <1>2, <2>1 DEF InsertUser, IInv, TypeOK, HandlerPCs
  <2>4. QueueWithinUserState'
    BY <2>1, <2>2 DEF InsertUser, IInv, QueueWithinUserState
  <2> QED
    BY <2>3, <2>4 DEF InsertUser, IInv
<1> QED
  BY <1>3, <1>4

\* The rejections of the locked section change only the task and answers.
LEMMA LockedRejectSteps ==
  ASSUME IInv, NEW r \in Reqs,
         \/ LockedNoUserState(r) \/ LockedInsufficientBalance(r)
         \/ LockedInvalidNonce(r) \/ LockedInvalidMaxFee(r)
         \/ ReplacementNotFound(r) \/ ReplacementFeeTooLow(r)
  PROVE  IInv'
<1>1. \E kind \in Answers : LockedReject(r, kind)
  BY DEF LockedNoUserState, LockedInsufficientBalance, LockedInvalidNonce,
         LockedInvalidMaxFee, ReplacementNotFound, ReplacementFeeTooLow, Answers
<1>2. PICK kind \in Answers : LockedReject(r, kind)
  BY <1>1
<1>3. TypeOK'
  BY <1>2, DeliverType DEF IInv, TypeOK, LockedReject, HandlerPCs
<1> QED
  BY <1>2, <1>3, FrameIInv DEF LockedReject

\* A rejected replacement closes a sink and answers.
\* Without a non-paying configuration no task takes the non-paying path.
LEMMA NonPayingSteps ==
  ASSUME IInv, ~NonPaying, NEW r \in Reqs,
         NonPayingBalance(r) \/ NonPayingAdd(r)
  PROVE  IInv'
BY DEF NonPayingBalance, IsNonPaying, NonPayingAdd, IInv, TypeOK, HandlerPCs

LEMMA ReplacementRejectedStep ==
  ASSUME IInv, NEW r \in Reqs, ReplacementRejected(r)
  PROVE  IInv'
<1>1. PICK old \in QueuedWithKey(r) :
        /\ closed' = closed \cup {old.req}
        /\ hpc' = [hpc EXCEPT ![r] = "done"]
        /\ answer' = Deliver(answer, {r}, "invalidReplacement")
  BY DEF ReplacementRejected
<1>2. old.req \in Reqs
  BY DEF QueuedWithKey, IInv, TypeOK, Entry
<1>3. TypeOK'
  BY <1>1, <1>2, DeliverType DEF ReplacementRejected, IInv, TypeOK,
                                 HandlerPCs, Answers
<1> QED
  BY <1>3, FrameIInv DEF ReplacementRejected


\* add_to_batch: the pushed entry has the expected nonce, so its key is
\* new, and the user's limit drops to its max_fee, at or below the limit
\* every queued entry of the user already met.
LEMMA AddToBatchStep ==
  ASSUME IInv, NEW r \in Reqs, AddToBatch(r)
  PROVE  IInv'
<1> DEFINE a == msg[r].sender
           us == userStates[a]
           e0 == EntryOf(r)
<1>1. /\ a \in DOMAIN userStates
      /\ us \in UserState
      /\ msg[r] \in Msg
      /\ msg[r].nonce = us.nonce
      /\ msg[r].fee <= us.limit
  BY DEF AddToBatch, BalanceChecked, IInv, TypeOK
<1>2. e0 \in Entry /\ e0.sender = a /\ e0.nonce = us.nonce /\ e0.fee = msg[r].fee
  BY <1>1 DEF EntryOf, Entry, Msg
<1>3. /\ queue' = queue \cup {e0}
      /\ userStates' = [userStates EXCEPT ![a] =
                          [nonce |-> msg[r].nonce + 1, limit |-> msg[r].fee,
                           count |-> us.count + 1, total |-> us.total + msg[r].fee]]
  BY DEF AddToBatch
<1>4. msg[r].fee \in Nat /\ msg[r].nonce \in Nat
  BY <1>1, BQAssumption DEF Msg, Nonces
<1>5. TypeOK'
  BY <1>1, <1>2, <1>3, <1>4 DEF AddToBatch, IInv, TypeOK, UserState, HandlerPCs
<1>6. QueueWithinUserState'
  <2>1. \A e \in queue : e.sender = a => e.nonce < us.nonce /\ us.limit <= e.fee
    BY DEF IInv, QueueWithinUserState
  <2>2. \A e \in queue : ~SameKey(e, e0)
    BY <1>1, <1>2, <2>1, BQAssumption DEF SameKey, IInv, TypeOK, Entry, Nonces, UserState
  <2>3. \A e \in queue \cup {e0} :
          /\ e.sender \in DOMAIN userStates'
          /\ e.nonce < userStates'[e.sender].nonce
          /\ userStates'[e.sender].limit <= e.fee
    <3> SUFFICES ASSUME NEW e \in queue \cup {e0}
                 PROVE  /\ e.sender \in DOMAIN userStates'
                        /\ e.nonce < userStates'[e.sender].nonce
                        /\ userStates'[e.sender].limit <= e.fee
      OBVIOUS
    <3>1. e \in Entry /\ e.nonce \in Nat /\ e.fee \in Nat
      BY <1>2, BQAssumption DEF IInv, TypeOK, Entry, Nonces
    <3>2. us.nonce \in Nat /\ us.limit \in Nat
      BY <1>1 DEF UserState
    <3>3. CASE e.sender = a
      <4>1. userStates'[e.sender] = [nonce |-> msg[r].nonce + 1, limit |-> msg[r].fee,
                           count |-> us.count + 1, total |-> us.total + msg[r].fee]
        BY <3>3, <1>1, <1>3
      <4>2. e.nonce <= us.nonce /\ msg[r].fee <= e.fee
        <5>1. CASE e = e0
          BY <5>1, <1>2, <1>4, <3>2
        <5>2. CASE e # e0
          BY <5>2, <3>3, <2>1, <1>1, <1>4, <3>1, <3>2
        <5> QED
          BY <5>1, <5>2
      <4>3. e.sender \in DOMAIN userStates'
        BY <3>3, <1>1, <1>3 DEF IInv, TypeOK
      <4> QED
        BY <4>1, <4>2, <4>3, <3>1, <3>2, <1>1, <1>4
    <3>4. CASE e.sender # a
      BY <3>4, <1>2, <1>3 DEF IInv, QueueWithinUserState
    <3> QED
      BY <3>3, <3>4
  <2>4. \A x, y \in queue \cup {e0} : SameKey(x, y) => x = y
    BY <2>2 DEF IInv, QueueWithinUserState, SameKey
  <2> QED
    BY <1>3, <2>3, <2>4 DEF QueueWithinUserState
<1>7. IsFiniteSet(queue')
  BY <1>3, FS_AddElement DEF IInv
<1> QED
  BY <1>5, <1>6, <1>7 DEF AddToBatch, IInv

\* A replacement swaps the entry of a key for one with the same key; the
\* new limit is the least max_fee queued for the user.
LEMMA ReplaceEntryStep ==
  ASSUME IInv, NEW r \in Reqs, ReplaceEntry(r)
  PROVE  IInv'
<1> DEFINE a == msg[r].sender
           us == userStates[a]
           e0 == EntryOf(r)
<1>1. PICK old \in QueuedWithKey(r) :
        /\ old.fee <= msg[r].fee
        /\ queue' = (queue \ {old}) \cup {e0}
        /\ userStates' = [userStates EXCEPT ![a].limit = MinFeeInQueue(a, queue'),
                                            ![a].total = @ + msg[r].fee - old.fee]
        /\ closed' = closed \cup {old.req}
        /\ superseded' = superseded \cup {old.req}
  BY DEF ReplaceEntry
<1>2. /\ a \in DOMAIN userStates
      /\ us \in UserState
      /\ msg[r] \in Msg
      /\ old \in queue /\ old \in Entry /\ SameKey(old, msg[r])
  BY DEF ReplaceEntry, BalanceChecked, IInv, TypeOK, QueuedWithKey
<1>3. e0 \in Entry /\ e0.sender = a /\ e0.nonce = old.nonce /\ e0.sender = old.sender
  BY <1>2 DEF EntryOf, Entry, Msg, SameKey
<1>4. queue' \in SUBSET Entry
  BY <1>1, <1>3 DEF IInv, TypeOK
<1>5. MinFeeInQueue(a, queue') \in Nat
  BY <1>4, MinFeeType
<1>6. msg[r].fee \in Nat /\ old.fee \in Nat
  BY <1>2, BQAssumption DEF Msg, Entry
<1>10. /\ us.nonce \in Nat /\ us.count \in Nat /\ us.total \in Nat
       /\ DOMAIN userStates' = DOMAIN userStates
       /\ \A x \in DOMAIN userStates : x # a => userStates'[x] = userStates[x]
       /\ userStates'[a] = [nonce |-> us.nonce, limit |-> MinFeeInQueue(a, queue'),
                            count |-> us.count, total |-> us.total + msg[r].fee - old.fee]
  <2>1. us = [nonce |-> us.nonce, limit |-> us.limit, count |-> us.count, total |-> us.total]
    BY <1>2 DEF UserState
  <2>2. userStates'[a] = [us EXCEPT !.limit = MinFeeInQueue(a, queue'),
                                    !.total = us.total + msg[r].fee - old.fee]
    BY <1>1, <1>2 DEF IInv, TypeOK
  <2> QED
    BY <1>1, <1>2, <2>1, <2>2 DEF UserState
<1>7. TypeOK'
  <2>0. us.total + msg[r].fee - old.fee \in Nat
    BY <1>1, <1>6, <1>10
  <2>1. userStates'[a] \in UserState
    BY <2>0, <1>10, <1>5 DEF UserState
  <2>2. userStates' \in [DOMAIN userStates' -> UserState]
        /\ DOMAIN userStates' \subseteq Users
    BY <1>1, <2>1 DEF IInv, TypeOK
  <2>3. old.req \in Reqs
    BY <1>2 DEF Entry
  <2> QED
    BY <1>1, <1>4, <2>2, <2>3 DEF ReplaceEntry, IInv, TypeOK, HandlerPCs
<1>8. QueueWithinUserState'
  <2>1. \A e \in queue' :
          /\ e.sender \in DOMAIN userStates'
          /\ e.nonce < userStates'[e.sender].nonce
    <3> SUFFICES ASSUME NEW e \in queue' PROVE
                   /\ e.sender \in DOMAIN userStates'
                   /\ e.nonce < userStates'[e.sender].nonce
      OBVIOUS
    <3>1. CASE e = e0
      <4>1. old.nonce < us.nonce
        BY <1>2, <1>3 DEF IInv, QueueWithinUserState
      <4> QED
        BY <3>1, <4>1, <1>10, <1>2, <1>3
    <3>2. CASE e # e0
      <4>1. e \in queue
        BY <3>2, <1>1
      <4> QED
        BY <4>1, <1>10, <1>2 DEF IInv, QueueWithinUserState
    <3> QED
      BY <3>1, <3>2
  <2>2. \A e \in queue' : userStates'[e.sender].limit <= e.fee
    <3> SUFFICES ASSUME NEW e \in queue' PROVE userStates'[e.sender].limit <= e.fee
      OBVIOUS
    <3>1. CASE e.sender = a
      <4>1. MinFeeInQueue(a, queue') <= e.fee
        BY <3>1, <1>4, MinFeeBelow
      <4> QED
        BY <4>1, <3>1, <1>10, <1>2
    <3>2. CASE e.sender # a
      <4>1. e \in queue
        BY <3>2, <1>1, <1>3
      <4> QED
        BY <4>1, <3>2, <1>10 DEF IInv, QueueWithinUserState
    <3> QED
      BY <3>1, <3>2
  <2>3. \A x, y \in queue' : SameKey(x, y) => x = y
    BY <1>1, <1>2, <1>3 DEF IInv, QueueWithinUserState, SameKey
  <2> QED
    BY <2>1, <2>2, <2>3 DEF QueueWithinUserState
<1>9. IsFiniteSet(queue')
  BY <1>1, FS_AddElement, FS_RemoveElement DEF IInv
<1> QED
  BY <1>7, <1>8, <1>9 DEF ReplaceEntry, IInv

-----------------------------------------------------------------------------
(* Each step of a new-block task, and of the environment, preserves the    *)
(* inductive invariant.                                                    *)

\* The flush empties the queue and forgets every user: the invariant holds
\* trivially of what it leaves.
LEMMA FlushFacts ==
  ASSUME IInv, Flush
  PROVE  /\ queue' = {} /\ IsFiniteSet(queue')
         /\ DOMAIN userStates' \subseteq Users
         /\ userStates' \in [DOMAIN userStates' -> UserState]
         /\ answer' \in [Reqs -> SUBSET Answers]
         /\ QueueWithinUserState'
<1>1. NewUserState(chainNonce[ReplacementUser]) \in UserState
  BY NonPayingAssumption, BatcherAssumption DEF IInv, TypeOK, NewUserState, UserState
<1>2. userStates' \in [DOMAIN userStates' -> UserState] /\ DOMAIN userStates' \subseteq Users
  <2>1. \/ userStates' = [x \in {} |-> NewUserState(0)]
        \/ userStates' = [x \in {ReplacementUser} |-> NewUserState(chainNonce[ReplacementUser])]
    BY DEF Flush, FlushedUserStates
  <2>2. CASE userStates' = [x \in {} |-> NewUserState(0)]
    BY <2>2
  <2>3. CASE userStates' = [x \in {ReplacementUser} |-> NewUserState(chainNonce[ReplacementUser])]
    BY <2>3, <1>1, NonPayingAssumption
  <2> QED
    BY <2>1, <2>2, <2>3
<1> QED
  BY <1>2, FS_EmptySet, DeliverType DEF Flush, IInv, TypeOK, QueueWithinUserState, Answers

\* A block-task step that leaves the queue, the user states and the batches
\* alone, and moves one task to a step other than the submission, preserves
\* every conjunct but the type.
LEMMA FrameBlockIInv ==
  ASSUME IInv, TypeOK', UNCHANGED <<queue, userStates, fbatch>>,
         NEW b \in Blocks, NEW v, v # "submit", fpc' = [fpc EXCEPT ![b] = v]
  PROVE  IInv'
BY DEF IInv, TypeOK, QueueWithinUserState

LEMMA NewBlockStep ==
  ASSUME IInv, NewBlock
  PROVE  IInv'
<1>0. block \in 0 .. MaxBlock
  BY DEF IInv, TypeOK
<1>1. block + 1 \in Blocks /\ block + 1 \in 0 .. MaxBlock
  BY <1>0, BatcherAssumption DEF NewBlock, Blocks
<1>2. TypeOK'
  BY <1>1 DEF NewBlock, IInv, TypeOK, BlockPCs
<1> QED
  BY <1>1, <1>2, FrameBlockIInv DEF NewBlock

LEMMA ReadChainStep ==
  ASSUME IInv, NEW b \in Blocks, ReadChain(b)
  PROVE  IInv'
<1>1. TypeOK'
  BY BatcherAssumption DEF ReadChain, IInv, TypeOK, BlockPCs
<1> QED
  BY <1>1, FrameBlockIInv DEF ReadChain

LEMMA CheckVerifiersStep ==
  ASSUME IInv, NEW b \in Blocks, CheckVerifiers(b)
  PROVE  IInv'
<1>1. CASE fdis[b] # disabledCache
  <2>1. Flush /\ disabledCache' = fdis[b]
    BY <1>1 DEF CheckVerifiers
  <2>2. TypeOK'
    BY <2>1, FlushFacts DEF CheckVerifiers, IInv, TypeOK, BlockPCs
  <2> QED
    BY <2>1, <2>2, FlushFacts DEF CheckVerifiers, IInv
<1>2. CASE fdis[b] = disabledCache
  <2>1. TypeOK'
    BY <1>2 DEF CheckVerifiers, IInv, TypeOK, BlockPCs
  <2> QED
    BY <1>2, <2>1, FrameBlockIInv DEF CheckVerifiers
<1> QED
  BY <1>1, <1>2

LEMMA BatchNotReadyStep ==
  ASSUME IInv, NEW b \in Blocks, BatchNotReady(b)
  PROVE  IInv'
<1>1. TypeOK'
  BY DEF BatchNotReady, IInv, TypeOK, BlockPCs
<1> QED
  BY <1>1 DEF BatchNotReady, IInv, QueueWithinUserState

\* The batch taken is a part of the queue, so finite and well typed, and
\* non-empty whenever the task goes on to submit it.
LEMMA BatchReadyStep ==
  ASSUME IInv, NEW b \in Blocks, BatchReady(b)
  PROVE  IInv'
<1>1. PICK s \in SUBSET queue :
        IF s = {}
          THEN /\ fpc' = [fpc EXCEPT ![b] = "done"]
               /\ UNCHANGED <<posting, fbatch>>
          ELSE /\ posting' = TRUE
               /\ fbatch' = [fbatch EXCEPT ![b] = s]
               /\ fpc' = [fpc EXCEPT ![b] = "submit"]
  BY DEF BatchReady
<1>2. IsFiniteSet(s) /\ s \subseteq Entry
  BY FS_Subset DEF IInv, TypeOK
<1>3. CASE s = {}
  <2>1. TypeOK'
    BY <1>1, <1>3 DEF BatchReady, IInv, TypeOK, BlockPCs
  <2> QED
    BY <1>1, <1>3, <2>1, FrameBlockIInv DEF BatchReady
<1>4. CASE s # {}
  <2>1. TypeOK'
    BY <1>1, <1>2, <1>4 DEF BatchReady, IInv, TypeOK, BlockPCs
  <2>2. \A c \in Blocks : IsFiniteSet(fbatch'[c]) /\ (fpc'[c] = "submit" => fbatch'[c] # {})
    BY <1>1, <1>2, <1>4 DEF IInv, TypeOK
  <2> QED
    BY <1>1, <1>4, <2>1, <2>2 DEF BatchReady, IInv, QueueWithinUserState
<1> QED
  BY <1>3, <1>4

LEMMA SubmitInsufficientBalanceStep ==
  ASSUME IInv, NEW b \in Blocks, SubmitInsufficientBalance(b)
  PROVE  IInv'
<1>1. TypeOK'
  BY FlushFacts DEF SubmitInsufficientBalance, IInv, TypeOK, BlockPCs, Blocks
<1> QED
  BY <1>1, FlushFacts DEF SubmitInsufficientBalance, IInv

LEMMA SubmitFailedStep ==
  ASSUME IInv, NEW b \in Blocks, SubmitFailed(b)
  PROVE  IInv'
<1>1. TypeOK'
  BY DEF SubmitFailed, IInv, TypeOK, BlockPCs, Blocks
<1> QED
  BY <1>1 DEF SubmitFailed, IInv, QueueWithinUserState

\* The charge of a landed batch leaves every balance a natural number: the
\* simulation only lets it land when every submitter can pay.
LEMMA ChargeBatchType ==
  ASSUME IInv, NEW b \in Blocks, fpc[b] = "submit", SubmittersCanPay(b),
         ChargeBatch(b)
  PROVE  /\ chainBalance' \in [Users -> Nat]
         /\ chainNonce' \in [Users -> Nat]
         /\ landed' \subseteq Reqs
<1>1. IsFiniteSet(fbatch[b]) /\ fbatch[b] # {}
  BY DEF IInv
<1>2. Cardinality(fbatch[b]) \in Nat \ {0}
  BY <1>1, FS_CardinalityType, FS_EmptySet
<1>3. ModifiedGasPrice(b) \in Nat
  BY DEF IInv, TypeOK, ModifiedGasPrice, GasPricePercentageMultiplier,
         PercentageDivider
<1>4. BatchFeePerProof(b) \in Nat
  BY <1>2, <1>3, FeePerProofType DEF BatchFeePerProof
<1>5. \A a \in Users : ProofsOf(a, fbatch[b]) \in Nat
  BY <1>1, EntriesOfFinite DEF ProofsOf
<1>6. chainBalance' \in [Users -> Nat]
  <2> SUFFICES ASSUME NEW a \in Users
               PROVE  chainBalance[a] - ProofsOf(a, fbatch[b]) * BatchFeePerProof(b) \in Nat
    BY DEF ChargeBatch
  <2>1. ProofsOf(a, fbatch[b]) * BatchFeePerProof(b) <= chainBalance[a]
    BY DEF SubmittersCanPay
  <2> QED
    BY <1>4, <1>5, <2>1 DEF IInv, TypeOK
<1>7. chainNonce' \in [Users -> Nat]
  BY <1>5 DEF ChargeBatch, IInv, TypeOK
<1>8. landed' \subseteq Reqs
  BY DEF ChargeBatch, IInv, TypeOK, Entry
<1> QED
  BY <1>6, <1>7, <1>8

LEMMA SubmitLandedStep ==
  ASSUME IInv, NEW b \in Blocks, SubmitLanded(b)
  PROVE  IInv'
<1>1. TypeOK'
  BY ChargeBatchType DEF SubmitLanded, IInv, TypeOK, BlockPCs, Blocks
<1> QED
  BY <1>1 DEF SubmitLanded, IInv, QueueWithinUserState

\* A late landing charges like a landed batch and leaves the queue alone.
LEMMA SubmitLandedLateStep ==
  ASSUME IInv, NEW b \in Blocks, SubmitLandedLate(b)
  PROVE  IInv'
<1>1. TypeOK'
  BY ChargeBatchType DEF SubmitLandedLate, IInv, TypeOK, BlockPCs, Blocks
<1> QED
  BY <1>1, FrameBlockIInv DEF SubmitLandedLate

\* remove_proofs_from_queue keeps a part of the queue and recomputes each
\* user's limit as the least max_fee left, at or below each entry's.
LEMMA RemoveProofsStep ==
  ASSUME IInv, NEW b \in Blocks, RemoveProofs(b)
  PROVE  IInv'
<1>1. queue' \subseteq queue /\ queue' \subseteq Entry
  BY DEF RemoveProofs, IInv, TypeOK
<1>2. IsFiniteSet(queue')
  BY <1>1, FS_Subset DEF IInv
<1>3. \A a \in DOMAIN userStates : userStates[a].nonce \in Nat
  BY DEF IInv, TypeOK, UserState
<1>4. userStates' \in [DOMAIN userStates -> UserState]
  BY <1>1, <1>2, <1>3, RecomputedType DEF RemoveProofs
<1>5. DOMAIN userStates' = DOMAIN userStates
  BY DEF RemoveProofs, RecomputedUserStates
<1>6. TypeOK'
  BY <1>1, <1>4, <1>5, DeliverType DEF RemoveProofs, IInv, TypeOK, BlockPCs, Answers
<1>7. QueueWithinUserState'
  <2> SUFFICES ASSUME NEW e \in queue'
               PROVE  /\ e.sender \in DOMAIN userStates'
                      /\ e.nonce < userStates'[e.sender].nonce
                      /\ userStates'[e.sender].limit <= e.fee
    BY <1>1 DEF IInv, QueueWithinUserState
  <2>1. e \in queue
    BY <1>1
  <2>2. MinFeeInQueue(e.sender, queue') <= e.fee
    BY <1>1, MinFeeBelow
  <2> QED
    BY <2>1, <2>2, <1>5 DEF RemoveProofs, RecomputedUserStates, IInv, QueueWithinUserState
<1>8. \A c \in Blocks : IsFiniteSet(fbatch'[c]) /\ (fpc'[c] = "submit" => fbatch'[c] # {})
  BY DEF RemoveProofs, IInv, TypeOK
<1> QED
  BY <1>2, <1>6, <1>7, <1>8 DEF IInv

LEMMA ResetPostingStep ==
  ASSUME IInv, NEW b \in Blocks, ResetPosting(b)
  PROVE  IInv'
<1>1. TypeOK'
  BY DEF ResetPosting, IInv, TypeOK, BlockPCs
<1> QED
  BY <1>1, FrameBlockIInv DEF ResetPosting

LEMMA ToggleVerifierStep ==
  ASSUME IInv, NEW sys \in Systems, ToggleVerifier(sys)
  PROVE  IInv'
<1>1. TypeOK'
  BY DEF ToggleVerifier, IInv, TypeOK
<1> QED
  BY <1>1, FrameIInv DEF ToggleVerifier

-----------------------------------------------------------------------------
(* The inductive invariant is preserved by every step, and so holds in     *)
(* every reachable state.                                                  *)

LEMMA NextIInv == ~NonPaying => (IInv /\ [Next]_vars => IInv')
<1> SUFFICES ASSUME ~NonPaying, IInv, [Next]_vars PROVE IInv'
  OBVIOUS
<1>1. ASSUME NEW r \in Reqs, HandlerStep(r)
      PROVE  IInv'
  BY <1>1, ReceiveSteps, CheckUserStep, InsertUserStep, ReadBalanceStep,
     LockedRejectSteps, AddToBatchStep, ReplacementRejectedStep, ReplaceEntryStep,
     NonPayingSteps DEF HandlerStep
<1>2. CASE NewBlock
  BY <1>2, NewBlockStep
<1>3. ASSUME NEW b \in Blocks, BlockTaskStep(b)
      PROVE  IInv'
  BY <1>3, ReadChainStep, CheckVerifiersStep, BatchNotReadyStep, BatchReadyStep,
     SubmitInsufficientBalanceStep, SubmitFailedStep, SubmitLandedStep,
     SubmitLandedLateStep, RemoveProofsStep, ResetPostingStep DEF BlockTaskStep
<1>4. CASE \E sys \in Systems : ToggleVerifier(sys)
  BY <1>4, ToggleVerifierStep
<1>5. CASE UNCHANGED vars
  BY <1>5 DEF vars, IInv, TypeOK, QueueWithinUserState
<1> QED
  BY <1>1, <1>2, <1>3, <1>4, <1>5 DEF Next

\* Without a non-paying principal (the production configuration), the
\* inductive invariant holds in every reachable state.
LEMMA SpecIInv == ~NonPaying => (Spec => []IInv)
<1> SUFFICES ASSUME ~NonPaying PROVE Spec => []IInv
  OBVIOUS
<1>1. IInv /\ [Next]_vars => IInv'
  BY NextIInv
<1> QED
  BY InitIInv, <1>1, PTL DEF Spec

\* Type correctness: for every configuration without a non-paying
\* principal, every variable of the batcher has its type in every
\* reachable state: the user-state counters, nonces and fee limits the
\* request and block tasks write stay naturals.
THEOREM TypeCorrect == ~NonPaying => (Spec => []TypeOK)
<1> SUFFICES ASSUME ~NonPaying PROVE Spec => []TypeOK
  OBVIOUS
<1> QED
  BY SpecIInv, PTL DEF IInv

\* Every queued entry is of a known user, below its next nonce and at or
\* above its fee limit, and no two queued entries share (sender, nonce):
\* add_to_batch, replacements, batch removals and flushes keep the user
\* states of spec section 3 in step with the queue, for every configuration
\* without a non-paying principal (whose path checks neither nonce nor
\* limit).
THEOREM QueueWithinUserStateHolds == ~NonPaying => (Spec => []QueueWithinUserState)
<1> SUFFICES ASSUME ~NonPaying PROVE Spec => []QueueWithinUserState
  OBVIOUS
<1> QED
  BY SpecIInv, PTL DEF IInv

=============================================================================
