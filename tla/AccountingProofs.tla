--------------------------- MODULE AccountingProofs ---------------------------
(***************************************************************************)
(* Proof of accounting conservation (spec section 8) for the batcher: in   *)
(* every reachable state of every configuration without a non-paying      *)
(* principal, a known user's proof count and total of queued max_fees are  *)
(* those of its queued entries.                                            *)
(*                                                                         *)
(* UserStateAccounting is not inductive alone: add_to_batch adds one to    *)
(* the count only if the pushed entry is new to the queue, a replacement   *)
(* moves the total by the fee difference only if the replaced entry is the *)
(* one queued entry with its key, and or_insert starts from zero only for  *)
(* a user with no queued entry.  These are facts of QueueWithinUserState,  *)
(* and the counting needs the queue finite: the invariant IInv of          *)
(* BatcherProofs supplies both, so the proof conjoins UserStateAccounting  *)
(* to IInv and reuses its preservation.                                    *)
(***************************************************************************)
EXTENDS BatcherProofs

\* The fee units FeeSum counts for a set of entries.
FeeUnits(S) == {p \in S \X (1 .. U256Max) : p[2] <= p[1].fee}

-----------------------------------------------------------------------------
(* Lemmas on FeeSum.                                                       *)

LEMMA FeeSumEmpty == FeeSum({}) = 0
<1>1. {p \in {} \X (1 .. U256Max) : p[2] <= p[1].fee} = {}
  OBVIOUS
<1> QED
  BY <1>1, FS_EmptySet DEF FeeSum

\* Adding an entry not yet in a finite set of entries adds its max_fee to
\* the fee sum.
LEMMA FeeSumAdd ==
  ASSUME NEW S \in SUBSET Entry, IsFiniteSet(S), NEW e \in Entry, e \notin S
  PROVE  FeeSum(S \cup {e}) = FeeSum(S) + e.fee
<1> DEFINE E == {e} \X (1 .. e.fee)
<1>1. e.fee \in 0 .. U256Max /\ U256Max \in Nat
  BY BatcherAssumption DEF Entry
<1>2. FeeUnits(S \cup {e}) = FeeUnits(S) \cup E
  <2>1. ASSUME NEW p \in FeeUnits(S \cup {e}) PROVE p \in FeeUnits(S) \cup E
    <3>1. PICK x \in S \cup {e}, i \in 1 .. U256Max : p = <<x, i>> /\ i <= x.fee
      BY <2>1 DEF FeeUnits
    <3>2. CASE x = e
      <4>1. i \in 1 .. e.fee
        BY <3>1, <3>2, <1>1
      <4> QED
        BY <3>1, <3>2, <4>1
    <3>3. CASE x # e
      BY <3>1, <3>3 DEF FeeUnits
    <3> QED
      BY <3>2, <3>3
  <2>2. ASSUME NEW p \in FeeUnits(S) \cup E PROVE p \in FeeUnits(S \cup {e})
    <3>1. CASE p \in FeeUnits(S)
      BY <3>1 DEF FeeUnits
    <3>2. CASE p \in E
      <4>1. PICK i \in 1 .. e.fee : p = <<e, i>>
        BY <3>2
      <4>2. i \in 1 .. U256Max /\ i <= e.fee
        BY <4>1, <1>1
      <4> QED
        BY <4>1, <4>2 DEF FeeUnits
    <3> QED
      BY <3>1, <3>2
  <2> QED
    BY <2>1, <2>2
<1>3. FeeUnits(S) \cap E = {}
  BY DEF FeeUnits
<1>4. IsFiniteSet(FeeUnits(S)) /\ Cardinality(FeeUnits(S)) \in Nat
  <2>1. IsFiniteSet(1 .. U256Max)
    BY <1>1, FS_Interval
  <2>2. IsFiniteSet(S \X (1 .. U256Max))
    BY <2>1, FS_Product
  <2>3. IsFiniteSet(FeeUnits(S))
    BY <2>2, FS_Subset DEF FeeUnits
  <2> QED
    BY <2>3, FS_CardinalityType
<1>5. IsFiniteSet(E) /\ Cardinality(E) = e.fee
  <2>1. IsFiniteSet({e}) /\ Cardinality({e}) = 1
    BY FS_Singleton
  <2>2. IsFiniteSet(1 .. e.fee) /\ Cardinality(1 .. e.fee) = e.fee
    <3>1. e.fee \in Int /\ 1 \in Int
      BY <1>1
    <3>2. IsFiniteSet(1 .. e.fee)
          /\ Cardinality(1 .. e.fee) = IF 1 > e.fee THEN 0 ELSE e.fee - 1 + 1
      BY <3>1, FS_Interval
    <3> QED
      BY <3>2, <1>1
  <2>3. IsFiniteSet(E) /\ Cardinality(E) = 1 * e.fee
    BY <2>1, <2>2, FS_Product
  <2> QED
    BY <2>3, <1>1
<1>6. Cardinality(FeeUnits(S) \cup E) = Cardinality(FeeUnits(S)) + e.fee
  <2>1. Cardinality(FeeUnits(S) \cap E) = 0
    BY <1>3, FS_EmptySet
  <2>2. Cardinality(FeeUnits(S) \cup E)
          = Cardinality(FeeUnits(S)) + Cardinality(E) - Cardinality(FeeUnits(S) \cap E)
    BY <1>4, <1>5, FS_Union
  <2> QED
    BY <1>1, <1>4, <1>5, <2>1, <2>2
<1> QED
  BY <1>2, <1>6 DEF FeeSum, FeeUnits

\* A finite set of entries has a natural fee sum.
LEMMA FeeSumType ==
  ASSUME NEW S \in SUBSET Entry, IsFiniteSet(S)
  PROVE  FeeSum(S) \in Nat
<1>1. IsFiniteSet(1 .. U256Max)
  BY BatcherAssumption, FS_Interval
<1>2. IsFiniteSet(FeeUnits(S))
  BY <1>1, FS_Product, FS_Subset DEF FeeUnits
<1> QED
  BY <1>2, FS_CardinalityType DEF FeeSum, FeeUnits

\* Removing an entry of a finite set of entries takes its max_fee off the
\* fee sum.
LEMMA FeeSumRemove ==
  ASSUME NEW S \in SUBSET Entry, IsFiniteSet(S), NEW e \in S
  PROVE  FeeSum(S \ {e}) = FeeSum(S) - e.fee
<1>1. IsFiniteSet(S \ {e})
  BY FS_RemoveElement
<1>2. (S \ {e}) \cup {e} = S
  OBVIOUS
<1>3. FeeSum(S) = FeeSum(S \ {e}) + e.fee
  BY <1>1, <1>2, FeeSumAdd
<1>4. FeeSum(S \ {e}) \in Nat /\ e.fee \in Nat
  BY <1>1, FeeSumType, BQAssumption DEF Entry
<1> QED
  BY <1>3, <1>4

-----------------------------------------------------------------------------
(* The steps that change the queue or the user states.                     *)

\* A step that leaves the queue and the user states alone.
LEMMA AccountingFrame ==
  ASSUME UserStateAccounting, UNCHANGED <<queue, userStates>>
  PROVE  UserStateAccounting'
BY DEF UserStateAccounting, EntriesOf

\* A user's entries, as the set whose size and fee sum the state counts.
LEMMA EntriesOfType ==
  ASSUME IInv, NEW a
  PROVE  /\ EntriesOf(a, queue) \in SUBSET Entry
         /\ IsFiniteSet(EntriesOf(a, queue))
         /\ Cardinality(EntriesOf(a, queue)) \in Nat
<1>1. IsFiniteSet(queue) /\ queue \subseteq Entry
  BY DEF IInv, TypeOK
<1> QED
  BY <1>1, EntriesOfFinite DEF EntriesOf

\* or_insert gives a user with no state a fresh one, counting nothing;
\* such a user has no queued entry.
LEMMA InsertUserAccounting ==
  ASSUME IInv, UserStateAccounting, NEW r \in Reqs, InsertUser(r)
  PROVE  UserStateAccounting'
<1> DEFINE a == msg[r].sender
<1>1. CASE a \in DOMAIN userStates
  BY <1>1, AccountingFrame DEF InsertUser
<1>2. CASE a \notin DOMAIN userStates
  <2>1. userStates' = [x \in DOMAIN userStates \cup {a} |->
                         IF x = a THEN NewUserState(hnonce[r]) ELSE userStates[x]]
        /\ queue' = queue
    BY <1>2 DEF InsertUser
  <2>2. EntriesOf(a, queue) = {}
    BY <1>2 DEF IInv, QueueWithinUserState, EntriesOf
  <2>3. Cardinality(EntriesOf(a, queue)) = 0 /\ FeeSum(EntriesOf(a, queue)) = 0
    BY <2>2, FS_EmptySet, FeeSumEmpty
  <2> QED
    BY <2>1, <2>3 DEF UserStateAccounting, NewUserState
<1> QED
  BY <1>1, <1>2

\* add_to_batch pushes an entry whose key is new: the user's count grows
\* by one and its total by the entry's max_fee, as its queued entries do.
LEMMA AddToBatchAccounting ==
  ASSUME IInv, UserStateAccounting, NEW r \in Reqs, AddToBatch(r)
  PROVE  UserStateAccounting'
<1> DEFINE a == msg[r].sender
           us == userStates[a]
           e0 == EntryOf(r)
           S == EntriesOf(a, queue)
<1>1. /\ a \in DOMAIN userStates
      /\ msg[r].nonce = us.nonce
      /\ queue' = queue \cup {e0}
      /\ userStates' = [userStates EXCEPT ![a] =
                          [nonce |-> msg[r].nonce + 1, limit |-> msg[r].fee,
                           count |-> us.count + 1, total |-> us.total + msg[r].fee]]
  BY DEF AddToBatch, BalanceChecked
<1>2. us \in UserState /\ msg[r] \in Msg
  BY <1>1 DEF IInv, TypeOK
<1>3. /\ e0 \in Entry /\ e0.sender = a /\ e0.fee = msg[r].fee
      /\ e0.nonce = us.nonce /\ us.nonce \in Nat
  BY <1>1, <1>2 DEF EntryOf, Entry, Msg, UserState
<1>10. e0 \notin S
  <2> SUFFICES ASSUME e0 \in queue PROVE FALSE
    BY DEF EntriesOf
  <2>1. e0.nonce < userStates[a].nonce
    BY <1>3 DEF IInv, QueueWithinUserState
  <2> QED
    BY <2>1, <1>3
<1>4. S \in SUBSET Entry /\ IsFiniteSet(S) /\ Cardinality(S) \in Nat
  BY EntriesOfType
<1>5. EntriesOf(a, queue') = S \cup {e0}
  BY <1>1, <1>3 DEF EntriesOf
<1>6. Cardinality(S \cup {e0}) = Cardinality(S) + 1
  BY <1>10, <1>4, FS_AddElement
<1>7. FeeSum(S \cup {e0}) = FeeSum(S) + msg[r].fee
  BY <1>3, <1>10, <1>4, FeeSumAdd
<1>8. us.count = Cardinality(S) /\ us.total = FeeSum(S)
  BY <1>1 DEF UserStateAccounting
<1>9. ASSUME NEW x \in DOMAIN userStates, x # a
      PROVE  /\ userStates'[x] = userStates[x]
             /\ EntriesOf(x, queue') = EntriesOf(x, queue)
  BY <1>1, <1>3, <1>9 DEF EntriesOf
<1> QED
  BY <1>1, <1>5, <1>6, <1>7, <1>8, <1>9 DEF UserStateAccounting

\* handle_replacement_message swaps the queued entry of the key for the
\* replacement: the count stays, and the total moves by the fee difference,
\* as the user's queued entries do, because the key is queued once.
LEMMA ReplaceEntryAccounting ==
  ASSUME IInv, UserStateAccounting, NEW r \in Reqs, ReplaceEntry(r)
  PROVE  UserStateAccounting'
<1> DEFINE a == msg[r].sender
           us == userStates[a]
           e0 == EntryOf(r)
           S == EntriesOf(a, queue)
<1>1. PICK old \in QueuedWithKey(r) :
        /\ old.fee <= msg[r].fee
        /\ queue' = (queue \ {old}) \cup {e0}
        /\ userStates' = [userStates EXCEPT ![a].limit = MinFeeInQueue(a, queue'),
                                            ![a].total = @ + msg[r].fee - old.fee]
  BY DEF ReplaceEntry
<1>2. /\ a \in DOMAIN userStates
      /\ us \in UserState
      /\ msg[r] \in Msg
      /\ old \in queue /\ old \in Entry /\ SameKey(old, msg[r])
  BY DEF ReplaceEntry, BalanceChecked, IInv, TypeOK, QueuedWithKey
<1>3. /\ e0 \in Entry /\ e0.sender = a /\ e0.fee = msg[r].fee
      /\ SameKey(e0, old) /\ old.sender = a
  BY <1>2 DEF EntryOf, Entry, Msg, SameKey
<1>4. old \in S
  BY <1>2, <1>3 DEF EntriesOf
<1>5. e0 \notin S \ {old}
  BY <1>2, <1>3 DEF IInv, QueueWithinUserState, EntriesOf
<1>6. EntriesOf(a, queue') = (S \ {old}) \cup {e0}
  BY <1>1, <1>3 DEF EntriesOf
<1>7. /\ S \in SUBSET Entry /\ IsFiniteSet(S) /\ Cardinality(S) \in Nat
      /\ S \ {old} \in SUBSET Entry /\ IsFiniteSet(S \ {old})
  BY EntriesOfType, FS_RemoveElement
<1>8. Cardinality((S \ {old}) \cup {e0}) = Cardinality(S)
  <2>1. Cardinality(S \ {old}) = Cardinality(S) - 1
    BY <1>4, <1>7, FS_RemoveElement
  <2>2. Cardinality((S \ {old}) \cup {e0}) = Cardinality(S \ {old}) + 1
    BY <1>5, <1>7, FS_AddElement
  <2> QED
    BY <1>7, <2>1, <2>2
<1>9. FeeSum((S \ {old}) \cup {e0}) = FeeSum(S) + msg[r].fee - old.fee
  <2>1. FeeSum(S \ {old}) = FeeSum(S) - old.fee
    BY <1>4, <1>7, FeeSumRemove
  <2>2. FeeSum((S \ {old}) \cup {e0}) = FeeSum(S \ {old}) + msg[r].fee
    BY <1>3, <1>5, <1>7, FeeSumAdd
  <2>3. FeeSum(S) \in Nat /\ old.fee \in Nat /\ msg[r].fee \in Nat
    BY <1>2, <1>7, FeeSumType, BQAssumption DEF Entry, Msg
  <2> QED
    BY <2>1, <2>2, <2>3
<1>10. /\ DOMAIN userStates' = DOMAIN userStates
       /\ userStates'[a].count = us.count
       /\ userStates'[a].total = us.total + msg[r].fee - old.fee
       /\ \A x \in DOMAIN userStates : x # a => userStates'[x] = userStates[x]
  BY <1>1, <1>2 DEF UserState
<1>11. ASSUME NEW x, x # a
       PROVE  EntriesOf(x, queue') = EntriesOf(x, queue)
  BY <1>1, <1>3, <1>11 DEF EntriesOf
<1> QED
  BY <1>6, <1>8, <1>9, <1>10, <1>11 DEF UserStateAccounting

\* flush_queue_and_clear_nonce_cache clears both maps: with no non-paying
\* principal no user state is left to count.
LEMMA FlushAccounting ==
  ASSUME ~NonPaying, Flush
  PROVE  UserStateAccounting'
<1>1. DOMAIN userStates' = {}
  BY DEF Flush, FlushedUserStates
<1> QED
  BY <1>1 DEF UserStateAccounting

\* remove_proofs_from_queue recomputes every known user's counters from the
\* queue it leaves.
LEMMA RemoveProofsAccounting ==
  ASSUME NEW b \in Blocks, RemoveProofs(b)
  PROVE  UserStateAccounting'
BY DEF RemoveProofs, RecomputedUserStates, UserStateAccounting

-----------------------------------------------------------------------------
(* Every step.                                                             *)

\* Each step of a request's task keeps the accounting.
LEMMA HandlerAccounting ==
  ASSUME ~NonPaying, IInv, UserStateAccounting, NEW r \in Reqs, HandlerStep(r)
  PROVE  UserStateAccounting'
<1>1. CASE InsertUser(r)
  BY <1>1, InsertUserAccounting
<1>2. CASE AddToBatch(r)
  BY <1>2, AddToBatchAccounting
<1>3. CASE ReplaceEntry(r)
  BY <1>3, ReplaceEntryAccounting
<1>4. CASE NonPayingBalance(r) \/ NonPayingAdd(r)
  BY <1>4 DEF NonPayingBalance, IsNonPaying, NonPayingAdd, IInv, TypeOK, HandlerPCs
<1>5. CASE \/ ReceiveRejected(r) \/ ReceiveDisabledVerifier(r) \/ Receive(r)
           \/ CheckUser(r) \/ ReadBalance(r)
           \/ LockedNoUserState(r) \/ LockedInsufficientBalance(r)
           \/ LockedInvalidNonce(r) \/ LockedInvalidMaxFee(r)
           \/ ReplacementNotFound(r) \/ ReplacementFeeTooLow(r)
           \/ ReplacementRejected(r)
  <2>1. UNCHANGED <<queue, userStates>>
    BY <1>5 DEF ReceiveRejected, ReceiveDisabledVerifier, Receive, CheckUser,
                ReadBalance, LockedNoUserState, LockedInsufficientBalance,
                LockedInvalidNonce, LockedInvalidMaxFee, ReplacementNotFound,
                ReplacementFeeTooLow, ReplacementRejected, LockedReject,
                batcherVars
  <2> QED
    BY <2>1, AccountingFrame
<1> QED
  BY <1>1, <1>2, <1>3, <1>4, <1>5 DEF HandlerStep

\* Each step of a block's task keeps the accounting.
LEMMA BlockTaskAccounting ==
  ASSUME ~NonPaying, UserStateAccounting, NEW b \in Blocks, BlockTaskStep(b)
  PROVE  UserStateAccounting'
<1>1. CASE CheckVerifiers(b)
  <2>1. CASE fdis[b] # disabledCache
    BY <1>1, <2>1, FlushAccounting DEF CheckVerifiers
  <2>2. CASE fdis[b] = disabledCache
    BY <1>1, <2>2, AccountingFrame DEF CheckVerifiers
  <2> QED
    BY <2>1, <2>2
<1>2. CASE SubmitInsufficientBalance(b)
  BY <1>2, FlushAccounting DEF SubmitInsufficientBalance
<1>3. CASE RemoveProofs(b)
  BY <1>3, RemoveProofsAccounting
<1>4. CASE \/ ReadChain(b) \/ BatchNotReady(b) \/ BatchReady(b)
           \/ SubmitFailed(b) \/ SubmitLanded(b) \/ SubmitLandedLate(b)
           \/ ResetPosting(b)
  <2>1. UNCHANGED <<queue, userStates>>
    BY <1>4 DEF ReadChain, BatchNotReady, BatchReady, SubmitFailed,
                SubmitLanded, SubmitLandedLate, ResetPosting, batcherVars
  <2> QED
    BY <2>1, AccountingFrame
<1> QED
  BY <1>1, <1>2, <1>3, <1>4 DEF BlockTaskStep

\* The accounting, conjoined to IInv, is kept by every step.
LEMMA NextAccounting ==
  ~NonPaying => (IInv /\ UserStateAccounting /\ [Next]_vars => UserStateAccounting')
<1> SUFFICES ASSUME ~NonPaying, IInv, UserStateAccounting, [Next]_vars
             PROVE  UserStateAccounting'
  OBVIOUS
<1>1. CASE \E r \in Reqs : HandlerStep(r)
  BY <1>1, HandlerAccounting
<1>2. CASE \E b \in Blocks : BlockTaskStep(b)
  BY <1>2, BlockTaskAccounting
<1>3. CASE NewBlock \/ (\E sys \in Systems : ToggleVerifier(sys)) \/ UNCHANGED vars
  <2>1. UNCHANGED <<queue, userStates>>
    BY <1>3 DEF NewBlock, ToggleVerifier, vars, batcherVars
  <2> QED
    BY <2>1, AccountingFrame
<1> QED
  BY <1>1, <1>2, <1>3 DEF Next

\* No user state exists initially, so there is nothing to count.
LEMMA InitAccounting == ~NonPaying => (Init => UserStateAccounting)
BY DEF Init, UserStateAccounting

\* Accounting conservation (spec section 8): for every configuration
\* without a non-paying principal, in every reachable state each known
\* user's proof_count and total_fees_in_queue are the number and the max_fee
\* sum of its queued entries, through add_to_batch, replacements,
\* remove_proofs_from_queue and flushes in any interleaving of request and
\* block tasks.
THEOREM UserStateAccountingHolds == ~NonPaying => (Spec => []UserStateAccounting)
<1> SUFFICES ASSUME ~NonPaying PROVE Spec => []UserStateAccounting
  OBVIOUS
<1>1. IInv /\ UserStateAccounting /\ [Next]_vars => UserStateAccounting'
  BY NextAccounting
<1>2. Init => IInv /\ UserStateAccounting
  BY InitIInv, InitAccounting
<1>3. IInv /\ [Next]_vars => IInv'
  BY NextIInv
<1> QED
  BY <1>1, <1>2, <1>3, PTL DEF Spec

=============================================================================
