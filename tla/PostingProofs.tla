---------------------------- MODULE PostingProofs ----------------------------
(***************************************************************************)
(* Proofs that the batcher's new-block tasks implement BatchPosting under  *)
(* the mapping Batcher!Posting, for every value of the constants, with or *)
(* without a non-paying principal; and the two properties of the posting   *)
(* protocol that follow: at most one batch in flight, and                  *)
(* last_uploaded_batch_block never decreasing.                              *)
(*                                                                         *)
(* The invariant PInv that the refinement needs speaks of the block tasks  *)
(* only: a task has a step only for an observed block, the tasks between   *)
(* is_batch_ready and the reset of posting_batch are at most one, the flag *)
(* is up exactly while there is one, and a task about to submit has a      *)
(* block at or past the last uploaded one.                                 *)
(***************************************************************************)
EXTENDS Batcher, FiniteSetTheorems, TLAPS

\* The variables the posting protocol is made of.
postingVars == <<posting, lastUploaded, block, fpc>>

PInv ==
  /\ posting \in BOOLEAN
  /\ lastUploaded \in Nat
  /\ block \in 0 .. MaxBlock
  /\ fpc \in [Blocks -> BlockPCs]
  /\ \A b \in Blocks : fpc[b] # "none" => b <= block
  /\ \A b1, b2 \in InFlightBlocks : b1 = b2
  /\ posting <=> InFlightBlocks # {}
  /\ \A b \in Blocks : fpc[b] = "submit" => lastUploaded <= b

-----------------------------------------------------------------------------
(* The request tasks and the service manager leave the posting protocol    *)
(* alone.                                                                  *)

LEMMA HandlerFrame ==
  ASSUME NEW r \in Reqs, HandlerStep(r)
  PROVE  UNCHANGED postingVars
<1> USE DEF postingVars, batcherVars, chainVars, blockVars
<1>1. CASE ReceiveRejected(r) \/ ReceiveDisabledVerifier(r) \/ Receive(r)
  BY <1>1 DEF ReceiveRejected, ReceiveDisabledVerifier, Receive
<1>2. CASE CheckUser(r) \/ InsertUser(r) \/ ReadBalance(r)
  BY <1>2 DEF CheckUser, InsertUser, ReadBalance
<1>3. CASE LockedNoUserState(r) \/ LockedInsufficientBalance(r)
           \/ LockedInvalidNonce(r) \/ LockedInvalidMaxFee(r)
  BY <1>3 DEF LockedNoUserState, LockedInsufficientBalance, LockedInvalidNonce,
              LockedInvalidMaxFee, LockedReject
<1>4. CASE AddToBatch(r)
  BY <1>4 DEF AddToBatch
<1>5. CASE ReplacementNotFound(r) \/ ReplacementFeeTooLow(r)
           \/ ReplacementRejected(r) \/ ReplaceEntry(r)
  BY <1>5 DEF ReplacementNotFound, ReplacementFeeTooLow, ReplacementRejected,
              ReplaceEntry, LockedReject
<1>6. CASE NonPayingBalance(r) \/ NonPayingAdd(r)
  BY <1>6 DEF NonPayingBalance, NonPayingAdd
<1> QED
  BY <1>1, <1>2, <1>3, <1>4, <1>5, <1>6 DEF HandlerStep

LEMMA ToggleFrame ==
  ASSUME NEW sys \in Systems, ToggleVerifier(sys)
  PROVE  UNCHANGED postingVars
BY DEF ToggleVerifier, postingVars, batcherVars, blockVars

\* A step that changes the posting protocol only in the program counter of
\* one block task b, which neither enters nor leaves the in-flight set,
\* nor becomes or stops being "submit", preserves PInv and is a stutter of
\* BatchPosting.
LEMMA QuietBlockStep ==
  ASSUME PInv, NEW b \in Blocks, NEW v \in BlockPCs,
         fpc[b] \notin InFlightPCs, v \notin InFlightPCs,
         fpc[b] # "none", v # "none",
         fpc' = [fpc EXCEPT ![b] = v],
         UNCHANGED <<posting, lastUploaded, block>>
  PROVE  PInv' /\ UNCHANGED Posting!vars
<1>1. InFlightBlocks' = InFlightBlocks
  BY DEF PInv, InFlightBlocks, InFlightPCs
<1>2. (\E x \in Blocks : fpc'[x] = "submit") <=> (\E x \in Blocks : fpc[x] = "submit")
  BY DEF PInv, InFlightPCs
<1>3. PInv'
  BY <1>1 DEF PInv, InFlightPCs
<1>4. PostingPhase' = PostingPhase /\ PostingBlock' = PostingBlock
  BY <1>1, <1>2 DEF PostingPhase, PostingBlock
<1> QED
  BY <1>3, <1>4 DEF Posting!vars

-----------------------------------------------------------------------------
(* The mapping on a state with one batch in flight.                        *)

LEMMA InFlightSingle ==
  ASSUME PInv, NEW b \in Blocks, fpc[b] \in InFlightPCs
  PROVE  /\ InFlightBlocks = {b}
         /\ posting
         /\ PostingBlock = b
         /\ \A x \in Blocks \ {b} : fpc[x] # "submit"
<1>1. InFlightBlocks = {b}
  BY DEF PInv, InFlightBlocks
<1>2. \A x \in Blocks \ {b} : fpc[x] # "submit"
  BY <1>1 DEF InFlightBlocks, InFlightPCs
<1> QED
  BY <1>1, <1>2 DEF PInv, PostingBlock

-----------------------------------------------------------------------------
(* Each step of a block task preserves PInv and is a step of BatchPosting  *)
(* or a stutter of it.                                                     *)

\* Posting steps and stutters of BatchPosting.
PostingStep == [Posting!Next]_Posting!vars

LEMMA ReadChainRefines ==
  ASSUME PInv, NEW b \in Blocks, ReadChain(b)
  PROVE  PInv' /\ PostingStep
<1>1. \E v \in BlockPCs : /\ v \in {"verifiers", "done"}
                          /\ fpc' = [fpc EXCEPT ![b] = v]
  BY DEF ReadChain, BlockPCs
<1>2. UNCHANGED <<posting, lastUploaded, block>>
  BY DEF ReadChain, batcherVars, chainVars
<1> QED
  BY <1>1, <1>2, QuietBlockStep DEF ReadChain, InFlightPCs, PostingStep

LEMMA CheckVerifiersRefines ==
  ASSUME PInv, NEW b \in Blocks, CheckVerifiers(b)
  PROVE  PInv' /\ PostingStep
<1>1. fpc' = [fpc EXCEPT ![b] = "ready"] /\ "ready" \in BlockPCs
  BY DEF CheckVerifiers, BlockPCs
<1>2. UNCHANGED <<posting, lastUploaded, block>>
  BY DEF CheckVerifiers, chainVars
<1> QED
  BY <1>1, <1>2, QuietBlockStep DEF CheckVerifiers, InFlightPCs, PostingStep

LEMMA BatchNotReadyRefines ==
  ASSUME PInv, NEW b \in Blocks, BatchNotReady(b)
  PROVE  PInv' /\ PostingStep
<1>1. fpc' = [fpc EXCEPT ![b] = "done"] /\ "done" \in BlockPCs
  BY DEF BatchNotReady, BlockPCs
<1>2. UNCHANGED <<posting, lastUploaded, block>>
  BY DEF BatchNotReady, batcherVars, chainVars
<1> QED
  BY <1>1, <1>2, QuietBlockStep DEF BatchNotReady, InFlightPCs, PostingStep

\* is_batch_ready begins a batch for b: Begin(b), or a stutter when
\* try_build_batch finds none.
LEMMA BatchReadyRefines ==
  ASSUME PInv, NEW b \in Blocks, BatchReady(b)
  PROVE  PInv' /\ PostingStep
<1>0. /\ fpc[b] = "ready" /\ ~posting
      /\ b >= lastUploaded + MinBlockInterval
      /\ UNCHANGED <<lastUploaded, block>>
  BY DEF BatchReady, chainVars
<1>1. InFlightBlocks = {}
  BY <1>0 DEF PInv
<1>2. CASE UNCHANGED posting /\ fpc' = [fpc EXCEPT ![b] = "done"]
  <2>1. /\ "done" \in BlockPCs
        /\ "ready" \notin InFlightPCs /\ "done" \notin InFlightPCs
    BY DEF BlockPCs, InFlightPCs
  <2>2. PInv' /\ UNCHANGED Posting!vars
    BY <1>0, <1>2, <2>1, QuietBlockStep
  <2> QED
    BY <2>2 DEF PostingStep
<1>3. CASE posting' = TRUE /\ fpc' = [fpc EXCEPT ![b] = "submit"]
  <2>0. /\ b \in 1 .. block
        /\ lastUploaded <= b
    BY <1>0, BatcherAssumption DEF PInv, Blocks
  <2>1. InFlightBlocks' = {b}
    BY <1>1, <1>3 DEF PInv, InFlightBlocks, InFlightPCs
  <2>2. fpc' \in [Blocks -> BlockPCs]
    BY <1>3 DEF PInv, BlockPCs
  <2>3. \A x \in Blocks : fpc'[x] # "none" => x <= block'
    BY <1>0, <1>3, <2>0 DEF PInv
  <2>4. \A x \in Blocks : fpc'[x] = "submit" => lastUploaded' <= x
    BY <1>0, <1>1, <1>3, <2>0 DEF PInv, InFlightBlocks, InFlightPCs
  <2>5. PInv'
    BY <1>0, <1>3, <2>1, <2>2, <2>3, <2>4 DEF PInv
  <2>6. PostingPhase = "idle" /\ PostingBlock = 0
    BY <1>0, <1>1 DEF PostingPhase, PostingBlock
  <2>7. PostingPhase' = "posting" /\ PostingBlock' = b
    BY <1>3, <2>1 DEF PostingPhase, PostingBlock, PInv
  <2>8. Posting!Begin(b)
    BY <1>0, <2>0, <2>6, <2>7 DEF Posting!Begin
  <2>9. b \in 1 .. MaxBlock
    BY DEF Blocks
  <2> QED
    BY <2>5, <2>8, <2>9 DEF PostingStep, Posting!Next
<1>4. \/ UNCHANGED posting /\ fpc' = [fpc EXCEPT ![b] = "done"]
      \/ posting' = TRUE /\ fpc' = [fpc EXCEPT ![b] = "submit"]
  BY DEF BatchReady
<1> QED
  BY <1>2, <1>3, <1>4

\* A submission ends, whatever its outcome, with b recorded as the last
\* uploaded block: Upload.
LEMMA UploadRefines ==
  ASSUME PInv, NEW b \in Blocks, NEW v \in {"reset", "remove"},
         fpc[b] = "submit",
         fpc' = [fpc EXCEPT ![b] = v],
         lastUploaded' = b,
         UNCHANGED <<posting, block>>
  PROVE  PInv' /\ PostingStep
<1>0. /\ InFlightBlocks = {b} /\ posting /\ PostingBlock = b
      /\ \A x \in Blocks \ {b} : fpc[x] # "submit"
  BY InFlightSingle DEF InFlightPCs
<1>1. InFlightBlocks' = {b}
  BY <1>0 DEF PInv, InFlightBlocks, InFlightPCs
<1>2. PInv'
  BY <1>0, <1>1 DEF PInv, BlockPCs, Blocks
<1>3. PostingPhase = "posting"
  BY <1>0 DEF PostingPhase
<1>4. PostingPhase' = "uploaded" /\ PostingBlock' = b
  BY <1>0, <1>1 DEF PostingPhase, PostingBlock, PInv
<1>5. Posting!Upload
  BY <1>0, <1>3, <1>4 DEF Posting!Upload
<1> QED
  BY <1>2, <1>5 DEF PostingStep, Posting!Next

LEMMA SubmitRefines ==
  ASSUME PInv, NEW b \in Blocks,
         \/ SubmitInsufficientBalance(b) \/ SubmitFailed(b)
         \/ SubmitLanded(b) \/ SubmitLandedLate(b)
  PROVE  PInv' /\ PostingStep
<1>1. CASE SubmitInsufficientBalance(b)
  BY <1>1, UploadRefines DEF SubmitInsufficientBalance, chainVars
<1>2. CASE SubmitFailed(b)
  BY <1>2, UploadRefines DEF SubmitFailed, chainVars
<1>3. CASE SubmitLanded(b)
  BY <1>3, UploadRefines DEF SubmitLanded
<1>4. CASE SubmitLandedLate(b)
  BY <1>4, UploadRefines DEF SubmitLandedLate
<1> QED
  BY <1>1, <1>2, <1>3, <1>4

\* remove_proofs_from_queue: a stutter, the batch stays in flight.
LEMMA RemoveProofsRefines ==
  ASSUME PInv, NEW b \in Blocks, RemoveProofs(b)
  PROVE  PInv' /\ PostingStep
<1>0. /\ fpc[b] = "remove" /\ fpc' = [fpc EXCEPT ![b] = "reset"]
      /\ UNCHANGED <<posting, lastUploaded, block>>
  BY DEF RemoveProofs, chainVars
<1>1. /\ InFlightBlocks = {b} /\ posting /\ PostingBlock = b
      /\ \A x \in Blocks \ {b} : fpc[x] # "submit"
  BY <1>0, InFlightSingle DEF InFlightPCs
<1>2. InFlightBlocks' = {b}
  BY <1>0, <1>1 DEF PInv, InFlightBlocks, InFlightPCs
<1>3. PInv'
  BY <1>0, <1>1, <1>2 DEF PInv, BlockPCs
<1>4. PostingPhase' = PostingPhase /\ PostingBlock' = PostingBlock
  BY <1>0, <1>1, <1>2 DEF PostingPhase, PostingBlock, PInv
<1> QED
  BY <1>0, <1>3, <1>4 DEF PostingStep, Posting!vars

\* handle_new_block resets posting_batch: End.
LEMMA ResetPostingRefines ==
  ASSUME PInv, NEW b \in Blocks, ResetPosting(b)
  PROVE  PInv' /\ PostingStep
<1>0. /\ fpc[b] = "reset" /\ fpc' = [fpc EXCEPT ![b] = "done"]
      /\ posting' = FALSE /\ UNCHANGED <<lastUploaded, block>>
  BY DEF ResetPosting, chainVars
<1>1. /\ InFlightBlocks = {b} /\ posting /\ PostingBlock = b
      /\ \A x \in Blocks \ {b} : fpc[x] # "submit"
  BY <1>0, InFlightSingle DEF InFlightPCs
<1>2. InFlightBlocks' = {}
  BY <1>0, <1>1 DEF PInv, InFlightBlocks, InFlightPCs
<1>3. PInv'
  BY <1>0, <1>1, <1>2 DEF PInv, BlockPCs
<1>4. PostingPhase = "uploaded" /\ PostingPhase' = "idle" /\ PostingBlock' = 0
  BY <1>0, <1>1, <1>2 DEF PostingPhase, PostingBlock
<1>5. Posting!End
  BY <1>0, <1>1, <1>4 DEF Posting!End
<1> QED
  BY <1>3, <1>5 DEF PostingStep, Posting!Next

\* A new block: Tick.
LEMMA NewBlockRefines ==
  ASSUME PInv, NewBlock
  PROVE  PInv' /\ PostingStep
<1>0. /\ block < MaxBlock /\ block' = block + 1
      /\ fpc' = [fpc EXCEPT ![block + 1] = "read"]
      /\ UNCHANGED <<posting, lastUploaded>>
  BY DEF NewBlock, batcherVars
<1>1. block + 1 \in Blocks /\ fpc[block + 1] = "none"
  BY <1>0, BatcherAssumption DEF PInv, Blocks
<1>2. InFlightBlocks' = InFlightBlocks
  BY <1>0, <1>1 DEF PInv, InFlightBlocks, InFlightPCs
<1>3. PInv'
  BY <1>0, <1>1, <1>2, BatcherAssumption DEF PInv, BlockPCs, Blocks
<1>4. PostingPhase' = PostingPhase /\ PostingBlock' = PostingBlock
  BY <1>0, <1>1, <1>2 DEF PostingPhase, PostingBlock, PInv
<1>5. Posting!Tick
  BY <1>0, <1>4 DEF Posting!Tick
<1> QED
  BY <1>3, <1>5 DEF PostingStep, Posting!Next

-----------------------------------------------------------------------------
(* The refinement and its consequences.                                    *)

LEMMA InitPInv == Init => PInv /\ Posting!Init
<1> SUFFICES ASSUME Init PROVE PInv /\ Posting!Init
  OBVIOUS
<1>1. InFlightBlocks = {}
  BY DEF Init, InFlightBlocks, InFlightPCs
<1>2. /\ posting = FALSE /\ lastUploaded = 0 /\ block = 0
      /\ fpc = [b \in Blocks |-> "none"]
  BY DEF Init
<1>3. PInv
  <2>1. fpc \in [Blocks -> BlockPCs]
    BY <1>2 DEF BlockPCs
  <2>2. block \in 0 .. MaxBlock
    BY <1>2, BatcherAssumption
  <2> QED
    BY <1>1, <1>2, <2>1, <2>2 DEF PInv
<1>4. PostingPhase = "idle" /\ PostingBlock = 0
  BY <1>1, <1>2 DEF PostingPhase, PostingBlock
<1> QED
  BY <1>2, <1>3, <1>4 DEF Posting!Init

LEMMA NextPInv == PInv /\ [Next]_vars => PInv' /\ PostingStep
<1> SUFFICES ASSUME PInv, [Next]_vars PROVE PInv' /\ PostingStep
  OBVIOUS
<1>1. CASE UNCHANGED postingVars
  <2>1. PostingPhase' = PostingPhase /\ PostingBlock' = PostingBlock
    BY <1>1 DEF postingVars, PostingPhase, PostingBlock, InFlightBlocks
  <2> QED
    BY <1>1, <2>1 DEF postingVars, PInv, InFlightBlocks, PostingStep, Posting!vars
<1>2. ASSUME NEW b \in Blocks, BlockTaskStep(b) PROVE PInv' /\ PostingStep
  BY <1>2, ReadChainRefines, CheckVerifiersRefines, BatchNotReadyRefines,
     BatchReadyRefines, SubmitRefines, RemoveProofsRefines, ResetPostingRefines
  DEF BlockTaskStep
<1>3. CASE NewBlock
  BY <1>3, NewBlockRefines
<1>4. UNCHANGED vars => UNCHANGED postingVars
  BY DEF vars, postingVars, batcherVars, chainVars, blockVars
<1> QED
  BY <1>1, <1>2, <1>3, <1>4, HandlerFrame, ToggleFrame DEF Next

\* PInv holds in every reachable state, whatever the configuration.
LEMMA SpecPInv == Spec => []PInv
<1>1. PInv /\ [Next]_vars => PInv'
  BY NextPInv
<1> QED
  BY InitPInv, <1>1, PTL DEF Spec

\* The batcher's new-block tasks implement BatchPosting (run
\* batcher_posting): batches are posted one at a time, each begun for an
\* observed block at least block_interval past the last uploaded one, and
\* each recording its block in last_uploaded_batch_block before
\* handle_new_block resets posting_batch.
THEOREM PostingRefinementHolds == Spec => PostingRefinement
<1>1. Init => Posting!Init
  BY InitPInv
<1>2. PInv /\ [Next]_vars => [Posting!Next]_Posting!vars
  BY NextPInv DEF PostingStep
<1> QED
  BY <1>1, <1>2, SpecPInv, PTL DEF Spec, PostingRefinement, Posting!Spec

\* At most one new-block task is between is_batch_ready and the reset of
\* posting_batch, and the flag is up while one is, in every reachable
\* state of every configuration (spec section 8, at-most-one submission
\* in flight).
THEOREM AtMostOneBatchInFlightHolds == Spec => []AtMostOneBatchInFlight
<1>1. PInv => AtMostOneBatchInFlight
  <2> SUFFICES ASSUME PInv PROVE AtMostOneBatchInFlight
    OBVIOUS
  <2>1. CASE InFlightBlocks = {}
    BY <2>1, FS_EmptySet DEF AtMostOneBatchInFlight, InFlightBlocks, InFlightPCs
  <2>2. CASE InFlightBlocks # {}
    <3>1. PICK b \in InFlightBlocks : TRUE
      BY <2>2
    <3>2. InFlightBlocks = {b}
      BY <3>1 DEF PInv
    <3>3. Cardinality(InFlightBlocks) = 1
      BY <3>2, FS_Singleton
    <3> QED
      BY <2>2, <3>3 DEF PInv, AtMostOneBatchInFlight, InFlightBlocks, InFlightPCs
  <2> QED
    BY <2>1, <2>2
<1> QED
  BY <1>1, SpecPInv, PTL

\* finalize_batch never moves last_uploaded_batch_block back, in every
\* configuration, although the tasks of consecutive blocks run
\* concurrently and an older one may reach is_batch_ready late.
THEOREM LastUploadedNeverDecreasesHolds == Spec => LastUploadedNeverDecreases
<1>1. PInv /\ [Next]_vars => lastUploaded' >= lastUploaded
  <2> SUFFICES ASSUME PInv, [Next]_vars PROVE lastUploaded' >= lastUploaded
    OBVIOUS
  <2>1. PInv' /\ PostingStep
    BY NextPInv
  <2>2. CASE Posting!Upload
    <3>1. PostingPhase = "posting"
      BY <2>2 DEF Posting!Upload
    <3>2. PICK b \in Blocks : fpc[b] = "submit"
      BY <3>1 DEF PostingPhase
    <3>3. PostingBlock = b
      BY <3>2, InFlightSingle DEF InFlightPCs
    <3> QED
      BY <2>2, <3>2, <3>3 DEF Posting!Upload, PInv, Blocks
  <2>3. CASE ~Posting!Upload
    BY <2>1, <2>3 DEF PostingStep, Posting!Next, Posting!vars, Posting!Tick,
                      Posting!Begin, Posting!End, PInv
  <2> QED
    BY <2>2, <2>3
<1> QED
  BY <1>1, SpecPInv, PTL DEF Spec, LastUploadedNeverDecreases

=============================================================================
