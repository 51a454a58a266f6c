---------------------------- MODULE BatchPosting ----------------------------
(***************************************************************************)
(* What the batcher's finalizer promises about posting batches, with the   *)
(* queue, the tasks and the chain left out (spec sections 4.7 and 8,       *)
(* "at-most-one submission in flight").  Blocks arrive one by one.  One    *)
(* batch at a time is posted: it is begun for an observed block at least   *)
(* MinBlockInterval blocks after the last uploaded one, its block is then  *)
(* recorded as the last uploaded one, and the posting ends.  Batcher       *)
(* implements this specification under the mapping Batcher!Posting.       *)
(***************************************************************************)
EXTENDS Naturals

CONSTANTS
  MaxBlock,         \* blocks 1..MaxBlock are observed
  MinBlockInterval  \* config batcher.block_interval

VARIABLES
  block,        \* the newest block observed
  phase,        \* "idle", "posting" (begun) or "uploaded" (block recorded)
  inFlight,     \* the block whose batch is being posted, 0 when idle
  lastUploaded  \* the block of the last batch posted

vars == <<block, phase, inFlight, lastUploaded>>

Init ==
  /\ block = 0
  /\ phase = "idle"
  /\ inFlight = 0
  /\ lastUploaded = 0

\* A new block is observed.
Tick ==
  /\ block < MaxBlock
  /\ block' = block + 1
  /\ UNCHANGED <<phase, inFlight, lastUploaded>>

\* A batch is begun for an observed block far enough past the last upload.
Begin(b) ==
  /\ phase = "idle"
  /\ b \in 1 .. block
  /\ b >= lastUploaded + MinBlockInterval
  /\ phase' = "posting"
  /\ inFlight' = b
  /\ UNCHANGED <<block, lastUploaded>>

\* The batch's block becomes the last uploaded one, whatever the outcome of
\* its submission.
Upload ==
  /\ phase = "posting"
  /\ phase' = "uploaded"
  /\ lastUploaded' = inFlight
  /\ UNCHANGED <<block, inFlight>>

\* The posting ends and another batch may begin.
End ==
  /\ phase = "uploaded"
  /\ phase' = "idle"
  /\ inFlight' = 0
  /\ UNCHANGED <<block, lastUploaded>>

Next ==
  \/ Tick
  \/ \E b \in 1 .. MaxBlock : Begin(b)
  \/ Upload
  \/ End

Spec == Init /\ [][Next]_vars

=============================================================================
