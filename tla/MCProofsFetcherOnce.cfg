\* Two batches, a chain from block 1 (the configured last aggregated block)
\* to block 4, and four calls of fetch: enough for a batch to share a block
\* range with the last scanned block, for a lagging node to report an
\* older block, and for a failed call between two good ones.  Deadlock is
\* not checked: the run ends when the chain and the calls are exhausted.
CONSTANTS
  B1 = B1
  B2 = B2
  BatchIds <- MCBatchIds
  MaxBlock = 4
  InitialLast = 1
  MaxFetches = 4
SYMMETRY MCSymmetry
SPECIFICATION Spec
INVARIANT BatchFetchedAtMostOnce
CHECK_DEADLOCK FALSE
