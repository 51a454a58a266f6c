CONSTANTS
  Users = {a, b}
  MaxNonce = 1
  Fees = {2, 3, 5}
  Sizes = {1, 2}
  MaxBatchByteSize = 14
  MaxBatchProofQty = 3
  ConstantGasCost = 4
  AdditionalGasPerProof = 1
  MaxQueueLen = 4
  CheckGasPrices = {1}
INIT LoopInit
NEXT LoopNext
INVARIANT PeelBatchFeasible
INVARIANT PeelMaximalUnderDistinctPriorities
INVARIANT LoopBatchFeasible
INVARIANT LoopResultInPeelResults
