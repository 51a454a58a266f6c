\* Two users, three requests, two blocks.  InitBalance 7 pays for some
\* batches and not others, so that the insufficient-balance paths of
\* admission and of the simulation are reached as well as landed batches.
CONSTANTS
  Users = {"a", "b"}
  MaxNonce = 1
  Fees = {3, 5}
  Sizes = {1}
  MaxBatchByteSize = 14
  MaxBatchProofQty = 3
  ConstantGasCost = 4
  AdditionalGasPerProof = 1
  MaxQueueLen = 4
  CheckGasPrices = {1}
  Reqs = {"r1", "r2", "r3"}
  Systems = {"s1"}
  MaxBlock = 2
  GasPrices = {1}
  InitBalance = 7
  U256Max = 6
  MinBlockInterval = 1
  PreVerificationEnabled = TRUE
  ReplacementMayBeInvalid = TRUE
  MsgChoices <- MCMsgChoices
  NonPaying = FALSE
  NonPayingUser = "b"
  ReplacementUser = "a"
  DefaultMaxFee = 5
INIT Init
NEXT Next
INVARIANT QueueWithinUserState
INVARIANT UserStateAccounting
INVARIANT AtMostOneBatchInFlight
PROPERTY LastUploadedNeverDecreases
