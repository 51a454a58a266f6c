CONSTANTS
  Users = {"a", "b"}
  MaxNonce = 1
  Fees = {3, 5}
  Sizes = {1}
  MaxBatchByteSize = 14
  MaxBatchProofQty = 3
  ConstantGasCost = 4
  AdditionalGasPerProof = 1
  MaxQueueLen = 4
  CheckGasPrices = {1}
  Reqs = {"r1", "r2", "r3"}
  Systems = {"s1"}
  MaxBlock = 2
  GasPrices = {1}
  InitBalance = 8
  U256Max = 6
  MinBlockInterval = 1
  PreVerificationEnabled = TRUE
  ReplacementMayBeInvalid = TRUE
  MsgChoices <- MCMsgChoices
  NonPaying = FALSE
  NonPayingUser = "b"
  ReplacementUser = "a"
  DefaultMaxFee = 5
INIT Init
NEXT Next
INVARIANT BatchedVerifiersEnabled
