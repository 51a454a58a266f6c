\* Two requests, two blocks, and a non-paying principal b whose proofs are
\* signed by c, under the fairness of every task; the refinement and the
\* posting properties hold with the non-paying path too.
CONSTANTS
  Users = {"a", "b", "c"}
  MaxNonce = 1
  Fees = {3, 5}
  Sizes = {1}
  MaxBatchByteSize = 14
  MaxBatchProofQty = 3
  ConstantGasCost = 4
  AdditionalGasPerProof = 1
  MaxQueueLen = 4
  CheckGasPrices = {1}
  Reqs = {"r1", "r2"}
  Systems = {"s1"}
  MaxBlock = 2
  GasPrices = {1}
  InitBalance = 8
  U256Max = 6
  MinBlockInterval = 1
  PreVerificationEnabled = TRUE
  ReplacementMayBeInvalid = TRUE
  MsgChoices <- MCTwoReqNonPayingMsgChoices
  NonPaying = TRUE
  NonPayingUser = "b"
  ReplacementUser = "c"
  DefaultMaxFee = 5
SPECIFICATION FairSpec
PROPERTY PostingRefinement
PROPERTY PostingEventuallyReleased
