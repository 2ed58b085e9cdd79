SPECIFICATION RecoverySpec
CONSTANTS
  v = v
  f = f
  v1 = v1
  v2 = v2
  l1 = l1
  b1 = b1
  alice = alice
  Peer = {v, f}
  Voter = {v}
  CommitQuorum = {{v}}
  Tip = 2
  Window = 2
  Batch = 1
  AskEvery = 2
  ServeEvery = 1
  AnnounceEvery = 1
  MaxFaults = 1
  fay = fay
  cal = cal
  Node = {fay, cal}
  Founder = {fay}
  Approver = {fay, cal}
  TargetBond = 2
  MinBond = 2
  Funds <- Purses
  PoolLimit = 8
  EpochLength = 2
  Unbonding = 2
  MaxTurns = 2
  MaxLosses = 1
  Validator <- Pair
  Faulty = {}
  ValidatorSets <- PairSets
  Quorum <- BothAttest
  Threshold = 2
  Lock = {l1}
  Burn = {b1}
  Amount <- MirrorAmounts
  Account = {alice}
  Owner <- MirrorOwner
  Supply = 3
  GenesisEscrow = 1
  Confirmations = 1
  ReorgDepth = 1
  Reach <- AllOrNone
  MaxPool = 3
  MaxEth = 3
  MaxHeight = 3
  MaxLeaves = 0
  MaxCrashes = 0
PROPERTIES
  JoinsAndLeaves
  CatchesUp
  Redeemed
CONSTRAINT CursorsSaved
\* Blocks and heights are bounded, so the model may stop.
CHECK_DEADLOCK FALSE
