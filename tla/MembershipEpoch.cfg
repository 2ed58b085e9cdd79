SPECIFICATION FairSpec
CONSTANTS
  v1 = v1
  v2 = v2
  v3 = v3
  None = None
  Node = {v1, v2, v3}
  Faulty = {v3}
  Genesis = {v1, v2, v3}
  Funds <- Coins
  Deposit <- Deposits
  Offer <- Offers
  Approved <- NoSlashListed
  Modes = {"operator", "open"}
  MinBond = 1
  Epoch = 2
  Unbonding = 1
  Residency = 1
  MinValidators = 2
  MaxValidators = 3
  MaxBlockOps = 2
  MaxOps = 3
  MaxHeight = 4
  MaxCrashes = 1
INVARIANTS
  SameSet
  BoundaryUsable
  WeightsCurrent
PROPERTIES
  StakeHeld
  TakesEffect
ACTION_CONSTRAINT RunThrough
\* Blocks and heights are bounded, so the model may stop.
CHECK_DEADLOCK FALSE
