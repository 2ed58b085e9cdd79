SPECIFICATION Spec
CONSTANTS
  v1 = v1
  v2 = v2
  v3 = v3
  None = None
  Node = {v1, v2, v3}
  Faulty = {}
  Genesis = {v1, v2}
  Funds <- Coins
  Deposit <- Deposits
  Offer <- Offers
  Approved <- NoSlashListed
  Modes = {"operator", "open"}
  MinBond = 1
  Epoch = 2
  Unbonding = 1
  Residency = 1
  MinValidators = 1
  MaxValidators = 3
  MaxBlockOps = 2
  MaxOps = 3
  MaxHeight = 4
  MaxCrashes = 0
INVARIANTS
  AdmittedBonded
\* Blocks and heights are bounded, so the model may stop.
CHECK_DEADLOCK FALSE
