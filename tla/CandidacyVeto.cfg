SPECIFICATION CandidacySpec
CONSTANTS
  fay = fay
  cal = cal
  Node = {fay, cal}
  Founder = {fay}
  Approver = {fay}
  TargetBond = 2
  MinBond = 2
  Funds <- Purses
  PoolLimit = 8
  EpochLength = 2
  Unbonding = 2
  MaxTurns = 2
  MaxLosses = 0
PROPERTIES
  KeepsCommitting
\* Every operation may have been done.
CHECK_DEADLOCK FALSE
