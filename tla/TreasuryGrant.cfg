SPECIFICATION TreasurySpec
CONSTANTS
  fay = fay
  gpu = gpu
  buyer = buyer
  BasisPointDivisor = 4
  FeeBasisPoints = 2
  MaintainerBPS = 2
  Holder = {fay, gpu, buyer}
  Pool = pool
  Accrued = fees
  Odd = odd
  Endowment <- Opened
  Weight <- Powered
  Dev = fay
  Deals <- Signed
  Founder = fay
  Grant = 2
  PoolBefore = 6
  Pardoned = gpu
  PerBlock = 0
  HalfLife = 2
  EpochBlocks = 2
  MaxBlocks = 5
  MaxDeals = 1
  MaxOutages = 0
INVARIANTS
  AllocatedOnce
CHECK_DEADLOCK FALSE
