SPECIFICATION LedgerSpec
CONSTANTS
  n1 = n1
  n2 = n2
  n3 = n3
  ann = ann
  bob = bob
  fees = fees
  dev = dev
  pay = pay
  rival = rival
  back = back
  self = self
  BasisPointDivisor = 4
  FeeBasisPoints = 2
  MaintainerBPS = 2
  Node = {n1, n2, n3}
  Faulty = {n3}
  Quorum <- HeavyQuorums
  Power <- Powers
  User = {ann, bob}
  Accrual = fees
  Maintainer = dev
  Transfer = {pay, rival, self}
  From <- Senders
  To <- Recipients
  Amount <- Amounts
  Nonce <- Nonces
  Genesis <- Opening
  Reach <- AllOrNone
  MaxPool = 2
  MaxBlockTxs = 2
  MaxHeight = 2
  MaxCrashes = 0
  fay = fay
  gpu = gpu
  buyer = buyer
  Holder = {fay, gpu, buyer}
  Pool = pool
  Accrued = fees
  Odd = odd
  Endowment <- Opened
  Weight <- Powered
  Dev = fay
  Deals <- Signed
  Founder = fay
  Grant = 2
  PoolBefore = 6
  Pardoned = gpu
  PerBlock = 3
  HalfLife = 1
  EpochBlocks = 2
  MaxBlocks = 2
  MaxDeals = 1
  MaxOutages = 1
INVARIANTS
  CallersToldTruth
  NonceSpentOnce
  LedgerTrue
  PayoutsHonest
PROPERTIES
  CallersAnswered
ACTION_CONSTRAINT LedgerReduced
\* Blocks are bounded, so the model may stop.
CHECK_DEADLOCK FALSE
