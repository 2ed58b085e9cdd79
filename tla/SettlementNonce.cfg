SPECIFICATION Spec
CONSTANTS
  n1 = n1
  n2 = n2
  n3 = n3
  ann = ann
  bob = bob
  fees = fees
  dev = dev
  pay = pay
  rival = rival
  back = back
  self = self
  BasisPointDivisor = 4
  FeeBasisPoints = 2
  MaintainerBPS = 2
  Node = {n1, n2}
  Faulty = {}
  Quorum <- BothNodes
  Power <- Powers
  User = {ann, bob}
  Accrual = fees
  Maintainer = dev
  Transfer = {pay, rival}
  From <- Senders
  To <- Recipients
  Amount <- Amounts
  Nonce <- Nonces
  Genesis <- Opening
  Reach <- AllOrNone
  MaxPool = 2
  MaxBlockTxs = 1
  MaxHeight = 2
  MaxCrashes = 0
INVARIANTS
  HonestBlockValid
\* Blocks are bounded, so the model may stop.
CHECK_DEADLOCK FALSE
