SPECIFICATION FaultsSpec
CONSTANTS
  v1 = v1
  v2 = v2
  v3 = v3
  v4 = v4
  g1 = g1
  g2 = g2
  g3 = g3
  ka = ka
  kb = kb
  Nil = Nil
  None = None
  Validator = {v1, v2, v3}
  Faulty = {v3}
  Quorum <- HeavyQuorums
  MaxRound = 1
  Leader <- RoundRobin3
  Variant = {ka}
  Refuses <- NoneRefused
  MaxCrashes = 1
  Goroutine = {g1}
  GoroutineOf <- OneGoroutine
  l1 = l1
  b1 = b1
  alice = alice
  mallory = mallory
  ann = ann
  bob = bob
  BondAddress = BondAddress
  Creation = Creation
  Nothing = Nothing
  Peer = {1, 2}
  Payer = {ann, bob}
  Here = 1
  Intents <- Wishes
  Coins0 <- Purses
  Scale = 2
  MaxSigned = 2
  MaxLength = 2
  MaxStarts = 1
  PoolSize = 2
  Single = 3
  ShortMax = 1
  LenBytes = 1
  AddressLen = 1
  DynamicType = 2
  FirstBoundV = 3
  Order = 7
  MaxFree = 4
  MaxRead = 7
INVARIANTS
  SignaturesHold
  WalletTold
  Agreement
  LockHonoured
  CommitCertified
  OncePerPosition
  PolkaBacked
  Solvent
  NoFalseRelease
PROPERTIES
  LockMovesUp
  ChoosesOnce
\* The rounds are bounded, so a height may stop undecided.
CHECK_DEADLOCK FALSE
CONSTRAINT CursorsMatter
ACTION_CONSTRAINT Reduced
