SPECIFICATION RequestSpec
CONSTANTS
  ann = ann
  gpu = gpu
  bud = bud
  del = del
  job = job
  fees = fees
  c1 = c1
  c2 = c2
  BasisPointDivisor = 4
  FeeBasisPoints = 2
  MaintainerBPS = 2
  Person = {ann, del, gpu}
  Sweeper = {}
  Budget = {bud}
  Buyer <- Buyers
  Delegate <- Delegates
  PerJobCap <- Caps
  BudgetExpiry <- BudgetEnds
  Reservation = {job}
  Payer <- Payers
  Provider <- Providers
  Reserved <- Reserves
  Expiry <- Ends
  Accrual = fees
  Genesis <- Opening
  Coin = {0, 1}
  Nonce = {0, 1, 2, 3}
  Signed <- Claims
  Skew = 0
  MaxTime = 2
  Caller = {c1, c2}
  Held = {del}
  Price <- Prices
  Capacity = 1
  PaymentTTL = 0
  MaxCrashes = 1
  Absent = Absent
  a1 = a1
  a2 = a2
  Client = {c1, c2}
  Key = {c1}
  Auth = {a1, a2}
  Genuine = {a1}
  SignedAt <- Dated
  Cost = 2
  Refill = 1
  Burst = 3
  IdleTTL = 3
  AuthWindow = 2
  MaxMoment = 6
  MaxRequests = 4
  MaxRestarts = 1
  Unused = Unused
  NoKey = NoKey
  Server = {1, 2}
  IdemKey = {1}
  Digest = {1}
  IdemTTL = 2
  MaxPosts = 2
  MaxHours = 2
  MaxReboots = 1
  Unknown = Unknown
  Index = {0, 1}
  Pieces = 2
  Reported = {0, 3, 9}
  Quoted = 5
  UnitPrice = 2
  PromptWords = 1
  PromptBytes = 1
  Overhead = 1
  CeilingFloor = 4
  Prompt = 1
  MaxText = 2
  AskPrice = 2
  Deposits = {4, 6}
  Estimate = 3
  Files <- Contents
  Given <- NoEnv
  MaxEdits = 2
  MaxProcesses = 2
  MaxAtWork = 1
  Threshold = 4
  Interval = 2
  MaxWaiting = 2
  Neighbour = {1, 2}
  Malformed = {2}
  MaxFlips = 3
INVARIANTS
  CompletedIsPaid
  EndedReleases
  WithinRate
  
  Metered
  
  NodeWhole
PROPERTIES
  UnpaidExpires
  WatchTells
ACTION_CONSTRAINT Reduced
\* Every job may have ended.
CHECK_DEADLOCK FALSE
