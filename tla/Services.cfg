SPECIFICATION ServicesSpec
CONSTANTS
  None = None
  ann = ann
  del = del
  gpu = gpu
  val = val
  bud = bud
  via = via
  fees = fees
  zed = zed
  Provider = {gpu}
  Capacity <- Capacities
  Buyer = {ann}
  RemoteBuyer = {zed}
  Genesis <- Opening
  Unit = {1, 2}
  RequestNonce = {0}
  Caller = {1, 2}
  TTL = 1
  MaxTime = 1
  MaxQuotes = 2
  MaxJobs = 2
  MaxTxs = 2
  MaxCrashes = 1
  ProviderTTL = 0
  Nothing = Nothing
  bot = bot
  wasm = wasm
  AgentId = {bot}
  Deployer = {del}
  Wasm = {wasm}
  Size <- Sizes
  MaxModuleBytes = 3
  RunPrice = 1
  StoragePrice = 1
  RentUnit = 5
  Grace = 2
  Allow = {bot}
  MaxInbox = 1
  Deploying = {1}
  MaxAgentTime = 4
  MaxCharges = 3
  MaxRestarts = 1
INVARIANTS
  PaidOncePerDeposit
  CapacityAccounted
  ChargedOnce
  RentOnce
PROPERTIES
  BudgetTerms
  BudgetsSwept
  
ACTION_CONSTRAINT Apart
\* Everything signed may be committed, and every job may have ended.
CHECK_DEADLOCK FALSE
