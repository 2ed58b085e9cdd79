SPECIFICATION GatewaySpec
CONSTANTS
  Unused = Unused
  NoKey = NoKey
  Server = {1, 2}
  IdemKey = {NoKey, 1}
  Digest = {1, 2}
  IdemTTL = 2
  MaxPosts = 2
  MaxHours = 2
  MaxReboots = 1
INVARIANTS
  ChargedOncePerKey
\* Posts are bounded.
CHECK_DEADLOCK FALSE
