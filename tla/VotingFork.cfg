SPECIFICATION Spec
CONSTANTS
  v1 = v1
  v2 = v2
  v3 = v3
  v4 = v4
  g1 = g1
  g2 = g2
  g3 = g3
  ka = ka
  kb = kb
  Nil = Nil
  None = None
  Validator = {v1, v2}
  Faulty = {}
  Quorum <- SoleQuorums
  MaxRound = 1
  Leader <- RoundRobin2
  Variant = {ka}
  Refuses <- NoneRefused
  MaxCrashes = 0
  Goroutine = {g1, g2}
  GoroutineOf <- TwoGoroutines
INVARIANTS
  Agreement
\* The rounds are bounded, so a height may stop undecided.
CHECK_DEADLOCK FALSE
