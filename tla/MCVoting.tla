------------------------------ MODULE MCVoting ------------------------------
EXTENDS Voting, FiniteSetsExt, TLC

CONSTANTS v1, v2, v3, v4, g1, g2, g3, ka, kb

\* Voting power of the validators, and the quorums it makes (QuorumPower).
QuorumsOf(power) ==
  LET Sum(S) == MapThenSumSet(LAMBDA n : power[n], S)
  IN {S \in SUBSET DOMAIN power : Sum(S) >= (2 * Sum(DOMAIN power)) \div 3 + 1}

EqualQuorums == QuorumsOf((v1 :> 1) @@ (v2 :> 1) @@ (v3 :> 1) @@ (v4 :> 1))
HeavyQuorums == QuorumsOf((v1 :> 3) @@ (v2 :> 2) @@ (v3 :> 2))
SoleQuorums == QuorumsOf((v1 :> 5) @@ (v2 :> 1))
PairQuorums == QuorumsOf((v1 :> 1) @@ (v2 :> 1))
RoundRobin4 == [r \in 0 .. MaxRound |-> <<v1, v2, v3, v4>>[(r % 4) + 1]]
RoundRobin3 == [r \in 0 .. MaxRound |-> <<v1, v2, v3>>[(r % 3) + 1]]
RoundRobin2 == [r \in 0 .. MaxRound |-> <<v1, v2>>[(r % 2) + 1]]
NoneRefused == [n \in Validator |-> {}]
RefusesB == [n \in Validator |-> IF n = v2 THEN {kb} ELSE {}]
OneGoroutine == [e \in Entry |-> g1]
TwoGoroutines == [e \in Entry |-> IF e = "proposal" THEN g2 ELSE g1]
ThreeGoroutines == [e \in Entry |-> IF e = "proposal" THEN g2 ELSE IF e = "driver" THEN g1 ELSE g3]

Busy(n) == \E g \in Goroutine : pc[n][g] # Idle
RunThrough == \A n \in Honest : Busy(n) => pc'[n] # pc[n]
=============================================================================
