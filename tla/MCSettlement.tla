---------------------------- MODULE MCSettlement ----------------------------
EXTENDS Settlement, TLC

CONSTANTS n1, n2, n3, ann, bob, fees, dev, pay, rival, back, self

Two == {n1, n2}
Three == {n1, n2, n3}
BothNodes == {Two}
HeavyQuorums == {{n1, n2}, {n1, n3}, Three}
Powers == [n \in Node |-> IF n = n1 THEN 2 ELSE 1]
AllOrNone == {{}, Node}

\* ann pays bob, then a rival transfer at the same nonce; bob pays ann back what
\* he only has if he was paid; ann pays herself.
Senders == [t \in Transfer |-> IF t = back THEN bob ELSE ann]
Recipients == [t \in Transfer |-> IF t \in {back, self} THEN ann ELSE bob]
Amounts == [t \in Transfer |-> IF t = pay THEN 6 ELSE IF t = back THEN 3 ELSE 5]
Nonces == [t \in Transfer |-> IF t = self THEN 1 ELSE 0]
Opening == [a \in Account |-> IF a = ann THEN 7 ELSE 0]

\* Reductions where nothing restarts: a node's commit path only touches the
\* node, so it may run through; callers that wait change nothing but themselves,
\* so one node with callers is as good as many.
RunThrough == \A n \in Honest : step[n] # "idle" => <<step'[n], index'[n]>> # <<step[n], index[n]>>
NobodyWaits == \A n \in Honest : waiting'[n] = {} /\ told'[n] = told[n]
WaitAtOne == \A n \in Honest \ {n1} : waiting'[n] = {} /\ told'[n] = told[n]
Reduced == RunThrough /\ NobodyWaits
=============================================================================
