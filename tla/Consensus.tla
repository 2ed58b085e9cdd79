----------------------------- MODULE Consensus -----------------------------
(***************************************************************************)
(* What a height of the consensus engine promises its chain: each node     *)
(* adopts at most one block, never another one afterwards, and no two      *)
(* nodes adopt different blocks. Nothing is said about votes or rounds.    *)
(***************************************************************************)
CONSTANTS Node, Value, None

VARIABLE choice   \* the block each node has adopted, or None

Init == choice = [n \in Node |-> None]

\* A node adopts a block, the one the others have adopted if any has.
Adopt(n, v) ==
  /\ choice[n] = None
  /\ \A m \in Node : choice[m] \in {None, v}
  /\ choice' = [choice EXCEPT ![n] = v]

Next == \E n \in Node, v \in Value : Adopt(n, v)

Spec == Init /\ [][Next]_choice
=============================================================================
