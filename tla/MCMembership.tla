---------------------------- MODULE MCMembership ----------------------------
EXTENDS Membership, TLC

CONSTANTS v1, v2, v3

Make(kind, id) == [kind |-> kind, id |-> id]
Coins == (v1 :> 2) @@ (v2 :> 2) @@ (v3 :> 2)
Deposits == (v1 :> 2) @@ (v2 :> 2) @@ (v3 :> 1)
Offers == {Make(k, v3) : k \in StakeKind \cup ChangeKind} \cup {Make("bond", v1), Make("remove", v2)}
NoSlashListed == [n \in Node |-> {c \in Change : c.kind # "slash"}]

\* Reductions. A node that has begun a block finishes it or restarts. Evidence
\* comes before the first block or never, as only a slash reads it, and to v1
\* first. The node to restart is the one that may also be removed.
Applying(n) == step[n] # "idle"
RunThrough ==
  /\ \A n \in Honest : Applying(n) => step'[n] # step[n]
  /\ evidence' # evidence => chain = <<>> /\ evidence'[v1] # {}
  /\ crashes' # crashes => Restart(v2)
=============================================================================
