----------------------------- MODULE MCRecovery -----------------------------
(***************************************************************************)
(* What must happen in the end, of parts that share no state: a burn on    *)
(* Ethereum is released, a node that fell behind catches up, an operator   *)
(* joins the open set and leaves it. The part that takes steps is chosen   *)
(* at the start; the others stay as they were.                             *)
(***************************************************************************)
EXTENDS Bridge, CatchUp, MCCandidacy

CONSTANTS v, f, v1, v2, l1, b1, alice

VARIABLE part

\* Two validators that must both attest to the one burn, for ann.
Pair == {v1, v2}
PairSets == {Pair}
BothAttest == Pair :> {Pair}
MirrorAmounts == [x \in {l1, b1} |-> IF x = l1 THEN 2 ELSE 1]
AllOrNone == {{}, Pair}

MirrorOwner == b1 :> alice

\* The cursor is read by Restart only.
CursorsSaved == cursor = next

RecoveryInit ==
  /\ Init
  /\ CatchUpInit
  /\ CandidacyInit
  /\ part \in {"bridge", "sync", "candidacy"}

StepOfBridge == part = "bridge" /\ Next /\ UNCHANGED <<catchUpVars, candidacyVars, part>>
StepOfSync == part = "sync" /\ CatchUpNext /\ UNCHANGED <<vars, candidacyVars, part>>
StepOfCandidacy == part = "candidacy" /\ CandidacyNext /\ UNCHANGED <<vars, catchUpVars, part>>

RecoveryNext ==
  \/ StepOfBridge
  \/ StepOfSync
  \/ StepOfCandidacy

\* Each part has the fairness of its module.
BridgeFairness ==
  /\ \A n \in Pair : WF_vars(Watch(n)) /\ WF_vars(Apply(n))
  /\ \A n \in Pair :
       SF_vars(Extend(AttestTx(n, [burn |-> b1, to |-> alice])))

recovery == <<catchUpVars, vars, candidacyVars, part>>
RecoverySpec ==
  /\ RecoveryInit /\ [][RecoveryNext]_recovery
  /\ \/ part = "bridge" /\ BridgeFairness
     \/ part = "sync" /\ CatchUpFairness
     \/ part = "candidacy" /\ CandidacyFairness
=============================================================================
