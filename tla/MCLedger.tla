------------------------------ MODULE MCLedger ------------------------------
(***************************************************************************)
(* The ledger: module Settlement twice, with a faulty validator, and with  *)
(* restarts and clients that wait; and module Treasury. The three share no *)
(* state: a behaviour is one of one of them, while the others stay as they *)
(* were set up.                                                            *)
(***************************************************************************)
EXTENDS MCSettlement, MCTreasury

VARIABLE part   \* the part that takes steps

-----------------------------------------------------------------------------
(* Two honest nodes, of which one restarts; pay, and back, which depends   *)
(* on it.                                                                  *)

VARIABLES
  rChain, rStored, rBalance, rStep, rIndex, rOutcome, rApplied, rPool,
  rWaiting, rTold, rTorn, rCrashes

pairVars == <<rChain, rStored, rBalance, rStep, rIndex, rOutcome, rApplied, rPool,
              rWaiting, rTold, rTorn, rCrashes>>

Paid == {pay, back}
Accounts == User \cup Two \cup {Accrual, Maintainer}
PowersOfTwo == [n \in Two |-> IF n = n1 THEN 2 ELSE 1]
ReachOfTwo == {{}, Two}
SendersOfPaid == [t \in Paid |-> IF t = back THEN bob ELSE ann]
RecipientsOfPaid == [t \in Paid |-> IF t = back THEN ann ELSE bob]
AmountsOfPaid == [t \in Paid |-> IF t = pay THEN 6 ELSE 3]
NoncesOfPaid == [t \in Paid |-> 0]
OpeningOfTwo == [a \in Accounts |-> IF a = ann THEN 7 ELSE 0]

Restarted == INSTANCE Settlement WITH
  chain <- rChain, stored <- rStored, balance <- rBalance, step <- rStep, index <- rIndex,
  outcome <- rOutcome, applied <- rApplied, pool <- rPool, waiting <- rWaiting, told <- rTold,
  torn <- rTorn, crashes <- rCrashes,
  Node <- Two, Faulty <- {}, Quorum <- BothNodes, Power <- PowersOfTwo,
  Transfer <- Paid, From <- SendersOfPaid, To <- RecipientsOfPaid, Amount <- AmountsOfPaid,
  Nonce <- NoncesOfPaid, Genesis <- OpeningOfTwo, Reach <- ReachOfTwo, MaxCrashes <- 1

\* With restarts, too, no coin is made or lost and a ledger is the fold of its
\* chain; WaitForSettlement returns what the chain did, and nobody waits for an
\* outcome that has been published (LedgerTrue, ToldTruth and NoLostWakeup).
CallersToldTruth == Restarted!LedgerTrue /\ Restarted!ToldTruth /\ Restarted!NoLostWakeup
\* A caller waiting for what is pending everywhere is answered (Settles).
CallersAnswered == Restarted!Settles

\* Callers that wait change nothing but themselves, so one node with callers is
\* as good as two.
CallersAtOne == rWaiting'[n2] = {} /\ rTold'[n2] = rTold[n2]

-----------------------------------------------------------------------------

LedgerInit ==
  /\ Init /\ Restarted!Init /\ TreasuryInit
  /\ part \in {"rogue", "restarted", "treasury"}

StepOfRogue == part = "rogue" /\ Next /\ UNCHANGED <<pairVars, treasuryVars, part>>
StepOfRestarted == part = "restarted" /\ Restarted!Next /\ UNCHANGED <<vars, treasuryVars, part>>
StepOfTreasury == part = "treasury" /\ TreasuryNext /\ UNCHANGED <<vars, pairVars, part>>

LedgerNext ==
  \/ StepOfRogue
  \/ StepOfRestarted
  \/ StepOfTreasury

\* The fairness of module Settlement, for the behaviours with restarts.
LedgerSpec ==
  /\ LedgerInit /\ [][LedgerNext]_<<vars, pairVars, treasuryVars, part>>
  /\ \A n \in Two : /\ WF_pairVars(part = "restarted" /\ Restarted!Commit(n))
                    /\ SF_pairVars(part = "restarted" /\ Restarted!Propose(n))

LedgerReduced == Reduced /\ CallersAtOne
=============================================================================
