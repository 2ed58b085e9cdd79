----------------------------- MODULE MCServices -----------------------------
(***************************************************************************)
(* The parts of a node that share no state with each other, in one model:  *)
(* a behaviour is a behaviour of one of them, while the others stay as     *)
(* they were set up. Each module can also be checked by itself, under its  *)
(* own specification.                                                      *)
(***************************************************************************)
EXTENDS Exchange, Agents, TLC

CONSTANTS ann, del, gpu, val, bud, via, fees, zed, bot, wasm

VARIABLE part   \* the part that takes steps

-----------------------------------------------------------------------------
(* Budgets and reservations on the chain. The delegate funds "via" from a  *)
(* budget of ann, which expires before it does.                            *)

VARIABLES cBalance, cNow, cTime, cPool, cApplied, cSkipped, cFunds, cPays
chain == <<cBalance, cNow, cTime, cPool, cApplied, cSkipped, cFunds, cPays>>

Tx(op, on, by, to, amount, nonce) ==
  [op |-> op, on |-> on, by |-> by, to |-> to, amount |-> amount, nonce |-> nonce]

\* Two deposits into "via", each as large as the cap, a settlement and a claim,
\* and a close of the delegate's, which does nothing before the expiry.
BudgetSigned ==
  {Tx("open", bud, ann, ann, 4, 0), Tx("close", bud, ann, ann, 0, 1),
   Tx("close", bud, del, del, 0, 1),
   Tx("fund", via, del, del, 3, 2), Tx("fund", via, del, del, 3, 3),
   Tx("settle", via, del, del, 1, 4), Tx("claim", via, gpu, gpu, 0, 0)}

Persons == {ann, del, gpu, val}
Buyers == bud :> ann
Delegates == bud :> del
Caps == bud :> 3
BudgetEnds == bud :> 2
Payers == via :> bud
Providers == via :> gpu
Reserves == via :> 3
Ends == via :> 3
Funds == [a \in Persons \cup {bud, via, fees} |-> IF a = ann THEN 7 ELSE 0]
Coins == 0 .. 4

Chain == INSTANCE Reservations WITH
  balance <- cBalance, now <- cNow, time <- cTime, pool <- cPool,
  applied <- cApplied, skipped <- cSkipped, funds <- cFunds, pays <- cPays,
  BasisPointDivisor <- 4, FeeBasisPoints <- 2, MaintainerBPS <- 2,
  Person <- Persons, Sweeper <- {val}, Budget <- {bud}, Buyer <- Buyers, Delegate <- Delegates,
  PerJobCap <- Caps, BudgetExpiry <- BudgetEnds, Reservation <- {via}, Payer <- Payers,
  Provider <- Providers, Reserved <- Reserves, Expiry <- Ends, Accrual <- fees,
  Genesis <- Funds, Coin <- Coins, Nonce <- Coins, Signed <- BudgetSigned, Skew <- 1, MaxTime <- 2

ChainTypeOK == Chain!ChainTypeOK
CoinsConserved == Chain!CoinsConserved
PaidOncePerDeposit == Chain!PaidOncePerDeposit
BudgetTerms == Chain!BudgetTerms
BudgetsSwept == Chain!BudgetsSwept

-----------------------------------------------------------------------------
(* The market and its gossip. The coordinator and the gossip meet in the   *)
(* capacity of a provider only: with a chain to settle on, there is one    *)
(* local job and no gossip; without one, two jobs of one unit, ordered     *)
(* from anywhere, of which at most one is local, and two messages of each  *)
(* kind on the network.                                                    *)

Capacities == gpu :> 2
Opening == [b \in Buyer \cup RemoteBuyer |-> 2]

Local == {i \in DOMAIN jobs' : jobs'[i].digest = None}

MarketApart ==
  IF settler
  THEN gossip' = gossip /\ Len(jobs') < 2 /\ now' = now /\ quotes' <= 1
  ELSE /\ Cardinality(Local) < 2 /\ Cardinality(announced') < 3 /\ Cardinality(ordered') < 3
       /\ \A r \in Range(jobs') \cup ordered' : r.units = 1

-----------------------------------------------------------------------------
(* Agents: one, deployed and swept, with messages before the clock moves.  *)

Sizes == wasm :> 3

AgentsApart == inbox' # inbox => clock = 0

-----------------------------------------------------------------------------

Apart == MarketApart /\ AgentsApart

ServicesInit ==
  /\ Chain!ChainInit
  /\ ExchangeInit
  /\ AgentsInit
  /\ part \in {"chain", "market", "agents"}
  /\ part # "market" => settler
  /\ part # "agents" => \A id \in AgentId : stored[id] = Nothing

StepOfChain == part = "chain" /\ Chain!ChainNext /\ UNCHANGED <<exchangeVars, agentVars, part>>
StepOfMarket == part = "market" /\ ExchangeNext /\ UNCHANGED <<chain, agentVars, part>>
StepOfAgents == part = "agents" /\ AgentsNext /\ UNCHANGED <<chain, exchangeVars, part>>

ServicesNext ==
  \/ StepOfChain
  \/ StepOfMarket
  \/ StepOfAgents

\* The fairness of module Reservations, for the behaviours of that part.
ChainFairness ==
  /\ WF_chain(part = "chain" /\ Chain!Tick)
  /\ WF_chain(part = "chain" /\ Chain!NewBlock)
  /\ \A t \in BudgetSigned \cup {Chain!CloseBy(val, bud)} : WF_chain(part = "chain" /\ Chain!Apply(t))
  /\ WF_chain(part = "chain" /\ Chain!Sweep(val, bud))

services == <<chain, exchangeVars, agentVars, part>>
ServicesSpec == ServicesInit /\ [][ServicesNext]_services /\ ChainFairness
=============================================================================
