----------------------------- MODULE MCInference -----------------------------
(***************************************************************************)
(* What happens to a client's request: what the buyer's program does with  *)
(* the key it signs with (Purchase), the limits and credentials a request  *)
(* passes at the node (Access), the idempotency key it may carry           *)
(* (Gateway), the job it becomes and its payment (Inference), and the      *)
(* counting of the answer (Metering); and the node's process that serves   *)
(* it: what it brings up and takes down (Lifecycle), and how it watches    *)
(* itself (Watchdog). They share no state: a behaviour is one of one of    *)
(* them, while the others stay as they were set up.                        *)
(***************************************************************************)
EXTENDS Inference, Access, Gateway, Metering, Purchase, Lifecycle, Watchdog, TLC

CONSTANTS ann, del, gpu, bud, job, fees, c1, c2, a1, a2

VARIABLE part   \* the part that takes steps

-----------------------------------------------------------------------------
(* Inference. *)

\* One job, paid from ann's budget by her delegate, for whom the node signs: the
\* budget can afford the deposit or the bill, not both.
Buyers == bud :> ann
Delegates == bud :> del
Caps == bud :> 1
BudgetEnds == bud :> 2
Payers == job :> bud
Providers == job :> gpu
Reserves == job :> 1
Prices == job :> 1
Ends == job :> 1
Opening == [a \in Account |-> IF a = bud THEN 1 ELSE 0]

\* The provider's claim, and a transfer the delegate makes elsewhere, at a nonce
\* the node may issue as well.
Claims ==
  {[op |-> "claim", on |-> job, by |-> gpu, to |-> gpu, amount |-> 0, nonce |-> 0],
   [op |-> "transfer", on |-> del, by |-> del, to |-> gpu, amount |-> 1, nonce |-> 0]}

\* Restarting a node that has no job changes nothing.
RestartsMatter == crashes' # crashes => \E j \in Job : status[j] # "none"

-----------------------------------------------------------------------------
(* The others: the second authorization is dated later than the first. *)

Dated == a1 :> 2 @@ a2 :> 3

-----------------------------------------------------------------------------

\* Contents of a config file: good ones, one with a key twice, one with a blank key,
\* one that does not parse, one without keys, and one without access control.
Entry(key, account) == [key |-> key, account |-> account]
Config(parses, acls, entries) == [parses |-> parses, acls |-> acls, entries |-> entries]
Contents ==
  {Config(TRUE, TRUE, <<Entry("k1", "a")>>),
   Config(TRUE, TRUE, <<Entry("k1", "a"), Entry("k2", "b"), Entry("k1", "b")>>),
   Config(TRUE, TRUE, <<Entry("k1", "a"), Entry(Blank, "a")>>),
   Config(FALSE, TRUE, <<>>), Config(TRUE, TRUE, <<>>),
   Config(TRUE, FALSE, <<Entry("k1", "a")>>)}
NoEnv == <<>>

\* Calls and Stop are followed while the config file is as it was.
EditsOrCalls == edits' > 0 => atWork' = {} /\ stage' # "stopping"

\* Handlers are alike: a new one takes the second goroutine if the first is taken.
CallersInTurn == call[c2] = Idle /\ call'[c2] # Idle => call[c1] # Idle

Reduced == RestartsMatter /\ EditsOrCalls /\ CallersInTurn

-----------------------------------------------------------------------------

\* All of a request's parts but Inference.
paths == <<accessVars, gatewayVars, meteringVars, purchaseVars>>
node == <<lifecycleVars, watchdogVars>>

RequestInit ==
  /\ Init /\ AccessInit /\ GatewayInit /\ MeteringInit /\ PurchaseInit
  /\ LifecycleInit /\ WatchdogInit
  /\ part \in {"inference", "access", "gateway", "metering", "purchase",
               "lifecycle", "watch", "dial"}
  /\ part # "access" => \A kind \in DOMAIN public : public[kind]
  /\ part # "metering" => ~streams /\ answer = got
  /\ part # "purchase" => honest /\ explicit /\ seat = "start"
  /\ part # "lifecycle" => file = Config(TRUE, TRUE, <<>>)

StepOfInference ==
  part = "inference" /\ Next /\ UNCHANGED <<paths, node, part>>
StepOfAccess ==
  /\ part = "access" /\ AccessNext
  /\ UNCHANGED <<vars, gatewayVars, meteringVars, purchaseVars, node, part>>
StepOfGateway ==
  /\ part = "gateway" /\ GatewayNext
  /\ UNCHANGED <<vars, accessVars, meteringVars, purchaseVars, node, part>>
StepOfMetering ==
  /\ part = "metering" /\ MeteringNext
  /\ UNCHANGED <<vars, accessVars, gatewayVars, purchaseVars, node, part>>
StepOfPurchase ==
  /\ part = "purchase" /\ PurchaseNext
  /\ UNCHANGED <<vars, accessVars, gatewayVars, meteringVars, node, part>>
StepOfLifecycle ==
  part = "lifecycle" /\ LifecycleNext /\ UNCHANGED <<vars, paths, watchdogVars, part>>
StepOfWatch ==
  part = "watch" /\ Watch /\ UNCHANGED <<vars, paths, lifecycleVars, dialVars, part>>
StepOfDial ==
  part = "dial" /\ KeepConnected /\ UNCHANGED <<vars, paths, lifecycleVars, watchVars, part>>

RequestNext ==
  \/ StepOfInference
  \/ StepOfAccess
  \/ StepOfGateway
  \/ StepOfMetering
  \/ StepOfPurchase
  \/ StepOfLifecycle
  \/ StepOfWatch
  \/ StepOfDial

\* The fairness of module Inference, for the behaviours of that part.
InferenceFairness ==
  /\ WF_vars(part = "inference" /\ Tick /\ UNCHANGED <<jobs, issued, call, crashes>>)
  /\ \A j \in Job : WF_vars(part = "inference" /\ ExpireUnpaid(j))

RequestSpec ==
  RequestInit /\ [][RequestNext]_<<vars, paths, node, part>> /\ InferenceFairness

\* What a retry, by a replayed authorization or under a used key, costs a buyer:
\* an authorization runs once while its process lives, and a key is charged once
\* unless a handler stopped waiting for a payment.
ServedOnce == SingleUse /\ ChargedOnceAnswered
=============================================================================
