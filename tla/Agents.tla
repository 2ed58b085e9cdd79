------------------------------- MODULE Agents -------------------------------
(***************************************************************************)
(* The agents deployed on one node and what their deployers pay            *)
(* (internal/agentapi/manager.go, rent.go): a price per run, and rent for  *)
(* the bytes stored. A charge is a transfer on the chain the caller waits  *)
(* for without a lock, so a deployment and the rent sweep interleave       *)
(* between reading a record and writing it back. Records and modules are   *)
(* on disk; nonces and inboxes are in memory.                              *)
(*                                                                         *)
(* The sandbox an agent runs in is not modelled: a run takes time, may     *)
(* send messages, and its outcome changes nothing but the text of the      *)
(* record.                                                                 *)
(***************************************************************************)
EXTENDS Integers, FiniteSets

CONSTANTS
  AgentId,        \* names of agents
  Deployer,       \* accounts whose keys the node holds
  Wasm,           \* modules
  Size,           \* the bytes of each
  MaxModuleBytes, \* the most a module may have
  RunPrice,       \* the charge for a run, 0 for none
  StoragePrice,   \* rent per byte and unit of time, in credits of ...
  RentUnit,       \* ... this denominator
  Grace,          \* how long unpaid rent is tolerated
  Allow,          \* agents the send policy permits as targets
  MaxInbox,       \* messages an inbox holds
  Deploying,      \* requests to deploy served at once
  MaxAgentTime,   \* bound on the clock
  MaxCharges,     \* bound on charges signed by a deployer
  MaxRestarts,    \* bound on restarts
  Nothing         \* no such thing

Record ==
  [module : Wasm, deployer : Deployer \cup {Nothing}, through : Nat \cup {Nothing},
   paid : Nat, delinquent : Nat \cup {Nothing}, rate : Nat]

ASSUME AgentsAssumption ==
  /\ MaxModuleBytes \in Nat \ {0} /\ Size \in [Wasm -> 1 .. MaxModuleBytes]
  /\ {RunPrice, Grace, MaxInbox, MaxAgentTime, MaxCharges, MaxRestarts} \subseteq Nat
  /\ StoragePrice \in Nat \ {0} /\ RentUnit \in Nat \ {0}
  /\ Allow \subseteq AgentId
  /\ Nothing \notin Nat \cup Deployer \cup Record

VARIABLES
  records,     \* deployments in memory, or Nothing
  stored,      \* the same on disk
  modules,     \* module bytes on disk
  inbox,       \* messages waiting for an agent
  agentNonce,  \* the next nonce the manager signs for a deployer
  deploying,   \* requests to deploy, each at its step
  sweep,       \* the rent sweep at its step
  clock,       \* the time
  spent,       \* nonces committed on the chain
  floating,    \* charges submitted and not committed
  begun,       \* history: when rent for an agent began to run
  collected,   \* history: rent the chain took for it
  bills,       \* history: in how many charges
  paidAt,      \* history: when the sweep last found it paid
  raced,       \* history: agents whose record two writers held at once
  restarts     \* restarts so far

agentStore == <<records, stored, modules, inbox>>
payments == <<spent, floating, collected, bills>>
ages == <<begun, paidAt, raced>>
agentVars ==
  <<agentStore, agentNonce, deploying, sweep, clock, payments, ages, restarts>>

Free == [at |-> "idle"]
Step(d, at) == deploying[d].at = at

-----------------------------------------------------------------------------
(* Charges. *)

\* Submit: a nonce that was used, or is waiting, is refused.
Taken(by, nonce) ==
  nonce \in spent[by] \/ \E t \in floating : t.by = by /\ t.nonce = nonce

Signs(by) == agentNonce[by] < MaxCharges
UsesNonce(by) == agentNonce' = [agentNonce EXCEPT ![by] = @ + 1]

ChargeTx(by, amount, for, kind) ==
  [by |-> by, nonce |-> agentNonce[by], amount |-> amount, for |-> for, kind |-> kind]

\* A block holds t. Whether the deployer can pay depends on its other dealings:
\* if not, the charge is skipped.
SettleCharge(t, applied) ==
  LET mine(d) == deploying[d].at = "wait" /\ deploying[d].tx = t
  IN /\ t \in floating
     /\ floating' = floating \ {t}
     /\ spent' = [spent EXCEPT ![t.by] = @ \cup {t.nonce}]
     /\ LET rent == applied /\ t.kind = "rent"
        IN /\ collected' = IF rent THEN [collected EXCEPT ![t.for] = @ + t.amount] ELSE collected
           /\ bills' = IF rent THEN [bills EXCEPT ![t.for] = @ + 1] ELSE bills
     /\ deploying' = [d \in Deploying |->
          IF ~mine(d) THEN deploying[d] ELSE IF applied THEN [deploying[d] EXCEPT !.at = "charged"] ELSE Free]
     /\ sweep' = IF sweep.at = "wait" /\ sweep.tx = t
                 THEN [sweep EXCEPT !.at = IF applied THEN "paid" ELSE "unpaid"] ELSE sweep
     /\ UNCHANGED <<agentStore, agentNonce, clock, ages, restarts>>

-----------------------------------------------------------------------------
(* Deploy. *)

\* charge: without a price for runs there is nothing to wait for.
BeginDeploy(d, id, m, payer) ==
  /\ deploying[d] = Free
  /\ LET tx == ChargeTx(payer, RunPrice, id, "run")
         asks(at, t) == [at |-> at, id |-> id, module |-> m, payer |-> payer, tx |-> t]
     IN IF RunPrice = 0
        THEN /\ deploying' = [deploying EXCEPT ![d] = asks("charged", Nothing)]
             /\ UNCHANGED <<agentNonce, floating>>
        ELSE /\ Signs(payer) /\ UsesNonce(payer)
             /\ IF Taken(payer, tx.nonce)
                THEN UNCHANGED <<deploying, floating>>
                ELSE /\ floating' = floating \cup {tx}
                     /\ deploying' = [deploying EXCEPT ![d] = asks("wait", tx)]
  /\ UNCHANGED <<agentStore, sweep, clock, spent, collected, bills, ages, restarts>>

\* The request's context ends before the chain decides: the charge stays out.
AbandonDeploy(d) ==
  /\ Step(d, "wait")
  /\ deploying' = [deploying EXCEPT ![d] = Free]
  /\ UNCHANGED <<agentStore, agentNonce, sweep, clock, payments, ages, restarts>>

\* A redeployment is an update: it keeps what rent was paid, and since when it
\* was not.
NewRecord(id, m, payer) ==
  LET prev == records[id]
  IN IF prev = Nothing
     THEN [module |-> m, deployer |-> payer, through |-> clock, paid |-> 0,
           delinquent |-> Nothing, rate |-> StoragePrice]
     ELSE [module |-> m, deployer |-> payer,
           through |-> IF prev.through = Nothing THEN clock ELSE prev.through,
           paid |-> prev.paid, delinquent |-> prev.delinquent,
           rate |-> IF prev.rate = 0 THEN StoragePrice ELSE prev.rate]

Writing(id) ==
  \/ sweep.at \notin {"idle", "next"} /\ sweep.id = id
  \/ \E d \in Deploying : deploying[d].at \in {"run", "written"} /\ deploying[d].id = id

\* The record is made from the one in memory, and then the module runs.
RunModule(d) ==
  /\ Step(d, "charged")
  /\ LET id == deploying[d].id
     IN /\ deploying' = [deploying EXCEPT ![d] =
             [at |-> "run", id |-> id, rec |-> NewRecord(id, deploying[d].module, deploying[d].payer)]]
        /\ raced' = IF Writing(id) THEN raced \cup {id} ELSE raced
  /\ UNCHANGED <<agentStore, agentNonce, sweep, clock, payments, begun, paidAt, restarts>>

\* deliver: a running module sends a message, to an agent the policy permits,
\* that is deployed here, and that has room.
Deliver(d, target) ==
  /\ Step(d, "run") /\ target \in Allow
  /\ records[target] # Nothing /\ inbox[target] < MaxInbox
  /\ inbox' = [inbox EXCEPT ![target] = @ + 1]
  /\ UNCHANGED <<records, stored, modules, agentNonce, deploying, sweep, clock, payments, ages, restarts>>

DrainInbox(id) ==
  /\ inbox[id] > 0
  /\ inbox' = [inbox EXCEPT ![id] = 0]
  /\ UNCHANGED <<records, stored, modules, agentNonce, deploying, sweep, clock, payments, ages, restarts>>

\* persist: the record and the module, in one batch.
PersistDeployment(d) ==
  /\ Step(d, "run")
  /\ LET id == deploying[d].id
         rec == deploying[d].rec
     IN /\ stored' = [stored EXCEPT ![id] = rec]
        /\ modules' = [modules EXCEPT ![id] = rec.module]
        /\ begun' = IF stored[id] = Nothing THEN [begun EXCEPT ![id] = rec.through] ELSE begun
        /\ paidAt' = IF stored[id] = Nothing THEN [paidAt EXCEPT ![id] = rec.through] ELSE paidAt
  /\ deploying' = [deploying EXCEPT ![d].at = "written"]
  /\ UNCHANGED <<records, inbox, agentNonce, sweep, clock, payments, raced, restarts>>

ShowDeployment(d) ==
  /\ Step(d, "written")
  /\ records' = [records EXCEPT ![deploying[d].id] = deploying[d].rec]
  /\ deploying' = [deploying EXCEPT ![d] = Free]
  /\ UNCHANGED <<stored, modules, inbox, agentNonce, sweep, clock, payments, ages, restarts>>

-----------------------------------------------------------------------------
(* SweepRent. *)

\* rentOwed: whole credits, and the time they pay for; the rest keeps accruing.
Accrued(size, rate, elapsed) ==
  IF elapsed > 0 THEN (size * rate * elapsed) \div RentUnit ELSE 0
Covered(size, rate, credits) == (credits * RentUnit) \div (size * rate)

StartSweep ==
  /\ sweep.at = "idle"
  /\ sweep' = [at |-> "next", now |-> clock, left |-> {id \in AgentId : records[id] # Nothing}]
  /\ UNCHANGED <<agentStore, agentNonce, deploying, clock, payments, ages, restarts>>

EndSweep ==
  /\ sweep.at = "next" /\ sweep.left = {}
  /\ sweep' = Free
  /\ UNCHANGED <<agentStore, agentNonce, deploying, clock, payments, ages, restarts>>

Rest(id) == [at |-> "next", now |-> sweep.now, left |-> sweep.left \ {id}]

\* A bill that waits for the chain, or was refused.
Bill(at, id, tx) ==
  [at |-> at, now |-> sweep.now, left |-> sweep.left \ {id}, id |-> id, rec |-> records[id], tx |-> tx]

\* saveRecord: disk, then memory.
Save(id, rec) ==
  /\ stored' = [stored EXCEPT ![id] = rec]
  /\ records' = [records EXCEPT ![id] = rec]
  /\ UNCHANGED <<modules, inbox>>

Sweeps(id) == sweep.at = "next" /\ id \in sweep.left

\* Nobody to bill, or gone since the sweep began, or not a whole credit yet.
SkipAgent(id) ==
  /\ Sweeps(id)
  /\ LET rec == records[id]
     IN \/ rec = Nothing
        \/ rec.deployer = Nothing
        \/ /\ rec.through # Nothing /\ rec.rate > 0
           /\ Accrued(Size[rec.module], rec.rate, sweep.now - rec.through) = 0
  /\ sweep' = Rest(id)
  /\ UNCHANGED <<agentStore, agentNonce, deploying, clock, payments, ages, restarts>>

\* A record from before rent existed: its clock starts now.
StartRent(id) ==
  /\ Sweeps(id) /\ records[id] # Nothing
  /\ LET rec == records[id]
     IN /\ rec.deployer # Nothing
        /\ rec.through = Nothing \/ rec.rate = 0
        /\ Save(id, [rec EXCEPT !.through = sweep.now, !.rate = StoragePrice])
        /\ begun' = [begun EXCEPT ![id] = sweep.now]
        /\ paidAt' = [paidAt EXCEPT ![id] = sweep.now]
        /\ raced' = IF Writing(id) THEN raced \cup {id} ELSE raced
  /\ sweep' = Rest(id)
  /\ UNCHANGED <<agentNonce, deploying, clock, payments, restarts>>

\* chargeRent, up to the wait, with the record as it is now.
ChargeRent(id) ==
  /\ Sweeps(id) /\ records[id] # Nothing
  /\ LET rec == records[id]
         owed == Accrued(Size[rec.module], rec.rate, sweep.now - rec.through)
         tx == ChargeTx(rec.deployer, owed, id, "rent")
     IN /\ rec.deployer # Nothing /\ rec.through # Nothing /\ owed > 0
        /\ Signs(rec.deployer) /\ UsesNonce(rec.deployer)
        /\ IF Taken(rec.deployer, tx.nonce)
           THEN sweep' = Bill("unpaid", id, tx) /\ UNCHANGED floating
           ELSE sweep' = Bill("wait", id, tx) /\ floating' = floating \cup {tx}
  /\ raced' = IF Writing(id) THEN raced \cup {id} ELSE raced
  /\ UNCHANGED <<agentStore, deploying, clock, spent, collected, bills, begun, paidAt, restarts>>

\* Fault for the mutation runs: the watermark stays where it was.
WatermarkStays(rec, credits) == [rec EXCEPT !.paid = @ + credits, !.delinquent = Nothing]

\* Fault for the mutation runs: the grace clock keeps running after a payment.
StillDelinquent(rec, credits) ==
  [rec EXCEPT !.through = @ + Covered(Size[rec.module], rec.rate, credits), !.paid = @ + credits]

PaidRecord(rec, credits) ==
  [rec EXCEPT !.through = @ + Covered(Size[rec.module], rec.rate, credits),
              !.paid = @ + credits, !.delinquent = Nothing]

RentPaid ==
  /\ sweep.at = "paid"
  /\ Save(sweep.id, PaidRecord(sweep.rec, sweep.tx.amount))
  /\ paidAt' = [paidAt EXCEPT ![sweep.id] = sweep.now]
  /\ sweep' = Rest(sweep.id)
  /\ UNCHANGED <<agentNonce, deploying, clock, payments, begun, raced, restarts>>

Since(rec) == IF rec.delinquent = Nothing THEN sweep.now ELSE rec.delinquent
Overdue == sweep.now - Since(sweep.rec) >= Grace

\* The grace clock runs from the first sweep that was not paid.
RentUnpaid ==
  /\ sweep.at = "unpaid" /\ ~Overdue
  /\ Save(sweep.id, [sweep.rec EXCEPT !.delinquent = Since(sweep.rec)])
  /\ sweep' = Rest(sweep.id)
  /\ UNCHANGED <<agentNonce, deploying, clock, payments, ages, restarts>>

Evict ==
  /\ sweep.at = "unpaid" /\ Overdue
  /\ stored' = [stored EXCEPT ![sweep.id] = Nothing]
  /\ modules' = [modules EXCEPT ![sweep.id] = Nothing]
  /\ records' = [records EXCEPT ![sweep.id] = Nothing]
  /\ inbox' = [inbox EXCEPT ![sweep.id] = 0]
  /\ collected' = [collected EXCEPT ![sweep.id] = 0]
  /\ bills' = [bills EXCEPT ![sweep.id] = 0]
  /\ sweep' = Rest(sweep.id)
  /\ UNCHANGED <<agentNonce, deploying, clock, spent, floating, ages, restarts>>

-----------------------------------------------------------------------------

\* NewManager, reload: what was in memory is gone, the nonces too.
RestartManager ==
  /\ restarts < MaxRestarts
  /\ restarts' = restarts + 1
  /\ records' = stored
  /\ inbox' = [id \in AgentId |-> 0]
  /\ agentNonce' = [a \in Deployer |-> 0]
  /\ deploying' = [d \in Deploying |-> Free]
  /\ sweep' = Free
  /\ UNCHANGED <<stored, modules, clock, payments, ages>>

AgentTick ==
  /\ clock < MaxAgentTime
  /\ clock' = clock + 1
  /\ UNCHANGED <<agentStore, agentNonce, deploying, sweep, payments, ages, restarts>>

\* What a node has at its start: nothing, or an agent deployed before rent was
\* charged, with a deployer on record or without.
Legacy(m, a) ==
  [module |-> m, deployer |-> a, through |-> Nothing, paid |-> 0, delinquent |-> Nothing, rate |-> 0]

AgentsInit ==
  /\ stored \in [AgentId -> {Nothing} \cup {Legacy(m, a) : m \in Wasm, a \in Deployer \cup {Nothing}}]
  /\ records = stored
  /\ modules = [id \in AgentId |-> IF stored[id] = Nothing THEN Nothing ELSE stored[id].module]
  /\ inbox = [id \in AgentId |-> 0]
  /\ agentNonce = [a \in Deployer |-> 0]
  /\ deploying = [d \in Deploying |-> Free]
  /\ sweep = Free
  /\ clock = 0
  /\ spent = [a \in Deployer |-> {}] /\ floating = {}
  /\ collected = [id \in AgentId |-> 0] /\ bills = collected
  /\ begun = [id \in AgentId |-> 0] /\ paidAt = begun
  /\ raced = {} /\ restarts = 0

Deploys(d) ==
  \/ \E id \in AgentId, m \in Wasm, a \in Deployer : BeginDeploy(d, id, m, a)
  \/ AbandonDeploy(d)
  \/ RunModule(d)
  \/ \E id \in AgentId : Deliver(d, id)
  \/ PersistDeployment(d)
  \/ ShowDeployment(d)

SweepRent ==
  \/ StartSweep
  \/ \E id \in AgentId : SkipAgent(id) \/ StartRent(id) \/ ChargeRent(id)
  \/ RentPaid
  \/ RentUnpaid
  \/ Evict
  \/ EndSweep

AgentsNext ==
  \/ \E d \in Deploying : Deploys(d)
  \/ SweepRent
  \/ \E id \in AgentId : DrainInbox(id)
  \/ \E t \in floating, applied \in BOOLEAN : SettleCharge(t, applied)
  \/ AgentTick
  \/ RestartManager

AgentsSpec == AgentsInit /\ [][AgentsNext]_agentVars

-----------------------------------------------------------------------------
(* Properties. *)

Undisturbed(id) == id \notin raced /\ restarts = 0

\* The rent of the largest module for a unit of time, in RentUnits of a credit.
Dearest == StoragePrice * MaxModuleBytes

\* "Nothing is lost and nothing is charged twice": however sweeps, deployments
\* and payments follow each other, a record never claims a payment the chain did
\* not make, and a deployer pays no more rent than its bytes accrued since the
\* clock started, but for the rounding of each charge. Credits and the time they
\* cover are both rounded down, so a charge may take less than a unit of time's
\* rent again. A deployment that overlaps a sweep, or a restart between the charge
\* and the record, breaks the second in the code.
RentOnce ==
  \A id \in AgentId :
    records[id] # Nothing =>
      /\ id \notin raced => records[id].paid <= collected[id]
      /\ Undisturbed(id) =>
           collected[id] * RentUnit <= Dearest * (clock - begun[id]) + (Dearest - 1) * bills[id]

\* An agent is evicted only if its rent was unpaid for the whole grace period,
\* counted from the last payment, and not from an earlier lapse that was made
\* good.
EvictedAfterGrace ==
  [][\A id \in AgentId \ raced :
       stored[id] # Nothing /\ stored'[id] = Nothing => sweep.now - paidAt[id] >= Grace]_agentVars
=============================================================================
