------------------------------ MODULE Inference ------------------------------
(***************************************************************************)
(* The life of an inference job at the node that serves it                 *)
(* (internal/inference/service.go, settle.go, escrow.go, stream.go, with   *)
(* the handlers of internal/inferenceapi), composed with the chain of      *)
(* module Reservations that carries its payment. A job is paid in one of   *)
(* three ways: the node signs for an account it holds, the buyer signs the *)
(* invoice of a finished run, or the buyer deposits the price first, the   *)
(* answer is streamed, and the buyer signs what is taken of the deposit.   *)
(*                                                                         *)
(* A handler runs in a goroutine of its own and locks the jobs only to     *)
(* read and write them: the model, Submit and WaitForSettlement run        *)
(* unlocked, and every handler may be called again meanwhile. Jobs live in *)
(* memory; what a job holds of its provider's capacity is on disk.         *)
(* A job is also the name of its reservation.                              *)
(***************************************************************************)
EXTENDS Reservations

CONSTANTS
  Caller,        \* goroutines
  Held,          \* accounts the node signs for
  Capacity,      \* jobs the providers can hold
  Price,         \* the quoted price of a unit, of each job
  PaymentTTL,    \* how long an invoice stands
  MaxCrashes     \* bound on restarts

Job == Reservation

Status == {"none", "pending", "running", "awaiting_deposit", "awaiting_payment",
           "settling", "completed", "failed", "gone"}

NoTx == [op |-> "none"]
Idle == [kind |-> "idle"]
Kind == {"fulfill", "prepare", "stream", "sign", "fund", "settle"}

ASSUME InferenceAssumption ==
  /\ Held \subseteq Person
  /\ Price \in [Job -> Nat \ {0}] /\ \A j \in Job : Reserved[j] % Price[j] = 0
  /\ Capacity \in Nat /\ PaymentTTL \in Nat /\ MaxCrashes \in Nat

VARIABLES
  status,    \* of each job
  reserved,  \* jobs whose capacity the market holds
  invoice,   \* payment: the transaction the buyer is asked to sign
  due,       \* when it expires
  asked,     \* jobs whose buyer has the invoice
  funded,    \* escrowFunded: jobs with a confirmed deposit
  answered,  \* jobs whose completion is stored
  issued,    \* nonce: the next nonce to issue, of each signer
  call,      \* what each goroutine is doing
  billed,    \* history: payments submitted for a job, deposits excepted
  streamed,  \* history: jobs whose answer left as it was produced
  crashes    \* restarts so far

requested == <<invoice, due, asked>>
jobs == <<status, reserved, requested, funded, answered, billed, streamed>>
vars == <<chainVars, jobs, issued, call, crashes>>

-----------------------------------------------------------------------------
(* Building blocks. *)

Goto(j, s) == status' = [status EXCEPT ![j] = s]
Release(j) == reserved' = reserved \ {j}
Begin(c, kind, j, at, tx) == call' = [call EXCEPT ![c] = [kind |-> kind, job |-> j, at |-> at, tx |-> tx]]
Return(c) == call' = [call EXCEPT ![c] = Idle]

\* Goroutine c is at this place of one of these handlers.
At(c, kinds, place) == call[c].kind \in kinds /\ call[c].at = place

\* failJob: the job has failed and its capacity is free.
FailJob(j) ==
  /\ Goto(j, "failed")
  /\ Release(j)
  /\ UNCHANGED <<requested, funded, answered, billed, streamed>>

\* NextNonce(signer, true): above everything committed or pending.
NextNonce(p) ==
  LET used == {t.nonce : t \in {u \in Committed \cup pool : u.by = p /\ u.op # "close"}}
  IN IF used = {} THEN 0 ELSE Max(used) + 1

\* nextNonceFor: nor what was issued and not yet submitted.
NonceFor(p) == Max({NextNonce(p), issued[p]})

Issue(p) == issued' = [issued EXCEPT ![p] = NonceFor(p) + 1]

\* invoiceParties: a budget pays by its delegate's draw.
Bill(j, amount) ==
  LET p == Spender(Payer[j])
  IN [op |-> IF Payer[j] \in Budget THEN "draw" ELSE "transfer", on |-> Payer[j],
      by |-> p, to |-> Provider[j], amount |-> amount, nonce |-> NonceFor(p)]

DepositTx(j) ==
  LET p == Spender(Payer[j])
  IN [op |-> "fund", on |-> j, by |-> p, to |-> p, amount |-> Reserved[j], nonce |-> NonceFor(p)]

SettlementTx(j, amount) ==
  LET p == Spender(Payer[j])
  IN [op |-> "settle", on |-> j, by |-> p, to |-> p, amount |-> amount, nonce |-> NonceFor(p)]

\* Submit of the engine, by a handler: silent for what is known already.
Accepts(t) == t \in Committed \cup pool \/ Admitted(t)
Pooled(t) == pool' = IF t \in Committed THEN pool ELSE pool \cup {t}

-----------------------------------------------------------------------------
(* Opening a job. *)

\* Work the service itself takes on: capacity is reserved in the market first,
\* and a budget cannot buy from its own buyer.
Opens(j) ==
  /\ status[j] = "none"
  /\ Cardinality(reserved) < Capacity
  /\ ~(Payer[j] \in Budget /\ Buyer[Payer[j]] = Provider[j])
  /\ reserved' = reserved \cup {j}

\* SubmitInferenceJob: the job waits to be fulfilled.
SubmitInferenceJob(j) ==
  /\ Opens(j)
  /\ Goto(j, "pending")
  /\ UNCHANGED <<chainVars, requested, funded, answered, billed, streamed, issued, call, crashes>>

\* The price is compared with the ceiling of the budget after the market has
\* reserved: the job is refused and its capacity stays taken.
RefuseAboveCeiling(j) ==
  /\ Opens(j)
  /\ Payer[j] \in Budget
  /\ Goto(j, "gone")
  /\ UNCHANGED <<chainVars, requested, funded, answered, billed, streamed, issued, call, crashes>>

\* budgetCanCover: a deposit the budget's own terms would refuse is not asked for.
BudgetCanCover(j) ==
  Payer[j] \in Budget => now < BudgetExpiry[Payer[j]] /\ Reserved[j] <= PerJobCap[Payer[j]]

\* What the buyer is asked to sign, by a deadline; the answer may not reach it.
Ask(j, t, deadline) ==
  /\ invoice' = [invoice EXCEPT ![j] = t]
  /\ due' = [due EXCEPT ![j] = deadline]
  /\ asked' \in {asked \ {j}, asked \cup {j}}

\* ReserveEscrow: ask for the deposit.
ReserveEscrow(j) ==
  /\ BudgetCanCover(j) /\ now < Expiry[j]
  /\ Goto(j, "awaiting_deposit")
  /\ Ask(j, DepositTx(j), now + PaymentTTL)
  /\ Issue(Spender(Payer[j]))

\* The handler opens the job and its reservation; a job whose budget cannot
\* cover it is left pending.
ReserveInferenceEscrow(j) ==
  /\ Opens(j)
  /\ \/ ReserveEscrow(j)
     \/ /\ ~BudgetCanCover(j)
        /\ Goto(j, "pending")
        /\ UNCHANGED <<requested, issued>>
  /\ UNCHANGED <<chainVars, funded, answered, billed, streamed, call, crashes>>

-----------------------------------------------------------------------------
(* Running the model. *)

Runs(c, kind, j) ==
  /\ call[c] = Idle
  /\ Goto(j, "running")
  /\ Begin(c, kind, j, "model", NoTx)
  /\ UNCHANGED <<chainVars, requested, funded, answered, billed, streamed, issued, crashes>>

\* RunInferenceJob: open a job and run it, to be paid by invoice.
RunInferenceJob(c, j) == Opens(j) /\ Runs(c, "prepare", j)

\* StreamInferenceJob: open a job, stream it, and pay from an account held here.
StreamInferenceJob(c, j) == Opens(j) /\ Runs(c, "fulfill", j)

\* FulfillJob: run a submitted job, or one that is being run.
FulfillJob(c, j) ==
  /\ status[j] \in {"pending", "running"}
  /\ Runs(c, "fulfill", j)
  /\ UNCHANGED reserved

\* StreamEscrowed: only a confirmed deposit opens the stream.
StreamEscrowed(c, j) ==
  /\ j \in funded /\ status[j] = "pending"
  /\ Runs(c, "stream", j)
  /\ UNCHANGED reserved

\* The backend fails, before any text of a stream.
ModelFails(c) ==
  /\ At(c, {"fulfill", "prepare", "stream"}, "model")
  /\ FailJob(call[c].job)
  /\ Return(c)
  /\ UNCHANGED <<chainVars, issued, crashes>>

\* What a run costs: the units it used, capped by those reserved, at the price
\* the job was quoted.
Charge(j) == {Price[j] * u : u \in 1 .. Reserved[j] \div Price[j]}

\* settleRun: the node signs the payment if it holds the account.
SignForBuyer(c) ==
  /\ At(c, {"fulfill"}, "model")
  /\ LET j == call[c].job
         p == Spender(Payer[j])
     IN IF p \in Held
        THEN /\ \E a \in Charge(j) : Begin(c, "fulfill", j, "submit", Bill(j, a))
             /\ Issue(p)
             /\ UNCHANGED jobs
        ELSE /\ FailJob(j)
             /\ Return(c)
             /\ UNCHANGED issued
  /\ UNCHANGED <<chainVars, crashes>>

\* PrepareSettlement: the invoice; the answer is withheld until it is paid.
AskPayment(c) ==
  /\ At(c, {"prepare"}, "model")
  /\ now + PaymentTTL < MaxTime \* the clock is bounded: invoices that can expire
  /\ LET j == call[c].job
     IN /\ \E a \in Charge(j) : Ask(j, Bill(j, a), now + PaymentTTL)
        /\ Issue(Spender(Payer[j]))
        /\ answered' = answered \cup {j}
        /\ Goto(j, "awaiting_payment")
  /\ Return(c)
  /\ UNCHANGED <<chainVars, reserved, funded, billed, streamed, crashes>>

\* The stream is over, or was cut short and is charged for what it delivered:
\* the buyer is asked to sign the settlement.
AskSettlement(c) ==
  /\ At(c, {"stream"}, "model")
  /\ LET j == call[c].job
     IN /\ \E a \in Charge(j) : Ask(j, SettlementTx(j, a), Expiry[j])
        /\ Issue(Spender(Payer[j]))
        /\ answered' = answered \cup {j}
        /\ streamed' = streamed \cup {j}
        /\ Goto(j, "awaiting_payment")
  /\ Return(c)
  /\ UNCHANGED <<chainVars, reserved, funded, billed, crashes>>

\* RecoverEscrowSettlement: the buyer, who lost the answer, asks for it again.
RecoverEscrowSettlement(j) ==
  /\ status[j] = "awaiting_payment" /\ j \in funded
  /\ asked' = asked \cup {j}
  /\ UNCHANGED <<chainVars, status, reserved, invoice, due, funded, answered, billed, streamed, issued, call, crashes>>

-----------------------------------------------------------------------------
(* Payment: the buyer hands in what it was asked to sign. *)

\* checkSignedAgainst: the transaction is the invoice, field by field.
HandsIn(c, kind, j) ==
  /\ call[c] = Idle /\ j \in asked
  /\ Begin(c, kind, j, "submit", invoice[j])
  /\ UNCHANGED <<chainVars, jobs, issued, crashes>>

SettleSigned(c, j) == status[j] = "awaiting_payment" /\ now <= due[j] /\ HandsIn(c, "sign", j)
SettleEscrowed(c, j) == status[j] = "awaiting_payment" /\ j \in funded /\ HandsIn(c, "settle", j)
FundEscrow(c, j) == status[j] = "awaiting_deposit" /\ HandsIn(c, "fund", j)

\* SettleSigned after the expiry of the invoice.
SettleSignedLate(c, j) ==
  /\ call[c] = Idle /\ j \in asked
  /\ status[j] = "awaiting_payment" /\ now > due[j]
  /\ FailJob(j)
  /\ UNCHANGED <<chainVars, issued, call, crashes>>

\* The engine takes the payment: the job is settling.
SubmitPayment(c) ==
  /\ At(c, {"fulfill", "sign", "settle"}, "submit")
  /\ LET t == call[c].tx
         j == call[c].job
     IN /\ Accepts(t)
        /\ Pooled(t)
        /\ Goto(j, "settling")
        /\ billed' = [billed EXCEPT ![j] = @ \cup {t}]
        /\ answered' = answered \cup {j}
        /\ Begin(c, call[c].kind, j, "wait", t)
  /\ UNCHANGED <<clocks, ledger, reserved, requested, funded, streamed, issued, crashes>>

\* The engine takes the deposit.
SubmitDeposit(c) ==
  /\ At(c, {"fund"}, "submit")
  /\ Accepts(call[c].tx)
  /\ Pooled(call[c].tx)
  /\ Begin(c, "fund", call[c].job, "wait", call[c].tx)
  /\ UNCHANGED <<clocks, ledger, jobs, issued, crashes>>

\* The engine refuses it: the job fails, but for a settlement, which may be
\* handed in again.
SubmitRefused(c) ==
  /\ At(c, Kind, "submit")
  /\ ~Accepts(call[c].tx)
  /\ IF call[c].kind = "settle" THEN UNCHANGED jobs ELSE FailJob(call[c].job)
  /\ Return(c)
  /\ UNCHANGED <<chainVars, issued, crashes>>

\* Fault for the mutation runs: a committed payment is taken for a made one.
CommittedIsPaid(t) == t \in Committed

\* WaitForSettlement: committed and applied.
PaymentApplied(t) == t \in applied

\* Fault for the mutation runs: a completed job keeps its capacity.
FinishHolding(j) ==
  /\ Goto(j, "completed")
  /\ UNCHANGED <<reserved, requested, funded, answered, billed, streamed>>

\* The payment was made: the capacity is released and the job completed.
Finish(j) ==
  /\ Goto(j, "completed")
  /\ Release(j)
  /\ UNCHANGED <<requested, funded, answered, billed, streamed>>

\* settleRun stops short of completing a job whose capacity it cannot release.
PaymentMade(c) ==
  /\ At(c, {"fulfill", "sign", "settle"}, "wait")
  /\ PaymentApplied(call[c].tx)
  /\ IF call[c].kind = "fulfill" /\ call[c].job \notin reserved
     THEN UNCHANGED jobs ELSE Finish(call[c].job)
  /\ Return(c)
  /\ UNCHANGED <<chainVars, issued, crashes>>

\* FundEscrow: the deposit is there, and the job may be streamed.
DepositMade(c) ==
  /\ At(c, {"fund"}, "wait")
  /\ PaymentApplied(call[c].tx)
  /\ LET j == call[c].job
     IN /\ Goto(j, "pending")
        /\ funded' = funded \cup {j}
        /\ invoice' = [invoice EXCEPT ![j] = NoTx]
  /\ Return(c)
  /\ UNCHANGED <<chainVars, reserved, due, asked, answered, billed, streamed, issued, crashes>>

\* Committed without effect: the job fails, but for an escrow settlement.
PaymentSkipped(c) ==
  /\ At(c, Kind, "wait")
  /\ call[c].tx \in Committed /\ ~PaymentApplied(call[c].tx)
  /\ IF call[c].kind = "settle" THEN UNCHANGED jobs ELSE FailJob(call[c].job)
  /\ Return(c)
  /\ UNCHANGED <<chainVars, issued, crashes>>

\* The wait times out, or the caller goes away; the job stays as it is.
WaitEnds(c) ==
  /\ At(c, Kind, "wait")
  /\ Return(c)
  /\ UNCHANGED <<chainVars, jobs, issued, crashes>>

\* Fault for the mutation runs: settlements of a deposit are left to the chain.
ExpireInvoices(j) ==
  /\ status[j] = "awaiting_payment" /\ now > due[j] /\ invoice[j].op # "settle"
  /\ FailJob(j)
  /\ UNCHANGED <<chainVars, issued, call, crashes>>

\* ExpireUnpaid: an invoice nobody paid; the job's capacity goes back.
ExpireUnpaid(j) ==
  /\ status[j] = "awaiting_payment" /\ now > due[j]
  /\ FailJob(j)
  /\ UNCHANGED <<chainVars, issued, call, crashes>>

\* The node restarts: jobs, issued nonces and the mempool were in memory.
Restart ==
  /\ crashes < MaxCrashes
  /\ crashes' = crashes + 1
  /\ status' = [j \in Job |-> IF status[j] = "none" THEN "none" ELSE "gone"]
  /\ invoice' = [j \in Job |-> NoTx]
  /\ due' = [j \in Job |-> 0]
  /\ asked' = {} /\ funded' = {} /\ answered' = {}
  /\ issued' = [p \in Person |-> 0]
  /\ call' = [c \in Caller |-> Idle]
  /\ pool' = {}
  /\ UNCHANGED <<clocks, ledger, reserved, billed, streamed>>

-----------------------------------------------------------------------------

Init ==
  /\ ChainInit
  /\ status = [j \in Job |-> "none"]
  /\ reserved = {}
  /\ invoice = [j \in Job |-> NoTx]
  /\ due = [j \in Job |-> 0]
  /\ asked = {} /\ funded = {} /\ answered = {}
  /\ issued = [p \in Person |-> 0]
  /\ call = [c \in Caller |-> Idle]
  /\ billed = [j \in Job |-> {}]
  /\ streamed = {}
  /\ crashes = 0

Handler(c) ==
  \/ \E j \in Job :
       \/ RunInferenceJob(c, j)
       \/ StreamInferenceJob(c, j)
       \/ FulfillJob(c, j)
       \/ StreamEscrowed(c, j)
       \/ SettleSigned(c, j)
       \/ SettleSignedLate(c, j)
       \/ SettleEscrowed(c, j)
       \/ FundEscrow(c, j)
  \/ ModelFails(c)
  \/ SignForBuyer(c)
  \/ AskPayment(c)
  \/ AskSettlement(c)
  \/ SubmitPayment(c)
  \/ SubmitDeposit(c)
  \/ SubmitRefused(c)
  \/ PaymentMade(c)
  \/ DepositMade(c)
  \/ PaymentSkipped(c)
  \/ WaitEnds(c)

\* The chain runs by itself.
Chain ==
  /\ \/ Tick
     \/ NewBlock
     \/ \E t \in Signed : SubmitTx(t)
     \/ \E t \in pool : Apply(t)
  /\ UNCHANGED <<jobs, issued, call, crashes>>

Next ==
  \/ Chain
  \/ \E c \in Caller : Handler(c)
  \/ \E j \in Job :
       \/ SubmitInferenceJob(j)
       \/ RefuseAboveCeiling(j)
       \/ ReserveInferenceEscrow(j)
       \/ RecoverEscrowSettlement(j)
       \/ ExpireUnpaid(j)
  \/ Restart

Spec == Init /\ [][Next]_vars

\* The clock moves, and the node looks for unpaid jobs every minute.
Fairness ==
  /\ WF_vars(Tick /\ UNCHANGED <<jobs, issued, call, crashes>>)
  /\ \A j \in Job : WF_vars(ExpireUnpaid(j))

FairSpec == Spec /\ Fairness

-----------------------------------------------------------------------------
(* Properties. *)

\* A payment for the job has been made: out of its reservation, or by a bill.
Paid(j) == pays[j] > 0 \/ \E t \in billed[j] \cap applied : t.op \in {"transfer", "draw"}

\* A completed job is paid for, whichever handlers ran for it in whatever order
\* and whatever the provider claimed meanwhile, and before an answer is streamed
\* its deposit has been in the reservation.
CompletedIsPaid ==
  /\ \A j \in Job : status[j] = "completed" => Paid(j)
  /\ \A j \in streamed : funds[j] > 0

\* A job that ended holds none of its provider's capacity.
EndedReleases == \A j \in Job : status[j] \in {"completed", "failed"} => j \notin reserved

\* A job waiting for a payment does not wait for good.
UnpaidExpires == \A j \in Job : (status[j] = "awaiting_payment") ~> (status[j] # "awaiting_payment")
=============================================================================
