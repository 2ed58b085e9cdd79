---------------------------- MODULE Reservations ----------------------------
(***************************************************************************)
(* Money a user sets aside on the chain under terms of its own             *)
(* (internal/consensus/spendescrow.go, inferescrow.go, blocktime.go,       *)
(* node/budget_sweep.go): a budget that a delegate draws on until it       *)
(* expires, and a reservation for one inference job that the payer's side  *)
(* settles and the provider claims at its expiry. Both are accounts whose  *)
(* name is their terms.                                                    *)
(*                                                                         *)
(* The ledger is that of one node: module Settlement shows what the nodes  *)
(* agree on. A transaction is a record; its nonce separates two signatures *)
(* of the same content. A block is the transactions applied between two    *)
(* moves of "time", the timestamp of the last block.                       *)
(***************************************************************************)
EXTENDS Fees, Sums, FiniteSets, FiniteSetsExt

CONSTANTS
  Person,        \* accounts with a key
  Sweeper,       \* the accounts of nodes, which close expired budgets
  Budget,        \* budgets, each with its terms:
  Buyer, Delegate, PerJobCap, BudgetExpiry,
  Reservation,   \* reservations, each with its terms:
  Payer, Provider, Reserved, Expiry,
  Accrual,       \* the fee accrual account
  Genesis,       \* opening balances
  Coin,          \* amounts a transaction may name
  Nonce,         \* nonces users sign at
  Signed,        \* the transactions users sign
  Skew,          \* how far a block's timestamp may be from the clock
  MaxTime        \* bound on the clock

Account == Person \cup Budget \cup Reservation \cup {Accrual}
Op == {"transfer", "open", "draw", "close", "fund", "settle", "claim"}
Transaction == [op : Op, on : Account, by : Person, to : Person, amount : Coin, nonce : Nonce \cup Budget]
Balances == [Account -> Nat]

ASSUME ReservationsAssumption ==
  /\ Sweeper \subseteq Person
  /\ Buyer \in [Budget -> Person] /\ Delegate \in [Budget -> Person]
  /\ PerJobCap \in [Budget -> Nat \ {0}] /\ BudgetExpiry \in [Budget -> Nat \ {0}]
  /\ Payer \in [Reservation -> Person \cup Budget] /\ Provider \in [Reservation -> Person]
  /\ Reserved \in [Reservation -> Nat \ {0}] /\ Expiry \in [Reservation -> Nat \ {0}]
  /\ \A r \in Reservation : Payer[r] # Provider[r]
  /\ Accrual \notin Person \cup Budget \cup Reservation
  /\ Person \cap Budget = {} /\ Person \cap Reservation = {} /\ Budget \cap Reservation = {}
  /\ Genesis \in Balances /\ \A r \in Reservation : Genesis[r] = 0
  /\ Coin \subseteq Nat /\ 0 \in Coin
  /\ Nonce \subseteq Nat
  /\ Signed \subseteq Transaction /\ \A t \in Signed : t.nonce \in Nonce
  /\ Skew \in Nat /\ MaxTime \in Nat

VARIABLES
  balance,   \* the ledger
  now,       \* the wall clock
  time,      \* the timestamp of the last block
  pool,      \* submitted and not committed
  applied,   \* committed: the transactions that took effect
  skipped,   \* committed: those that did not
  funds,     \* history: deposits into a reservation
  pays       \* history: payments out of it to its provider

clocks == <<now, time>>
ledger == <<balance, applied, skipped, funds, pays>>
chainVars == <<clocks, ledger, pool>>

Committed == applied \cup skipped

-----------------------------------------------------------------------------
(* What may enter a block. *)

\* SpenderFor: the key that may move a payer's money.
Spender(payer) == IF payer \in Budget THEN Delegate[payer] ELSE payer

\* verifySpendTx: an operation on a budget that some ledger and clock allow.
SpendWellFormed(t) ==
  /\ t.on \in Budget
  /\ \/ t.op = "open" /\ t.by = Buyer[t.on] /\ t.amount > 0
     \/ /\ t.op = "draw" /\ t.by = Delegate[t.on]
        /\ t.amount \in 1 .. PerJobCap[t.on] /\ t.to # Buyer[t.on]
     \/ t.op = "close" /\ t.amount = 0

\* verifyInferTx: the same for a reservation.
InferWellFormed(t) ==
  /\ t.on \in Reservation
  /\ \/ t.op = "fund" /\ t.by = Spender(Payer[t.on]) /\ t.amount = Reserved[t.on]
     \/ t.op = "settle" /\ t.by = Spender(Payer[t.on]) /\ t.amount \in 1 .. Reserved[t.on]
     \/ t.op = "claim" /\ t.by = Provider[t.on] /\ t.amount = 0

WellFormed(t) == SpendWellFormed(t) \/ InferWellFormed(t) \/ (t.op = "transfer" /\ t.on = t.by)

\* nonceKey: budgets and reservations are nonce-checked as transfers are.
FreshNonce(t) == \A u \in Committed \cup pool : ~(u.by = t.by /\ u.nonce = t.nonce)

\* rejectUnauthorizedBudgetClose: before the expiry only the buyer's close does
\* anything. A rule of Submit, not of blocks.
Pointless(t) == t.op = "close" /\ now < BudgetExpiry[t.on] /\ t.by # Buyer[t.on]

Admitted(t) == WellFormed(t) /\ FreshNonce(t) /\ ~Pointless(t)

\* A user submits a transaction.
SubmitTx(t) ==
  /\ Admitted(t)
  /\ pool' = pool \cup {t}
  /\ UNCHANGED <<clocks, ledger>>

\* A faulty leader's block carries a transaction no node would have admitted.
Smuggle(t) ==
  /\ WellFormed(t) /\ FreshNonce(t) /\ Pointless(t)
  /\ pool' = pool \cup {t}
  /\ UNCHANGED <<clocks, ledger>>

-----------------------------------------------------------------------------
(* What a committed transaction does: applySpendOperation, applyInferOperation
   and the transfer path of commitAndApply. *)

Give(b, from, to, a) ==
  IF from = to THEN b ELSE [b EXCEPT ![from] = @ - a, ![to] = @ + a]

\* A payment: the fee comes out of the amount.
Pay(b, from, to, a) == Give(Give(b, from, to, a - FeeFor(a)), from, Accrual, FeeFor(a))

Lands(t) ==
  /\ t \in pool
  /\ pool' = pool \ {t}
  /\ UNCHANGED clocks

\* It took effect.
Takes(t) == Lands(t) /\ applied' = applied \cup {t} /\ UNCHANGED skipped

\* It is committed without effect, and its submitter can tell.
Skips(t) == Lands(t) /\ skipped' = skipped \cup {t} /\ UNCHANGED <<balance, applied, funds, pays>>

CanPay(t) == t.op = "transfer" /\ balance[t.by] >= t.amount
CanOpen(t) == t.op = "open" /\ time < BudgetExpiry[t.on] /\ balance[t.by] >= t.amount
CanDraw(t) == t.op = "draw" /\ time < BudgetExpiry[t.on] /\ balance[t.on] >= t.amount

\* Fault for the mutation runs: anybody's close one second late.
CanCloseLate(t) == t.op = "close" /\ (time > BudgetExpiry[t.on] \/ t.by = Buyer[t.on])

\* Before the expiry a close is the buyer's; from then on, anybody's.
CanClose(t) == t.op = "close" /\ (time >= BudgetExpiry[t.on] \/ t.by = Buyer[t.on])
CanSettle(t) == t.op = "settle" /\ (balance[t.on] = 0 \/ t.amount <= balance[t.on])
CanClaim(t) == t.op = "claim" /\ time >= Expiry[t.on]

\* Fault for the mutation runs: the rules of the budget that pays are forgotten.
CanFundUncapped(t) ==
  /\ t.op = "fund" /\ time < Expiry[t.on]
  /\ balance[Payer[t.on]] >= t.amount

\* A budget-funded reservation obeys the rules of the budget too.
CanFund(t) ==
  /\ t.op = "fund" /\ time < Expiry[t.on]
  /\ Payer[t.on] \in Budget => time < BudgetExpiry[Payer[t.on]] /\ t.amount <= PerJobCap[Payer[t.on]]
  /\ balance[Payer[t.on]] >= t.amount

Able(t) ==
  \/ CanPay(t) \/ CanOpen(t) \/ CanDraw(t) \/ CanClose(t)
  \/ CanFund(t) \/ CanSettle(t) \/ CanClaim(t)

Skip(t) == ~Able(t) /\ Skips(t)

Transfer(t) ==
  /\ CanPay(t) /\ Takes(t)
  /\ balance' = Pay(balance, t.by, t.to, t.amount)
  /\ UNCHANGED <<funds, pays>>

OpenBudget(t) ==
  /\ CanOpen(t) /\ Takes(t)
  /\ balance' = Give(balance, t.by, t.on, t.amount)
  /\ UNCHANGED <<funds, pays>>

DrawOnBudget(t) ==
  /\ CanDraw(t) /\ Takes(t)
  /\ balance' = Pay(balance, t.on, t.to, t.amount)
  /\ UNCHANGED <<funds, pays>>

\* What is left goes to the buyer the name of the budget carries.
CloseBudget(t) ==
  /\ CanClose(t) /\ Takes(t)
  /\ balance' = Give(balance, t.on, Buyer[t.on], balance[t.on])
  /\ UNCHANGED <<funds, pays>>

\* No fee: nobody has been paid.
FundReservation(t) ==
  /\ CanFund(t) /\ Takes(t)
  /\ balance' = Give(balance, Payer[t.on], t.on, t.amount)
  /\ funds' = [funds EXCEPT ![t.on] = @ + 1]
  /\ UNCHANGED pays

\* Settling or claiming an empty reservation is a no-op reported as applied.
NothingLeft(t) ==
  /\ CanSettle(t) \/ CanClaim(t)
  /\ balance[t.on] = 0 /\ Takes(t)
  /\ UNCHANGED <<balance, funds, pays>>

\* Fault for the mutation runs: the refund stays in the reservation.
SettledBalanceKept(t) == Pay(balance, t.on, Provider[t.on], t.amount)

\* The actual to the provider, the fee out of it, the rest back to the payer.
SettledBalance(t) ==
  Give(Pay(balance, t.on, Provider[t.on], t.amount), t.on, Payer[t.on], balance[t.on] - t.amount)

SettleReservation(t) ==
  /\ CanSettle(t) /\ balance[t.on] > 0 /\ Takes(t)
  /\ balance' = SettledBalance(t)
  /\ pays' = [pays EXCEPT ![t.on] = @ + 1]
  /\ UNCHANGED funds

\* The provider takes all there is.
ClaimReservation(t) ==
  /\ CanClaim(t) /\ balance[t.on] > 0 /\ Takes(t)
  /\ balance' = Pay(balance, t.on, Provider[t.on], balance[t.on])
  /\ pays' = [pays EXCEPT ![t.on] = @ + 1]
  /\ UNCHANGED funds

Apply(t) ==
  \/ Skip(t)
  \/ Transfer(t)
  \/ OpenBudget(t)
  \/ DrawOnBudget(t)
  \/ CloseBudget(t)
  \/ FundReservation(t)
  \/ NothingLeft(t)
  \/ SettleReservation(t)
  \/ ClaimReservation(t)

-----------------------------------------------------------------------------
(* Time and the sweep. *)

Tick ==
  /\ now < MaxTime
  /\ now' = now + 1
  /\ UNCHANGED <<time, pool, ledger>>

\* Timestamps a validator accepts: after the parent, close to the clock.
Timestamps == {s \in time + 1 .. MaxTime + Skew : s - now \in -Skew .. Skew}

\* verifyBlockTimestampLocked: the next block, stamped by its leader.
NewBlock ==
  /\ \E s \in Timestamps : time' = s
  /\ UNCHANGED <<now, pool, ledger>>

\* signedBudgetClose: the nonce is derived from the terms, so every sweep of a
\* budget by a node is the same transaction.
CloseBy(n, b) == [op |-> "close", on |-> b, by |-> n, to |-> n, amount |-> 0, nonce |-> b]

\* sweepableBudget: expired by the clock of the node, and not empty.
Sweepable(b) == balance[b] > 0 /\ now >= BudgetExpiry[b]

\* sweepExpiredBudgetsOnce, for one budget.
Sweep(n, b) == Sweepable(b) /\ SubmitTx(CloseBy(n, b))

-----------------------------------------------------------------------------

ChainInit ==
  /\ balance = Genesis
  /\ now = 0 /\ time = 0
  /\ pool = {} /\ applied = {} /\ skipped = {}
  /\ funds = [r \in Reservation |-> 0] /\ pays = [r \in Reservation |-> 0]

ChainNext ==
  \/ Tick
  \/ NewBlock
  \/ \E n \in Sweeper, b \in Budget : Sweep(n, b)
  \/ \E t \in Signed : SubmitTx(t) \/ Smuggle(t)
  \/ \E t \in pool : Apply(t)

ChainSpec == ChainInit /\ [][ChainNext]_chainVars

\* Blocks keep coming and leaders rotate, so what is pending is committed; every
\* node's sweep runs once a minute.
ChainFairness ==
  /\ WF_chainVars(Tick)
  /\ WF_chainVars(NewBlock)
  /\ \A t \in Signed \cup {CloseBy(n, b) : n \in Sweeper, b \in Budget} : WF_chainVars(Apply(t))
  /\ \A n \in Sweeper, b \in Budget : WF_chainVars(Sweep(n, b))

FairChainSpec == ChainSpec /\ ChainFairness

-----------------------------------------------------------------------------
(* Properties. *)

\* The variables have their types; balances never go below zero.
ChainTypeOK ==
  /\ balance \in Balances
  /\ now \in Nat /\ time \in Nat
  /\ pool \in SUBSET Transaction
  /\ applied \in SUBSET Transaction /\ skipped \in SUBSET Transaction
  /\ funds \in [Reservation -> Nat] /\ pays \in [Reservation -> Nat]

\* No coin is made or lost by a deposit, draw, settlement, refund or claim.
CoinsConserved == Total(balance, Account) = Total(Genesis, Account)

\* A provider is paid at most once per deposit: settlements and claims of one
\* reservation, in whatever order they commit, never share one.
PaidOncePerDeposit ==
  \A r \in Reservation : pays[r] + (IF balance[r] > 0 THEN 1 ELSE 0) <= funds[r]

\* What may happen to a budget: its coins go back to its buyer, all of them, or
\* at most the per-job cap leaves it, before its expiry; through a reservation too.
BudgetTerms ==
  [][\A b \in Budget : balance'[b] < balance[b] =>
       \/ balance'[b] = 0 /\ balance'[Buyer[b]] = balance[Buyer[b]] + balance[b]
       \/ time < BudgetExpiry[b] /\ balance[b] - balance'[b] <= PerJobCap[b]]_chainVars

\* A budget that expired with coins in it is emptied by some node's sweep, as
\* long as one of them has not closed it before.
BudgetsSwept ==
  \A b \in Budget :
    (/\ balance[b] > 0 /\ time >= BudgetExpiry[b]
     /\ \E n \in Sweeper : CloseBy(n, b) \notin Committed) ~> (balance[b] = 0)
=============================================================================
