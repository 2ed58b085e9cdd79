---------------------------- MODULE PaymentProofs ----------------------------
(***************************************************************************)
(* Theorems about Fees, for every divisor, rate and amount: dividing       *)
(* before multiplying loses nothing, stays within the width of the amount, *)
(* and never charges more than the transfer carries. About Reservations    *)
(* and Inference, for every set of budgets, reservations and terms, every  *)
(* order of transactions and every number of handlers and restarts: what a *)
(* budget may lose, that a provider is paid at most once per deposit, and  *)
(* that a completed job is paid for. And about Treasury, for every set of  *)
(* holders, schedule and number of blocks and restarts: that the coins     *)
(* stay the supply, and what leaves the pool and is said to be earned.     *)
(***************************************************************************)
EXTENDS Inference, Treasury, SumProofs, SequenceTheorems, TLAPS

-----------------------------------------------------------------------------
(* Fees. *)

\* PartOf is the exact rounded-down part: the split of the amount that keeps the
\* products small (FeeFor, takeMaintainerShareLocked) changes no result.
THEOREM PartExact ==
  ASSUME NEW amount \in Nat, NEW bps \in 0 .. BasisPointDivisor
  PROVE  PartOf(amount, bps) = (amount * bps) \div BasisPointDivisor
<1> DEFINE d == BasisPointDivisor
           q == amount \div d
           r == amount % d
<1>1. d \in Nat \ {0} /\ bps \in Nat
  BY FeesAssumption
<1>2. q \in Nat /\ r \in 0 .. d - 1 /\ amount = d * q + r
  BY <1>1, DivisionParts
<1>3. (amount \div BasisPointDivisor) * bps
        + ((amount % BasisPointDivisor) * bps) \div BasisPointDivisor
      = q * bps + (r * bps) \div d
  OBVIOUS
<1> HIDE DEF d, q, r
<1>4. q * bps \in Nat /\ r * bps \in Nat
  BY <1>1, <1>2, Z3
<1>5. amount * bps = d * (q * bps) + r * bps
  BY <1>1, <1>2, Z3
<1>6. (d * (q * bps) + r * bps) \div d = q * bps + (r * bps) \div d
  BY <1>1, <1>4, WholeDivisors
<1>7. (amount * bps) \div d = q * bps + (r * bps) \div d
  BY <1>5, <1>6, Zenon
<1> QED BY <1>3, <1>7 DEF PartOf, d

\* No part of an amount exceeds it: the guard of FeeFor that caps the fee at the
\* amount is never taken, and a transfer never moves a negative net amount.
THEOREM PartWithinAmount ==
  ASSUME NEW amount \in Nat, NEW bps \in 0 .. BasisPointDivisor
  PROVE  PartOf(amount, bps) \in 0 .. amount
BY FeesAssumption, PartBound DEF PartOf

\* Every product the computation forms fits the width of the amount or of two
\* divisors, whatever the amount: nothing wraps on a 64-bit word.
THEOREM ProductsFit ==
  ASSUME NEW amount \in Nat, NEW bps \in 0 .. BasisPointDivisor
  PROVE  /\ (amount \div BasisPointDivisor) * bps <= amount
         /\ (amount % BasisPointDivisor) * bps < BasisPointDivisor * BasisPointDivisor
<1> DEFINE d == BasisPointDivisor
           q == amount \div d
           r == amount % d
<1>1. d \in Nat \ {0} /\ bps \in Nat /\ bps <= d
  BY FeesAssumption
<1>2. q \in Nat /\ r \in 0 .. d - 1 /\ amount = d * q + r
  BY <1>1, DivisionParts
<1> HIDE DEF d, q, r
<1>3. q * bps <= q * d /\ q * bps \in Nat /\ q * d = d * q /\ d * q \in Nat
  BY <1>1, <1>2, Scaled, Z3
<1>4. q * bps <= amount
  BY <1>2, <1>3
<1>5. r * bps <= r * d /\ r * bps \in Nat /\ r * d \in Nat
  BY <1>1, <1>2, Scaled
<1>6. r * d < d * d
  BY <1>1, <1>2, Z3
<1>7. r * bps < d * d
  BY <1>1, <1>5, <1>6, Z3
<1> QED BY <1>4, <1>7 DEF d, q, r

\* A validator of the set never gets more than what is shared out.
THEOREM ShareWithinAccrued ==
  ASSUME NEW accrued \in Nat, NEW total \in Nat \ {0}, NEW power \in 0 .. total
  PROVE  ValidatorShare(accrued, power, total) \in 0 .. accrued
<1> DEFINE s == (power * accrued) \div total
<1>1. power * accrued \in Nat /\ power * accrued <= total * accrued /\ total * accrued \in Nat
  BY Z3
<1>2. /\ s \in Nat
      /\ (power * accrued) % total \in 0 .. total - 1
      /\ power * accrued = total * s + ((power * accrued) % total)
  BY <1>1, DivisionParts
<1>3. total * s \in Nat
  BY <1>2, Z3
<1>4. s = ValidatorShare(accrued, power, total)
  BY DEF ValidatorShare
<1> HIDE DEF s
<1>5. total * s <= total * accrued
  BY <1>1, <1>2, <1>3
<1>6. s <= accrued
  BY <1>2, <1>5, Z3
<1> QED BY <1>2, <1>4, <1>6

-----------------------------------------------------------------------------
(* The ledger. *)

Names == Person \cup Budget \cup Reservation

LEMMA Accounts ==
  /\ Account = Names \cup {Accrual} /\ Accrual \notin Names
  /\ Person \cap Budget = {} /\ Person \cap Reservation = {} /\ Budget \cap Reservation = {}
  BY ReservationsAssumption DEF Account, Names

LEMMA Terms ==
  /\ \A b \in Budget : /\ Buyer[b] \in Person /\ Delegate[b] \in Person
                       /\ PerJobCap[b] \in Nat \ {0} /\ BudgetExpiry[b] \in Nat \ {0}
  /\ \A r \in Reservation : /\ Payer[r] \in Person \cup Budget /\ Provider[r] \in Person
                            /\ Payer[r] # Provider[r]
                            /\ Reserved[r] \in Nat \ {0} /\ Expiry[r] \in Nat \ {0}
                            /\ Spender(Payer[r]) \in Person
  BY ReservationsAssumption DEF Spender

LEMMA Fee ==
  ASSUME NEW a \in Nat
  PROVE  FeeFor(a) \in 0 .. a
  BY FeesAssumption, PartWithinAmount DEF FeeFor

\* Moving an amount that is there.
LEMMA Gives ==
  ASSUME NEW b \in Balances, NEW from \in Account, NEW to \in Account, NEW a \in Nat, a <= b[from]
  PROVE  /\ Give(b, from, to, a) \in Balances
         /\ \A x \in Account \ {from, to} : Give(b, from, to, a)[x] = b[x]
         /\ from # to => /\ Give(b, from, to, a)[from] = b[from] - a
                         /\ Give(b, from, to, a)[to] = b[to] + a
         /\ from = to => Give(b, from, to, a) = b
<1>1. CASE from = to
  BY <1>1 DEF Give
<1>2. CASE from # to
  <2> DEFINE g == [b EXCEPT ![from] = b[from] - a, ![to] = b[to] + a]
  <2>1. Give(b, from, to, a) = g
    BY <1>2 DEF Give
  <2>2. b[from] \in Nat /\ b[to] \in Nat /\ b[from] - a \in Nat /\ b[to] + a \in Nat
    BY DEF Balances
  <2>3. /\ g \in Balances
        /\ \A x \in Account \ {from, to} : g[x] = b[x]
        /\ g[from] = b[from] - a /\ g[to] = b[to] + a
    BY <1>2, <2>2 DEF Balances
  <2> HIDE DEF g
  <2> QED BY <1>2, <2>1, <2>3
<1> QED BY <1>1, <1>2

\* Paying an amount that is there, out of which the fee is taken.
LEMMA Pays ==
  ASSUME NEW b \in Balances, NEW from \in Names, NEW to \in Names, NEW a \in Nat,
         a <= b[from], from # to
  PROVE  /\ Pay(b, from, to, a) \in Balances
         /\ \A x \in Names \ {from, to} : Pay(b, from, to, a)[x] = b[x]
         /\ Pay(b, from, to, a)[from] = b[from] - a
         /\ Pay(b, from, to, a)[to] >= b[to]
<1> DEFINE fee == FeeFor(a)
           g == Give(b, from, to, a - fee)
           p == Give(g, from, Accrual, fee)
<1>1. fee \in Nat /\ fee <= a /\ a - fee \in Nat
  BY Fee
<1>2. from \in Account /\ to \in Account /\ Accrual \in Account /\ from # Accrual /\ to # Accrual
  BY Accounts
<1>3. b[from] \in Nat /\ b[to] \in Nat
  BY <1>2 DEF Balances
<1> HIDE DEF fee
<1>4. /\ g \in Balances /\ \A x \in Account \ {from, to} : g[x] = b[x]
      /\ g[from] = b[from] - (a - fee) /\ g[to] = b[to] + (a - fee)
  BY <1>1, <1>2, <1>3, Gives
<1> HIDE DEF g
<1>5. fee <= g[from]
  BY <1>1, <1>3, <1>4
<1>6. /\ p \in Balances /\ \A x \in Account \ {from, Accrual} : p[x] = g[x]
      /\ p[from] = g[from] - fee
  BY <1>1, <1>2, <1>4, <1>5, Gives
<1>7. p = Pay(b, from, to, a)
  BY DEF Pay, p, g, fee
<1> HIDE DEF p
<1>8. p[from] = b[from] - a
  BY <1>1, <1>3, <1>4, <1>6
<1>9. p[to] >= b[to]
  BY <1>1, <1>2, <1>3, <1>4, <1>6
<1>10. \A x \in Names \ {from, to} : p[x] = b[x]
  BY <1>2, <1>4, <1>6, Accounts
<1> QED BY <1>6, <1>7, <1>8, <1>9, <1>10

\* A payment to oneself costs the fee.
LEMMA PaysSelf ==
  ASSUME NEW b \in Balances, NEW from \in Names, NEW a \in Nat, a <= b[from]
  PROVE  /\ Pay(b, from, from, a) \in Balances
         /\ \A x \in Names \ {from} : Pay(b, from, from, a)[x] = b[x]
<1> DEFINE fee == FeeFor(a)
<1>1. fee \in Nat /\ fee <= a
  BY Fee
<1>2. from \in Account /\ Accrual \in Account /\ from # Accrual
  BY Accounts
<1>3. b[from] \in Nat
  BY <1>2 DEF Balances
<1>4. Pay(b, from, from, a) = Give(b, from, Accrual, fee)
  BY DEF Pay, Give
<1> HIDE DEF fee
<1>5. fee <= b[from]
  BY <1>1, <1>3
<1>6. /\ Give(b, from, Accrual, fee) \in Balances
      /\ \A x \in Account \ {from, Accrual} : Give(b, from, Accrual, fee)[x] = b[x]
  BY <1>1, <1>2, <1>5, Gives
<1> QED BY <1>4, <1>6, Accounts

-----------------------------------------------------------------------------
(* The invariant of the ledger. *)

TxOK(t) ==
  /\ WellFormed(t) /\ t.by \in Person /\ t.to \in Person /\ t.amount \in Nat
  /\ t.op # "close" => t.nonce \in Nat

LedgerTypes ==
  /\ balance \in Balances
  /\ now \in Nat /\ time \in Nat
  /\ funds \in [Reservation -> Nat] /\ pays \in [Reservation -> Nat]
  /\ \A t \in pool \cup Committed : TxOK(t)

\* Payments out of a reservation, and what it holds, are each backed by a deposit
\* of its own; and a reservation that has been funded is empty once it has paid.
Deposited ==
  \A r \in Reservation :
    /\ pays[r] + (IF balance[r] > 0 THEN 1 ELSE 0) <= funds[r]
    /\ funds[r] > 0 /\ balance[r] = 0 => pays[r] > 0

\* A deposit that took effect has been made.
FundsCounted == \A t \in applied : t.op = "fund" => funds[t.on] > 0

LedgerInv == LedgerTypes /\ Deposited /\ FundsCounted

\* What a step may do to a budget.
TermsKept ==
  \A b \in Budget : balance'[b] < balance[b] =>
    \/ balance'[b] = 0 /\ balance'[Buyer[b]] = balance[Buyer[b]] + balance[b]
    \/ time < BudgetExpiry[b] /\ balance[b] - balance'[b] <= PerJobCap[b]

\* What the parties of a transaction are.
LEMMA Parties ==
  ASSUME NEW t, TxOK(t)
  PROVE  /\ t.op \in {"open", "draw", "close"} => t.on \in Budget
         /\ t.op \in {"fund", "settle", "claim"} => t.on \in Reservation
         /\ t.op = "open" => t.by = Buyer[t.on]
         /\ t.op = "draw" => t.amount \in 1 .. PerJobCap[t.on]
         /\ t.op = "fund" => t.amount = Reserved[t.on]
         /\ t.op = "settle" => t.amount \in 1 .. Reserved[t.on]
  BY DEF TxOK, WellFormed, SpendWellFormed, InferWellFormed

\* The rest of the invariant follows from what a committed transaction does to the
\* balances and the counts.
LEMMA TakesKeeps ==
  ASSUME LedgerInv, NEW t \in pool, Takes(t), balance' \in Balances,
         funds' \in [Reservation -> Nat], pays' \in [Reservation -> Nat],
         \A r \in Reservation : funds'[r] >= funds[r],
         t.op = "fund" => funds'[t.on] > 0,
         Deposited'
  PROVE  LedgerInv'
<1>1. TxOK(t)
  BY DEF LedgerInv, LedgerTypes
<1>2. applied' = applied \cup {t} /\ skipped' = skipped /\ pool' = pool \ {t} /\ now' = now /\ time' = time
  BY DEF Takes, Lands, clocks
<1>3. \A u \in pool' \cup Committed' : TxOK(u)
  BY <1>1, <1>2 DEF LedgerInv, LedgerTypes, Committed
<1>4. FundsCounted'
  <2> SUFFICES ASSUME NEW u \in applied', u.op = "fund" PROVE funds'[u.on] > 0
    BY DEF FundsCounted
  <2>1. CASE u = t
    BY <2>1
  <2>2. CASE u \in applied
    <3>1. u \in Committed /\ funds[u.on] > 0
      BY <2>2 DEF Committed, LedgerInv, FundsCounted
    <3>2. u.on \in Reservation
      BY <3>1, Parties DEF LedgerInv, LedgerTypes
    <3>3. funds[u.on] \in Nat /\ funds'[u.on] \in Nat /\ funds'[u.on] >= funds[u.on]
      BY <3>2 DEF LedgerInv, LedgerTypes
    <3> QED BY <3>1, <3>3
  <2> QED BY <1>2, <2>1, <2>2
<1>5. LedgerTypes'
  BY <1>2, <1>3 DEF LedgerInv, LedgerTypes
<1> QED BY <1>4, <1>5 DEF LedgerInv

\* Without a change to a reservation or its counts.
LEMMA ReservationsKept ==
  ASSUME LedgerInv, UNCHANGED <<funds, pays>>,
         \A r \in Reservation : balance'[r] = balance[r]
  PROVE  Deposited'
  BY DEF LedgerInv, Deposited

LEMMA TransferStep ==
  ASSUME LedgerInv, NEW t \in pool, Transfer(t)
  PROVE  LedgerInv' /\ TermsKept
<1>1. TxOK(t) /\ t.op = "transfer" /\ t.amount <= balance[t.by] /\ Takes(t)
  BY Accounts DEF LedgerInv, LedgerTypes, Transfer, CanPay, Balances, TxOK
<1>2. balance \in Balances /\ t.by \in Person /\ t.to \in Person /\ t.amount \in Nat
  BY <1>1 DEF LedgerInv, LedgerTypes, TxOK
<1>3. balance' = Pay(balance, t.by, t.to, t.amount) /\ UNCHANGED <<funds, pays>>
  BY DEF Transfer
<1>4. balance' \in Balances /\ \A x \in Names \ {t.by, t.to} : balance'[x] = balance[x]
  <2>1. CASE t.by = t.to
    BY <1>1, <1>2, <1>3, <2>1, PaysSelf DEF Names
  <2>2. CASE t.by # t.to
    BY <1>1, <1>2, <1>3, <2>2, Pays DEF Names
  <2> QED BY <2>1, <2>2
<1>5. \A x \in Budget \cup Reservation : balance'[x] = balance[x]
  BY <1>2, <1>4, Accounts DEF Names
<1>6. TermsKept
  <2>1. \A b \in Budget : balance[b] \in Nat
    BY <1>2, Accounts DEF Balances, Names
  <2> QED BY <1>5, <2>1 DEF TermsKept
<1>7. Deposited'
  BY <1>3, <1>5, ReservationsKept
<1>8. funds \in [Reservation -> Nat] /\ pays \in [Reservation -> Nat]
  BY DEF LedgerInv, LedgerTypes
<1> QED BY <1>1, <1>3, <1>4, <1>6, <1>7, <1>8, TakesKeeps

LEMMA OpenStep ==
  ASSUME LedgerInv, NEW t \in pool, OpenBudget(t)
  PROVE  LedgerInv' /\ TermsKept
<1>1. TxOK(t) /\ t.op = "open" /\ t.amount <= balance[t.by] /\ Takes(t) /\ t.on \in Budget
  <2>1. TxOK(t) /\ t.op = "open" /\ balance[t.by] >= t.amount /\ Takes(t)
    BY DEF LedgerInv, LedgerTypes, OpenBudget, CanOpen
  <2> QED BY <2>1, Parties, Accounts DEF LedgerInv, LedgerTypes, Balances, TxOK, Names
<1>2. balance \in Balances /\ t.by \in Person /\ t.amount \in Nat
  BY <1>1 DEF LedgerInv, LedgerTypes, TxOK
<1>3. balance' = Give(balance, t.by, t.on, t.amount) /\ UNCHANGED <<funds, pays>>
  BY DEF OpenBudget
<1>4. t.by \in Account /\ t.on \in Account /\ t.by # t.on
  BY <1>1, <1>2, Accounts DEF Names
<1>5. /\ balance' \in Balances /\ \A x \in Account \ {t.by, t.on} : balance'[x] = balance[x]
      /\ balance'[t.on] = balance[t.on] + t.amount
  BY <1>1, <1>2, <1>3, <1>4, Gives
<1>6. TermsKept
  <2>1. \A b \in Budget : balance[b] \in Nat /\ balance'[b] >= balance[b]
    BY <1>1, <1>2, <1>5, Accounts DEF Balances, Names
  <2> QED BY <2>1, <1>5, Accounts DEF TermsKept, Balances, Names
<1>7. Deposited'
  BY <1>1, <1>2, <1>3, <1>5, Accounts, ReservationsKept DEF Names
<1>8. funds \in [Reservation -> Nat] /\ pays \in [Reservation -> Nat]
  BY DEF LedgerInv, LedgerTypes
<1> QED BY <1>1, <1>3, <1>5, <1>6, <1>7, <1>8, TakesKeeps

LEMMA DrawStep ==
  ASSUME LedgerInv, NEW t \in pool, DrawOnBudget(t)
  PROVE  LedgerInv' /\ TermsKept
<1>1. TxOK(t) /\ t.op = "draw" /\ balance[t.on] >= t.amount /\ Takes(t) /\ t.on \in Budget
      /\ time < BudgetExpiry[t.on] /\ t.amount \in 1 .. PerJobCap[t.on]
  <2>1. TxOK(t) /\ t.op = "draw" /\ balance[t.on] >= t.amount /\ Takes(t) /\ time < BudgetExpiry[t.on]
    BY DEF LedgerInv, LedgerTypes, DrawOnBudget, CanDraw
  <2> QED BY <2>1, Parties
<1>2. balance \in Balances /\ t.to \in Person /\ t.amount \in Nat
  BY <1>1 DEF LedgerInv, LedgerTypes, TxOK
<1>3. balance' = Pay(balance, t.on, t.to, t.amount) /\ UNCHANGED <<funds, pays>>
  BY DEF DrawOnBudget
<1>4. t.on \in Names /\ t.to \in Names /\ t.on # t.to /\ balance[t.on] \in Nat /\ t.amount <= balance[t.on]
  BY <1>1, <1>2, Accounts DEF Names, Balances
<1>5. /\ balance' \in Balances /\ \A x \in Names \ {t.on, t.to} : balance'[x] = balance[x]
      /\ balance'[t.on] = balance[t.on] - t.amount
  BY <1>2, <1>3, <1>4, Pays
<1>6. TermsKept
  <2> SUFFICES ASSUME NEW b \in Budget, balance'[b] < balance[b]
               PROVE  time < BudgetExpiry[b] /\ balance[b] - balance'[b] <= PerJobCap[b]
    BY DEF TermsKept
  <2>1. balance[b] \in Nat
    BY <1>2, Accounts DEF Balances, Names
  <2>2. b = t.on
    BY <1>2, <1>5, <2>1, Accounts DEF Names
  <2>3. PerJobCap[b] \in Nat
    BY Terms
  <2> QED BY <1>1, <1>4, <1>5, <2>2, <2>3
<1>7. Deposited'
  BY <1>1, <1>2, <1>3, <1>5, Accounts, ReservationsKept DEF Names
<1>8. funds \in [Reservation -> Nat] /\ pays \in [Reservation -> Nat]
  BY DEF LedgerInv, LedgerTypes
<1> QED BY <1>1, <1>3, <1>5, <1>6, <1>7, <1>8, TakesKeeps

LEMMA CloseStep ==
  ASSUME LedgerInv, NEW t \in pool, CloseBudget(t)
  PROVE  LedgerInv' /\ TermsKept
<1>1. TxOK(t) /\ t.op = "close" /\ Takes(t) /\ t.on \in Budget
  <2>1. TxOK(t) /\ t.op = "close" /\ Takes(t)
    BY DEF LedgerInv, LedgerTypes, CloseBudget, CanClose
  <2> QED BY <2>1, Parties
<1>2. balance \in Balances /\ Buyer[t.on] \in Person
  BY <1>1, Terms DEF LedgerInv, LedgerTypes
<1>3. balance' = Give(balance, t.on, Buyer[t.on], balance[t.on]) /\ UNCHANGED <<funds, pays>>
  BY DEF CloseBudget
<1>4. t.on \in Account /\ Buyer[t.on] \in Account /\ t.on # Buyer[t.on] /\ balance[t.on] \in Nat
  BY <1>1, <1>2, Accounts DEF Names, Balances
<1>5. /\ balance' \in Balances /\ \A x \in Account \ {t.on, Buyer[t.on]} : balance'[x] = balance[x]
      /\ balance'[t.on] = balance[t.on] - balance[t.on]
      /\ balance'[Buyer[t.on]] = balance[Buyer[t.on]] + balance[t.on]
  BY <1>2, <1>3, <1>4, Gives
<1>6. TermsKept
  <2> SUFFICES ASSUME NEW b \in Budget, balance'[b] < balance[b]
               PROVE  balance'[b] = 0 /\ balance'[Buyer[b]] = balance[Buyer[b]] + balance[b]
    BY DEF TermsKept
  <2>1. balance[b] \in Nat
    BY <1>2, Accounts DEF Balances, Names
  <2>2. b = t.on
    BY <1>2, <1>5, <2>1, Accounts DEF Names
  <2> QED BY <1>4, <1>5, <2>2
<1>7. Deposited'
  BY <1>1, <1>2, <1>3, <1>5, Accounts, ReservationsKept DEF Names
<1>8. funds \in [Reservation -> Nat] /\ pays \in [Reservation -> Nat]
  BY DEF LedgerInv, LedgerTypes
<1> QED BY <1>1, <1>3, <1>5, <1>6, <1>7, <1>8, TakesKeeps

LEMMA FundStep ==
  ASSUME LedgerInv, NEW t \in pool, FundReservation(t)
  PROVE  LedgerInv' /\ TermsKept
<1>1. TxOK(t) /\ t.op = "fund" /\ balance[Payer[t.on]] >= t.amount /\ Takes(t)
      /\ (Payer[t.on] \in Budget => time < BudgetExpiry[Payer[t.on]] /\ t.amount <= PerJobCap[Payer[t.on]])
  BY DEF LedgerInv, LedgerTypes, FundReservation, CanFund
<1>2. t.on \in Reservation /\ t.amount = Reserved[t.on] /\ t.amount \in Nat \ {0}
  BY <1>1, Parties, Terms
<1>3. balance \in Balances /\ funds \in [Reservation -> Nat] /\ pays \in [Reservation -> Nat]
  BY DEF LedgerInv, LedgerTypes
<1>4. PICK payer : payer = Payer[t.on]
  OBVIOUS
<1>5. payer \in Person \cup Budget
  BY <1>2, <1>4, Terms
<1>6. /\ balance' = Give(balance, payer, t.on, t.amount)
      /\ funds' = [funds EXCEPT ![t.on] = @ + 1] /\ pays' = pays
  BY <1>4 DEF FundReservation
<1>7. payer \in Account /\ t.on \in Account /\ payer # t.on
  BY <1>2, <1>5, Accounts DEF Names
<1>8. balance[payer] \in Nat /\ balance[t.on] \in Nat /\ t.amount <= balance[payer]
  BY <1>1, <1>2, <1>3, <1>4, <1>7 DEF Balances
<1>9. /\ balance' \in Balances /\ \A x \in Account \ {payer, t.on} : balance'[x] = balance[x]
      /\ balance'[payer] = balance[payer] - t.amount /\ balance'[t.on] = balance[t.on] + t.amount
  BY <1>2, <1>3, <1>6, <1>7, <1>8, Gives
<1>10. TermsKept
  <2> SUFFICES ASSUME NEW b \in Budget, balance'[b] < balance[b]
               PROVE  time < BudgetExpiry[b] /\ balance[b] - balance'[b] <= PerJobCap[b]
    BY DEF TermsKept
  <2>1. balance[b] \in Nat /\ b # t.on /\ b \in Account
    BY <1>2, <1>3, Accounts DEF Balances, Names
  <2>2. b = payer
    BY <1>9, <2>1
  <2>3. PerJobCap[b] \in Nat
    BY Terms
  <2> QED BY <1>1, <1>2, <1>4, <1>8, <1>9, <2>2, <2>3
<1>11. funds' \in [Reservation -> Nat] /\ funds'[t.on] = funds[t.on] + 1
       /\ \A r \in Reservation \ {t.on} : funds'[r] = funds[r]
  BY <1>2, <1>3, <1>6
<1>12. \A r \in Reservation : funds'[r] >= funds[r]
  BY <1>2, <1>3, <1>11
<1>13. Deposited'
  <2> SUFFICES ASSUME NEW r \in Reservation
               PROVE  /\ pays'[r] + (IF balance'[r] > 0 THEN 1 ELSE 0) <= funds'[r]
                      /\ funds'[r] > 0 /\ balance'[r] = 0 => pays'[r] > 0
    BY DEF Deposited
  <2>0. /\ pays[r] + (IF balance[r] > 0 THEN 1 ELSE 0) <= funds[r]
        /\ funds[r] > 0 /\ balance[r] = 0 => pays[r] > 0
        /\ pays[r] \in Nat /\ funds[r] \in Nat
    BY <1>3 DEF LedgerInv, Deposited
  <2>1. CASE r = t.on
    <3>1. balance'[r] > 0
      BY <1>2, <1>8, <1>9, <2>1
    <3>2. pays'[r] = pays[r] /\ funds'[r] = funds[r] + 1 /\ pays[r] <= funds[r]
      BY <1>6, <1>11, <2>0, <2>1
    <3> QED BY <2>0, <3>1, <3>2
  <2>2. CASE r # t.on
    <3>1. r # payer /\ r \in Account
      BY <1>5, Accounts DEF Names
    <3> QED BY <1>6, <1>9, <1>11, <2>0, <2>2, <3>1
  <2> QED BY <2>1, <2>2
<1>14. funds'[t.on] > 0
  BY <1>2, <1>3, <1>11
<1> QED BY <1>1, <1>3, <1>6, <1>9, <1>10, <1>11, <1>12, <1>13, <1>14, TakesKeeps

\* A reservation that pays is emptied, and its payment is counted.
LEMMA EmptiedKeeps ==
  ASSUME LedgerInv, NEW r \in Reservation, balance[r] > 0, balance'[r] = 0,
         pays' = [pays EXCEPT ![r] = @ + 1], funds' = funds,
         \A s \in Reservation \ {r} : balance'[s] = balance[s]
  PROVE  Deposited' /\ pays' \in [Reservation -> Nat] /\ pays'[r] > 0
<1>1. pays \in [Reservation -> Nat] /\ funds \in [Reservation -> Nat]
  BY DEF LedgerInv, LedgerTypes
<1>2. pays[r] \in Nat /\ pays'[r] = pays[r] + 1
  BY <1>1
<1>3. \A s \in Reservation \ {r} : pays'[s] = pays[s]
  BY <1>1
<1>4. Deposited'
  BY <1>1, <1>2, <1>3 DEF LedgerInv, Deposited
<1> QED BY <1>1, <1>2, <1>4

LEMMA SettleStep ==
  ASSUME LedgerInv, NEW t \in pool, SettleReservation(t)
  PROVE  LedgerInv' /\ TermsKept /\ pays'[t.on] > 0
<1>1. TxOK(t) /\ t.op = "settle" /\ balance[t.on] > 0 /\ Takes(t)
      /\ (balance[t.on] = 0 \/ t.amount <= balance[t.on])
  BY DEF LedgerInv, LedgerTypes, SettleReservation, CanSettle
<1>2. t.on \in Reservation /\ t.amount \in Nat
  BY <1>1, Parties DEF TxOK
<1>3. balance \in Balances /\ funds \in [Reservation -> Nat]
  BY DEF LedgerInv, LedgerTypes
<1>4. PICK payer : payer = Payer[t.on]
  OBVIOUS
<1>5. PICK provider : provider = Provider[t.on]
  OBVIOUS
<1>6. payer \in Person \cup Budget /\ provider \in Person
  BY <1>2, <1>4, <1>5, Terms
<1>7. t.on \in Names /\ provider \in Names /\ payer \in Names /\ t.on # provider /\ t.on # payer
  BY <1>2, <1>6, Accounts DEF Names
<1>8. balance[t.on] \in Nat /\ t.amount <= balance[t.on]
  BY <1>1, <1>2, <1>3, <1>7, Accounts DEF Balances
<1> DEFINE handed == Pay(balance, t.on, provider, t.amount)
           rest == balance[t.on] - t.amount
<1>9. /\ handed \in Balances /\ \A x \in Names \ {t.on, provider} : handed[x] = balance[x]
      /\ handed[t.on] = rest /\ handed[provider] >= balance[provider]
  BY <1>2, <1>3, <1>7, <1>8, Pays
<1>10. rest \in Nat
  BY <1>2, <1>8
<1>11. balance' = Give(handed, t.on, payer, rest)
  BY <1>4, <1>5 DEF SettleReservation, SettledBalance
<1> HIDE DEF handed, rest
<1>12. /\ balance' \in Balances /\ \A x \in Account \ {t.on, payer} : balance'[x] = handed[x]
       /\ balance'[t.on] = handed[t.on] - rest /\ balance'[payer] = handed[payer] + rest
  BY <1>7, <1>9, <1>10, <1>11, Accounts, Gives
<1>13. balance'[t.on] = 0
  BY <1>9, <1>10, <1>12
<1>14. \A b \in Budget : balance[b] \in Nat /\ balance'[b] \in Nat /\ balance'[b] >= balance[b]
  <2> SUFFICES ASSUME NEW b \in Budget
               PROVE  balance[b] \in Nat /\ balance'[b] \in Nat /\ balance'[b] >= balance[b]
    OBVIOUS
  <2>1. b \in Names /\ b \in Account /\ b # t.on /\ b # provider
    BY <1>2, <1>6, Accounts DEF Names
  <2>2. balance[b] \in Nat /\ balance'[b] \in Nat /\ handed[b] = balance[b]
    BY <1>3, <1>9, <1>12, <2>1 DEF Balances
  <2>3. CASE b = payer
    BY <1>10, <1>12, <2>2, <2>3
  <2>4. CASE b # payer
    BY <1>12, <2>1, <2>2, <2>4
  <2> QED BY <2>2, <2>3, <2>4
<1>15. TermsKept
  BY <1>14 DEF TermsKept
<1>16. \A s \in Reservation \ {t.on} : balance'[s] = balance[s]
  BY <1>6, <1>9, <1>12, Accounts DEF Names
<1>17. pays' = [pays EXCEPT ![t.on] = @ + 1] /\ funds' = funds
  BY DEF SettleReservation
<1>18. Deposited' /\ pays' \in [Reservation -> Nat] /\ pays'[t.on] > 0
  BY <1>1, <1>2, <1>13, <1>16, <1>17, EmptiedKeeps
<1>19. \A r \in Reservation : funds'[r] >= funds[r]
  BY <1>3, <1>17
<1> QED BY <1>1, <1>3, <1>12, <1>15, <1>17, <1>18, <1>19, TakesKeeps

LEMMA ClaimStep ==
  ASSUME LedgerInv, NEW t \in pool, ClaimReservation(t)
  PROVE  LedgerInv' /\ TermsKept
<1>1. TxOK(t) /\ t.op = "claim" /\ balance[t.on] > 0 /\ Takes(t)
  BY DEF LedgerInv, LedgerTypes, ClaimReservation, CanClaim
<1>2. t.on \in Reservation
  BY <1>1, Parties
<1>3. balance \in Balances /\ funds \in [Reservation -> Nat]
  BY DEF LedgerInv, LedgerTypes
<1>4. PICK provider : provider = Provider[t.on]
  OBVIOUS
<1>5. t.on \in Names /\ provider \in Person /\ provider \in Names /\ t.on # provider
  BY <1>2, <1>4, Terms, Accounts DEF Names
<1>6. balance[t.on] \in Nat
  BY <1>3, <1>5, Accounts DEF Balances
<1>7. balance' = Pay(balance, t.on, provider, balance[t.on])
  BY <1>4 DEF ClaimReservation
<1>8. /\ balance' \in Balances /\ \A x \in Names \ {t.on, provider} : balance'[x] = balance[x]
      /\ balance'[t.on] = balance[t.on] - balance[t.on]
  BY <1>3, <1>5, <1>6, <1>7, Pays
<1>9. balance'[t.on] = 0
  BY <1>6, <1>8
<1>10. \A x \in Budget \cup (Reservation \ {t.on}) : balance'[x] = balance[x]
  BY <1>2, <1>5, <1>8, Accounts DEF Names
<1>11. TermsKept
  <2>1. \A b \in Budget : balance[b] \in Nat
    BY <1>3, Accounts DEF Balances, Names
  <2> QED BY <1>10, <2>1 DEF TermsKept
<1>12. pays' = [pays EXCEPT ![t.on] = @ + 1] /\ funds' = funds
  BY DEF ClaimReservation
<1>13. Deposited' /\ pays' \in [Reservation -> Nat]
  BY <1>1, <1>2, <1>9, <1>10, <1>12, EmptiedKeeps
<1>14. \A r \in Reservation : funds'[r] >= funds[r]
  BY <1>3, <1>12
<1> QED BY <1>1, <1>3, <1>8, <1>11, <1>12, <1>13, <1>14, TakesKeeps

LEMMA NothingLeftStep ==
  ASSUME LedgerInv, NEW t \in pool, NothingLeft(t)
  PROVE  LedgerInv' /\ TermsKept
<1>1. Takes(t) /\ UNCHANGED <<balance, funds, pays>> /\ t.op \in {"settle", "claim"}
  BY DEF NothingLeft, CanSettle, CanClaim
<1>2. balance \in Balances /\ funds \in [Reservation -> Nat] /\ pays \in [Reservation -> Nat]
  BY DEF LedgerInv, LedgerTypes
<1>3. TermsKept
  <2>1. \A b \in Budget : balance[b] \in Nat
    BY <1>2, Accounts DEF Balances, Names
  <2> QED BY <1>1, <2>1 DEF TermsKept
<1>4. Deposited'
  BY <1>1, ReservationsKept
<1> QED BY <1>1, <1>2, <1>3, <1>4, TakesKeeps

\* A step that moves no coin.
LEMMA LedgerStays ==
  ASSUME LedgerInv, UNCHANGED <<balance, funds, pays, applied>>, now' \in Nat, time' \in Nat,
         \A t \in pool' \cup skipped' : TxOK(t)
  PROVE  LedgerInv' /\ TermsKept
<1>1. LedgerTypes'
  BY DEF LedgerInv, LedgerTypes, Committed
<1>2. Deposited' /\ FundsCounted'
  BY DEF LedgerInv, Deposited, FundsCounted
<1>3. \A b \in Budget : balance[b] \in Nat
  BY Accounts DEF LedgerInv, LedgerTypes, Balances, Names
<1> QED BY <1>1, <1>2, <1>3 DEF LedgerInv, TermsKept

LEMMA ApplyStep ==
  ASSUME LedgerInv, NEW t \in pool, Apply(t)
  PROVE  LedgerInv' /\ TermsKept
<1>1. CASE Skip(t)
  <2>1. /\ UNCHANGED <<balance, funds, pays, applied, now, time>>
        /\ pool' \cup skipped' \subseteq pool \cup Committed
    BY <1>1 DEF Skip, Skips, Lands, clocks, Committed
  <2> QED BY <2>1, LedgerStays DEF LedgerInv, LedgerTypes
<1> QED
  BY <1>1, TransferStep, OpenStep, DrawStep, CloseStep, FundStep, NothingLeftStep, SettleStep,
     ClaimStep DEF Apply

LEMMA TimeStep ==
  ASSUME LedgerInv, Tick \/ NewBlock
  PROVE  LedgerInv' /\ TermsKept
<1>1. UNCHANGED <<balance, funds, pays, applied, skipped, pool>>
  BY DEF Tick, NewBlock, ledger
<1>2. now' \in Nat /\ time' \in Nat
  BY ReservationsAssumption DEF Tick, NewBlock, Timestamps, LedgerInv, LedgerTypes
<1> QED BY <1>1, <1>2, LedgerStays DEF LedgerInv, LedgerTypes, Committed

\* A transaction enters the mempool.
LEMMA EnterStep ==
  ASSUME LedgerInv, NEW t, TxOK(t), pool' \subseteq pool \cup {t}, UNCHANGED <<clocks, ledger>>
  PROVE  LedgerInv' /\ TermsKept
<1>1. UNCHANGED <<balance, funds, pays, applied, skipped, now, time>>
  BY DEF clocks, ledger
<1>2. \A u \in pool' \cup skipped' : TxOK(u)
  BY <1>1 DEF LedgerInv, LedgerTypes, Committed
<1> QED BY <1>1, <1>2, LedgerStays DEF LedgerInv, LedgerTypes

LEMMA SignedOK ==
  ASSUME NEW t \in Signed, WellFormed(t)
  PROVE  TxOK(t)
<1>1. t \in Transaction /\ t.nonce \in Nat
  BY ReservationsAssumption
<1> QED BY <1>1, ReservationsAssumption DEF Transaction, TxOK

LEMMA ClosesOK ==
  ASSUME NEW n \in Sweeper, NEW b \in Budget
  PROVE  WellFormed(CloseBy(n, b)) /\ TxOK(CloseBy(n, b))
  BY ReservationsAssumption DEF CloseBy, WellFormed, SpendWellFormed, TxOK

LEMMA LedgerInit == ChainInit => LedgerInv
<1> SUFFICES ASSUME ChainInit PROVE LedgerInv
  OBVIOUS
<1>1. balance \in Balances /\ \A r \in Reservation : balance[r] = 0
  BY ReservationsAssumption DEF ChainInit
<1>2. /\ funds = [r \in Reservation |-> 0] /\ pays = [r \in Reservation |-> 0]
      /\ pool \cup Committed = {} /\ applied = {} /\ now = 0 /\ time = 0
  BY DEF ChainInit, Committed
<1> QED BY <1>1, <1>2 DEF LedgerInv, LedgerTypes, Deposited, FundsCounted

LEMMA LedgerStep ==
  ASSUME LedgerInv, [ChainNext]_chainVars
  PROVE  LedgerInv' /\ TermsKept
<1>1. CASE UNCHANGED chainVars
  BY <1>1, LedgerStays DEF chainVars, clocks, ledger, LedgerInv, LedgerTypes, Committed
<1>2. ASSUME NEW n \in Sweeper, NEW b \in Budget, Sweep(n, b)
      PROVE  LedgerInv' /\ TermsKept
  BY <1>2, ClosesOK, EnterStep DEF Sweep, SubmitTx
<1>3. ASSUME NEW t \in Signed, SubmitTx(t) \/ Smuggle(t)
      PROVE  LedgerInv' /\ TermsKept
  BY <1>3, SignedOK, EnterStep DEF SubmitTx, Smuggle, Admitted
<1> QED BY <1>1, <1>2, <1>3, TimeStep, ApplyStep DEF ChainNext

LEMMA LedgerHolds == ChainSpec => []LedgerInv
  BY LedgerInit, LedgerStep, PTL DEF ChainSpec

\* A provider is paid at most once for a deposit, however settlements and claims of one
\* reservation are ordered (applyInferOperation).
THEOREM PaidOnce == ChainSpec => []PaidOncePerDeposit
<1>1. LedgerInv => PaidOncePerDeposit
  BY DEF LedgerInv, Deposited, PaidOncePerDeposit
<1> QED BY <1>1, LedgerHolds, PTL

\* Coins leave a budget within its cap and before it expires, or all of them go back to
\* its buyer, through a reservation too (applySpendOperation, applyInferOperation).
THEOREM BudgetKept == ChainSpec => BudgetTerms
<1>1. LedgerInv /\ [ChainNext]_chainVars => [TermsKept]_chainVars
  BY LedgerStep
<1>2. [TermsKept]_chainVars <=>
        [\A b \in Budget : balance'[b] < balance[b] =>
           \/ balance'[b] = 0 /\ balance'[Buyer[b]] = balance[Buyer[b]] + balance[b]
           \/ time < BudgetExpiry[b] /\ balance[b] - balance'[b] <= PerJobCap[b]]_chainVars
  BY DEF TermsKept
<1> QED BY <1>1, <1>2, LedgerHolds, PTL DEF ChainSpec, BudgetTerms

\* No balance goes below zero, whatever is committed in whatever order.
THEOREM NoOverdraft == ChainSpec => [](balance \in Balances)
<1>1. LedgerInv => balance \in Balances
  BY DEF LedgerInv, LedgerTypes
<1> QED BY <1>1, LedgerHolds, PTL

-----------------------------------------------------------------------------
(* Nonces. What the node issues lies above everything that is committed or pending. *)

\* A bounded set of numbers has a largest one.
LEMMA LargestExists ==
  ASSUME NEW S \in SUBSET Nat, S # {}, NEW m \in Nat, \A x \in S : x <= m
  PROVE  Max(S) \in S /\ \A y \in S : y <= Max(S)
<1> DEFINE T == {m - x : x \in S}
<1>1. T \subseteq Nat /\ T # {}
  <2>1. \A x \in S : m - x \in Nat
    OBVIOUS
  <2>2. T # {}
    OBVIOUS
  <2> QED BY <2>1, <2>2
<1>3. PICK least \in T : \A y \in T : least <= y
  <2> HIDE DEF T
  <2> QED BY <1>1, SmallestExists
<1>4. PICK x \in S : least = m - x
  OBVIOUS
<1>5. \A y \in S : x >= y
  <2> SUFFICES ASSUME NEW y \in S PROVE x >= y
    OBVIOUS
  <2>1. m - y \in T
    OBVIOUS
  <2>2. m - x <= m - y
    BY <1>3, <1>4, <2>1
  <2> QED BY <2>2
<1>6. Max(S) \in S /\ \A y \in S : Max(S) >= y
  BY <1>5 DEF Max
<1> QED BY <1>6

LEMMA LargerOfTwo ==
  ASSUME NEW a \in Nat, NEW b \in Nat
  PROVE  Max({a, b}) \in Nat /\ Max({a, b}) >= a /\ Max({a, b}) >= b
<1>1. PICK m \in Nat : a <= m /\ b <= m
  <2>1. a <= a + b /\ b <= a + b /\ a + b \in Nat
    OBVIOUS
  <2> QED BY <2>1
<1>2. Max({a, b}) \in {a, b} /\ \A y \in {a, b} : y <= Max({a, b})
  BY <1>1, LargestExists
<1> QED BY <1>2

\* Nonces are counters; only a sweep's close has one of its own kind.
Bounded == \E m \in Nat : \A u \in Committed \cup pool : u.op # "close" => u.nonce <= m

LEMMA IssuedIsFresh ==
  ASSUME LedgerInv, Bounded, issued \in [Person -> Nat], NEW p \in Person
  PROVE  /\ NonceFor(p) \in Nat
         /\ \A u \in Committed \cup pool : u.by = p /\ u.op # "close" => u.nonce < NonceFor(p)
<1> DEFINE used == {t.nonce : t \in {u \in Committed \cup pool : u.by = p /\ u.op # "close"}}
<1>1. \A u \in Committed \cup pool : u.op # "close" => u.nonce \in Nat
  BY DEF LedgerInv, LedgerTypes, TxOK
<1>2. used \in SUBSET Nat
  BY <1>1
<1>3. \A u \in Committed \cup pool : u.by = p /\ u.op # "close" => u.nonce \in used
  OBVIOUS
<1>4. PICK m \in Nat : \A x \in used : x <= m
  BY DEF Bounded
<1>5. NextNonce(p) = IF used = {} THEN 0 ELSE Max(used) + 1
  BY DEF NextNonce
<1> HIDE DEF used
<1>6. NextNonce(p) \in Nat /\ \A x \in used : x < NextNonce(p)
  <2>1. CASE used = {}
    BY <1>5, <2>1
  <2>2. CASE used # {}
    <3>1. Max(used) \in used /\ \A y \in used : y <= Max(used)
      BY <1>2, <1>4, <2>2, LargestExists
    <3>2. Max(used) \in Nat /\ \A y \in used : y \in Nat
      BY <1>2, <3>1
    <3>3. NextNonce(p) = Max(used) + 1
      BY <1>5, <2>2
    <3> QED BY <3>1, <3>2, <3>3
  <2> QED BY <2>1, <2>2
<1>7. NonceFor(p) \in Nat /\ NonceFor(p) >= NextNonce(p)
  BY <1>6, LargerOfTwo DEF NonceFor
<1> QED BY <1>1, <1>3, <1>6, <1>7

-----------------------------------------------------------------------------
(* The invariant of the jobs. *)

\* What the node may be asked to carry to the engine.
Signable(t) ==
  t.by \in Person /\ t.to \in Person /\ t.amount \in Nat /\ t.nonce \in Nat /\ t.op # "close"

\* A bill, or a settlement of a reservation that has been funded, which is not in the
\* ledger yet or has paid.
Payment(j, t) ==
  /\ Signable(t)
  /\ \/ t.op \in {"transfer", "draw"}
     \/ t.op = "settle" /\ t.on = j /\ funds[j] > 0 /\ (t \in applied => pays[j] > 0)

Deposit(j, t) == Signable(t) /\ t.op = "fund" /\ t.on = j

\* A goroutine is at work on what it was given.
Sound(x) ==
  /\ x.kind \in Kind /\ x.job \in Job /\ x.at \in {"model", "submit", "wait"}
  /\ x.kind = "stream" => x.at = "model" /\ funds[x.job] > 0
  /\ x.kind = "prepare" => x.at = "model"
  /\ x.kind \in {"fulfill", "sign", "settle"} /\ x.at # "model" => Payment(x.job, x.tx)
  /\ x.kind \in {"fulfill", "sign", "settle"} /\ x.at = "wait" => x.tx \in billed[x.job]
  /\ x.kind = "fund" => Deposit(x.job, x.tx)

JobSound(j) ==
  /\ status[j] = "awaiting_payment" => Payment(j, invoice[j])
  /\ status[j] = "awaiting_deposit" => Deposit(j, invoice[j])
  /\ status[j] = "completed" => Paid(j)
  /\ status[j] \in {"completed", "failed"} => j \notin reserved
  /\ j \in funded \cup streamed => funds[j] > 0

Shapes ==
  /\ status \in [Job -> Status]
  /\ invoice = [j \in Job |-> invoice[j]] /\ billed = [j \in Job |-> billed[j]]
  /\ call = [c \in Caller |-> call[c]]
  /\ issued \in [Person -> Nat]

CallsSound == \A c \in Caller : call[c] = Idle \/ Sound(call[c])
JobsSound == \A j \in Job : JobSound(j)

JobInv == LedgerInv /\ Bounded /\ Shapes /\ CallsSound /\ JobsSound

-----------------------------------------------------------------------------
(* What the chain does to them. *)

\* Deposits and payments are not undone, and a settlement that takes effect pays.
Progress ==
  /\ \A r \in Reservation : funds[r] > 0 => funds'[r] > 0
  /\ \A r \in Reservation : pays[r] > 0 => pays'[r] > 0
  /\ applied \subseteq applied'
  /\ \A t \in applied' \ applied :
       t.op = "settle" /\ t.on \in Reservation /\ funds[t.on] > 0 => pays'[t.on] > 0

LEMMA ApplyProgress ==
  ASSUME LedgerInv, NEW t \in pool, Apply(t)
  PROVE  Progress
<1>1. funds \in [Reservation -> Nat] /\ pays \in [Reservation -> Nat]
  BY DEF LedgerInv, LedgerTypes
<1>2. CASE Skip(t)
  BY <1>2 DEF Skip, Skips, Progress
<1>3. CASE Transfer(t) \/ OpenBudget(t) \/ DrawOnBudget(t) \/ CloseBudget(t)
  BY <1>3 DEF Transfer, OpenBudget, DrawOnBudget, CloseBudget, CanPay, CanOpen, CanDraw, CanClose,
              Takes, Progress
<1>4. CASE FundReservation(t)
  <2>1. t.op = "fund" /\ applied' = applied \cup {t} /\ funds' = [funds EXCEPT ![t.on] = @ + 1] /\ pays' = pays
    BY <1>4 DEF FundReservation, CanFund, Takes
  <2>2. \A r \in Reservation : funds[r] > 0 => funds'[r] > 0
    BY <1>1, <2>1
  <2> QED BY <2>1, <2>2 DEF Progress
<1>5. CASE NothingLeft(t)
  <2>1. /\ balance[t.on] = 0 /\ applied' = applied \cup {t} /\ UNCHANGED <<funds, pays>>
    BY <1>5 DEF NothingLeft, Takes
  <2>2. t.on \in Reservation /\ funds[t.on] > 0 => pays[t.on] > 0
    BY <2>1 DEF LedgerInv, Deposited
  <2> QED BY <2>1, <2>2 DEF Progress
<1>6. CASE SettleReservation(t)
  <2>1. applied' = applied \cup {t} /\ funds' = funds /\ pays' = [pays EXCEPT ![t.on] = @ + 1]
    BY <1>6 DEF SettleReservation, Takes
  <2>2. \A r \in Reservation : pays[r] > 0 => pays'[r] > 0
    BY <1>1, <2>1
  <2>3. pays'[t.on] > 0
    BY <1>6, SettleStep
  <2> QED BY <2>1, <2>2, <2>3 DEF Progress
<1>7. CASE ClaimReservation(t)
  <2>1. t.op = "claim" /\ applied' = applied \cup {t} /\ funds' = funds /\ pays' = [pays EXCEPT ![t.on] = @ + 1]
    BY <1>7 DEF ClaimReservation, CanClaim, Takes
  <2>2. \A r \in Reservation : pays[r] > 0 => pays'[r] > 0
    BY <1>1, <2>1
  <2> QED BY <2>1, <2>2 DEF Progress
<1> QED BY <1>2, <1>3, <1>4, <1>5, <1>6, <1>7 DEF Apply

LEMMA StillProgress == UNCHANGED ledger => Progress
  BY DEF ledger, Progress

LEMMA PaymentLasts ==
  ASSUME Progress, NEW j \in Job, NEW t, Payment(j, t)
  PROVE  Payment(j, t)'
<1>1. CASE t.op \in {"transfer", "draw"}
  BY <1>1 DEF Payment, Signable
<1>2. CASE t.op = "settle" /\ t.on = j /\ funds[j] > 0 /\ (t \in applied => pays[j] > 0)
  BY <1>2 DEF Payment, Progress, Job
<1> QED BY <1>1, <1>2 DEF Payment

LEMMA SoundLasts ==
  ASSUME Progress, \A j \in Job : billed[j] \subseteq billed'[j], NEW x, Sound(x)
  PROVE  Sound(x)'
<1>1. x.job \in Job
  BY DEF Sound
<1>2. x.kind \in {"fulfill", "sign", "settle"} /\ x.at # "model" => Payment(x.job, x.tx)'
  BY <1>1, PaymentLasts DEF Sound
<1>3. x.kind = "stream" => funds'[x.job] > 0
  BY <1>1 DEF Sound, Progress, Job
<1> QED BY <1>1, <1>2, <1>3 DEF Sound, Deposit

LEMMA JobLasts ==
  ASSUME Progress, NEW j \in Job, JobSound(j), billed[j] \subseteq billed'[j],
         status'[j] = status[j], invoice'[j] = invoice[j],
         j \in reserved' => j \in reserved,
         j \in funded' \cup streamed' => j \in funded \cup streamed
  PROVE  JobSound(j)'
<1>1. status'[j] = "awaiting_payment" => Payment(j, invoice[j])'
  BY PaymentLasts DEF JobSound
<1>2. Paid(j) => Paid(j)'
  BY DEF Paid, Progress, Job
<1> QED BY <1>1, <1>2 DEF JobSound, Deposit, Progress, Job

-----------------------------------------------------------------------------
(* What a step leaves alone. *)

OnlyJob(j) ==
  /\ \A i \in Job \ {j} : status'[i] = status[i] /\ invoice'[i] = invoice[i]
  /\ reserved' \ {j} \subseteq reserved
  /\ (funded' \cup streamed') \ {j} \subseteq funded \cup streamed
  /\ \A i \in Job : billed[i] \subseteq billed'[i]

LEMMA OthersSound ==
  ASSUME JobsSound, Progress, NEW j \in Job, OnlyJob(j), JobSound(j)'
  PROVE  JobsSound'
<1> SUFFICES ASSUME NEW i \in Job PROVE JobSound(i)'
  BY DEF JobsSound
<1>1. CASE i = j
  BY <1>1
<1>2. CASE i # j
  <2>1. JobSound(i)
    BY DEF JobsSound
  <2> QED BY <1>2, <2>1, JobLasts DEF OnlyJob
<1> QED BY <1>1, <1>2

LEMMA OtherCalls ==
  ASSUME CallsSound, Progress, \A i \in Job : billed[i] \subseteq billed'[i],
         NEW c \in Caller, \A d \in Caller \ {c} : call'[d] = call[d],
         (call[c] = Idle \/ Sound(call[c]))'
  PROVE  CallsSound'
<1> SUFFICES ASSUME NEW d \in Caller PROVE (call[d] = Idle \/ Sound(call[d]))'
  BY DEF CallsSound
<1>1. CASE d = c
  BY <1>1
<1>2. CASE d # c
  <2>1. PICK x : x = call[d]
    OBVIOUS
  <2>2. call'[d] = x /\ (x = Idle \/ Sound(x))
    BY <1>2, <2>1 DEF CallsSound
  <2>3. x = Idle \/ Sound(x)'
    BY <2>2, SoundLasts
  <2> QED BY <2>2, <2>3
<1> QED BY <1>1, <1>2

LEMMA CallsStay ==
  ASSUME CallsSound, Progress, \A i \in Job : billed[i] \subseteq billed'[i], UNCHANGED call
  PROVE  CallsSound'
<1> SUFFICES ASSUME NEW d \in Caller PROVE (call[d] = Idle \/ Sound(call[d]))'
  BY DEF CallsSound
<1>1. PICK x : x = call[d]
  OBVIOUS
<1>2. call'[d] = x /\ (x = Idle \/ Sound(x))
  BY <1>1 DEF CallsSound
<1>3. x = Idle \/ Sound(x)'
  BY <1>2, SoundLasts
<1> QED BY <1>2, <1>3

LEMMA JobsStay ==
  ASSUME JobsSound, Progress, UNCHANGED jobs
  PROVE  JobsSound'
<1> SUFFICES ASSUME NEW j \in Job PROVE JobSound(j)'
  BY DEF JobsSound
<1> QED BY JobLasts DEF JobsSound, jobs, requested

LEMMA ReturnSound ==
  ASSUME Shapes, CallsSound, Progress, \A i \in Job : billed[i] \subseteq billed'[i],
         NEW c \in Caller, Return(c)
  PROVE  CallsSound' /\ call' = [d \in Caller |-> call'[d]]
<1>1. call'[c] = Idle /\ (\A d \in Caller \ {c} : call'[d] = call[d]) /\ call' = [d \in Caller |-> call'[d]]
  BY DEF Return, Shapes
<1> QED BY <1>1, OtherCalls

LEMMA BeginSound ==
  ASSUME Shapes, CallsSound, Progress, \A i \in Job : billed[i] \subseteq billed'[i],
         NEW c \in Caller, NEW kind, NEW j, NEW at, NEW tx, Begin(c, kind, j, at, tx),
         Sound([kind |-> kind, job |-> j, at |-> at, tx |-> tx])'
  PROVE  CallsSound' /\ call' = [d \in Caller |-> call'[d]]
<1>1. PICK x : x = [kind |-> kind, job |-> j, at |-> at, tx |-> tx]
  OBVIOUS
<1>2. call' = [call EXCEPT ![c] = x]
  BY <1>1 DEF Begin
<1>3. call'[c] = x /\ (\A d \in Caller \ {c} : call'[d] = call[d]) /\ call' = [d \in Caller |-> call'[d]]
  BY <1>2 DEF Shapes
<1>4. Sound(x)'
  BY <1>1
<1> QED BY <1>3, <1>4, OtherCalls

\* The rest of the invariant, where the chain does not move.
LEMMA ChainStays ==
  ASSUME LedgerInv, Bounded, UNCHANGED chainVars
  PROVE  LedgerInv' /\ Bounded' /\ Progress
<1>1. LedgerInv'
  BY LedgerStep
<1>2. Bounded'
  BY DEF Bounded, chainVars, ledger, Committed
<1> QED BY <1>1, <1>2, StillProgress DEF chainVars

\* The job at hand goes to a status that asks for nothing.
Neutral == {"none", "pending", "running", "settling", "gone"}

LEMMA NeutralSound ==
  ASSUME Progress, NEW j \in Job, JobSound(j), status'[j] \in Neutral,
         j \in funded' \cup streamed' => j \in funded \cup streamed \/ funds'[j] > 0
  PROVE  JobSound(j)'
  BY DEF JobSound, Neutral, Progress, Job

LEMMA FailSound ==
  ASSUME Shapes, JobsSound, Progress, NEW j \in Job, FailJob(j)
  PROVE  /\ JobsSound' /\ status' \in [Job -> Status] /\ UNCHANGED <<invoice, billed>>
         /\ \A i \in Job : billed[i] \subseteq billed'[i]
<1>1. status' = [status EXCEPT ![j] = "failed"] /\ reserved' = reserved \ {j}
      /\ UNCHANGED <<invoice, funded, billed, streamed>>
  BY DEF FailJob, Goto, Release, requested
<1>2. status' \in [Job -> Status] /\ status'[j] = "failed"
      /\ \A i \in Job \ {j} : status'[i] = status[i]
  BY <1>1 DEF Shapes, Status
<1>3. OnlyJob(j)
  BY <1>1, <1>2 DEF OnlyJob
<1>4. JobSound(j)'
  BY <1>1, <1>2 DEF JobsSound, JobSound, Progress, Job
<1> QED BY <1>1, <1>2, <1>3, <1>4, OthersSound

-----------------------------------------------------------------------------
(* What the node asks to be signed. *)

LEMMA BillSound ==
  ASSUME LedgerInv, Bounded, issued \in [Person -> Nat], NEW j \in Job, NEW a \in Charge(j)
  PROVE  Payment(j, Bill(j, a))
<1>1. Spender(Payer[j]) \in Person /\ Provider[j] \in Person
  BY Terms DEF Job
<1>2. a \in Nat
  <2>1. PICK u \in 1 .. Reserved[j] \div Price[j] : a = Price[j] * u
    BY DEF Charge
  <2>2. Price[j] \in Nat /\ u \in Nat
    BY InferenceAssumption
  <2> QED BY <2>1, <2>2
<1>3. NonceFor(Spender(Payer[j])) \in Nat
  BY <1>1, IssuedIsFresh
<1> QED BY <1>1, <1>2, <1>3 DEF Bill, Payment, Signable

LEMMA DepositSound ==
  ASSUME LedgerInv, Bounded, issued \in [Person -> Nat], NEW j \in Job
  PROVE  Deposit(j, DepositTx(j))
<1>1. Spender(Payer[j]) \in Person /\ Reserved[j] \in Nat
  BY Terms DEF Job
<1>2. NonceFor(Spender(Payer[j])) \in Nat
  BY <1>1, IssuedIsFresh
<1> QED BY <1>1, <1>2 DEF DepositTx, Deposit, Signable

\* A settlement is asked for at a nonce that nothing in the ledger has.
LEMMA SettlementSound ==
  ASSUME LedgerInv, Bounded, issued \in [Person -> Nat], NEW j \in Job, NEW a \in Charge(j), funds[j] > 0
  PROVE  Payment(j, SettlementTx(j, a))
<1> DEFINE t == SettlementTx(j, a)
<1>1. Spender(Payer[j]) \in Person
  BY Terms DEF Job
<1>2. a \in Nat
  <2>1. PICK u \in 1 .. Reserved[j] \div Price[j] : a = Price[j] * u
    BY DEF Charge
  <2>2. Price[j] \in Nat /\ u \in Nat
    BY InferenceAssumption
  <2> QED BY <2>1, <2>2
<1>3. /\ NonceFor(Spender(Payer[j])) \in Nat
      /\ \A u \in Committed \cup pool : u.by = Spender(Payer[j]) /\ u.op # "close" =>
           u.nonce < NonceFor(Spender(Payer[j]))
  BY <1>1, IssuedIsFresh
<1>4. t.by = Spender(Payer[j]) /\ t.to = Spender(Payer[j]) /\ t.op = "settle" /\ t.on = j
      /\ t.amount = a /\ t.nonce = NonceFor(Spender(Payer[j]))
  BY DEF SettlementTx
<1> HIDE DEF t
<1>5. t \notin applied
  BY <1>3, <1>4 DEF Committed
<1> QED BY <1>1, <1>2, <1>3, <1>4, <1>5 DEF Payment, Signable, t

LEMMA IssueTyped ==
  ASSUME LedgerInv, Bounded, issued \in [Person -> Nat], NEW p \in Person, Issue(p)
  PROVE  issued' \in [Person -> Nat]
<1>1. NonceFor(p) + 1 \in Nat
  BY IssuedIsFresh
<1> QED BY <1>1 DEF Issue

-----------------------------------------------------------------------------
(* The handlers. *)

LEMMA OpenKeeps ==
  ASSUME JobInv, NEW j \in Job, SubmitInferenceJob(j) \/ RefuseAboveCeiling(j)
  PROVE  JobInv'
<1>1. LedgerInv' /\ Bounded' /\ Progress
  BY ChainStays DEF JobInv, SubmitInferenceJob, RefuseAboveCeiling
<1>2. /\ \E s \in {"pending", "gone"} : status' = [status EXCEPT ![j] = s]
      /\ reserved' = reserved \cup {j} /\ UNCHANGED <<invoice, funded, billed, streamed, issued, call>>
  BY DEF SubmitInferenceJob, RefuseAboveCeiling, Opens, Goto, requested
<1>3. status' \in [Job -> Status] /\ status'[j] \in Neutral /\ \A i \in Job \ {j} : status'[i] = status[i]
  BY <1>2 DEF JobInv, Shapes, Status, Neutral
<1>4. OnlyJob(j)
  BY <1>2, <1>3 DEF OnlyJob
<1>5. JobSound(j)'
  BY <1>1, <1>2, <1>3, NeutralSound DEF JobInv, JobsSound
<1>6. JobsSound' /\ CallsSound'
  BY <1>1, <1>2, <1>4, <1>5, OthersSound, CallsStay DEF JobInv, OnlyJob
<1> QED BY <1>1, <1>2, <1>3, <1>6 DEF JobInv, Shapes

LEMMA ReserveKeeps ==
  ASSUME JobInv, NEW j \in Job, ReserveInferenceEscrow(j)
  PROVE  JobInv'
<1>1. LedgerInv' /\ Bounded' /\ Progress
  BY ChainStays DEF JobInv, ReserveInferenceEscrow
<1>2. reserved' = reserved \cup {j} /\ UNCHANGED <<funded, billed, streamed, call>>
  BY DEF ReserveInferenceEscrow, Opens
<1>3. CASE ReserveEscrow(j)
  <2>1. /\ status' = [status EXCEPT ![j] = "awaiting_deposit"] /\ invoice' = [invoice EXCEPT ![j] = DepositTx(j)]
        /\ Issue(Spender(Payer[j]))
    BY <1>3 DEF ReserveEscrow, Goto, Ask
  <2>2. PICK t : t = DepositTx(j)
    OBVIOUS
  <2>3. /\ status' \in [Job -> Status] /\ status'[j] = "awaiting_deposit" /\ invoice'[j] = t
        /\ invoice' = [i \in Job |-> invoice'[i]]
        /\ \A i \in Job \ {j} : status'[i] = status[i] /\ invoice'[i] = invoice[i]
    BY <2>1, <2>2 DEF JobInv, Shapes, Status
  <2>4. OnlyJob(j)
    BY <1>2, <2>3 DEF OnlyJob
  <2>5. Deposit(j, t)'
    BY <2>2, DepositSound DEF JobInv, Shapes, Deposit, Signable
  <2>6. JobSound(j)'
    BY <1>1, <1>2, <2>3, <2>5 DEF JobInv, JobsSound, JobSound, Progress, Job
  <2>7. issued' \in [Person -> Nat]
    BY <2>1, IssueTyped, Terms DEF JobInv, Shapes, Job
  <2>8. JobsSound' /\ CallsSound'
    BY <1>1, <1>2, <2>4, <2>6, OthersSound, CallsStay DEF JobInv, OnlyJob
  <2> QED BY <1>1, <1>2, <2>3, <2>7, <2>8 DEF JobInv, Shapes
<1>4. CASE status' = [status EXCEPT ![j] = "pending"] /\ UNCHANGED <<requested, issued>>
  <2>1. status' \in [Job -> Status] /\ status'[j] \in Neutral /\ \A i \in Job \ {j} : status'[i] = status[i]
    BY <1>4 DEF JobInv, Shapes, Status, Neutral
  <2>2. OnlyJob(j)
    BY <1>2, <1>4, <2>1 DEF OnlyJob, requested
  <2>3. JobSound(j)'
    BY <1>1, <1>2, <2>1, NeutralSound DEF JobInv, JobsSound
  <2>4. JobsSound' /\ CallsSound'
    BY <1>1, <1>2, <2>2, <2>3, OthersSound, CallsStay DEF JobInv, OnlyJob
  <2> QED BY <1>1, <1>2, <1>4, <2>1, <2>4 DEF JobInv, Shapes, requested
<1> QED BY <1>3, <1>4 DEF ReserveInferenceEscrow, Goto

LEMMA RunsKeeps ==
  ASSUME JobInv, NEW c \in Caller, NEW j \in Job, NEW kind \in {"prepare", "fulfill", "stream"},
         Runs(c, kind, j), kind = "stream" => j \in funded, reserved' \ {j} \subseteq reserved
  PROVE  JobInv'
<1>1. LedgerInv' /\ Bounded' /\ Progress
  BY ChainStays DEF JobInv, Runs
<1>2. /\ status' = [status EXCEPT ![j] = "running"] /\ Begin(c, kind, j, "model", NoTx)
      /\ UNCHANGED <<invoice, funded, billed, streamed, issued>>
  BY DEF Runs, Goto, requested
<1>3. status' \in [Job -> Status] /\ status'[j] \in Neutral /\ \A i \in Job \ {j} : status'[i] = status[i]
  BY <1>2 DEF JobInv, Shapes, Status, Neutral
<1>4. OnlyJob(j)
  BY <1>2, <1>3 DEF OnlyJob
<1>5. JobSound(j)'
  BY <1>1, <1>2, <1>3, NeutralSound DEF JobInv, JobsSound
<1>6. Sound([kind |-> kind, job |-> j, at |-> "model", tx |-> NoTx])'
  <2>1. kind = "stream" => funds'[j] > 0
    BY <1>1 DEF JobInv, JobsSound, JobSound, Progress, Job
  <2> QED BY <2>1 DEF Sound, Kind
<1>7. CallsSound' /\ call' = [d \in Caller |-> call'[d]]
  BY <1>1, <1>2, <1>4, <1>6, BeginSound DEF JobInv, OnlyJob
<1>8. JobsSound'
  BY <1>1, <1>4, <1>5, OthersSound DEF JobInv
<1> QED BY <1>1, <1>2, <1>3, <1>7, <1>8 DEF JobInv, Shapes

\* A handler that is at work on its job.
LEMMA AtWork ==
  ASSUME JobInv, NEW c \in Caller, NEW kinds \in SUBSET Kind, NEW place, At(c, kinds, place)
  PROVE  Sound(call[c]) /\ call[c].job \in Job /\ call[c].kind \in kinds /\ call[c].at = place
<1>1. call[c].kind \in kinds /\ call[c].at = place
  BY DEF At
<1>2. call[c] # Idle
  BY <1>1 DEF Idle, Kind
<1> QED BY <1>1, <1>2 DEF JobInv, CallsSound, Sound

LEMMA FailKeeps ==
  ASSUME JobInv, NEW j \in Job, FailJob(j), UNCHANGED <<chainVars, issued>>,
         UNCHANGED call \/ \E c \in Caller : Return(c)
  PROVE  JobInv'
<1>1. LedgerInv' /\ Bounded' /\ Progress
  BY ChainStays DEF JobInv
<1>2. /\ JobsSound' /\ status' \in [Job -> Status] /\ UNCHANGED <<invoice, billed>>
      /\ \A i \in Job : billed[i] \subseteq billed'[i]
  BY <1>1, FailSound DEF JobInv
<1>3. CallsSound' /\ call' = [d \in Caller |-> call'[d]]
  BY <1>1, <1>2, ReturnSound, CallsStay DEF JobInv, Shapes
<1> QED BY <1>1, <1>2, <1>3 DEF JobInv, Shapes

LEMMA LeavesJobs ==
  ASSUME JobInv, UNCHANGED <<chainVars, jobs, issued>>, NEW c \in Caller, Return(c)
  PROVE  JobInv'
<1>1. LedgerInv' /\ Bounded' /\ Progress
  BY ChainStays DEF JobInv
<1>2. JobsSound' /\ \A i \in Job : billed[i] \subseteq billed'[i]
  BY <1>1, JobsStay DEF JobInv, jobs
<1>3. CallsSound' /\ call' = [d \in Caller |-> call'[d]]
  BY <1>1, <1>2, ReturnSound DEF JobInv
<1> QED BY <1>1, <1>2, <1>3 DEF JobInv, Shapes, jobs, requested

LEMMA SignForBuyerKeeps ==
  ASSUME JobInv, NEW c \in Caller, SignForBuyer(c)
  PROVE  JobInv'
<1>1. PICK j : j = call[c].job
  OBVIOUS
<1>2. j \in Job
  BY <1>1, AtWork DEF SignForBuyer, Kind
<1>3. CASE FailJob(j) /\ Return(c) /\ UNCHANGED issued
  BY <1>2, <1>3, FailKeeps DEF SignForBuyer
<1>4. ASSUME NEW a \in Charge(j), Begin(c, "fulfill", j, "submit", Bill(j, a)),
             Issue(Spender(Payer[j])), UNCHANGED jobs
      PROVE  JobInv'
  <2>1. LedgerInv' /\ Bounded' /\ Progress
    BY ChainStays DEF JobInv, SignForBuyer
  <2>2. PICK t : t = Bill(j, a)
    OBVIOUS
  <2>3. Payment(j, t)'
    BY <1>2, <2>1, <2>2, BillSound, PaymentLasts DEF JobInv, Shapes
  <2>4. Sound([kind |-> "fulfill", job |-> j, at |-> "submit", tx |-> t])'
    BY <1>2, <2>3 DEF Sound, Kind
  <2>5. JobsSound' /\ (\A i \in Job : billed[i] \subseteq billed'[i]) /\ UNCHANGED <<status, invoice, billed>>
    BY <1>4, <2>1, JobsStay DEF JobInv, jobs, requested
  <2>6. Begin(c, "fulfill", j, "submit", t)
    BY <1>4, <2>2
  <2>7. CallsSound' /\ call' = [d \in Caller |-> call'[d]]
    BY <2>1, <2>4, <2>5, <2>6, BeginSound DEF JobInv
  <2>8. issued' \in [Person -> Nat]
    BY <1>2, <1>4, IssueTyped, Terms DEF JobInv, Shapes, Job
  <2> QED BY <2>1, <2>5, <2>7, <2>8 DEF JobInv, Shapes
<1> QED BY <1>1, <1>3, <1>4 DEF SignForBuyer

\* The buyer is asked for a payment.
LEMMA AskKeeps ==
  ASSUME JobInv, NEW c \in Caller, NEW j \in Job, NEW t, Payment(j, t), NEW deadline,
         Ask(j, t, deadline), Issue(Spender(Payer[j])), Goto(j, "awaiting_payment"),
         Return(c), UNCHANGED <<chainVars, reserved, funded, billed>>,
         streamed' \ {j} \subseteq streamed, j \in streamed' => j \in streamed \/ funds[j] > 0
  PROVE  JobInv'
<1>1. LedgerInv' /\ Bounded' /\ Progress
  BY ChainStays DEF JobInv
<1>2. status' = [status EXCEPT ![j] = "awaiting_payment"] /\ invoice' = [invoice EXCEPT ![j] = t]
  BY DEF Goto, Ask
<1>3. /\ status' \in [Job -> Status] /\ status'[j] = "awaiting_payment" /\ invoice'[j] = t
      /\ invoice' = [i \in Job |-> invoice'[i]]
      /\ \A i \in Job \ {j} : status'[i] = status[i] /\ invoice'[i] = invoice[i]
  BY <1>2 DEF JobInv, Shapes, Status
<1>4. OnlyJob(j)
  BY <1>3 DEF OnlyJob
<1>5. Payment(j, t)'
  BY <1>1, PaymentLasts
<1>6. Payment(j, invoice[j])'
  BY <1>3, <1>5
<1>7. j \in funded' \cup streamed' => funds'[j] > 0
  BY <1>1 DEF JobInv, JobsSound, JobSound, Progress, Job
<1>8. JobSound(j)'
  BY <1>3, <1>6, <1>7 DEF JobSound
<1>9. JobsSound'
  BY <1>1, <1>4, <1>8, OthersSound DEF JobInv
<1>10. CallsSound' /\ call' = [d \in Caller |-> call'[d]]
  BY <1>1, <1>4, ReturnSound DEF JobInv, OnlyJob
<1>11. issued' \in [Person -> Nat]
  BY IssueTyped, Terms DEF JobInv, Shapes, Job
<1> QED BY <1>1, <1>3, <1>9, <1>10, <1>11 DEF JobInv, Shapes

LEMMA AskPaymentKeeps ==
  ASSUME JobInv, NEW c \in Caller, AskPayment(c)
  PROVE  JobInv'
<1>1. PICK j : j = call[c].job
  OBVIOUS
<1>2. j \in Job
  BY <1>1, AtWork DEF AskPayment, Kind
<1>3. PICK a \in Charge(j) : Ask(j, Bill(j, a), now + PaymentTTL)
  BY <1>1 DEF AskPayment
<1>4. PICK t : t = Bill(j, a)
  OBVIOUS
<1>5. Payment(j, t)
  BY <1>2, <1>4, BillSound DEF JobInv, Shapes
<1> QED BY <1>1, <1>2, <1>3, <1>4, <1>5, AskKeeps DEF AskPayment

LEMMA AskSettlementKeeps ==
  ASSUME JobInv, NEW c \in Caller, AskSettlement(c)
  PROVE  JobInv'
<1>1. PICK j : j = call[c].job
  OBVIOUS
<1>2. j \in Job /\ funds[j] > 0
  BY <1>1, AtWork DEF AskSettlement, Kind, Sound
<1>3. PICK a \in Charge(j) : Ask(j, SettlementTx(j, a), Expiry[j])
  BY <1>1 DEF AskSettlement
<1>4. PICK t : t = SettlementTx(j, a)
  OBVIOUS
<1>5. Payment(j, t)
  BY <1>2, <1>4, SettlementSound DEF JobInv, Shapes
<1>6. streamed' = streamed \cup {j}
  BY <1>1 DEF AskSettlement
<1> QED BY <1>1, <1>2, <1>3, <1>4, <1>5, <1>6, AskKeeps DEF AskSettlement

LEMMA HandsInKeeps ==
  ASSUME JobInv, NEW c \in Caller, NEW j \in Job, NEW kind, HandsIn(c, kind, j),
         \/ kind \in {"sign", "settle"} /\ status[j] = "awaiting_payment"
         \/ kind = "fund" /\ status[j] = "awaiting_deposit"
  PROVE  JobInv'
<1>1. LedgerInv' /\ Bounded' /\ Progress
  BY ChainStays DEF JobInv, HandsIn
<1>2. JobsSound' /\ (\A i \in Job : billed[i] \subseteq billed'[i]) /\ UNCHANGED <<status, invoice, billed, issued>>
  BY <1>1, JobsStay DEF JobInv, jobs, requested, HandsIn
<1>3. PICK t : t = invoice[j]
  OBVIOUS
<1>4. /\ kind \in {"sign", "settle"} => Payment(j, t)'
      /\ kind = "fund" => Deposit(j, t)'
  BY <1>1, <1>3, PaymentLasts DEF JobInv, JobsSound, JobSound, Deposit
<1>5. Sound([kind |-> kind, job |-> j, at |-> "submit", tx |-> t])'
  BY <1>4 DEF Sound, Kind
<1>6. Begin(c, kind, j, "submit", t)
  BY <1>3 DEF HandsIn
<1>7. CallsSound' /\ call' = [d \in Caller |-> call'[d]]
  BY <1>1, <1>2, <1>5, <1>6, BeginSound DEF JobInv
<1> QED BY <1>1, <1>2, <1>7 DEF JobInv, Shapes

\* The engine takes a transaction of the node's.
LEMMA PooledKeeps ==
  ASSUME LedgerInv, Bounded, NEW t, Signable(t), Accepts(t), Pooled(t), UNCHANGED <<clocks, ledger>>
  PROVE  LedgerInv' /\ Bounded' /\ Progress
<1>1. TxOK(t)
  BY DEF Accepts, Admitted, Signable, TxOK, LedgerInv, LedgerTypes
<1>2. pool' \subseteq pool \cup {t}
  BY DEF Pooled
<1>3. LedgerInv'
  BY <1>1, <1>2, EnterStep
<1>4. Bounded'
  <2>1. PICK m \in Nat : \A u \in Committed \cup pool : u.op # "close" => u.nonce <= m
    BY DEF Bounded
  <2>2. t.nonce \in Nat
    BY DEF Signable
  <2>3. \A u \in Committed \cup pool : u.op # "close" => u.nonce \in Nat
    BY DEF LedgerInv, LedgerTypes, TxOK
  <2>4. m + t.nonce \in Nat /\ \A u \in Committed' \cup pool' : u.op # "close" => u.nonce <= m + t.nonce
    <3>1. Committed' = Committed
      BY DEF Committed, ledger
    <3> QED BY <1>2, <2>1, <2>2, <2>3, <3>1
  <2>5. PICK k \in Nat : k = m + t.nonce
    BY <2>4
  <2> QED BY <2>4, <2>5 DEF Bounded
<1> QED BY <1>3, <1>4, StillProgress

LEMMA SubmitPaymentKeeps ==
  ASSUME JobInv, NEW c \in Caller, SubmitPayment(c)
  PROVE  JobInv'
<1>1. PICK j : j = call[c].job
  OBVIOUS
<1>2. PICK t : t = call[c].tx
  OBVIOUS
<1>3. PICK kind : kind = call[c].kind
  OBVIOUS
<1>4. j \in Job /\ kind \in {"fulfill", "sign", "settle"} /\ Payment(j, t)
  BY <1>1, <1>2, <1>3, AtWork DEF SubmitPayment, Kind, Sound
<1>5. /\ Accepts(t) /\ Pooled(t) /\ Goto(j, "settling")
      /\ billed' = [billed EXCEPT ![j] = @ \cup {t}]
      /\ Begin(c, kind, j, "wait", t)
      /\ UNCHANGED <<clocks, ledger, reserved, invoice, funded, streamed, issued>>
  BY <1>1, <1>2, <1>3 DEF SubmitPayment, requested
<1>6. LedgerInv' /\ Bounded' /\ Progress
  BY <1>4, <1>5, PooledKeeps DEF JobInv, Payment
<1>7. /\ status' \in [Job -> Status] /\ status'[j] \in Neutral /\ \A i \in Job \ {j} : status'[i] = status[i]
      /\ billed' = [i \in Job |-> billed'[i]] /\ t \in billed'[j]
      /\ \A i \in Job : billed[i] \subseteq billed'[i]
  BY <1>4, <1>5 DEF Goto, JobInv, Shapes, Status, Neutral
<1>8. OnlyJob(j)
  BY <1>5, <1>7 DEF OnlyJob
<1>9. JobSound(j)'
  BY <1>4, <1>5, <1>6, <1>7, NeutralSound DEF JobInv, JobsSound
<1>10. JobsSound'
  BY <1>4, <1>6, <1>8, <1>9, OthersSound DEF JobInv
<1>11. Sound([kind |-> kind, job |-> j, at |-> "wait", tx |-> t])'
  <2>1. Payment(j, t)'
    BY <1>4, <1>6, PaymentLasts
  <2> QED BY <1>4, <1>7, <2>1 DEF Sound, Kind
<1>12. CallsSound' /\ call' = [d \in Caller |-> call'[d]]
  BY <1>5, <1>6, <1>7, <1>11, BeginSound DEF JobInv
<1> QED BY <1>5, <1>6, <1>7, <1>10, <1>12 DEF JobInv, Shapes

LEMMA SubmitDepositKeeps ==
  ASSUME JobInv, NEW c \in Caller, SubmitDeposit(c)
  PROVE  JobInv'
<1>1. PICK j : j = call[c].job
  OBVIOUS
<1>2. PICK t : t = call[c].tx
  OBVIOUS
<1>3. j \in Job /\ Deposit(j, t)
  BY <1>1, <1>2, AtWork DEF SubmitDeposit, Kind, Sound
<1>4. /\ Accepts(t) /\ Pooled(t) /\ Begin(c, "fund", j, "wait", t)
      /\ UNCHANGED <<clocks, ledger, jobs, issued>>
  BY <1>1, <1>2 DEF SubmitDeposit
<1>5. LedgerInv' /\ Bounded' /\ Progress
  BY <1>3, <1>4, PooledKeeps DEF JobInv, Deposit
<1>6. JobsSound' /\ (\A i \in Job : billed[i] \subseteq billed'[i]) /\ UNCHANGED <<status, invoice, billed>>
  BY <1>4, <1>5, JobsStay DEF JobInv, jobs, requested
<1>7. Sound([kind |-> "fund", job |-> j, at |-> "wait", tx |-> t])'
  BY <1>3 DEF Sound, Kind, Deposit
<1>8. CallsSound' /\ call' = [d \in Caller |-> call'[d]]
  BY <1>4, <1>5, <1>6, <1>7, BeginSound DEF JobInv
<1> QED BY <1>4, <1>5, <1>6, <1>8 DEF JobInv, Shapes

\* Returns, with or without failing the job.
LEMMA EndKeeps ==
  ASSUME JobInv, NEW c \in Caller,
         ModelFails(c) \/ SubmitRefused(c) \/ PaymentSkipped(c) \/ WaitEnds(c)
  PROVE  JobInv'
<1>1. call[c].job \in Job
  BY AtWork DEF ModelFails, SubmitRefused, PaymentSkipped, WaitEnds, Kind
<1>2. PICK j : j = call[c].job
  OBVIOUS
<1>3. UNCHANGED <<chainVars, issued>> /\ Return(c) /\ (FailJob(j) \/ UNCHANGED jobs)
  BY <1>2 DEF ModelFails, SubmitRefused, PaymentSkipped, WaitEnds
<1> QED BY <1>1, <1>2, <1>3, FailKeeps, LeavesJobs

LEMMA PaymentMadeKeeps ==
  ASSUME JobInv, NEW c \in Caller, PaymentMade(c)
  PROVE  JobInv'
<1>1. PICK j : j = call[c].job
  OBVIOUS
<1>2. PICK t : t = call[c].tx
  OBVIOUS
<1>3. j \in Job /\ Payment(j, t) /\ t \in billed[j] /\ t \in applied
  BY <1>1, <1>2, AtWork DEF PaymentMade, Kind, Sound, PaymentApplied
<1>4. Return(c) /\ UNCHANGED <<chainVars, issued>>
  BY DEF PaymentMade
<1>5. CASE UNCHANGED jobs
  BY <1>4, <1>5, LeavesJobs
<1>6. CASE Finish(j)
  <2>1. LedgerInv' /\ Bounded' /\ Progress
    BY <1>4, ChainStays DEF JobInv
  <2>2. /\ status' = [status EXCEPT ![j] = "completed"] /\ reserved' = reserved \ {j}
        /\ UNCHANGED <<invoice, funded, billed, streamed>>
    BY <1>6 DEF Finish, Goto, Release, requested
  <2>3. /\ status' \in [Job -> Status] /\ status'[j] = "completed" /\ j \notin reserved'
        /\ \A i \in Job \ {j} : status'[i] = status[i]
    BY <1>3, <2>2 DEF JobInv, Shapes, Status
  <2>4. OnlyJob(j)
    BY <2>2, <2>3 DEF OnlyJob
  <2>5. Paid(j)
    BY <1>3 DEF Payment, Paid
  <2>6. Paid(j)'
    BY <1>4, <2>2, <2>5 DEF Paid, chainVars, ledger
  <2>7. JobSound(j)'
    BY <1>3, <2>1, <2>2, <2>3, <2>6 DEF JobInv, JobsSound, JobSound, Progress, Job
  <2>8. JobsSound'
    BY <1>3, <2>1, <2>4, <2>7, OthersSound DEF JobInv
  <2>9. CallsSound' /\ call' = [d \in Caller |-> call'[d]]
    BY <1>4, <2>1, <2>4, ReturnSound DEF JobInv, OnlyJob
  <2> QED BY <1>4, <2>1, <2>2, <2>3, <2>8, <2>9 DEF JobInv, Shapes
<1> QED BY <1>1, <1>5, <1>6 DEF PaymentMade

LEMMA DepositMadeKeeps ==
  ASSUME JobInv, NEW c \in Caller, DepositMade(c)
  PROVE  JobInv'
<1>1. PICK j : j = call[c].job
  OBVIOUS
<1>2. PICK t : t = call[c].tx
  OBVIOUS
<1>3. j \in Job /\ Deposit(j, t) /\ t \in applied
  BY <1>1, <1>2, AtWork DEF DepositMade, Kind, Sound, PaymentApplied
<1>4. funds[j] > 0
  BY <1>3 DEF JobInv, LedgerInv, FundsCounted, Deposit
<1>5. /\ status' = [status EXCEPT ![j] = "pending"] /\ funded' = funded \cup {j}
      /\ invoice' = [invoice EXCEPT ![j] = NoTx] /\ Return(c)
      /\ UNCHANGED <<chainVars, reserved, billed, streamed, issued>>
  BY <1>1 DEF DepositMade, Goto
<1>6. LedgerInv' /\ Bounded' /\ Progress
  BY <1>5, ChainStays DEF JobInv
<1>7. /\ status' \in [Job -> Status] /\ status'[j] \in Neutral
      /\ invoice' = [i \in Job |-> invoice'[i]]
      /\ \A i \in Job \ {j} : status'[i] = status[i] /\ invoice'[i] = invoice[i]
  BY <1>3, <1>5 DEF JobInv, Shapes, Status, Neutral
<1>8. OnlyJob(j)
  BY <1>5, <1>7 DEF OnlyJob
<1>9. JobSound(j)'
  BY <1>3, <1>4, <1>5, <1>6, <1>7, NeutralSound DEF JobInv, JobsSound, chainVars, ledger
<1>10. JobsSound'
  BY <1>3, <1>6, <1>8, <1>9, OthersSound DEF JobInv
<1>11. CallsSound' /\ call' = [d \in Caller |-> call'[d]]
  BY <1>5, <1>6, <1>8, ReturnSound DEF JobInv, OnlyJob
<1> QED BY <1>5, <1>6, <1>7, <1>10, <1>11 DEF JobInv, Shapes

LEMMA RecoverKeeps ==
  ASSUME JobInv, NEW j \in Job, RecoverEscrowSettlement(j)
  PROVE  JobInv'
<1>1. LedgerInv' /\ Bounded' /\ Progress
  BY ChainStays DEF JobInv, RecoverEscrowSettlement
<1>2. UNCHANGED <<status, reserved, invoice, funded, billed, streamed, issued, call>>
  BY DEF RecoverEscrowSettlement
<1>3. JobsSound'
  <2> SUFFICES ASSUME NEW i \in Job PROVE JobSound(i)'
    BY DEF JobsSound
  <2> QED BY <1>1, <1>2, JobLasts DEF JobInv, JobsSound
<1>4. CallsSound'
  BY <1>1, <1>2, CallsStay DEF JobInv
<1> QED BY <1>1, <1>2, <1>3, <1>4 DEF JobInv, Shapes

LEMMA StartKeeps ==
  ASSUME JobInv, NEW c \in Caller, NEW j \in Job,
         \/ RunInferenceJob(c, j) \/ StreamInferenceJob(c, j)
         \/ FulfillJob(c, j) \/ StreamEscrowed(c, j)
  PROVE  JobInv'
<1>1. CASE RunInferenceJob(c, j)
  BY <1>1, RunsKeeps DEF RunInferenceJob, Opens
<1>2. CASE StreamInferenceJob(c, j)
  BY <1>2, RunsKeeps DEF StreamInferenceJob, Opens
<1>3. CASE FulfillJob(c, j)
  BY <1>3, RunsKeeps DEF FulfillJob
<1>4. CASE StreamEscrowed(c, j)
  BY <1>4, RunsKeeps DEF StreamEscrowed
<1> QED BY <1>1, <1>2, <1>3, <1>4

LEMMA PayKeeps ==
  ASSUME JobInv, NEW c \in Caller, NEW j \in Job,
         \/ SettleSigned(c, j) \/ SettleEscrowed(c, j) \/ FundEscrow(c, j) \/ SettleSignedLate(c, j)
  PROVE  JobInv'
<1>1. CASE SettleSigned(c, j)
  BY <1>1, HandsInKeeps DEF SettleSigned
<1>2. CASE SettleEscrowed(c, j)
  BY <1>2, HandsInKeeps DEF SettleEscrowed
<1>3. CASE FundEscrow(c, j)
  BY <1>3, HandsInKeeps DEF FundEscrow
<1>4. CASE SettleSignedLate(c, j)
  BY <1>4, FailKeeps DEF SettleSignedLate
<1> QED BY <1>1, <1>2, <1>3, <1>4

\* A restart forgets the jobs. What the chain did for them stays.
LEMMA RestartKeeps ==
  ASSUME JobInv, Restart
  PROVE  JobInv'
<1>1. /\ UNCHANGED <<balance, funds, pays, applied, skipped, now, time, reserved, billed, streamed>>
      /\ pool' = {} /\ funded' = {}
  BY DEF Restart, clocks, ledger
<1>2. LedgerInv'
  BY <1>1, LedgerStays DEF JobInv, LedgerInv, LedgerTypes, Committed
<1>3. Bounded'
  <2>1. Committed' \cup pool' \subseteq Committed \cup pool
    BY <1>1 DEF Committed
  <2> QED BY <2>1 DEF JobInv, Bounded
<1>4. Progress
  BY <1>1, StillProgress DEF ledger
<1>5. status' = [j \in Job |-> IF status[j] = "none" THEN "none" ELSE "gone"]
  BY DEF Restart
<1>6. status' \in [Job -> Status] /\ \A j \in Job : status'[j] \in Neutral
  BY <1>5 DEF Status, Neutral
<1>7. JobsSound'
  <2> SUFFICES ASSUME NEW j \in Job PROVE JobSound(j)'
    BY DEF JobsSound
  <2> QED BY <1>1, <1>4, <1>6, NeutralSound DEF JobInv, JobsSound
<1>8. CallsSound' /\ call' = [c \in Caller |-> call'[c]]
  BY DEF Restart, CallsSound
<1>9. /\ issued' \in [Person -> Nat] /\ invoice' = [j \in Job |-> invoice'[j]]
      /\ billed' = [j \in Job |-> billed'[j]]
  BY <1>1 DEF Restart, JobInv, Shapes
<1> QED BY <1>2, <1>3, <1>6, <1>7, <1>8, <1>9 DEF JobInv, Shapes

\* The chain moves by itself.
LEMMA ChainMoves ==
  ASSUME LedgerInv, Bounded,
         Tick \/ NewBlock \/ (\E t \in Signed : SubmitTx(t)) \/ (\E t \in pool : Apply(t))
  PROVE  LedgerInv' /\ Bounded' /\ Progress
<1>1. CASE Tick \/ NewBlock
  <2>1. UNCHANGED <<ledger, pool>>
    BY <1>1 DEF Tick, NewBlock
  <2>2. Bounded'
    BY <2>1 DEF Bounded, ledger, Committed
  <2> QED BY <1>1, <2>1, <2>2, TimeStep, StillProgress
<1>2. ASSUME NEW t \in Signed, SubmitTx(t)
      PROVE  LedgerInv' /\ Bounded' /\ Progress
  <2>1. Admitted(t) /\ pool' = pool \cup {t} /\ UNCHANGED <<clocks, ledger>>
    BY <1>2 DEF SubmitTx
  <2>2. TxOK(t)
    BY <2>1, SignedOK DEF Admitted
  <2>3. t.nonce \in Nat
    BY ReservationsAssumption
  <2>4. LedgerInv'
    BY <2>1, <2>2, EnterStep
  <2>5. PICK m \in Nat : \A u \in Committed \cup pool : u.op # "close" => u.nonce <= m
    BY DEF Bounded
  <2>6. PICK k : k = m + t.nonce
    OBVIOUS
  <2>7. k \in Nat
    BY <2>3, <2>6
  <2>8. \A u \in Committed \cup pool : u.op # "close" => u.nonce \in Nat
    BY DEF LedgerInv, LedgerTypes, TxOK
  <2>9. Committed' = Committed
    BY <2>1 DEF Committed, ledger
  <2>10. ASSUME NEW u \in Committed' \cup pool', u.op # "close" PROVE u.nonce <= k
    BY <2>1, <2>3, <2>5, <2>6, <2>8, <2>9, <2>10
  <2>11. Bounded'
    BY <2>7, <2>10 DEF Bounded
  <2> QED BY <2>1, <2>4, <2>11, StillProgress
<1>3. ASSUME NEW t \in pool, Apply(t)
      PROVE  LedgerInv' /\ Bounded' /\ Progress
  <2>1. Committed' \cup pool' \subseteq Committed \cup pool
    BY <1>3 DEF Apply, Skip, Skips, Transfer, OpenBudget, DrawOnBudget, CloseBudget, FundReservation,
                NothingLeft, SettleReservation, ClaimReservation, Takes, Lands, Committed
  <2>2. Bounded'
    BY <2>1 DEF Bounded
  <2> QED BY <1>3, <2>2, ApplyStep, ApplyProgress
<1> QED BY <1>1, <1>2, <1>3

LEMMA ChainKeeps ==
  ASSUME JobInv, Chain
  PROVE  JobInv'
<1>1. LedgerInv' /\ Bounded' /\ Progress
  BY ChainMoves DEF JobInv, Chain
<1>2. UNCHANGED <<jobs, issued, call>>
  BY DEF Chain
<1>3. JobsSound' /\ \A i \in Job : billed[i] \subseteq billed'[i]
  BY <1>1, <1>2, JobsStay DEF JobInv, jobs
<1>4. CallsSound'
  BY <1>1, <1>2, <1>3, CallsStay DEF JobInv
<1> QED BY <1>1, <1>2, <1>3, <1>4 DEF JobInv, Shapes, jobs, requested

LEMMA JobInit == Init => JobInv
<1> SUFFICES ASSUME Init PROVE JobInv
  OBVIOUS
<1>1. LedgerInv /\ Committed \cup pool = {}
  BY LedgerInit DEF Init, ChainInit, Committed
<1>2. Bounded
  BY <1>1 DEF Bounded
<1>3. Shapes /\ CallsSound
  BY DEF Init, Shapes, Status, CallsSound
<1>4. JobsSound
  BY DEF Init, JobsSound, JobSound
<1> QED BY <1>1, <1>2, <1>3, <1>4 DEF JobInv

LEMMA HandlerKeeps ==
  ASSUME JobInv, NEW c \in Caller, Handler(c)
  PROVE  JobInv'
  BY StartKeeps, PayKeeps, EndKeeps, SignForBuyerKeeps, AskPaymentKeeps, AskSettlementKeeps,
     SubmitPaymentKeeps, SubmitDepositKeeps, PaymentMadeKeeps, DepositMadeKeeps DEF Handler

LEMMA JobStep ==
  ASSUME JobInv, [Next]_vars
  PROVE  JobInv'
<1>1. CASE UNCHANGED vars
  <2>1. LedgerInv' /\ Bounded' /\ Progress
    BY <1>1, ChainStays DEF JobInv, vars
  <2>2. JobsSound' /\ \A i \in Job : billed[i] \subseteq billed'[i]
    BY <1>1, <2>1, JobsStay DEF JobInv, vars, jobs
  <2>3. CallsSound'
    BY <1>1, <2>1, <2>2, CallsStay DEF JobInv, vars
  <2> QED BY <1>1, <2>1, <2>2, <2>3 DEF JobInv, Shapes, vars, jobs, requested
<1>2. ASSUME NEW j \in Job, ExpireUnpaid(j)
      PROVE  JobInv'
  BY <1>2, FailKeeps DEF ExpireUnpaid
<1> QED
  BY <1>1, <1>2, ChainKeeps, HandlerKeeps, OpenKeeps, ReserveKeeps, RecoverKeeps, RestartKeeps DEF Next

LEMMA JobInvHolds == Spec => []JobInv
  BY JobInit, JobStep, PTL DEF Spec

LEMMA OnlyJobsStream ==
  ASSUME JobInv, streamed \subseteq Job, [Next]_vars
  PROVE  streamed' \subseteq Job
<1>1. ASSUME NEW c \in Caller, AskSettlement(c)
      PROVE  streamed' \subseteq Job
  BY <1>1, AtWork DEF AskSettlement, Kind
<1>2. ASSUME NEW c \in Caller, Handler(c), ~AskSettlement(c)
      PROVE  streamed' = streamed
  BY <1>2 DEF Handler, RunInferenceJob, StreamInferenceJob, FulfillJob, StreamEscrowed, Runs, SettleSigned,
              SettleSignedLate, SettleEscrowed, FundEscrow, HandsIn, FailJob, ModelFails, SignForBuyer,
              AskPayment, SubmitPayment, SubmitDeposit, SubmitRefused, PaymentMade, Finish, DepositMade,
              PaymentSkipped, WaitEnds, jobs
<1>3. ASSUME NEW j \in Job,
             \/ SubmitInferenceJob(j) \/ RefuseAboveCeiling(j) \/ ReserveInferenceEscrow(j)
             \/ RecoverEscrowSettlement(j) \/ ExpireUnpaid(j)
      PROVE  streamed' = streamed
  BY <1>3 DEF SubmitInferenceJob, RefuseAboveCeiling, ReserveInferenceEscrow, RecoverEscrowSettlement,
              ExpireUnpaid, FailJob
<1> QED BY <1>1, <1>2, <1>3 DEF Next, Chain, Restart, vars, jobs

\* A job that is completed has been paid for, and an answer that was streamed had its
\* deposit in the reservation first, whichever handlers ran for it in whatever order
\* and however often the node restarted (settleRun, SettleSigned, SettleEscrowed,
\* StreamEscrowed).
THEOREM CompletedPaid == Spec => []CompletedIsPaid
<1>1. Init => streamed \subseteq Job
  BY DEF Init
<1>2. JobInv /\ streamed \subseteq Job /\ [Next]_vars => (streamed \subseteq Job)'
  BY OnlyJobsStream
<1>3. JobInv /\ streamed \subseteq Job => CompletedIsPaid
  BY DEF JobInv, JobsSound, JobSound, CompletedIsPaid
<1> QED BY <1>1, <1>2, <1>3, JobInvHolds, PTL DEF Spec

\* A job that completed or failed holds none of its provider's capacity, whichever of
\* the handlers that may still be at work on it ended it (Finish, failJob).
THEOREM EndedHoldNothing == Spec => []EndedReleases
<1>1. JobInv => EndedReleases
  BY DEF JobInv, JobsSound, JobSound, EndedReleases
<1> QED BY <1>1, JobInvHolds, PTL

\* The node's own bills, deposits and settlements, and its restarts, leave a provider
\* paid at most once for a deposit as well (applyInferOperation, settleRun, FundEscrow).
THEOREM JobsPayOnce == Spec => []PaidOncePerDeposit
<1>1. JobInv => PaidOncePerDeposit
  BY DEF JobInv, LedgerInv, Deposited, PaidOncePerDeposit
<1> QED BY <1>1, JobInvHolds, PTL

-----------------------------------------------------------------------------
(* The treasury: the ledger of a block in progress. *)

Hoards == [Purse -> Nat]
Stakes == [Holder -> Nat]
Paying == [payer : Holder, payee : Holder, amount : Nat]
Receipts == [coins : Nat, payments : Nat, payers : SUBSET Holder]
BookSet == [coins : Hoards, bonds : Stakes, maintainer : Holder, granted : Nat,
            credited : Stakes, revenue : Seq(Paying), paid : [Holder -> Receipts]]

LEMMA Purses ==
  /\ IsFiniteSet(Purse) /\ IsFiniteSet(Holder) /\ Holder \subseteq Purse
  /\ {Pool, Accrued, Odd} \subseteq Purse /\ {Pool, Accrued, Odd} \cap Holder = {}
  /\ Pool # Accrued /\ Pool # Odd /\ Accrued # Odd
  /\ \A h \in Holder : h # Pool /\ h # Accrued /\ h # Odd
  /\ Grant \in Nat \ {0}
<1>1. IsFiniteSet({Pool, Accrued, Odd})
  <2>1. IsFiniteSet({Pool})
    BY FS_Singleton
  <2>2. IsFiniteSet({Pool} \cup {Accrued})
    BY <2>1, FS_AddElement
  <2>3. IsFiniteSet(({Pool} \cup {Accrued}) \cup {Odd})
    BY <2>2, FS_AddElement
  <2>4. ({Pool} \cup {Accrued}) \cup {Odd} = {Pool, Accrued, Odd}
    OBVIOUS
  <2> QED BY <2>3, <2>4
<1>2. IsFiniteSet(Purse)
  BY <1>1, TreasuryAssumption, FS_Union DEF Purse
<1> QED BY <1>2, TreasuryAssumption DEF Purse

LEMMA HoardsCount ==
  ASSUME NEW c \in Hoards
  PROVE  Counts(c, Purse) /\ DOMAIN c = Purse /\ Total(c, Purse) \in Nat
<1>1. Counts(c, Purse) /\ DOMAIN c = Purse
  BY Purses DEF Hoards, Counts
<1> QED BY <1>1, TotalType

LEMMA StakesCount ==
  ASSUME NEW b \in Stakes
  PROVE  Counts(b, Holder) /\ DOMAIN b = Holder /\ Total(b, Holder) \in Nat
<1>1. Counts(b, Holder) /\ DOMAIN b = Holder
  BY Purses DEF Stakes, Counts
<1> QED BY <1>1, TotalType

LEMMA CarriedKeeps ==
  ASSUME NEW c \in Hoards, NEW x \in Purse, NEW y \in Purse, NEW a \in Nat, a <= c[x]
  PROVE  /\ Carried(c, x, y, a) \in Hoards
         /\ Total(Carried(c, x, y, a), Purse) = Total(c, Purse)
         /\ \A z \in Purse : z # x /\ z # y => Carried(c, x, y, a)[z] = c[z]
         /\ Carried(c, x, y, a)[x] >= c[x] - a
         /\ x # y => Carried(c, x, y, a)[x] = c[x] - a /\ Carried(c, x, y, a)[y] = c[y] + a
<1> DEFINE d == Carried(c, x, y, a)
<1>1. c[x] \in Nat /\ c[y] \in Nat /\ c[x] - a \in Nat /\ c[y] + a \in Nat /\ c \in [Purse -> Nat]
  BY DEF Hoards
<1>2. CASE x = y
  <2>1. d = c
    <3>1. d = [z \in Purse |-> d[z]] /\ c = [z \in Purse |-> c[z]]
      BY <1>1 DEF Carried, Debit, Credit
    <3>2. \A z \in Purse : d[z] = c[z]
      BY <1>1, <1>2 DEF Carried, Debit, Credit
    <3> HIDE DEF d
    <3> QED BY <3>1, <3>2
  <2> QED BY <1>1, <1>2, <2>1
<1>3. CASE x # y
  <2>1. /\ d \in Hoards /\ d[x] = c[x] - a /\ d[y] = c[y] + a
        /\ \A z \in Purse : z # x /\ z # y => d[z] = c[z]
    BY <1>1, <1>3 DEF Carried, Debit, Credit, Hoards
  <2>2. Counts(c, Purse)
    BY HoardsCount
  <2> HIDE DEF d
  <2>3. Total(d, Purse) = Total(c, Purse)
    BY <1>3, <2>1, <2>2, TotalMoved
  <2> QED BY <1>1, <1>3, <2>1, <2>3 DEF d
<1> QED BY <1>2, <1>3

\* What a list of payments says of an account, one payment later.
LEMMA OnePayment ==
  ASSUME NEW ps \in Seq(Paying), NEW p \in Paying, NEW h \in Holder
  PROVE  LET qs == Append(ps, p)
         IN /\ Received(h, ps) \in Nat /\ Cardinality(PaymentsTo(h, ps)) \in Nat
            /\ p.payee = h =>
                 /\ Received(h, qs) = Received(h, ps) + p.amount
                 /\ Cardinality(PaymentsTo(h, qs)) = Cardinality(PaymentsTo(h, ps)) + 1
                 /\ PayersOf(h, qs) = PayersOf(h, ps) \cup {p.payer}
            /\ p.payee # h =>
                 /\ Received(h, qs) = Received(h, ps)
                 /\ PaymentsTo(h, qs) = PaymentsTo(h, ps)
                 /\ PayersOf(h, qs) = PayersOf(h, ps)
<1> DEFINE qs == Append(ps, p)
           n == Len(ps)
           S == PaymentsTo(h, ps)
           R == PaymentsTo(h, qs)
           f == [i \in DOMAIN ps |-> ps[i].amount]
           g == [i \in DOMAIN qs |-> qs[i].amount]
<1>1. /\ n \in Nat /\ DOMAIN ps = 1 .. n /\ DOMAIN qs = 1 .. n + 1
      /\ (\A i \in 1 .. n : qs[i] = ps[i]) /\ qs[n + 1] = p
      /\ \A i \in 1 .. n : ps[i] \in Paying
  BY AppendProperties
<1>2. 1 .. n + 1 = (1 .. n) \cup {n + 1} /\ n + 1 \notin 1 .. n
  BY <1>1
<1>3. R = IF p.payee = h THEN S \cup {n + 1} ELSE S
  BY <1>1, <1>2 DEF PaymentsTo
<1>4. S \subseteq 1 .. n /\ n + 1 \notin S /\ IsFiniteSet(S)
  <2>1. S \subseteq 1 .. n
    BY <1>1 DEF PaymentsTo
  <2>2. IsFiniteSet(1 .. n)
    BY <1>1, FS_Interval
  <2> QED BY <1>2, <2>1, <2>2, FS_Subset
<1>5. Counts(f, S) /\ (\A i \in S : f[i] = g[i])
  BY <1>1, <1>4 DEF Counts, Paying
<1>6. g[n + 1] = p.amount /\ p.amount \in Nat
  BY <1>1, <1>2 DEF Paying
<1>7. Received(h, ps) = Total(f, S) /\ Received(h, qs) = Total(g, R)
  BY DEF Received
<1>8. PayersOf(h, ps) = {ps[i].payer : i \in S} /\ PayersOf(h, qs) = {qs[i].payer : i \in R}
  BY DEF PayersOf
<1> HIDE DEF f, g, S, R, qs
<1>9. Total(g, S) = Total(f, S) /\ Counts(g, S) /\ Total(f, S) \in Nat
  BY <1>5, TotalSame, TotalType
<1>10. Total(g, S \cup {n + 1}) = Total(g, S) + g[n + 1]
  BY <1>4, <1>6, <1>9, TotalAdd
<1>11. Cardinality(S \cup {n + 1}) = Cardinality(S) + 1 /\ Cardinality(S) \in Nat
  BY <1>4, FS_AddElement, FS_CardinalityType
<1>12. \A i \in S : qs[i].payer = ps[i].payer
  BY <1>1, <1>4
<1>13. {qs[i].payer : i \in S} = {ps[i].payer : i \in S}
  BY <1>12
<1>14. {qs[i].payer : i \in S \cup {n + 1}} = {ps[i].payer : i \in S} \cup {p.payer}
  BY <1>1, <1>12
<1>15. CASE p.payee = h
  BY <1>3, <1>6, <1>7, <1>8, <1>9, <1>10, <1>11, <1>14, <1>15 DEF qs, S, R
<1>16. CASE p.payee # h
  BY <1>3, <1>7, <1>8, <1>9, <1>11, <1>13, <1>16 DEF qs, S, R
<1> QED BY <1>15, <1>16

\* How the books of a block in progress stand to the state the block started from: no
\* coin is made or lost, what left the pool are grants, and an account was brought what
\* the list of payments says.
Closed(s) == Total(s.coins, Purse) + Total(s.bonds, Holder) = Supply
GrantsOnly(s) == s.coins[Pool] + s.granted * Grant = coins[Pool] + granted * Grant
Receipted(s) ==
  \A h \in Holder :
    /\ s.paid[h].coins = paid[h].coins + Received(h, s.revenue)
    /\ s.paid[h].payments = paid[h].payments + Cardinality(PaymentsTo(h, s.revenue))
    /\ s.paid[h].payers = paid[h].payers \cup PayersOf(h, s.revenue)

InProgress == {s \in BookSet : Closed(s) /\ GrantsOnly(s) /\ Receipted(s)}

\* Coins change hands outside the pool.
LEMMA HandedOver ==
  ASSUME NEW s \in InProgress, NEW x \in Purse \ {Pool}, NEW y \in Purse \ {Pool},
         NEW a \in Nat, a <= s.coins[x]
  PROVE  [s EXCEPT !.coins = Carried(s.coins, x, y, a)] \in InProgress
<1> DEFINE c == Carried(s.coins, x, y, a)
           t == [s EXCEPT !.coins = c]
<1>1. s \in BookSet /\ s.coins \in Hoards /\ Closed(s) /\ GrantsOnly(s) /\ Receipted(s)
  BY DEF InProgress, BookSet
<1>2. c \in Hoards /\ Total(c, Purse) = Total(s.coins, Purse) /\ c[Pool] = s.coins[Pool]
  BY <1>1, CarriedKeeps, Purses
<1> HIDE DEF c
<1>3. /\ t \in BookSet /\ t.coins = c /\ t.bonds = s.bonds /\ t.granted = s.granted
      /\ t.revenue = s.revenue /\ t.paid = s.paid
  BY <1>1, <1>2 DEF BookSet
<1> HIDE DEF t
<1>4. Closed(t)
  BY <1>1, <1>2, <1>3 DEF Closed
<1>5. GrantsOnly(t)
  BY <1>1, <1>2, <1>3 DEF GrantsOnly
<1>6. Receipted(t)
  BY <1>1, <1>3 DEF Receipted
<1> QED BY <1>3, <1>4, <1>5, <1>6 DEF InProgress, t, c

LEMMA FeeWithin ==
  ASSUME NEW a \in Nat
  PROVE  FeeFor(a) \in 0 .. a /\ MaintainerShare(a) \in 0 .. a
BY FeesAssumption, PartWithinAmount DEF FeeFor, MaintainerShare

\* A payment: of the amount, the fee goes to the accrual account and the rest to the payee,
\* which is what the books say of it.
LEMMA PaymentKept ==
  ASSUME Books \in BookSet, NEW s \in InProgress, NEW d \in Deals, d.amount <= s.coins[d.by]
  PROVE  PayDeal(s, d) \in InProgress
<1> DEFINE fee == FeeFor(d.amount)
           net == d.amount - fee
           first == Carried(s.coins, d.by, d.to, net)
           moved == Carried(first, d.by, Accrued, fee)
           t == [s EXCEPT !.coins = moved]
           by == d.by
           to == d.to
           w == [payer |-> by, payee |-> to, amount |-> net]
           credit == Credit(s.credited, to, net)
           list == Append(s.revenue, w)
           brought == More(s.paid, by, to, net)
           u == [t EXCEPT !.credited = credit, !.revenue = list, !.paid = brought]
<1>1. by \in Holder /\ to \in Holder /\ d.amount \in Nat
  BY TreasuryAssumption
<1>2. by \in Purse \ {Pool} /\ to \in Purse \ {Pool} /\ Accrued \in Purse \ {Pool}
  BY <1>1, Purses
<1>3. fee \in Nat /\ net \in Nat /\ net + fee = d.amount
  BY <1>1, FeeWithin
<1>4. s.coins \in Hoards /\ s.coins[by] \in Nat
  BY <1>2 DEF InProgress, BookSet, Hoards
<1>5. net <= s.coins[by] /\ fee <= s.coins[by] - net
  BY <1>3, <1>4
<1>6. first \in Hoards /\ first[by] >= s.coins[by] - net /\ first[by] \in Nat
  <2>1. first \in Hoards /\ first[by] >= s.coins[by] - net
    BY <1>2, <1>3, <1>4, <1>5, CarriedKeeps
  <2> HIDE DEF first
  <2> QED BY <1>2, <2>1 DEF Hoards
<1>7. fee <= first[by]
  <2> HIDE DEF first, fee, net
  <2> QED BY <1>3, <1>4, <1>5, <1>6
<1>8. [s EXCEPT !.coins = first] \in InProgress
  BY <1>2, <1>3, <1>5, HandedOver
<1>9. t \in InProgress
  <2> DEFINE r == [s EXCEPT !.coins = first]
  <2>1. r.coins = first /\ [r EXCEPT !.coins = moved] = t
    BY DEF InProgress, BookSet
  <2> HIDE DEF first, fee, net, moved, r, t
  <2>2. r \in InProgress /\ fee <= r.coins[by]
    BY <1>7, <1>8, <2>1 DEF r
  <2>3. [r EXCEPT !.coins = Carried(r.coins, by, Accrued, fee)] \in InProgress
    BY <1>2, <1>3, <2>2, HandedOver
  <2> QED BY <2>1, <2>3 DEF moved
<1>10. PayDeal(s, d) = IF net = 0 THEN t ELSE u
  <2>1. t.credited = s.credited /\ t.revenue = s.revenue /\ t.paid = s.paid
    BY DEF InProgress, BookSet
  <2>2. t = Moves(Moves(s, by, to, net), by, Accrued, fee)
    BY DEF Moves, InProgress, BookSet
  <2> HIDE DEF t, fee
  <2>3. PayDeal(s, d) = IF net = 0 THEN t
          ELSE [t EXCEPT !.credited = Credit(t.credited, to, net),
                         !.revenue = Append(t.revenue, w),
                         !.paid = More(t.paid, by, to, net)]
    BY <2>2 DEF PayDeal, fee
  <2> QED BY <2>1, <2>3
<1>11. t \in BookSet /\ Closed(t) /\ GrantsOnly(t) /\ Receipted(t)
  BY <1>9 DEF InProgress
<1>12. /\ t.credited = s.credited /\ t.revenue = s.revenue /\ t.paid = s.paid
       /\ s.credited \in Stakes /\ s.revenue \in Seq(Paying) /\ s.paid \in [Holder -> Receipts]
  BY DEF InProgress, BookSet
<1> HIDE DEF fee, net, moved, first, t
<1>13. w \in Paying /\ w.payer = by /\ w.payee = to /\ w.amount = net
  BY <1>1, <1>3 DEF Paying
<1> HIDE DEF w
<1>14. list \in Seq(Paying)
  BY <1>12, <1>13
<1>15. credit \in Stakes
  BY <1>1, <1>3, <1>12 DEF Stakes, Credit
<1>16. /\ brought \in [Holder -> Receipts]
       /\ brought[to] = [coins |-> s.paid[to].coins + net, payments |-> s.paid[to].payments + 1,
                         payers |-> s.paid[to].payers \cup {by}]
       /\ \A h \in Holder : h # to => brought[h] = s.paid[h]
  <2> DEFINE r == [coins |-> s.paid[to].coins + net, payments |-> s.paid[to].payments + 1,
                   payers |-> s.paid[to].payers \cup {by}]
  <2>1. r \in Receipts
    BY <1>1, <1>3, <1>12 DEF Receipts
  <2>2. brought = [s.paid EXCEPT ![to] = r]
    BY DEF More
  <2> HIDE DEF r, brought
  <2>3. brought \in [Holder -> Receipts] /\ brought[to] = r /\ \A h \in Holder : h # to => brought[h] = s.paid[h]
    BY <1>1, <1>12, <2>1, <2>2
  <2> QED BY <2>3 DEF r
<1> HIDE DEF credit, list, brought, by, to
<1>17. /\ u \in BookSet /\ u.coins = t.coins /\ u.bonds = t.bonds /\ u.granted = t.granted
       /\ u.revenue = list /\ u.paid = brought
  BY <1>11, <1>14, <1>15, <1>16 DEF BookSet
<1> HIDE DEF u
<1>18. Closed(u) /\ GrantsOnly(u)
  BY <1>11, <1>17 DEF Closed, GrantsOnly
<1>19. Receipted(u)
  <2> SUFFICES ASSUME NEW h \in Holder
               PROVE  /\ brought[h].coins = paid[h].coins + Received(h, list)
                      /\ brought[h].payments = paid[h].payments + Cardinality(PaymentsTo(h, list))
                      /\ brought[h].payers = paid[h].payers \cup PayersOf(h, list)
    BY <1>17 DEF Receipted
  <2>1. /\ s.paid[h].coins = paid[h].coins + Received(h, s.revenue)
        /\ s.paid[h].payments = paid[h].payments + Cardinality(PaymentsTo(h, s.revenue))
        /\ s.paid[h].payers = paid[h].payers \cup PayersOf(h, s.revenue)
    BY <1>11, <1>12 DEF Receipted
  <2>2. list = Append(s.revenue, w)
    BY DEF list
  <2>3. CASE h # to
    BY <1>12, <1>13, <1>16, <2>1, <2>2, <2>3, OnePayment
  <2>4. CASE h = to
    <3>1. /\ Received(h, list) = Received(h, s.revenue) + net
          /\ Cardinality(PaymentsTo(h, list)) = Cardinality(PaymentsTo(h, s.revenue)) + 1
          /\ PayersOf(h, list) = PayersOf(h, s.revenue) \cup {by}
          /\ Received(h, s.revenue) \in Nat /\ Cardinality(PaymentsTo(h, s.revenue)) \in Nat
      BY <1>12, <1>13, <2>2, <2>4, OnePayment
    <3> DEFINE m == s.paid[h].coins
               m0 == paid[h].coins
               r == Received(h, s.revenue)
               k == s.paid[h].payments
               k0 == paid[h].payments
               q == Cardinality(PaymentsTo(h, s.revenue))
    <3>2. m0 \in Nat /\ k0 \in Nat
      BY DEF Receipts, Books, BookSet
    <3>3. /\ brought[h].coins = m + net /\ brought[h].payments = k + 1
          /\ brought[h].payers = s.paid[h].payers \cup {by}
      BY <1>16, <2>4
    <3>4. m = m0 + r /\ k = k0 + q
      BY <2>1
    <3>5. brought[h].payers = paid[h].payers \cup PayersOf(h, list)
      BY <2>1, <3>1, <3>3
    <3>6. brought[h].coins = m0 + (r + net)
      <4> HIDE DEF m, m0, r
      <4> QED BY <1>3, <3>1, <3>2, <3>3, <3>4 DEF r
    <3>7. brought[h].payments = k0 + (q + 1)
      <4> HIDE DEF k, k0, q
      <4> QED BY <3>1, <3>2, <3>3, <3>4 DEF q
    <3> QED BY <3>1, <3>5, <3>6, <3>7
  <2> QED BY <2>3, <2>4
<1>20. u \in InProgress
  BY <1>17, <1>18, <1>19 DEF InProgress
<1> QED BY <1>9, <1>10, <1>20 DEF u, t, by, to, credit, list, brought, w

LEMMA DealKept ==
  ASSUME Books \in BookSet, NEW s \in InProgress, NEW d \in Deals
  PROVE  ApplyDeal(s, d) \in InProgress
<1> DEFINE c == Carried(s.coins, Pool, Founder, Grant)
           n == s.granted + 1
           g == [s EXCEPT !.coins = c, !.granted = n]
           lower == Debit(s.coins, d.by, d.amount)
           higher == Credit(s.bonds, d.by, d.amount)
           b == [s EXCEPT !.coins = lower, !.bonds = higher]
           r == [s EXCEPT !.maintainer = d.to]
<1>1. d.op \in Operation /\ d.by \in Holder /\ d.to \in Holder /\ d.amount \in Nat /\ Founder \in Holder
  BY TreasuryAssumption
<1>2. s \in BookSet /\ s.coins \in Hoards /\ s.bonds \in Stakes /\ s.granted \in Nat
      /\ Closed(s) /\ GrantsOnly(s) /\ Receipted(s)
  BY DEF InProgress, BookSet
<1>3. CASE d.op = "rotate"
  <2>1. ApplyDeal(s, d) = r
    BY <1>3 DEF ApplyDeal
  <2>2. r \in BookSet /\ r.coins = s.coins /\ r.bonds = s.bonds /\ r.granted = s.granted
        /\ r.revenue = s.revenue /\ r.paid = s.paid
    BY <1>1, <1>2 DEF BookSet
  <2> HIDE DEF r
  <2> QED BY <1>2, <2>1, <2>2 DEF InProgress, Closed, GrantsOnly, Receipted
<1>4. CASE d.op = "grant"
  <2>1. ApplyDeal(s, d) = GrantDeal(s, d)
    BY <1>4 DEF ApplyDeal
  <2>2. CASE s.coins[Pool] >= Grant
    <3>1. s.coins[Pool] \in Nat /\ Grant \in Nat /\ Founder \in Purse /\ Pool \in Purse /\ Pool # Founder
      BY <1>1, <1>2, Purses DEF Hoards
    <3>2. /\ c \in Hoards /\ Total(c, Purse) = Total(s.coins, Purse)
          /\ c[Pool] = s.coins[Pool] - Grant
      BY <1>2, <2>2, <3>1, CarriedKeeps
    <3> HIDE DEF c
    <3>3. n \in Nat /\ n * Grant = s.granted * Grant + Grant
      <4> DEFINE m == s.granted
      <4>1. m \in Nat
        BY <1>2
      <4> HIDE DEF m
      <4>2. (m + 1) * Grant = m * Grant + Grant
        BY <3>1, <4>1, Z3
      <4> QED BY <4>1, <4>2 DEF m
    <3> HIDE DEF n
    <3>4. /\ g \in BookSet /\ g.coins = c /\ g.bonds = s.bonds /\ g.granted = n
          /\ g.revenue = s.revenue /\ g.paid = s.paid
      BY <1>2, <3>2, <3>3 DEF BookSet
    <3> HIDE DEF g
    <3>5. Closed(g) /\ Receipted(g)
      BY <1>2, <3>2, <3>4 DEF Closed, Receipted
    <3>6. GrantsOnly(g)
      <4> DEFINE p == s.coins[Pool]
                 q == s.granted * Grant
      <4>1. p \in Nat /\ q \in Nat
        BY <1>2, <3>1
      <4>2. g.coins[Pool] + g.granted * Grant = (p - Grant) + (q + Grant)
        BY <3>2, <3>3, <3>4
      <4>3. coins[Pool] + granted * Grant = p + q
        BY <1>2 DEF GrantsOnly
      <4> HIDE DEF p, q
      <4>4. (p - Grant) + (q + Grant) = p + q
        BY <3>1, <4>1
      <4> QED BY <4>2, <4>3, <4>4 DEF GrantsOnly
    <3>7. g \in InProgress
      BY <3>4, <3>5, <3>6 DEF InProgress
    <3>8. GrantDeal(s, d) \in {s, g}
      BY DEF GrantDeal, Moves, g, c, n, InProgress, BookSet
    <3> QED BY <2>1, <3>7, <3>8
  <2>3. CASE ~(s.coins[Pool] >= Grant)
    BY <2>1, <2>3 DEF GrantDeal
  <2> QED BY <2>2, <2>3
<1>5. CASE d.op \in {"add", "remove", "slash"}
  BY <1>5 DEF ApplyDeal
<1>6. CASE d.op \in {"bond", "odd", "pay"} /\ ~(s.coins[d.by] >= d.amount)
  BY <1>6 DEF ApplyDeal
<1>7. s.coins[d.by] \in Nat /\ s.bonds[d.by] \in Nat /\ d.by \in Purse /\ d.by # Pool
  BY <1>1, <1>2, Purses DEF Hoards, Stakes
<1>8. CASE d.op = "bond" /\ s.coins[d.by] >= d.amount
  <2>1. ApplyDeal(s, d) = b
    BY <1>8 DEF ApplyDeal, SpendDeal
  <2>2. d.amount <= s.coins[d.by]
    BY <1>1, <1>7, <1>8
  <2>3. /\ lower \in Hoards /\ higher \in Stakes /\ lower[Pool] = s.coins[Pool]
        /\ lower[d.by] = s.coins[d.by] - d.amount /\ higher[d.by] = s.bonds[d.by] + d.amount
    BY <1>1, <1>2, <1>7, <2>2, Purses DEF Hoards, Stakes, Debit, Credit
  <2>4. /\ \A z \in Purse \ {d.by} : lower[z] = s.coins[z]
        /\ \A z \in Holder \ {d.by} : higher[z] = s.bonds[z]
    BY <1>2 DEF Hoards, Stakes, Debit, Credit
  <2> DEFINE w == Total(s.coins, Purse)
             v == Total(s.bonds, Holder)
             x == s.coins[d.by]
             y == s.bonds[d.by]
             a == d.amount
  <2>5. w \in Nat /\ v \in Nat /\ x \in Nat /\ y \in Nat /\ a \in Nat
    BY <1>1, <1>2, <1>7, HoardsCount, StakesCount
  <2> HIDE DEF lower, higher
  <2>6. Total(lower, Purse) = (w - x) + lower[d.by]
    <3>1. Counts(s.coins, Purse) /\ lower[d.by] \in Nat
      BY <1>2, <1>7, <2>3, HoardsCount DEF Hoards
    <3> QED BY <1>7, <2>4, <3>1, TotalEdit
  <2>7. Total(higher, Holder) = (v - y) + higher[d.by]
    <3>1. Counts(s.bonds, Holder) /\ higher[d.by] \in Nat
      BY <1>1, <1>2, <2>3, StakesCount DEF Stakes
    <3> QED BY <1>1, <2>4, <3>1, TotalEdit
  <2>8. lower[d.by] = x - a /\ higher[d.by] = y + a
    BY <2>3
  <2>9. Total(lower, Purse) + Total(higher, Holder) = w + v
    <3> HIDE DEF w, v, x, y, a
    <3> QED BY <2>5, <2>6, <2>7, <2>8
  <2>10. /\ b \in BookSet /\ b.coins = lower /\ b.bonds = higher /\ b.granted = s.granted
         /\ b.revenue = s.revenue /\ b.paid = s.paid
    BY <1>2, <2>3 DEF BookSet
  <2> HIDE DEF b
  <2>11. Closed(b)
    BY <1>2, <2>9, <2>10 DEF Closed
  <2>12. GrantsOnly(b) /\ Receipted(b)
    BY <1>2, <2>3, <2>10 DEF GrantsOnly, Receipted
  <2> QED BY <2>1, <2>10, <2>11, <2>12 DEF InProgress
<1>9. CASE d.op = "odd" /\ s.coins[d.by] >= d.amount
  <2>1. ApplyDeal(s, d) = [s EXCEPT !.coins = Carried(s.coins, d.by, Odd, d.amount)]
    BY <1>9 DEF ApplyDeal, SpendDeal, Moves
  <2>2. d.amount <= s.coins[d.by] /\ Odd \in Purse \ {Pool} /\ d.by \in Purse \ {Pool}
    BY <1>1, <1>7, <1>9, Purses
  <2> QED BY <1>1, <2>1, <2>2, HandedOver
<1>10. CASE d.op = "pay" /\ s.coins[d.by] >= d.amount
  <2>1. ApplyDeal(s, d) = PayDeal(s, d)
    BY <1>10 DEF ApplyDeal, SpendDeal
  <2>2. d.amount <= s.coins[d.by]
    BY <1>1, <1>7, <1>10
  <2> QED BY <2>1, <2>2, PaymentKept
<1> QED BY <1>1, <1>3, <1>4, <1>5, <1>6, <1>8, <1>9, <1>10 DEF Operation

\* Before the block, nothing has been brought yet.
LEMMA BooksOpen ==
  ASSUME Books \in BookSet, Whole(coins) + Whole(bonds) = Supply
  PROVE  Books \in InProgress
<1>1. /\ Books.coins = coins /\ Books.bonds = bonds /\ Books.granted = granted
      /\ Books.revenue = <<>> /\ Books.paid = paid
  BY DEF Books
<1>2. coins \in Hoards /\ bonds \in Stakes /\ paid \in [Holder -> Receipts]
  BY <1>1 DEF BookSet
<1>3. Closed(Books)
  BY <1>1, <1>2, HoardsCount, StakesCount DEF Closed, Whole
<1>4. GrantsOnly(Books)
  BY <1>1 DEF GrantsOnly
<1>5. Receipted(Books)
  <2> SUFFICES ASSUME NEW h \in Holder
               PROVE  /\ paid[h].coins = paid[h].coins + Received(h, <<>>)
                      /\ paid[h].payments = paid[h].payments + Cardinality(PaymentsTo(h, <<>>))
                      /\ paid[h].payers = paid[h].payers \cup PayersOf(h, <<>>)
    BY <1>1 DEF Receipted
  <2>1. PaymentsTo(h, <<>>) = {}
    BY DEF PaymentsTo
  <2>2. PayersOf(h, <<>>) = {} /\ Received(h, <<>>) = 0 /\ Cardinality({}) = 0
    BY <2>1, TotalEmpty, FS_EmptySet DEF PayersOf, Received
  <2> DEFINE m == paid[h].coins
             k == paid[h].payments
             q == paid[h].payers
  <2>3. m \in Nat /\ k \in Nat
    BY <1>2 DEF Receipts
  <2> HIDE DEF m, k, q
  <2>4. m = m + 0 /\ k = k + 0 /\ q = q \cup {}
    BY <2>3
  <2> QED BY <2>1, <2>2, <2>4 DEF m, k, q
<1> QED BY <1>3, <1>4, <1>5 DEF InProgress

\* The books after each deal of a block are books in progress.
LEMMA AfterDealsKept ==
  ASSUME Books \in InProgress, NEW ds \in Seq(Deals)
  PROVE  AfterDeals(ds)[Len(ds)] \in InProgress
<1> DEFINE L == Len(ds)
           F == [p \in (1 .. L) \X InProgress |-> ApplyDeal(p[2], ds[p[1]])]
           Rec(g) == [i \in 0 .. L |-> IF i = 0 THEN Books ELSE ApplyDeal(g[i - 1], ds[i])]
           h == AfterDeals(ds)
<1>1. L \in Nat /\ \A i \in 1 .. L : ds[i] \in Deals
  OBVIOUS
<1>2. F \in [(1 .. L) \X InProgress -> InProgress]
  <2>1. Books \in BookSet
    BY DEF InProgress
  <2> QED BY <1>1, <2>1, DealKept
<1>3. \A i \in 1 .. L : \A x \in InProgress : F[<<i, x>>] = ApplyDeal(x, ds[i])
  OBVIOUS
<1>4. h = CHOOSE g : g = Rec(g)
  BY DEF AfterDeals
<1> HIDE DEF F, L
<1>a. StepType(F, L, InProgress, Books)
  BY <1>1, <1>2 DEF StepType
<1>5. PICK g \in [0 .. L -> InProgress] : Follows(g, F, L, Books)
  BY <1>a, RecursionExists
<1>6. g = Rec(g)
  <2>1. \A i \in 1 .. L : i - 1 \in 0 .. L
    BY <1>1
  <2>2. \A i \in 1 .. L : g[i] = ApplyDeal(g[i - 1], ds[i])
    BY <1>3, <1>5, <2>1 DEF Follows
  <2>3. \A i \in 0 .. L : i # 0 => i \in 1 .. L
    BY <1>1
  <2>4. \A i \in 0 .. L : g[i] = IF i = 0 THEN Books ELSE ApplyDeal(g[i - 1], ds[i])
    BY <1>5, <2>2, <2>3 DEF Follows
  <2>5. g = [i \in 0 .. L |-> g[i]]
    BY <1>5
  <2> QED BY <2>4, <2>5
<1>7. h = Rec(h)
  BY <1>4, <1>6
<1> HIDE DEF h
<1>8. h[0] = Books /\ \A i \in 1 .. L : h[i] = ApplyDeal(h[i - 1], ds[i])
  <2>1. \A i \in 0 .. L : h[i] = Rec(h)[i]
    BY <1>7
  <2>2. \A i \in 0 .. L : h[i] = IF i = 0 THEN Books ELSE ApplyDeal(h[i - 1], ds[i])
    BY <2>1
  <2>3. 0 \in 0 .. L /\ \A i \in 1 .. L : i \in 0 .. L /\ i # 0
    BY <1>1
  <2> QED BY <2>2, <2>3
<1>9. FollowsIn(h, F, L, InProgress, Books)
  BY <1>3, <1>8 DEF FollowsIn
<1>10. StaysIn(h, L, InProgress)
  BY <1>a, <1>9, RecursionTyped
<1>11. L \in 0 .. L
  BY <1>1
<1> QED BY <1>10, <1>11 DEF h, L, StaysIn

\* An account shares what it has among holders.
LEMMA SharedOut ==
  ASSUME NEW c \in Hoards, NEW x \in Purse \ Holder, NEW E \in SUBSET Holder, NEW share,
         Counts(share, E), Total(share, E) <= c[x], NEW r,
         r = [a \in Purse |-> IF a = x THEN c[x] - Total(share, E)
                              ELSE IF a \in E THEN c[a] + share[a] ELSE c[a]]
  PROVE  r \in Hoards /\ Total(r, Purse) = Total(c, Purse)
<1> DEFINE k == Total(share, E)
           low == [a \in Purse |-> IF a = x THEN c[x] - k ELSE c[a]]
           more == [a \in Purse |-> IF a \in E THEN share[a] ELSE 0]
           m == c[x]
           t == Total(c, Purse)
<1>1. k \in Nat /\ m \in Nat /\ m - k \in Nat /\ t \in Nat /\ Counts(c, Purse)
  BY TotalType, HoardsCount DEF Hoards
<1>2. E \subseteq Purse /\ x \notin E /\ \A a \in E : share[a] \in Nat
  BY Purses DEF Counts
<1>3. low[x] = m - k /\ \A a \in Purse \ {x} : low[a] = c[a]
  OBVIOUS
<1>4. Counts(more, Purse) /\ (\A a \in E : share[a] = more[a]) /\ \A a \in Purse \ E : more[a] = 0
  BY <1>2, Purses DEF Counts
<1>5. \A a \in Purse : r[a] = low[a] + more[a]
  <2> SUFFICES ASSUME NEW a \in Purse PROVE r[a] = low[a] + more[a]
    OBVIOUS
  <2> DEFINE ca == c[a]
  <2>1. ca \in Nat
    BY DEF Hoards
  <2>2. CASE a = x
    <3>1. r[a] = m - k /\ low[a] = m - k /\ more[a] = 0
      BY <1>2, <2>2
    <3> HIDE DEF m, k, low, more
    <3> QED BY <1>1, <3>1
  <2>3. CASE a # x /\ a \in E
    BY <2>3
  <2>4. CASE a # x /\ a \notin E
    <3>1. r[a] = ca /\ low[a] = ca /\ more[a] = 0
      BY <2>4
    <3> HIDE DEF ca, low, more
    <3> QED BY <2>1, <3>1
  <2> QED BY <2>2, <2>3, <2>4
<1> HIDE DEF low, more
<1>6. Total(low, Purse) = (t - m) + (m - k) /\ Counts(low, Purse)
  <2>1. low[x] \in Nat
    BY <1>1, <1>3
  <2>2. Total(low, Purse) = (Total(c, Purse) - c[x]) + low[x] /\ Counts(low, Purse)
    BY <1>1, <1>3, <2>1, TotalEdit
  <2> HIDE DEF k
  <2> QED BY <1>3, <2>2
<1>7. Total(more, Purse) = k
  <2>1. Total(more, Purse) = Total(more, E)
    BY <1>2, <1>4, TotalWithin
  <2>2. Total(more, E) = k
    BY <1>4, TotalSame
  <2> QED BY <2>1, <2>2
<1>8. Total(r, Purse) = Total(low, Purse) + Total(more, Purse) /\ Counts(r, Purse)
  BY <1>4, <1>5, <1>6, TotalPlus
<1>9. r \in Hoards
  <2>1. r = [a \in Purse |-> r[a]]
    OBVIOUS
  <2> QED BY <1>8, <2>1 DEF Counts, Hoards
<1>10. ((t - m) + (m - k)) + k = t
  <2> HIDE DEF t, m, k
  <2> QED BY <1>1
<1> QED BY <1>6, <1>7, <1>8, <1>9, <1>10

\* The fees of a block are paid out of the accrual account, whole.
LEMMA FeesKept ==
  ASSUME NEW s \in InProgress
  PROVE  FeesPaid(s) \in InProgress
<1> DEFINE accrued == s.coins[Accrued]
           taken == MaintainerShare(accrued)
           rest == accrued - taken
           share == [h \in Holder |-> ValidatorShare(rest, Weight[h], Whole(Weight))]
           k == Total(share, Holder)
           m == s.maintainer
           c == Carried(s.coins, Accrued, m, taken)
           after == [a \in Purse |-> CASE a = Accrued -> rest - Whole(share)
                                       [] a \in Holder -> s.coins[a] + share[a]
                                       [] OTHER -> s.coins[a]]
           r == [a \in Purse |-> IF a = Accrued THEN c[Accrued] - k
                                 ELSE IF a \in Holder THEN c[a] + share[a] ELSE c[a]]
           u == [s EXCEPT !.coins = r]
<1>1. /\ s \in BookSet /\ s.coins \in Hoards /\ m \in Holder
      /\ Closed(s) /\ GrantsOnly(s) /\ Receipted(s)
  BY DEF InProgress, BookSet
<1>2. Accrued \in Purse \ Holder /\ m \in Purse /\ m # Accrued /\ Pool \in Purse /\ Pool # Accrued
      /\ Pool \notin Holder /\ m # Pool /\ Holder \subseteq Purse
  BY <1>1, Purses
<1>3. accrued \in Nat /\ taken \in Nat /\ taken <= accrued /\ rest \in Nat
  <2>1. accrued \in Nat
    BY <1>2, <1>1 DEF Hoards
  <2> HIDE DEF accrued
  <2>2. taken \in 0 .. accrued
    BY <2>1, FeeWithin
  <2> HIDE DEF taken
  <2> QED BY <2>1, <2>2
<1>4. Counts(share, Holder) /\ k \in 0 .. rest /\ Whole(share) = k
  <2>1. Weight \in [Holder -> Nat] /\ Counts(Weight, Holder) /\ Whole(Weight) = Total(Weight, Holder)
    BY TreasuryAssumption DEF Counts, Whole
  <2>2. Holder # {} => Total(Weight, Holder) > 0
    <3>1. PICK h \in Holder : Weight[h] > 0
      BY TreasuryAssumption
    <3> DEFINE t == Total(Weight, Holder)
               o == Total(Weight, Holder \ {h})
               w == Weight[h]
    <3>2. t = o + w /\ o \in Nat /\ w \in Nat
      BY <2>1, TotalRemove
    <3> HIDE DEF t, o, w
    <3>3. t > 0
      BY <3>1, <3>2 DEF w
    <3> QED BY <3>3 DEF t
  <2>3. \A h \in Holder : share[h] = (Weight[h] * rest) \div Total(Weight, Holder)
    BY <2>1 DEF ValidatorShare
  <2>4. DOMAIN share = Holder
    OBVIOUS
  <2> HIDE DEF share, rest
  <2> QED BY <1>3, <2>1, <2>2, <2>3, <2>4, Apportioned DEF Whole
<1>5. /\ c \in Hoards /\ Total(c, Purse) = Total(s.coins, Purse)
      /\ c[Accrued] = rest /\ c[m] = s.coins[m] + taken
      /\ \A z \in Purse : z # Accrued /\ z # m => c[z] = s.coins[z]
  <2>1. Accrued \in Purse /\ s.coins[Accrued] = accrued
    BY <1>2
  <2> HIDE DEF taken, accrued, c
  <2>2. /\ c \in Hoards /\ Total(c, Purse) = Total(s.coins, Purse)
        /\ c[Accrued] = s.coins[Accrued] - taken /\ c[m] = s.coins[m] + taken
        /\ \A z \in Purse : z # Accrued /\ z # m => c[z] = s.coins[z]
    BY <1>1, <1>2, <1>3, <2>1, CarriedKeeps DEF c
  <2> QED BY <2>1, <2>2
<1>6. FeesPaid(s) = u
  <2>1. FeesPaid(s) = [s EXCEPT !.coins = [after EXCEPT ![m] = after[m] + taken]]
    BY DEF FeesPaid
  <2>2. [after EXCEPT ![m] = after[m] + taken] = r
    <3> DEFINE e == [after EXCEPT ![m] = after[m] + taken]
    <3>1. e = [a \in Purse |-> e[a]] /\ r = [a \in Purse |-> r[a]]
      OBVIOUS
    <3>2. ASSUME NEW a \in Purse PROVE e[a] = r[a]
      <4>1. CASE a = Accrued
        BY <1>2, <1>4, <1>5, <4>1
      <4>2. CASE a = m
        <5> DEFINE x == s.coins[m]
                   y == share[m]
        <5>1. x \in Nat /\ y \in Nat
          BY <1>1, <1>2, <1>4 DEF Hoards, Counts
        <5>2. e[a] = (x + y) + taken
          BY <1>1, <1>2, <4>2
        <5>3. r[a] = (x + taken) + y
          BY <1>1, <1>2, <1>5, <4>2
        <5> HIDE DEF x, y, taken, e, r
        <5> QED BY <1>3, <5>1, <5>2, <5>3
      <4>3. CASE a # Accrued /\ a # m /\ a \in Holder
        BY <1>5, <4>3
      <4>4. CASE a # Accrued /\ a # m /\ a \notin Holder
        BY <1>5, <4>4
      <4> QED BY <4>1, <4>2, <4>3, <4>4
    <3> HIDE DEF e, r
    <3> QED BY <3>1, <3>2 DEF e
  <2> QED BY <2>1, <2>2
<1>7. r \in Hoards /\ Total(r, Purse) = Total(c, Purse) /\ r[Pool] = c[Pool]
  <2>1. r[Pool] = c[Pool]
    BY <1>2
  <2>2. r = [a \in Purse |-> IF a = Accrued THEN c[Accrued] - k
                             ELSE IF a \in Holder THEN c[a] + share[a] ELSE c[a]]
    OBVIOUS
  <2>3. k <= c[Accrued]
    BY <1>4, <1>5
  <2> HIDE DEF r, share, c
  <2> QED BY <1>2, <1>4, <1>5, <2>1, <2>2, <2>3, SharedOut
<1>8. c[Pool] = s.coins[Pool]
  BY <1>2, <1>5
<1> HIDE DEF r, c
<1>9. /\ u \in BookSet /\ u.coins = r /\ u.bonds = s.bonds /\ u.granted = s.granted
      /\ u.revenue = s.revenue /\ u.paid = s.paid
  BY <1>1, <1>7 DEF BookSet
<1> HIDE DEF u
<1>10. Closed(u) /\ GrantsOnly(u) /\ Receipted(u)
  BY <1>1, <1>5, <1>7, <1>8, <1>9 DEF Closed, GrantsOnly, Receipted
<1> QED BY <1>6, <1>9, <1>10 DEF InProgress

LEMMA EmissionCounts ==
  ASSUME NEW h \in Nat
  PROVE  EmissionFor(h) \in Nat
<1> DEFINE n == h \div HalfLife
           F == [p \in (1 .. n) \X Nat |-> p[2] \div 2]
           Rec(g) == [k \in 0 .. n |-> IF k = 0 THEN PerBlock ELSE g[k - 1] \div 2]
           f == CHOOSE g : g = Rec(g)
<1>1. n \in Nat /\ PerBlock \in Nat
  BY TreasuryAssumption, DivisionParts
<1>2. EmissionFor(h) = f[n]
  BY DEF EmissionFor
<1> HIDE DEF n
<1>3. StepType(F, n, Nat, PerBlock)
  <2>1. F \in [(1 .. n) \X Nat -> Nat]
    BY DivisionParts
  <2> HIDE DEF F
  <2> QED BY <1>1, <2>1 DEF StepType
<1>4. \A i \in 1 .. n : \A x \in Nat : F[<<i, x>>] = x \div 2
  OBVIOUS
<1> HIDE DEF F
<1>5. PICK g \in [0 .. n -> Nat] : Follows(g, F, n, PerBlock)
  BY <1>3, RecursionExists
<1>6. g = Rec(g)
  <2>1. \A i \in 1 .. n : i - 1 \in 0 .. n
    BY <1>1
  <2>2. \A i \in 1 .. n : g[i] = g[i - 1] \div 2
    BY <1>4, <1>5, <2>1 DEF Follows
  <2>3. \A i \in 0 .. n : i # 0 => i \in 1 .. n
    BY <1>1
  <2>4. \A i \in 0 .. n : g[i] = IF i = 0 THEN PerBlock ELSE g[i - 1] \div 2
    BY <1>5, <2>2, <2>3 DEF Follows
  <2>5. g = [i \in 0 .. n |-> g[i]]
    BY <1>5
  <2> QED BY <2>4, <2>5
<1>7. f = Rec(f)
  BY <1>6
<1> HIDE DEF f
<1>8. f[0] = PerBlock /\ \A i \in 1 .. n : f[i] = f[i - 1] \div 2
  <2>1. \A i \in 0 .. n : f[i] = Rec(f)[i]
    BY <1>7
  <2>2. \A i \in 0 .. n : f[i] = IF i = 0 THEN PerBlock ELSE f[i - 1] \div 2
    BY <2>1
  <2>3. 0 \in 0 .. n /\ \A i \in 1 .. n : i \in 0 .. n /\ i # 0
    BY <1>1
  <2> QED BY <2>2, <2>3
<1>9. FollowsIn(f, F, n, Nat, PerBlock)
  BY <1>4, <1>8 DEF FollowsIn
<1>10. StaysIn(f, n, Nat)
  BY <1>3, <1>9, RecursionTyped
<1> QED BY <1>1, <1>2, <1>10 DEF StaysIn

LEMMA LeastOfTwo ==
  ASSUME NEW a \in Nat, NEW b \in Nat
  PROVE  Min({a, b}) \in Nat /\ Min({a, b}) <= a /\ Min({a, b}) <= b
<1>1. \E x \in {a, b} : \A y \in {a, b} : x <= y
  OBVIOUS
<1>2. Min({a, b}) \in {a, b} /\ \A y \in {a, b} : Min({a, b}) <= y
  BY <1>1 DEF Min
<1> QED BY <1>2

\* What a block leaves: also the emission left the pool, no more than the schedule has
\* for the height.
Scheduled(s, n) == s.coins[Pool] + s.granted * Grant + EmissionFor(n) >= coins[Pool] + granted * Grant

LEMMA EmissionKept ==
  ASSUME NEW s \in InProgress, blocks \in Seq(Seq(Deals)), registry \subseteq Holder
  PROVE  /\ EmissionPaid(s) \in BookSet
         /\ Closed(EmissionPaid(s)) /\ Receipted(EmissionPaid(s))
         /\ Scheduled(EmissionPaid(s), Len(blocks))
<1> DEFINE E == {h \in registry : s.credited[h] > 0}
           weight == Total(s.credited, E)
           e == EmissionFor(Len(blocks))
           hoard == s.coins[Pool]
           budget == Min({e, hoard})
           share == [h \in E |-> (s.credited[h] * budget) \div weight]
           k == Total(share, E)
           old == s.coins
           r == [a \in Purse |-> CASE a \in E -> old[a] + share[a]
                                   [] a = Pool -> old[a] - Whole(share)
                                   [] OTHER -> old[a]]
           u == [s EXCEPT !.coins = r]
<1>1. /\ s \in BookSet /\ old \in Hoards /\ s.credited \in Stakes /\ s.granted \in Nat
      /\ Closed(s) /\ GrantsOnly(s) /\ Receipted(s)
  BY DEF InProgress, BookSet
<1>2. Pool \in Purse \ Holder /\ E \in SUBSET Holder /\ Pool \notin E
  BY Purses
<1>3. hoard \in Nat /\ e \in Nat
  <2>1. hoard \in Nat
    BY <1>1, <1>2 DEF Hoards
  <2>2. Len(blocks) \in Nat
    OBVIOUS
  <2> QED BY <2>1, <2>2, EmissionCounts
<1>4. budget \in Nat /\ budget <= e /\ budget <= hoard
  <2> HIDE DEF e, hoard
  <2> QED BY <1>3, LeastOfTwo
<1>5. Counts(s.credited, E) /\ (E # {} => weight > 0)
  <2>1. Counts(s.credited, E)
    <3>1. Counts(s.credited, Holder)
      BY <1>1, StakesCount
    <3> QED BY <1>2, <3>1, TotalParts
  <2>2. ASSUME NEW h \in E PROVE weight > 0
    <3> DEFINE o == Total(s.credited, E \ {h})
               w == s.credited[h]
    <3>1. weight = o + w /\ o \in Nat /\ w \in Nat /\ w > 0
      BY <1>1, <1>2, <2>1, TotalRemove DEF Stakes
    <3> HIDE DEF weight, o, w
    <3> QED BY <3>1
  <2> QED BY <2>1, <2>2
<1>6. Counts(share, E) /\ k \in 0 .. budget /\ Whole(share) = k
  <2>1. \A h \in E : share[h] = (s.credited[h] * budget) \div weight
    OBVIOUS
  <2>2. DOMAIN share = E
    OBVIOUS
  <2> HIDE DEF share, budget, E
  <2> QED BY <1>4, <1>5, <2>1, <2>2, Apportioned DEF Whole
<1>7. EmissionPaid(s) = u
  BY DEF EmissionPaid
<1>8. r = [a \in Purse |-> IF a = Pool THEN old[Pool] - k
                           ELSE IF a \in E THEN old[a] + share[a] ELSE old[a]]
  BY <1>2, <1>6
<1>9. r \in Hoards /\ Total(r, Purse) = Total(old, Purse) /\ r[Pool] = hoard - k
  <2>1. r[Pool] = hoard - k
    BY <1>2, <1>8
  <2>2. k <= old[Pool]
    <3>1. k <= hoard
      <4> HIDE DEF k, budget, hoard
      <4> QED BY <1>3, <1>4, <1>6
    <3> QED BY <3>1
  <2> HIDE DEF r, share, E, old
  <2> QED BY <1>1, <1>2, <1>6, <1>8, <2>1, <2>2, SharedOut
<1> HIDE DEF r
<1>10. /\ u \in BookSet /\ u.coins = r /\ u.bonds = s.bonds /\ u.granted = s.granted
       /\ u.revenue = s.revenue /\ u.paid = s.paid
  BY <1>1, <1>9 DEF BookSet
<1> HIDE DEF u
<1>11. Closed(u) /\ Receipted(u)
  BY <1>1, <1>9, <1>10 DEF Closed, Receipted
<1>12. Scheduled(u, Len(blocks))
  <2> DEFINE q == s.granted * Grant
             p == u.coins[Pool]
  <2>1. q \in Nat
    BY <1>1, Purses
  <2>2. p = hoard - k /\ k \in Nat /\ k <= e
    <3>1. k \in Nat /\ k <= e
      <4> HIDE DEF k, budget, e
      <4> QED BY <1>3, <1>4, <1>6
    <3> QED BY <1>9, <1>10, <3>1
  <2>3. coins[Pool] + granted * Grant = hoard + q
    BY <1>1 DEF GrantsOnly
  <2>4. u.granted * Grant = q
    BY <1>10
  <2> HIDE DEF q, p, hoard, k, e
  <2>5. (p + q) + e >= hoard + q
    BY <1>3, <2>1, <2>2
  <2> QED BY <2>3, <2>4, <2>5 DEF Scheduled, p, e
<1> QED BY <1>7, <1>10, <1>11, <1>12

-----------------------------------------------------------------------------
(* The treasury: the inductive invariant. *)

Tallies == [received : Nat, payments : Nat, payers : Nat, first : Nat, last : Nat]

LedgerTyped ==
  /\ coins \in Hoards /\ bonds \in Stakes /\ opening \in Nat /\ granted \in Nat
  /\ maintainer \in Holder /\ registry \subseteq Holder /\ slashes \subseteq Holder
  /\ blocks \in Seq(Seq(Deals))

RecordsTyped ==
  /\ tally \in [Holder -> Tallies] /\ payerPairs \subseteq Holder \X Holder
  /\ stage \in {"idle", "record", "advance"} /\ (stage # "idle" => blocks # <<>>)
  /\ revenue \in Seq(Paying) /\ paid \in [Holder -> Receipts] /\ outages \in Nat

\* What the schedule has emitted below a height.
Emitted(n) == Whole([i \in 0 .. n - 1 |-> EmissionFor(i)])

SupplyKept == Whole(coins) + Whole(bonds) = Supply
PoolKept == coins[Pool] + granted * Grant + Emitted(Len(blocks)) >= opening

\* The payments the tally is yet to hear of.
Owed == IF stage = "record" THEN revenue ELSE <<>>

\* The tally e of an account h that was seen to be paid by some, together with the payments
\* owed to it, is no more than the p that happened; the payers it counts are those seen.
Fits(e, seen, h, owed, p) ==
  /\ e.received + Received(h, owed) <= p.coins
  /\ e.payments + Cardinality(PaymentsTo(h, owed)) <= p.payments
  /\ seen \cup PayersOf(h, owed) \subseteq p.payers
  /\ e.payers = Cardinality(seen)

\* Nothing is missing from it.
Exact(e, seen, h, owed, p) ==
  /\ e.received + Received(h, owed) = p.coins
  /\ e.payments + Cardinality(PaymentsTo(h, owed)) = p.payments
  /\ seen \cup PayersOf(h, owed) = p.payers

TallyFits == \A h \in Holder : Fits(tally[h], Seen(h), h, Owed, paid[h])
TallyExact == \A h \in Holder : Exact(tally[h], Seen(h), h, Owed, paid[h])

TreasuryInv ==
  LedgerTyped /\ RecordsTyped /\ SupplyKept /\ PoolKept /\ TallyFits /\ (outages = 0 => TallyExact)

LEMMA NothingReceived ==
  ASSUME NEW h
  PROVE  /\ PaymentsTo(h, <<>>) = {} /\ Cardinality(PaymentsTo(h, <<>>)) = 0
         /\ PayersOf(h, <<>>) = {} /\ Received(h, <<>>) = 0
<1>1. PaymentsTo(h, <<>>) = {}
  BY DEF PaymentsTo
<1>2. PayersOf(h, <<>>) = {} /\ Received(h, <<>>) = 0 /\ Cardinality({}) = 0
  BY <1>1, TotalEmpty, FS_EmptySet DEF PayersOf, Received
<1> QED BY <1>1, <1>2

LEMMA SomeReceived ==
  ASSUME NEW ps \in Seq(Paying), NEW h \in Holder
  PROVE  /\ Received(h, ps) \in Nat /\ Cardinality(PaymentsTo(h, ps)) \in Nat
         /\ PayersOf(h, ps) \subseteq Holder
<1> DEFINE n == Len(ps)
           S == PaymentsTo(h, ps)
           f == [i \in DOMAIN ps |-> ps[i].amount]
<1>1. n \in Nat /\ DOMAIN ps = 1 .. n /\ \A i \in 1 .. n : ps[i] \in Paying
  OBVIOUS
<1>2. S \subseteq 1 .. n
  BY <1>1 DEF PaymentsTo
<1>3. IsFiniteSet(S)
  <2>1. IsFiniteSet(1 .. n)
    BY <1>1, FS_Interval
  <2> HIDE DEF S
  <2> QED BY <1>2, <2>1, FS_Subset
<1>4. Counts(f, S)
  BY <1>1, <1>2, <1>3 DEF Counts, Paying
<1>5. Received(h, ps) = Total(f, S)
  BY DEF Received
<1>6. PayersOf(h, ps) \subseteq Holder
  BY <1>1, <1>2 DEF PayersOf, Paying
<1> HIDE DEF f, S
<1>7. Total(f, S) \in Nat /\ Cardinality(S) \in Nat
  BY <1>3, <1>4, TotalType, FS_CardinalityType
<1> QED BY <1>5, <1>6, <1>7 DEF S

\* A block pays: what happened grows by what is owed.
LEMMA FitsPaid ==
  ASSUME NEW e \in Tallies, NEW seen, NEW h \in Holder, NEW ps \in Seq(Paying), NEW p \in Receipts, NEW q,
         q.coins = p.coins + Received(h, ps),
         q.payments = p.payments + Cardinality(PaymentsTo(h, ps)),
         q.payers = p.payers \cup PayersOf(h, ps)
  PROVE  /\ Fits(e, seen, h, <<>>, p) => Fits(e, seen, h, ps, q)
         /\ Exact(e, seen, h, <<>>, p) => Exact(e, seen, h, ps, q)
<1> DEFINE a == Received(h, ps)
           k == Cardinality(PaymentsTo(h, ps))
           w == PayersOf(h, ps)
<1>1. a \in Nat /\ k \in Nat
  BY SomeReceived
<1>2. e.received \in Nat /\ e.payments \in Nat /\ p.coins \in Nat /\ p.payments \in Nat
  BY DEF Tallies, Receipts
<1> HIDE DEF a, k, w
<1>3. ASSUME Fits(e, seen, h, <<>>, p) PROVE Fits(e, seen, h, ps, q)
  <2>1. /\ e.received + 0 <= p.coins /\ e.payments + 0 <= p.payments
        /\ seen \cup {} \subseteq p.payers /\ e.payers = Cardinality(seen)
    BY <1>3, NothingReceived DEF Fits
  <2>2. e.received + a <= p.coins + a /\ e.payments + k <= p.payments + k
    BY <1>1, <1>2, <2>1
  <2> QED BY <2>1, <2>2 DEF Fits, a, k, w
<1>4. ASSUME Exact(e, seen, h, <<>>, p) PROVE Exact(e, seen, h, ps, q)
  <2>1. /\ e.received + 0 = p.coins /\ e.payments + 0 = p.payments /\ seen \cup {} = p.payers
    BY <1>4, NothingReceived DEF Exact
  <2>2. e.received + a = p.coins + a /\ e.payments + k = p.payments + k
    BY <1>1, <1>2, <2>1
  <2> QED BY <2>1, <2>2 DEF Exact, a, k, w
<1> QED BY <1>3, <1>4

\* A crash loses what is owed.
LEMMA FitsLost ==
  ASSUME NEW e \in Tallies, NEW seen, NEW h \in Holder, NEW ps \in Seq(Paying), NEW p \in Receipts,
         Fits(e, seen, h, ps, p)
  PROVE  Fits(e, seen, h, <<>>, p)
<1> DEFINE a == Received(h, ps)
           k == Cardinality(PaymentsTo(h, ps))
<1>1. a \in Nat /\ k \in Nat
  BY SomeReceived
<1>2. e.received \in Nat /\ e.payments \in Nat /\ p.coins \in Nat /\ p.payments \in Nat
  BY DEF Tallies, Receipts
<1>3. /\ e.received + a <= p.coins /\ e.payments + k <= p.payments
      /\ seen \subseteq p.payers /\ e.payers = Cardinality(seen)
  BY DEF Fits
<1> HIDE DEF a, k
<1>4. e.received + 0 <= p.coins /\ e.payments + 0 <= p.payments
  BY <1>1, <1>2, <1>3
<1> QED BY <1>3, <1>4, NothingReceived DEF Fits

\* The record takes over what is owed.
LEMMA FitsRecorded ==
  ASSUME NEW e \in Tallies, NEW seen \in SUBSET Holder, NEW h \in Holder, NEW ps \in Seq(Paying),
         NEW p \in Receipts, NEW f,
         f.received = e.received + Received(h, ps),
         f.payments = e.payments + Cardinality(PaymentsTo(h, ps)),
         f.payers = e.payers + Cardinality(PayersOf(h, ps) \ seen)
  PROVE  /\ Fits(e, seen, h, ps, p) => Fits(f, seen \cup PayersOf(h, ps), h, <<>>, p)
         /\ Exact(e, seen, h, ps, p) => Exact(f, seen \cup PayersOf(h, ps), h, <<>>, p)
<1> DEFINE a == Received(h, ps)
           k == Cardinality(PaymentsTo(h, ps))
           w == PayersOf(h, ps)
<1>1. a \in Nat /\ k \in Nat /\ w \subseteq Holder
  BY SomeReceived
<1>2. e.received \in Nat /\ e.payments \in Nat /\ p.coins \in Nat /\ p.payments \in Nat
  BY DEF Tallies, Receipts
<1>3. Cardinality(seen \cup w) = Cardinality(seen) + Cardinality(w \ seen)
  <2> HIDE DEF w
  <2>1. IsFiniteSet(seen) /\ IsFiniteSet(w \ seen)
    BY <1>1, Purses, FS_Subset
  <2>2. seen \cap (w \ seen) = {} /\ seen \cup (w \ seen) = seen \cup w
    OBVIOUS
  <2> DEFINE x == Cardinality(seen)
             r == w \ seen
             y == Cardinality(r)
  <2>3. x \in Nat /\ y \in Nat /\ Cardinality({}) = 0
    BY <2>1, FS_CardinalityType, FS_EmptySet
  <2> HIDE DEF x, y, r
  <2>4. Cardinality(seen \cup r) = x + y - Cardinality(seen \cap r)
    BY <2>1, FS_Union DEF x, y, r
  <2>5. seen \cap r = {} /\ seen \cup r = seen \cup w
    BY <2>2 DEF r
  <2>6. Cardinality(seen \cup w) = x + y - 0
    BY <2>3, <2>4, <2>5
  <2>7. Cardinality(seen \cup w) = x + y
    BY <2>3, <2>6
  <2> QED BY <2>7 DEF x, y, r
<1> HIDE DEF a, k, w
<1>4. f.received \in Nat /\ f.payments \in Nat /\ f.received = e.received + a /\ f.payments = e.payments + k
  BY <1>1, <1>2 DEF a, k
<1>5. f.received + 0 = e.received + a /\ f.payments + 0 = e.payments + k
  BY <1>4
<1>6. ASSUME Fits(e, seen, h, ps, p) PROVE Fits(f, seen \cup w, h, <<>>, p)
  <2>1. /\ e.received + a <= p.coins /\ e.payments + k <= p.payments
        /\ seen \cup w \subseteq p.payers /\ e.payers = Cardinality(seen)
    BY <1>6 DEF Fits, a, k, w
  <2>2. f.payers = Cardinality(seen \cup w)
    BY <1>3, <2>1 DEF w
  <2>3. (seen \cup w) \cup {} \subseteq p.payers
    BY <2>1
  <2> QED BY <1>5, <2>1, <2>2, <2>3, NothingReceived DEF Fits
<1>7. ASSUME Exact(e, seen, h, ps, p) PROVE Exact(f, seen \cup w, h, <<>>, p)
  <2>1. e.received + a = p.coins /\ e.payments + k = p.payments /\ seen \cup w = p.payers
    BY <1>7 DEF Exact, a, k, w
  <2>2. (seen \cup w) \cup {} = p.payers
    BY <2>1
  <2> QED BY <1>5, <2>1, <2>2, NothingReceived DEF Exact
<1> QED BY <1>6, <1>7 DEF w

\* One height more.
LEMMA EmittedNext ==
  ASSUME NEW n \in Nat
  PROVE  /\ Emitted(n) \in Nat /\ EmissionFor(n) \in Nat
         /\ Emitted(n + 1) = Emitted(n) + EmissionFor(n)
<1> DEFINE S == 0 .. n - 1
           f == [i \in S |-> EmissionFor(i)]
           g == [i \in 0 .. (n + 1) - 1 |-> EmissionFor(i)]
<1>1. 0 .. (n + 1) - 1 = S \cup {n} /\ n \notin S
  OBVIOUS
<1>2. IsFiniteSet(S)
  BY FS_Interval
<1>3. Counts(f, S)
  BY <1>2, EmissionCounts DEF Counts
<1>4. (\A i \in S : f[i] = g[i]) /\ g[n] = EmissionFor(n) /\ EmissionFor(n) \in Nat
  BY <1>1, EmissionCounts
<1>5. Emitted(n) = Total(f, S) /\ Emitted(n + 1) = Total(g, S \cup {n})
  BY <1>1 DEF Emitted, Whole
<1> HIDE DEF f, g, S
<1>6. Total(f, S) \in Nat /\ Total(g, S) = Total(f, S) /\ Counts(g, S)
  BY <1>3, <1>4, TotalType, TotalSame
<1>7. Total(g, S \cup {n}) = Total(g, S) + g[n]
  BY <1>1, <1>4, <1>6, TotalAdd
<1> QED BY <1>4, <1>5, <1>6, <1>7

LEMMA EmittedNothing == Emitted(0) = 0
<1>1. 0 .. 0 - 1 = {}
  OBVIOUS
<1> QED BY <1>1, TotalEmpty DEF Emitted, Whole

LEMMA NoHoard ==
  /\ [h \in Holder |-> 0] \in Stakes /\ Whole([h \in Holder |-> 0]) = 0
<1> DEFINE z == [h \in Holder |-> 0]
<1>1. z \in Stakes /\ Counts(z, Holder) /\ DOMAIN z = Holder /\ {} \in SUBSET Holder
  BY Purses DEF Stakes, Counts
<1>2. \A h \in Holder \ {} : z[h] = 0
  OBVIOUS
<1> HIDE DEF z
<1>3. Total(z, Holder) = Total(z, {})
  BY <1>1, <1>2, TotalWithin
<1> QED BY <1>1, <1>3, TotalEmpty DEF Whole, z

\* No account has been paid, and none thinks it has.
LEMMA NothingTallied ==
  ASSUME NEW h \in Holder
  PROVE  /\ NoEarnings \in Tallies /\ NotPaid \in Receipts
         /\ Fits(NoEarnings, {}, h, <<>>, NotPaid) /\ Exact(NoEarnings, {}, h, <<>>, NotPaid)
<1>1. NoEarnings \in Tallies /\ NotPaid \in Receipts
  BY DEF NoEarnings, Tallies, NotPaid, Receipts
<1>2. Cardinality({}) = 0
  BY FS_EmptySet
<1> QED BY <1>1, <1>2, NothingReceived DEF Fits, Exact, NoEarnings, NotPaid

LEMMA TreasuryInitially == TreasuryInit => TreasuryInv
<1> SUFFICES ASSUME TreasuryInit PROVE TreasuryInv
  OBVIOUS
<1> USE DEF TreasuryInit
<1>1. LedgerTyped
  <2>1. Endowment \in [Purse -> Nat] /\ Dev \in Holder
    BY TreasuryAssumption
  <2>2. Endowment[Pool] \in Nat
    BY <2>1, Purses
  <2> QED BY <2>1, <2>2, NoHoard DEF LedgerTyped, Hoards
<1>2. RecordsTyped
  <2>1. \A h \in Holder : NoEarnings \in Tallies /\ NotPaid \in Receipts
    BY NothingTallied
  <2> QED BY <2>1 DEF RecordsTyped
<1>3. SupplyKept
  <2>1. Whole(Endowment) \in Nat
    <3>1. Endowment \in Hoards
      BY TreasuryAssumption DEF Hoards
    <3> QED BY <3>1, HoardsCount DEF Whole
  <2> QED BY <2>1, NoHoard DEF SupplyKept, Supply
<1>4. PoolKept
  <2>1. Len(<<>>) = 0 /\ coins[Pool] \in Nat /\ granted * Grant = 0
    BY <1>1, Purses DEF LedgerTyped, Hoards
  <2> QED BY <2>1, EmittedNothing DEF PoolKept
<1>5. \A h \in Holder : Seen(h) = {} /\ tally[h] = NoEarnings /\ paid[h] = NotPaid
  BY DEF Seen
<1>6. Owed = <<>>
  BY DEF Owed
<1>7. TallyFits /\ TallyExact
  BY <1>5, <1>6, NothingTallied DEF TallyFits, TallyExact
<1> QED BY <1>1, <1>2, <1>3, <1>4, <1>7 DEF TreasuryInv

\* A block: its ledger changes, the fees and the emission.
LEMMA CommitKeeps ==
  ASSUME TreasuryInv, NEW ds \in Seq(Deals), CommitDeals(ds)
  PROVE  TreasuryInv'
<1> DEFINE s0 == AfterDeals(ds)[Len(ds)]
           s == EmissionPaid(FeesPaid(s0))
<1>0. LedgerTyped /\ RecordsTyped /\ SupplyKept /\ PoolKept /\ TallyFits /\ (outages = 0 => TallyExact)
  BY DEF TreasuryInv
<1>1. Books \in BookSet
  <2>1. [h \in Holder |-> 0] \in Stakes /\ <<>> \in Seq(Paying)
    BY NoHoard
  <2> QED BY <1>0, <2>1 DEF Books, BookSet, LedgerTyped, RecordsTyped
<1>2. Books \in InProgress
  BY <1>0, <1>1, BooksOpen DEF SupplyKept
<1>3. FeesPaid(s0) \in InProgress
  BY <1>2, AfterDealsKept, FeesKept
<1>4. s \in BookSet /\ Closed(s) /\ Receipted(s) /\ Scheduled(s, Len(blocks))
  BY <1>0, <1>3, EmissionKept DEF LedgerTyped
<1>5. /\ coins' = s.coins /\ bonds' = s.bonds /\ maintainer' = s.maintainer /\ granted' = s.granted
      /\ revenue' = s.revenue /\ paid' = s.paid
  BY DEF CommitDeals
<1>6. /\ blocks' = Append(blocks, ds) /\ stage = "idle" /\ stage' = "record"
      /\ opening' = opening /\ registry' = registry /\ slashes' = slashes
      /\ tally' = tally /\ payerPairs' = payerPairs /\ outages' = outages
  BY DEF CommitDeals, bookVars
<1> HIDE DEF s
<1>7. LedgerTyped'
  <2>1. s.coins \in Hoards /\ s.bonds \in Stakes /\ s.maintainer \in Holder /\ s.granted \in Nat
    BY <1>4 DEF BookSet
  <2>2. Append(blocks, ds) \in Seq(Seq(Deals))
    BY <1>0 DEF LedgerTyped
  <2> QED BY <1>0, <1>5, <1>6, <2>1, <2>2 DEF LedgerTyped, Hoards, Stakes
<1>8. RecordsTyped'
  <2>1. s.revenue \in Seq(Paying) /\ s.paid \in [Holder -> Receipts]
    BY <1>4 DEF BookSet
  <2>2. Append(blocks, ds) # <<>>
    <3>1. Len(Append(blocks, ds)) = Len(blocks) + 1 /\ Len(blocks) \in Nat /\ Len(<<>>) = 0
      BY <1>0, AppendProperties DEF LedgerTyped
    <3> QED BY <3>1
  <2> QED BY <1>0, <1>5, <1>6, <2>1, <2>2 DEF RecordsTyped
<1>9. SupplyKept'
  <2>1. s.coins \in Hoards /\ s.bonds \in Stakes
    BY <1>4 DEF BookSet
  <2>2. Whole(s.coins) + Whole(s.bonds) = Supply
    BY <1>4, <2>1, HoardsCount, StakesCount DEF Closed, Whole
  <2> QED BY <1>5, <2>2 DEF SupplyKept
<1>10. PoolKept'
  <2>1. PICK n \in Nat : n = Len(blocks) /\ Len(blocks') = n + 1
    BY <1>0, <1>6 DEF LedgerTyped
  <2> DEFINE p == s.coins[Pool]
             g == s.granted * Grant
             e == EmissionFor(n)
             m == Emitted(n)
             p0 == coins[Pool]
             g0 == granted * Grant
  <2>2. p \in Nat /\ g \in Nat /\ e \in Nat /\ m \in Nat /\ p0 \in Nat /\ g0 \in Nat /\ opening \in Nat
    <3>1. s.coins \in Hoards /\ s.granted \in Nat /\ coins \in Hoards /\ granted \in Nat /\ opening \in Nat
      BY <1>0, <1>4 DEF BookSet, LedgerTyped
    <3>2. e \in Nat /\ m \in Nat
      BY <2>1, EmittedNext
    <3>3. p \in Nat /\ p0 \in Nat
      BY <3>1, Purses DEF Hoards
    <3>4. g \in Nat /\ g0 \in Nat
      <4>1. Grant \in Nat
        BY Purses
      <4> QED BY <3>1, <4>1
    <3> HIDE DEF p, g, e, m, p0, g0
    <3> QED BY <3>1, <3>2, <3>3, <3>4
  <2>3. Emitted(n + 1) = m + e
    BY <2>1, EmittedNext
  <2>4. p + g + e >= p0 + g0
    BY <1>4, <2>1 DEF Scheduled
  <2>5. p0 + g0 + m >= opening
    BY <1>0, <2>1 DEF PoolKept
  <2>6. coins'[Pool] = p /\ granted' * Grant = g /\ Emitted(Len(blocks')) = m + e /\ opening' = opening
    BY <1>5, <1>6, <2>1, <2>3
  <2> HIDE DEF p, g, e, m, p0, g0
  <2>7. p + g + (m + e) >= opening
    BY <2>2, <2>4, <2>5
  <2> QED BY <2>6, <2>7 DEF PoolKept
<1>11. Owed = <<>> /\ Owed' = s.revenue
  BY <1>5, <1>6 DEF Owed
<1>12. \A h \in Holder : Seen(h)' = Seen(h)
  BY <1>6 DEF Seen
<1>13. ASSUME NEW h \in Holder
       PROVE  /\ Fits(tally[h], Seen(h), h, <<>>, paid[h]) => Fits(tally[h], Seen(h), h, s.revenue, s.paid[h])
              /\ Exact(tally[h], Seen(h), h, <<>>, paid[h]) => Exact(tally[h], Seen(h), h, s.revenue, s.paid[h])
  <2>1. tally[h] \in Tallies /\ paid[h] \in Receipts
    BY <1>0 DEF RecordsTyped
  <2>2. s.revenue \in Seq(Paying)
    BY <1>4 DEF BookSet
  <2>3. /\ s.paid[h].coins = paid[h].coins + Received(h, s.revenue)
        /\ s.paid[h].payments = paid[h].payments + Cardinality(PaymentsTo(h, s.revenue))
        /\ s.paid[h].payers = paid[h].payers \cup PayersOf(h, s.revenue)
    BY <1>4 DEF Receipted
  <2> QED BY <2>1, <2>2, <2>3, FitsPaid
<1>14. TallyFits'
  <2>1. \A h \in Holder : Fits(tally[h], Seen(h), h, s.revenue, s.paid[h])
    BY <1>0, <1>11, <1>13 DEF TallyFits
  <2> QED BY <1>5, <1>6, <1>11, <1>12, <2>1 DEF TallyFits
<1>15. outages' = 0 => TallyExact'
  <2> SUFFICES ASSUME outages = 0 PROVE TallyExact'
    BY <1>6
  <2>1. \A h \in Holder : Exact(tally[h], Seen(h), h, s.revenue, s.paid[h])
    BY <1>0, <1>11, <1>13 DEF TallyExact
  <2> QED BY <1>5, <1>6, <1>11, <1>12, <2>1 DEF TallyExact
<1> QED BY <1>7, <1>8, <1>9, <1>10, <1>14, <1>15 DEF TreasuryInv

LEMMA RecordKeeps ==
  ASSUME TreasuryInv, RecordEarnings
  PROVE  TreasuryInv'
<1>0. LedgerTyped /\ RecordsTyped /\ SupplyKept /\ PoolKept /\ TallyFits /\ (outages = 0 => TallyExact)
  BY DEF TreasuryInv
<1>1. /\ coins' = coins /\ bonds' = bonds /\ blocks' = blocks /\ opening' = opening
      /\ maintainer' = maintainer /\ registry' = registry /\ slashes' = slashes
      /\ granted' = granted /\ outages' = outages /\ revenue' = revenue /\ paid' = paid
      /\ stage = "record" /\ stage' = "advance"
      /\ tally' = [h \in Holder |-> Earned(h, revenue)]
      /\ payerPairs' = payerPairs \cup {<<p.payee, p.payer>> : p \in ToSet(revenue)}
  BY DEF RecordEarnings
<1>2. LedgerTyped' /\ SupplyKept' /\ PoolKept'
  BY <1>0, <1>1 DEF LedgerTyped, SupplyKept, PoolKept
<1>3. Owed = revenue /\ Owed' = <<>> /\ revenue \in Seq(Paying)
  BY <1>0, <1>1 DEF Owed, RecordsTyped
<1>4. ASSUME NEW h \in Holder
      PROVE  LET e == tally[h]
                 f == Earned(h, revenue)
             IN /\ f \in Tallies
                /\ f.received = e.received + Received(h, revenue)
                /\ f.payments = e.payments + Cardinality(PaymentsTo(h, revenue))
                /\ f.payers = e.payers + Cardinality(PayersOf(h, revenue) \ Seen(h))
  <2> DEFINE e == tally[h]
             f == Earned(h, revenue)
             a == Received(h, revenue)
             k == Cardinality(PaymentsTo(h, revenue))
             w == Cardinality(PayersOf(h, revenue) \ Seen(h))
             n == Len(blocks) - 1
  <2>1. /\ e \in Tallies /\ e.received \in Nat /\ e.payments \in Nat /\ e.payers \in Nat
        /\ e.first \in Nat /\ n \in Nat
    BY <1>0, <1>1 DEF RecordsTyped, Tallies, LedgerTyped
  <2>2. a \in Nat /\ k \in Nat /\ w \in Nat
    <3>1. a \in Nat /\ k \in Nat /\ PayersOf(h, revenue) \subseteq Holder
      BY <1>3, SomeReceived
    <3>2. IsFiniteSet(PayersOf(h, revenue) \ Seen(h))
      BY <3>1, Purses, FS_Subset
    <3> QED BY <3>1, <3>2, FS_CardinalityType
  <2>3. CASE PaymentsTo(h, revenue) = {}
    <3>1. f = e
      BY <2>3 DEF Earned
    <3>2. a = 0 /\ k = 0
      BY <2>3, TotalEmpty, FS_EmptySet DEF Received
    <3>3. w = 0
      <4>1. PayersOf(h, revenue) \ Seen(h) = {}
        BY <2>3 DEF PayersOf
      <4> QED BY <4>1, FS_EmptySet
    <3> HIDE DEF a, k, w, e, f
    <3>4. e.received = e.received + a /\ e.payments = e.payments + k /\ e.payers = e.payers + w
      BY <2>1, <3>2, <3>3
    <3> QED BY <2>1, <3>1, <3>4 DEF a, k, w, e, f
  <2>4. CASE PaymentsTo(h, revenue) # {}
    <3>1. f = [received |-> e.received + a, payments |-> e.payments + k, payers |-> e.payers + w,
               first |-> IF e.payments = 0 THEN n ELSE e.first, last |-> n]
      BY <2>4 DEF Earned
    <3> HIDE DEF a, k, w, e, n, f
    <3>2. /\ f \in Tallies /\ f.received = e.received + a /\ f.payments = e.payments + k
          /\ f.payers = e.payers + w
      BY <2>1, <2>2, <3>1 DEF Tallies
    <3> QED BY <3>2 DEF a, k, w, e, f
  <2> QED BY <2>3, <2>4
<1>5. RecordsTyped'
  <2>1. [h \in Holder |-> Earned(h, revenue)] \in [Holder -> Tallies]
    BY <1>4
  <2>2. {<<p.payee, p.payer>> : p \in ToSet(revenue)} \subseteq Holder \X Holder
    <3>1. \A i \in DOMAIN revenue : revenue[i] \in Paying
      BY <1>3
    <3>2. \A p \in ToSet(revenue) : p.payee \in Holder /\ p.payer \in Holder
      BY <3>1 DEF ToSet, Paying
    <3> QED BY <3>2
  <2>3. payerPairs' \subseteq Holder \X Holder
    BY <1>0, <1>1, <2>2 DEF RecordsTyped
  <2> QED BY <1>0, <1>1, <2>1, <2>3 DEF RecordsTyped
<1>6. ASSUME NEW h \in Holder PROVE Seen(h)' = Seen(h) \cup PayersOf(h, revenue) /\ Seen(h) \in SUBSET Holder
  <2> DEFINE N == {<<p.payee, p.payer>> : p \in ToSet(revenue)}
  <2>1. PayersOf(h, revenue) = {q[2] : q \in {q \in N : q[1] = h}}
    <3> DEFINE R == {q[2] : q \in {q \in N : q[1] = h}}
    <3>1. ASSUME NEW i \in DOMAIN revenue, revenue[i].payee = h PROVE revenue[i].payer \in R
      <4> DEFINE q == <<revenue[i].payee, revenue[i].payer>>
      <4>1. q \in N /\ q[1] = h /\ q[2] = revenue[i].payer
        BY <3>1 DEF ToSet
      <4> HIDE DEF N, q
      <4> QED BY <4>1
    <3>2. ASSUME NEW q \in N, q[1] = h PROVE q[2] \in PayersOf(h, revenue)
      <4>1. PICK i \in DOMAIN revenue : q = <<revenue[i].payee, revenue[i].payer>>
        BY DEF ToSet
      <4>2. revenue[i].payee = h /\ q[2] = revenue[i].payer
        BY <3>2, <4>1
      <4> QED BY <4>2 DEF PayersOf, PaymentsTo
    <3>3. PayersOf(h, revenue) \subseteq R
      <4> HIDE DEF R
      <4> QED BY <3>1 DEF PayersOf, PaymentsTo
    <3>4. R \subseteq PayersOf(h, revenue)
      <4> HIDE DEF N
      <4> QED BY <3>2
    <3> QED BY <3>3, <3>4
  <2>2. Seen(h)' = {q[2] : q \in {q \in payerPairs \cup N : q[1] = h}}
    BY <1>1 DEF Seen
  <2>3. Seen(h) \in SUBSET Holder
    BY <1>0 DEF Seen, RecordsTyped
  <2> HIDE DEF N
  <2>4. {q[2] : q \in {q \in payerPairs \cup N : q[1] = h}}
          = {q[2] : q \in {q \in payerPairs : q[1] = h}} \cup {q[2] : q \in {q \in N : q[1] = h}}
    OBVIOUS
  <2> QED BY <2>1, <2>2, <2>3, <2>4 DEF Seen
<1>7. ASSUME NEW h \in Holder
      PROVE  LET w == Seen(h) \cup PayersOf(h, revenue)
             IN /\ Fits(tally[h], Seen(h), h, revenue, paid[h]) => Fits(Earned(h, revenue), w, h, <<>>, paid[h])
                /\ Exact(tally[h], Seen(h), h, revenue, paid[h]) => Exact(Earned(h, revenue), w, h, <<>>, paid[h])
  <2>1. tally[h] \in Tallies /\ paid[h] \in Receipts
    BY <1>0 DEF RecordsTyped
  <2> QED BY <1>3, <1>4, <1>6, <2>1, FitsRecorded
<1>8. \A h \in Holder : tally'[h] = Earned(h, revenue) /\ paid'[h] = paid[h]
  BY <1>1
<1>9. TallyFits'
  <2>1. \A h \in Holder : Fits(Earned(h, revenue), Seen(h) \cup PayersOf(h, revenue), h, <<>>, paid[h])
    BY <1>0, <1>3, <1>7 DEF TallyFits
  <2> QED BY <1>3, <1>6, <1>8, <2>1 DEF TallyFits
<1>10. outages' = 0 => TallyExact'
  <2> SUFFICES ASSUME outages = 0 PROVE TallyExact'
    BY <1>1
  <2>1. \A h \in Holder : Exact(Earned(h, revenue), Seen(h) \cup PayersOf(h, revenue), h, <<>>, paid[h])
    BY <1>0, <1>3, <1>7 DEF TallyExact
  <2> QED BY <1>3, <1>6, <1>8, <2>1 DEF TallyExact
<1> QED BY <1>2, <1>5, <1>9, <1>10 DEF TreasuryInv

\* What is in the bonds of some goes to the pool.
LEMMA SlashedKeeps ==
  ASSUME NEW c \in Hoards, NEW b \in Stakes, NEW them \in SUBSET Holder,
         Whole(c) + Whole(b) = Supply,
         NEW d \in Hoards, d[Pool] = c[Pool] + Total(b, them), \A a \in Purse \ {Pool} : d[a] = c[a],
         NEW l \in Stakes, \A h \in Holder : l[h] = IF h \in them THEN 0 ELSE b[h]
  PROVE  Whole(d) + Whole(l) = Supply /\ d[Pool] >= c[Pool]
<1> DEFINE k == Total(b, them)
           o == Total(b, Holder \ them)
           p == c[Pool]
           t == Total(c, Purse)
<1>1. Counts(b, Holder) /\ Counts(c, Purse) /\ t \in Nat /\ p \in Nat /\ Pool \in Purse
  BY HoardsCount, StakesCount, Purses DEF Hoards
<1>2. Total(b, Holder) = k + o /\ k \in Nat /\ o \in Nat /\ Counts(b, Holder \ them)
  <2> HIDE DEF t, p
  <2> QED BY <1>1, TotalParts
<1>4. Total(l, Holder) = o
  <2>1. \A h \in Holder \ (Holder \ them) : l[h] = 0
    OBVIOUS
  <2>2. \A h \in Holder \ them : b[h] = l[h]
    OBVIOUS
  <2>3. Total(l, Holder) = Total(l, Holder \ them)
    BY <2>1, StakesCount, TotalWithin
  <2>4. Total(l, Holder \ them) = o
    BY <1>2, <2>2, TotalSame
  <2> QED BY <2>3, <2>4
<1>5. d[Pool] = p + k /\ d[Pool] \in Nat
  BY <1>1 DEF Hoards
<1> HIDE DEF k
<1>6. Total(d, Purse) = (t - p) + (p + k)
  <2>1. Total(d, Purse) = (Total(c, Purse) - c[Pool]) + d[Pool]
    BY <1>1, <1>5, TotalEdit
  <2> QED BY <1>5, <2>1
<1>7. /\ Whole(d) = Total(d, Purse) /\ Whole(l) = Total(l, Holder)
      /\ Whole(c) = t /\ Whole(b) = Total(b, Holder)
  BY HoardsCount, StakesCount DEF Whole
<1> HIDE DEF t, p, o
<1>8. ((t - p) + (p + k)) + o = t + (k + o) /\ p + k >= p
  BY <1>1, <1>2
<1>9. Whole(d) + Whole(l) = Supply
  BY <1>2, <1>4, <1>6, <1>7, <1>8
<1> QED BY <1>5, <1>8, <1>9 DEF p

LEMMA NamedHolders ==
  ASSUME blocks \in Seq(Seq(Deals)), blocks # <<>>, NEW op
  PROVE  Named(op) \subseteq Holder
<1>1. Len(blocks) \in DOMAIN blocks /\ Last(blocks) \in Seq(Deals)
  BY DEF Last
<1>2. \A i \in DOMAIN Last(blocks) : Last(blocks)[i] \in Deals
  BY <1>1
<1>3. \A d \in ToSet(Last(blocks)) : d \in Deals
  BY <1>2 DEF ToSet
<1>4. \A d \in Deals : d.to \in Holder
  BY TreasuryAssumption
<1> QED BY <1>3, <1>4 DEF Named

LEMMA AdvanceKeeps ==
  ASSUME TreasuryInv, AdvanceHeight
  PROVE  TreasuryInv'
<1> DEFINE them == slashes \cup Named("slash")
           reg == (registry \ Named("remove")) \cup Named("add")
<1>0. LedgerTyped /\ RecordsTyped /\ SupplyKept /\ PoolKept /\ TallyFits /\ (outages = 0 => TallyExact)
  BY DEF TreasuryInv
<1>1. /\ blocks' = blocks /\ opening' = opening /\ maintainer' = maintainer /\ granted' = granted
      /\ outages' = outages /\ revenue' = <<>> /\ paid' = paid
      /\ tally' = tally /\ payerPairs' = payerPairs /\ stage = "advance" /\ stage' = "idle"
      /\ registry' = reg
  BY DEF AdvanceHeight, bookVars
<1>2. reg \subseteq Holder /\ them \in SUBSET Holder
  BY <1>0, <1>1, NamedHolders DEF LedgerTyped, RecordsTyped
<1>3. slashes' \subseteq Holder /\ (Slashed(them) \/ (coins' = coins /\ bonds' = bonds))
  BY <1>2 DEF AdvanceHeight
<1> HIDE DEF them, reg
<1>4. /\ coins' \in Hoards /\ bonds' \in Stakes /\ Whole(coins') + Whole(bonds') = Supply
      /\ coins'[Pool] >= coins[Pool]
  <2>1. coins \in Hoards /\ bonds \in Stakes /\ Whole(coins) + Whole(bonds) = Supply /\ coins[Pool] \in Nat
    BY <1>0, Purses DEF LedgerTyped, SupplyKept, Hoards
  <2>2. CASE Slashed(them)
    <3>1. /\ coins' = [coins EXCEPT ![Pool] = coins[Pool] + Total(bonds, them)]
          /\ bonds' = [h \in Holder |-> IF h \in them THEN 0 ELSE bonds[h]]
      BY <2>2 DEF Slashed
    <3>2. PICK d, l : d = coins' /\ l = bonds'
      OBVIOUS
    <3>3. d \in Hoards /\ l \in Stakes /\ Whole(d) + Whole(l) = Supply /\ d[Pool] >= coins[Pool]
      <4>1. d = [coins EXCEPT ![Pool] = coins[Pool] + Total(bonds, them)]
        BY <3>1, <3>2
      <4>2. l = [h \in Holder |-> IF h \in them THEN 0 ELSE bonds[h]]
        BY <3>1, <3>2
      <4>3. Total(bonds, them) \in Nat /\ Pool \in Purse
        <5>1. Counts(bonds, Holder)
          BY <2>1, StakesCount
        <5> QED BY <1>2, <5>1, Purses, TotalParts
      <4>4. /\ d \in Hoards /\ d[Pool] = coins[Pool] + Total(bonds, them)
            /\ \A a \in Purse \ {Pool} : d[a] = coins[a]
        BY <2>1, <4>1, <4>3 DEF Hoards
      <4>5. l \in Stakes /\ \A h \in Holder : l[h] = IF h \in them THEN 0 ELSE bonds[h]
        BY <2>1, <4>2 DEF Stakes
      <4> QED BY <1>2, <2>1, <4>4, <4>5, SlashedKeeps
    <3> QED BY <3>2, <3>3
  <2>3. CASE coins' = coins /\ bonds' = bonds
    BY <2>1, <2>3
  <2> QED BY <1>3, <2>2, <2>3
<1>5. LedgerTyped'
  BY <1>0, <1>1, <1>2, <1>3, <1>4 DEF LedgerTyped, Hoards, Stakes
<1>6. RecordsTyped'
  BY <1>0, <1>1 DEF RecordsTyped
<1>7. SupplyKept'
  BY <1>4 DEF SupplyKept
<1>8. PoolKept'
  <2> DEFINE p == coins[Pool]
             q == coins'[Pool]
             g == granted * Grant
             m == Emitted(Len(blocks))
  <2>1. p \in Nat /\ q \in Nat /\ opening \in Nat /\ q >= p
    BY <1>0, <1>4, Purses DEF LedgerTyped, Hoards
  <2>2. g \in Nat
    BY <1>0, Purses DEF LedgerTyped
  <2>3. m \in Nat
    <3>1. Len(blocks) \in Nat
      BY <1>0 DEF LedgerTyped
    <3> QED BY <3>1, EmittedNext
  <2>4. p + g + m >= opening
    BY <1>0 DEF PoolKept
  <2> HIDE DEF p, q, g, m
  <2>5. q + g + m >= opening
    BY <2>1, <2>2, <2>3, <2>4
  <2> QED BY <1>1, <2>5 DEF PoolKept, q, g, m
<1>9. Owed = <<>> /\ Owed' = <<>>
  BY <1>1 DEF Owed
<1>10. \A h \in Holder : Seen(h)' = Seen(h)
  BY <1>1 DEF Seen
<1>11. TallyFits' /\ (outages' = 0 => TallyExact')
  BY <1>0, <1>1, <1>9, <1>10 DEF TallyFits, TallyExact
<1> QED BY <1>5, <1>6, <1>7, <1>8, <1>11 DEF TreasuryInv

\* Whom the chain names maintainer.
LEMMA ReplayedHolder ==
  ASSUME blocks \in Seq(Seq(Deals))
  PROVE  Replayed \in Holder
<1> DEFINE S == {i \in DOMAIN blocks : Rotations(i) # {}}
           last == Max(S)
           j == Max(Rotations(last))
<1>1. CASE S = {}
  <2>1. Replayed = Dev
    BY <1>1 DEF Replayed
  <2> QED BY <2>1, TreasuryAssumption
<1>2. CASE S # {}
  <2>1. Len(blocks) \in Nat /\ DOMAIN blocks = 1 .. Len(blocks) /\ S \in SUBSET (1 .. Len(blocks))
    OBVIOUS
  <2>2. S \in SUBSET Nat /\ \A x \in S : x <= Len(blocks)
    BY <2>1
  <2>3. last \in S
    <3> HIDE DEF S
    <3> QED BY <1>2, <2>1, <2>2, LargestExists
  <2> HIDE DEF last
  <2>4. last \in DOMAIN blocks /\ Rotations(last) # {} /\ blocks[last] \in Seq(Deals)
    <3>1. last \in DOMAIN blocks /\ Rotations(last) # {}
      BY <2>3
    <3> QED BY <3>1
  <2> DEFINE R == Rotations(last)
             b == blocks[last]
  <2>5. Len(b) \in Nat /\ DOMAIN b = 1 .. Len(b) /\ R \subseteq 1 .. Len(b)
    BY <2>4 DEF Rotations
  <2>6. R \in SUBSET Nat /\ \A x \in R : x <= Len(b)
    <3> HIDE DEF R, b
    <3> QED BY <2>5
  <2>7. Max(R) \in R
    <3> HIDE DEF R, b
    <3> QED BY <2>4, <2>5, <2>6, LargestExists DEF R
  <2>8. blocks[last][j] \in Deals
    BY <2>4, <2>5, <2>7
  <2>9. Replayed = blocks[last][j].to
    BY <1>2 DEF Replayed, last
  <2> HIDE DEF j
  <2> QED BY <2>8, <2>9, TreasuryAssumption
<1> QED BY <1>1, <1>2

LEMMA OutageKeeps ==
  ASSUME TreasuryInv, Outage
  PROVE  TreasuryInv'
<1>0. LedgerTyped /\ RecordsTyped /\ SupplyKept /\ PoolKept /\ TallyFits /\ (outages = 0 => TallyExact)
  BY DEF TreasuryInv
<1>1. /\ coins' = coins /\ bonds' = bonds /\ blocks' = blocks /\ opening' = opening
      /\ maintainer' = Replayed /\ registry' = registry /\ slashes' = Pardon(slashes)
      /\ granted' = granted /\ outages' = outages + 1 /\ revenue' = <<>> /\ paid' = paid
      /\ stage' = "idle" /\ tally' = tally /\ payerPairs' = payerPairs
  BY DEF Outage, bookVars
<1>2. Replayed \in Holder /\ Pardon(slashes) \subseteq Holder
  BY <1>0, ReplayedHolder DEF LedgerTyped, Pardon
<1>3. LedgerTyped'
  BY <1>0, <1>1, <1>2 DEF LedgerTyped
<1>4. RecordsTyped' /\ outages' # 0
  BY <1>0, <1>1 DEF RecordsTyped
<1>5. SupplyKept' /\ PoolKept'
  BY <1>0, <1>1 DEF SupplyKept, PoolKept
<1>6. Owed' = <<>> /\ Owed \in Seq(Paying)
  BY <1>0, <1>1 DEF Owed, RecordsTyped
<1>7. \A h \in Holder : Seen(h)' = Seen(h)
  BY <1>1 DEF Seen
<1>8. TallyFits'
  <2>1. \A h \in Holder : tally[h] \in Tallies /\ paid[h] \in Receipts
    BY <1>0 DEF RecordsTyped
  <2>2. \A h \in Holder : Fits(tally[h], Seen(h), h, <<>>, paid[h])
    BY <1>0, <1>6, <2>1, FitsLost DEF TallyFits
  <2> QED BY <1>1, <1>6, <1>7, <2>2 DEF TallyFits
<1> QED BY <1>3, <1>4, <1>5, <1>8 DEF TreasuryInv

\* The ledger of a snapshot.
LEMMA SnapshotCounts ==
  ASSUME LedgerTyped
  PROVE  /\ Snapshot.held \in Stakes
         /\ Snapshot.pool + Whole(Snapshot.held) + Snapshot.odd = Whole(coins) + Whole(bonds)
         /\ Snapshot.pool = coins[Pool] + coins[Accrued] /\ Snapshot.pool \in Nat
<1> DEFINE held == [h \in Holder |-> coins[h] + bonds[h]]
           p == coins[Pool]
           a == coins[Accrued]
           o == coins[Odd]
           c == Total(coins, Holder)
           b == Total(bonds, Holder)
           R == Purse \ Holder
<1>1. /\ coins \in Hoards /\ bonds \in Stakes /\ p \in Nat /\ a \in Nat /\ o \in Nat
      /\ Counts(coins, Purse) /\ Counts(bonds, Holder) /\ b \in Nat
  BY HoardsCount, StakesCount, Purses DEF LedgerTyped, Hoards
<1>2. Total(coins, Purse) = c + Total(coins, R) /\ Counts(coins, Holder) /\ Counts(coins, R) /\ c \in Nat
  BY <1>1, Purses, TotalParts
<1>3. Total(coins, R) = p + (a + o)
  <2>1. /\ Pool \in R /\ Accrued \in R \ {Pool} /\ Odd \in (R \ {Pool}) \ {Accrued}
        /\ ((R \ {Pool}) \ {Accrued}) \ {Odd} = {}
    BY Purses DEF Purse
  <2> HIDE DEF R
  <2>2. Total(coins, R) = Total(coins, R \ {Pool}) + p /\ Counts(coins, R \ {Pool})
    BY <1>2, <2>1, TotalRemove
  <2>3. /\ Total(coins, R \ {Pool}) = Total(coins, (R \ {Pool}) \ {Accrued}) + a
        /\ Counts(coins, (R \ {Pool}) \ {Accrued})
    BY <2>1, <2>2, TotalRemove
  <2>4. Total(coins, (R \ {Pool}) \ {Accrued}) = Total(coins, {}) + o
    BY <2>1, <2>3, TotalRemove
  <2>5. Total(coins, {}) = 0
    BY TotalEmpty
  <2> HIDE DEF p, a, o
  <2> QED BY <1>1, <2>2, <2>3, <2>4, <2>5
<1>4. Total(held, Holder) = c + b /\ Counts(held, Holder)
  <2>1. \A h \in Holder : held[h] = coins[h] + bonds[h]
    OBVIOUS
  <2> HIDE DEF held
  <2> QED BY <1>1, <1>2, <2>1, TotalPlus
<1>5. held \in Stakes /\ Whole(held) = c + b
  <2>1. DOMAIN held = Holder /\ held = [h \in Holder |-> held[h]]
    OBVIOUS
  <2> HIDE DEF held
  <2> QED BY <1>4, <2>1 DEF Whole, Counts, Stakes
<1>6. Snapshot.pool = p + a /\ Snapshot.held = held /\ Snapshot.odd = o
  BY DEF Snapshot
<1>7. Whole(coins) = Total(coins, Purse) /\ Whole(bonds) = b
  BY <1>1, HoardsCount, StakesCount DEF Whole
<1> HIDE DEF held, p, a, o, c, b
<1>8. (p + a) + (c + b) + o = (c + (p + (a + o))) + b /\ p + a \in Nat
  BY <1>1, <1>2
<1> QED BY <1>2, <1>3, <1>5, <1>6, <1>7, <1>8 DEF p, a

LEMMA RelaunchKeeps ==
  ASSUME TreasuryInv, Relaunch
  PROVE  TreasuryInv'
<1> DEFINE p == Snapshot.pool
           held == Snapshot.held
           c == [a \in Purse |-> CASE a = Pool -> p [] a \in Holder -> held[a] [] OTHER -> 0]
           z == [h \in Holder |-> 0]
<1>0. LedgerTyped /\ RecordsTyped
  BY DEF TreasuryInv
<1>1. /\ coins' = c /\ bonds' = z /\ blocks' = <<>> /\ opening' = p
      /\ maintainer' = Dev /\ registry' = {} /\ slashes' = {}
      /\ tally' = [h \in Holder |-> NoEarnings] /\ payerPairs' = {}
      /\ paid' = [h \in Holder |-> NotPaid] /\ granted' = 0
      /\ stage = "idle" /\ stage' = stage /\ revenue' = revenue /\ outages' = outages
      /\ p + Whole(held) = Supply
  BY DEF Relaunch
<1>2. held \in Stakes /\ p \in Nat
  BY <1>0, SnapshotCounts
<1> HIDE DEF p, held
<1>3. c \in Hoards /\ c[Pool] = p
  BY <1>2, Purses DEF Hoards, Stakes
<1>4. Total(c, Purse) = p + Whole(held)
  <2> DEFINE f == [a \in Purse |-> IF a = Pool THEN p ELSE 0]
             g == [a \in Purse |-> IF a \in Holder THEN held[a] ELSE 0]
  <2>1. Counts(f, Purse) /\ Counts(g, Purse)
    BY <1>2, Purses DEF Counts, Stakes
  <2>2. f[Pool] = p /\ \A a \in Purse \ {Pool} : f[a] = 0
    BY Purses
  <2>3. (\A a \in Purse \ Holder : g[a] = 0) /\ \A a \in Holder : held[a] = g[a]
    BY Purses
  <2>4. \A a \in Purse : c[a] = f[a] + g[a]
    <3> SUFFICES ASSUME NEW a \in Purse PROVE c[a] = f[a] + g[a]
      OBVIOUS
    <3>1. CASE a = Pool
      BY <1>2, <3>1, Purses
    <3>2. CASE a # Pool /\ a \in Holder
      <4>1. held[a] \in Nat
        BY <1>2, <3>2 DEF Stakes
      <4> QED BY <3>2, <4>1
    <3>3. CASE a # Pool /\ a \notin Holder
      BY <3>3
    <3> QED BY <3>1, <3>2, <3>3
  <2> HIDE DEF f, g, c
  <2>5. Total(c, Purse) = Total(f, Purse) + Total(g, Purse)
    BY <2>1, <2>4, TotalPlus
  <2>6. Total(f, Purse) = p
    BY <2>1, <2>2, Purses, TotalOne
  <2>7. Total(g, Purse) = Total(g, Holder)
    BY <2>1, <2>3, Purses, TotalWithin
  <2>8. Total(g, Holder) = Whole(held)
    BY <1>2, <2>3, StakesCount, TotalSame DEF Whole
  <2> QED BY <2>5, <2>6, <2>7, <2>8
<1>5. Whole(c) = p + Whole(held)
  BY <1>3, <1>4, HoardsCount DEF Whole
<1> HIDE DEF c
<1>6. LedgerTyped'
  <2>1. Dev \in Holder /\ z \in Stakes
    BY TreasuryAssumption, NoHoard
  <2> QED BY <1>1, <1>2, <1>3, <2>1 DEF LedgerTyped, Hoards, Stakes
<1>7. RecordsTyped'
  <2>1. \A h \in Holder : NoEarnings \in Tallies /\ NotPaid \in Receipts
    BY NothingTallied
  <2> QED BY <1>0, <1>1, <2>1 DEF RecordsTyped
<1>8. SupplyKept'
  <2>1. Whole(z) = 0 /\ Whole(c) \in Nat
    BY <1>3, NoHoard, HoardsCount DEF Whole
  <2> HIDE DEF z
  <2>2. Whole(c) + Whole(z) = Supply
    BY <1>1, <1>5, <2>1
  <2> QED BY <1>1, <2>2 DEF SupplyKept
<1>9. PoolKept'
  <2>1. Len(<<>>) = 0 /\ 0 * Grant = 0
    BY Purses
  <2>2. coins'[Pool] = p /\ granted' * Grant = 0 /\ Emitted(Len(blocks')) = 0 /\ opening' = p
    BY <1>1, <1>3, <2>1, EmittedNothing
  <2> QED BY <1>2, <2>2 DEF PoolKept
<1>10. \A h \in Holder : Seen(h)' = {} /\ tally'[h] = NoEarnings /\ paid'[h] = NotPaid
  BY <1>1 DEF Seen
<1>11. Owed' = <<>>
  BY <1>1 DEF Owed
<1>12. TallyFits' /\ TallyExact'
  BY <1>10, <1>11, NothingTallied DEF TallyFits, TallyExact
<1> QED BY <1>6, <1>7, <1>8, <1>9, <1>12 DEF TreasuryInv

\* The inductive invariant of the treasury.
LEMMA TreasuryKept == TreasurySpec => []TreasuryInv
<1>1. TreasuryInit => TreasuryInv
  BY TreasuryInitially
<1>2. TreasuryInv /\ [TreasuryNext]_treasuryVars => TreasuryInv'
  <2> SUFFICES ASSUME TreasuryInv, [TreasuryNext]_treasuryVars PROVE TreasuryInv'
    OBVIOUS
  <2>1. ASSUME NEW ds \in Bodies, CommitDeals(ds) PROVE TreasuryInv'
    <3>1. ds \in Seq(Deals)
      BY DEF Bodies, SeqOf
    <3> QED BY <2>1, <3>1, CommitKeeps
  <2>2. CASE RecordEarnings
    BY <2>2, RecordKeeps
  <2>3. CASE AdvanceHeight
    BY <2>3, AdvanceKeeps
  <2>4. CASE Outage
    BY <2>4, OutageKeeps
  <2>5. CASE Relaunch
    BY <2>5, RelaunchKeeps
  <2>6. CASE UNCHANGED treasuryVars
    <3>1. \A h \in Holder : Seen(h)' = Seen(h)
      BY <2>6 DEF treasuryVars, bookVars, Seen
    <3>2. Owed' = Owed
      BY <2>6 DEF treasuryVars, Owed
    <3> QED BY <2>6, <3>1, <3>2 DEF TreasuryInv, treasuryVars, bookVars, LedgerTyped, RecordsTyped,
          SupplyKept, PoolKept, TallyFits, TallyExact
  <2> QED BY <2>1, <2>2, <2>3, <2>4, <2>5, <2>6 DEF TreasuryNext
<1> QED BY <1>1, <1>2, PTL DEF TreasurySpec

\* No coin is made or lost by fees, emission, grants, bonds, slashes or a relaunch; what
\* leaves the pool are the pinned grants and no more than the schedule has; and what a node
\* says an account earned is never more than it was paid, and exactly that without a crash.
THEOREM PayoutsAreHonest == TreasurySpec => []PayoutsHonest
<1>1. TreasuryInv => PayoutsHonest
  <2> SUFFICES ASSUME TreasuryInv PROVE PayoutsHonest
    OBVIOUS
  <2>0. LedgerTyped /\ RecordsTyped /\ SupplyKept /\ PoolKept /\ TallyFits /\ (outages = 0 => TallyExact)
    BY DEF TreasuryInv
  <2>1. PoolOnSchedule
    <3>1. Whole([i \in 0 .. Len(blocks) - 1 |-> EmissionFor(i)]) = Emitted(Len(blocks))
      BY DEF Emitted
    <3> QED BY <2>0, <3>1, SnapshotCounts DEF PoolOnSchedule, SupplyKept, PoolKept
  <2>2. ASSUME NEW h \in Holder
        PROVE  /\ tally[h].received <= paid[h].coins
               /\ tally[h].payments <= paid[h].payments
               /\ tally[h].payers <= Cardinality(paid[h].payers)
    <3>1. tally[h] \in Tallies /\ paid[h] \in Receipts /\ Owed \in Seq(Paying)
      BY <2>0 DEF RecordsTyped, Owed
    <3>2. Fits(tally[h], Seen(h), h, <<>>, paid[h])
      BY <2>0, <3>1, FitsLost DEF TallyFits
    <3>3. /\ tally[h].received + 0 <= paid[h].coins /\ tally[h].payments + 0 <= paid[h].payments
          /\ Seen(h) \subseteq paid[h].payers /\ tally[h].payers = Cardinality(Seen(h))
      BY <3>2, NothingReceived DEF Fits
    <3>4. /\ tally[h].received \in Nat /\ tally[h].payments \in Nat
          /\ paid[h].coins \in Nat /\ paid[h].payments \in Nat /\ paid[h].payers \subseteq Holder
      BY <3>1 DEF Tallies, Receipts
    <3>5. IsFiniteSet(paid[h].payers)
      BY <3>4, Purses, FS_Subset
    <3>6. Cardinality(Seen(h)) <= Cardinality(paid[h].payers)
      BY <3>3, <3>5, FS_Subset
    <3> QED BY <3>3, <3>4, <3>6
  <2>3. ASSUME NEW h \in Holder, stage = "idle", outages = 0
        PROVE  /\ tally[h].received = paid[h].coins
               /\ tally[h].payments = paid[h].payments
               /\ tally[h].payers = Cardinality(paid[h].payers)
    <3>1. Owed = <<>> /\ tally[h] \in Tallies
      BY <2>0, <2>3 DEF Owed, RecordsTyped
    <3>2. /\ tally[h].received + 0 = paid[h].coins /\ tally[h].payments + 0 = paid[h].payments
          /\ Seen(h) \cup {} = paid[h].payers
      BY <2>0, <2>3, <3>1, NothingReceived DEF TallyExact, Exact
    <3>3. tally[h].payers = Cardinality(Seen(h))
      BY <2>0 DEF TallyFits, Fits
    <3>4. tally[h].received \in Nat /\ tally[h].payments \in Nat
      BY <3>1 DEF Tallies
    <3>5. Seen(h) = paid[h].payers
      BY <3>2
    <3> QED BY <3>2, <3>3, <3>4, <3>5
  <2>4. EarningsHonest
    BY <2>2, <2>3 DEF EarningsHonest
  <2> QED BY <2>1, <2>4 DEF PayoutsHonest
<1> QED BY <1>1, TreasuryKept, PTL

=============================================================================
