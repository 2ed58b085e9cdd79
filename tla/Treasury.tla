------------------------------ MODULE Treasury ------------------------------
(***************************************************************************)
(* Where the coins of the genesis reward pool go (internal/consensus:      *)
(* rewards.go, treasury.go, launchrepair.go), who is paid the maintainer's *)
(* share (maintainer.go), what a node remembers an account earned          *)
(* (earnings.go), and the ledger carried to a new chain                    *)
(* (internal/node/genesis_snapshot.go, internal/token/genesis.go). One     *)
(* node applies the blocks; that a quorum agrees on them is module Voting. *)
(* A block's ledger changes are one step here (module Settlement has the   *)
(* crash among them); the earnings, the provider registry and the slashes  *)
(* are steps of their own that a crash can fall before.                    *)
(***************************************************************************)
EXTENDS Fees, Sums, Sequences, FiniteSets, FiniteSetsExt, SequencesExt

CONSTANTS
  Holder,        \* account ids
  Pool, Accrued, \* the reward pool, the fee accrual account
  Odd,           \* a reserved account a snapshot cannot classify
  Endowment,     \* the coins of the first chain: an opening balance per account
  Weight,        \* voting power; 0 for who is no validator
  Dev,           \* the configured maintainer account
  Deals,         \* the transactions that are signed
  Founder, Grant, PoolBefore, \* the pinned transfer: signer and recipient, amount, guard
  Pardoned,      \* the validator of the launch repair
  PerBlock, HalfLife, \* the emission schedule
  EpochBlocks,   \* blocks between boundaries
  MaxBlocks, MaxDeals, MaxOutages \* bounds

Purse == Holder \cup {Pool, Accrued, Odd}
Whole(f) == Total(f, DOMAIN f)

Operation == {"pay", "bond", "odd", "add", "remove", "slash", "rotate", "grant"}

ASSUME TreasuryAssumption ==
  /\ IsFiniteSet(Holder) /\ {Pool, Accrued, Odd} \cap Holder = {}
  /\ Pool # Accrued /\ Pool # Odd /\ Accrued # Odd
  /\ Endowment \in [Purse -> Nat] /\ Weight \in [Holder -> Nat] /\ \E h \in Holder : Weight[h] > 0
  /\ {Dev, Founder} \subseteq Holder
  /\ \A d \in Deals : d.op \in Operation /\ {d.by, d.to} \subseteq Holder /\ d.amount \in Nat
  /\ {Grant, HalfLife, EpochBlocks} \subseteq Nat \ {0} /\ {PoolBefore, PerBlock} \subseteq Nat

VARIABLES
  coins,         \* the ledger
  bonds,         \* the bond accounts
  blocks,        \* the chain
  opening,       \* the pool the chain started with
  maintainer,    \* MaintainerAccountInForce
  registry,      \* the registered providers
  slashes,       \* committed slashes that wait for the boundary
  tally,         \* earnings of each account
  payerPairs,    \* payer pairs the tally has seen
  stage,         \* of the block being committed
  revenue,       \* its payments
  paid,          \* history: what the payments that applied brought each account
  granted,       \* history: pinned transfers that moved coins
  outages        \* restarts so far

bookVars == <<tally, payerPairs>>
treasuryVars == <<coins, bonds, blocks, opening, maintainer, registry, slashes, bookVars,
                  stage, revenue, paid, granted, outages>>

NotPaid == [coins |-> 0, payments |-> 0, payers |-> {}]
NoEarnings == [received |-> 0, payments |-> 0, payers |-> 0, first |-> 0, last |-> 0]

TreasuryInit ==
  /\ coins = Endowment
  /\ bonds = [h \in Holder |-> 0]
  /\ blocks = <<>>
  /\ opening = Endowment[Pool]
  /\ maintainer = Dev
  /\ registry = {}
  /\ slashes = {}
  /\ tally = [h \in Holder |-> NoEarnings] /\ payerPairs = {}
  /\ stage = "idle" /\ revenue = <<>> /\ paid = [h \in Holder |-> NotPaid]
  /\ granted = 0 /\ outages = 0

-----------------------------------------------------------------------------
(* One block. The books of a block in progress: s. *)

Deal(op, by, to, amount, nonce) == [op |-> op, by |-> by, to |-> to, amount |-> amount, nonce |-> nonce]

\* verifyLaunchRepair: pinned to a signer, an amount and a balance of the guard.
PinnedVerified(d, guard) == d.by = Founder /\ d.amount = Grant /\ guard = PoolBefore

\* verifyMaintainerRotateLocked: the account in force names another.
RotateVerified(d) == d.by = maintainer /\ d.to # maintainer

\* verifyReservedRecipientLocked: what a block may carry, judged before it applies.
Verified(d) ==
  CASE d.op \in {"add", "remove"} -> Weight[d.by] > 0 /\ ((d.op = "add") # (d.to \in registry))
    [] d.op = "rotate" -> RotateVerified(d)
    [] d.op = "grant" -> PinnedVerified(d, coins[Pool])
    [] d.op = "slash" -> Weight[d.by] > 0
    [] OTHER -> TRUE

Credit(c, to, amount) == [c EXCEPT ![to] = @ + amount]
Debit(c, from, amount) == [c EXCEPT ![from] = @ - amount]
Carried(c, from, to, amount) == Credit(Debit(c, from, amount), to, amount)
Moves(s, from, to, amount) == [s EXCEPT !.coins = Carried(@, from, to, amount)]
More(p, by, to, amount) ==
  [p EXCEPT ![to] = [coins |-> p[to].coins + amount, payments |-> p[to].payments + 1,
                     payers |-> p[to].payers \cup {by}]]

\* paysFee: transfers between accounts; the net is credited and counts as revenue.
PayDeal(s, d) ==
  LET fee == FeeFor(d.amount)
      net == d.amount - fee
      moved == Moves(Moves(s, d.by, d.to, net), d.by, Accrued, fee)
  IN IF net = 0 THEN moved
     ELSE [moved EXCEPT !.credited = Credit(@, d.to, net),
                        !.revenue = Append(@, [payer |-> d.by, payee |-> d.to, amount |-> net]),
                        !.paid = More(@, d.by, d.to, net)]

\* applyLaunchRepair checks the guard again: two in a block do not both apply.
GrantDeal(s, d) ==
  IF PinnedVerified(d, s.coins[Pool]) /\ s.coins[Pool] >= Grant
  THEN [Moves(s, Pool, Founder, Grant) EXCEPT !.granted = @ + 1] ELSE s

SpendDeal(s, d) ==
  CASE d.op = "bond" -> [s EXCEPT !.coins = Debit(@, d.by, d.amount),
                                  !.bonds = Credit(@, d.by, d.amount)]
    [] d.op = "odd" -> Moves(s, d.by, Odd, d.amount)
    [] OTHER -> PayDeal(s, d)

\* A transfer its sender cannot afford is skipped.
ApplyDeal(s, d) ==
  CASE d.op = "rotate" -> [s EXCEPT !.maintainer = d.to]
    [] d.op = "grant" -> GrantDeal(s, d)
    [] d.op \in {"bond", "odd", "pay"} /\ s.coins[d.by] >= d.amount -> SpendDeal(s, d)
    [] OTHER -> s

\* distributeFeesLocked, with the maintainer in force after the block's rotations.
FeesPaid(s) ==
  LET taken == MaintainerShare(s.coins[Accrued])
      rest == s.coins[Accrued] - taken
      share == [h \in Holder |-> ValidatorShare(rest, Weight[h], Whole(Weight))]
      after == [a \in Purse |-> CASE a = Accrued -> rest - Whole(share)
                                  [] a \in Holder -> s.coins[a] + share[a]
                                  [] OTHER -> s.coins[a]]
  IN [s EXCEPT !.coins = [after EXCEPT ![s.maintainer] = @ + taken]]

\* A right shift, bit by bit.
EmissionFor(h) ==
  LET shifted[k \in 0 .. h \div HalfLife] == IF k = 0 THEN PerBlock ELSE shifted[k - 1] \div 2
  IN shifted[h \div HalfLife]

\* distributeEmissionLocked: the emission of the height, or what the pool has, in
\* shares of what the registered providers were credited; the remainder stays.
EmissionPaid(s) ==
  LET eligible == {h \in registry : s.credited[h] > 0}
      weight == Total(s.credited, eligible)
      budget == Min({EmissionFor(Len(blocks)), s.coins[Pool]})
      share == [h \in eligible |-> (s.credited[h] * budget) \div weight]
  IN [s EXCEPT !.coins = [a \in Purse |-> CASE a \in eligible -> @[a] + share[a]
                                            [] a = Pool -> @[a] - Whole(share)
                                            [] OTHER -> @[a]]]

InChain(d) == \E i \in DOMAIN blocks : \E j \in DOMAIN blocks[i] : blocks[i][j] = d

Books == [coins |-> coins, bonds |-> bonds, maintainer |-> maintainer, granted |-> granted,
          credited |-> [h \in Holder |-> 0], revenue |-> <<>>, paid |-> paid]

\* The books after each deal of a block.
AfterDeals(ds) ==
  LET after[i \in 0 .. Len(ds)] == IF i = 0 THEN Books ELSE ApplyDeal(after[i - 1], ds[i])
  IN after

\* commitAndApply: the block is stored, its ledger changes land in one piece.
CommitDeals(ds) ==
  /\ stage = "idle" /\ Len(blocks) < MaxBlocks
  /\ \A i \in DOMAIN ds : Verified(ds[i]) /\ ~InChain(ds[i])
  /\ blocks' = Append(blocks, ds)
  /\ LET s == EmissionPaid(FeesPaid(AfterDeals(ds)[Len(ds)]))
     IN /\ coins' = s.coins /\ bonds' = s.bonds
        /\ maintainer' = s.maintainer /\ granted' = s.granted
        /\ revenue' = s.revenue /\ paid' = s.paid
  /\ stage' = "record"
  /\ UNCHANGED <<opening, registry, slashes, bookVars, outages>>

-----------------------------------------------------------------------------
(* After the ledger. *)

\* What record makes of one account's payments of the block, and of its payers.
PaymentsTo(h, ps) == {i \in DOMAIN ps : ps[i].payee = h}
Received(h, ps) == Total([i \in DOMAIN ps |-> ps[i].amount], PaymentsTo(h, ps))
PayersOf(h, ps) == {ps[i].payer : i \in PaymentsTo(h, ps)}
Seen(h) == {q[2] : q \in {q \in payerPairs : q[1] = h}}

Earned(h, ps) ==
  LET e == tally[h]
  IN IF PaymentsTo(h, ps) = {} THEN e
     ELSE [received |-> e.received + Received(h, ps),
           payments |-> e.payments + Cardinality(PaymentsTo(h, ps)),
           payers |-> e.payers + Cardinality(PayersOf(h, ps) \ Seen(h)),
           first |-> IF e.payments = 0 THEN Len(blocks) - 1 ELSE e.first, last |-> Len(blocks) - 1]

\* EarningsStore.record: one batch.
RecordEarnings ==
  /\ stage = "record"
  /\ tally' = [h \in Holder |-> Earned(h, revenue)]
  /\ payerPairs' = payerPairs \cup {<<p.payee, p.payer>> : p \in ToSet(revenue)}
  /\ stage' = "advance"
  /\ UNCHANGED <<coins, bonds, blocks, opening, maintainer, registry, slashes, revenue, paid, granted, outages>>

Named(op) == {d.to : d \in {d \in ToSet(Last(blocks)) : d.op = op}}

\* applyStakeSideEffectsLocked: at a boundary the bonds of the slashed go to the pool.
Slashed(due) ==
  /\ coins' = [coins EXCEPT ![Pool] = @ + Total(bonds, due)]
  /\ bonds' = [h \in Holder |-> IF h \in due THEN 0 ELSE bonds[h]]

\* advanceHeight: provider changes are in force from the next block, slashes at
\* the boundary, where a bond goes to the pool.
AdvanceHeight ==
  /\ stage = "advance"
  /\ registry' = (registry \ Named("remove")) \cup Named("add")
  /\ LET due == slashes \cup Named("slash")
     IN IF Len(blocks) % EpochBlocks = 0
        THEN slashes' = {} /\ Slashed(due)
        ELSE /\ slashes' = due
             /\ UNCHANGED <<coins, bonds>>
  /\ stage' = "idle" /\ revenue' = <<>>
  /\ UNCHANGED <<blocks, opening, maintainer, bookVars, paid, granted, outages>>

\* Start: the ledger, the registry and the tally are what was written; the
\* maintainer is replayed from the chain, and a slash of the pardoned validator
\* is dropped from what is pending.
Rotations(i) == {j \in DOMAIN blocks[i] : blocks[i][j].op = "rotate"}
Replayed ==
  LET rotating == {i \in DOMAIN blocks : Rotations(i) # {}}
      last == Max(rotating)
  IN IF rotating = {} THEN Dev ELSE blocks[last][Max(Rotations(last))].to

\* pardonVirginiaRestartSlashLocked, on every start.
Pardon(due) == due \ {Pardoned}

Outage ==
  /\ outages < MaxOutages
  /\ outages' = outages + 1
  /\ stage' = "idle" /\ revenue' = <<>>
  /\ maintainer' = Replayed
  /\ slashes' = Pardon(slashes)
  /\ UNCHANGED <<coins, bonds, blocks, opening, registry, bookVars, paid, granted>>

-----------------------------------------------------------------------------
(* A new chain. *)

\* Fault for the mutation runs: a snapshot that leaves the accrued fees out.
FeelessSnapshot ==
  [pool |-> coins[Pool], held |-> [h \in Holder |-> coins[h] + bonds[h]], odd |-> coins[Odd]]

\* snapshotLedger: fees are folded into the pool, bonds returned to their owners,
\* what cannot be classified is listed and left out.
Snapshot ==
  [pool |-> coins[Pool] + coins[Accrued], held |-> [h \in Holder |-> coins[h] + bonds[h]], odd |-> coins[Odd]]

Supply == Whole(Endowment)

\* ValidateProductionConfig refuses a genesis that does not close at the supply;
\* ApplyGenesis credits it to an empty store.
Relaunch ==
  /\ stage = "idle" /\ blocks # <<>>
  /\ Snapshot.pool + Whole(Snapshot.held) = Supply
  /\ coins' = [a \in Purse |-> CASE a = Pool -> Snapshot.pool
                                 [] a \in Holder -> Snapshot.held[a]
                                 [] OTHER -> 0]
  /\ bonds' = [h \in Holder |-> 0]
  /\ blocks' = <<>>
  /\ opening' = Snapshot.pool
  /\ maintainer' = Dev
  /\ registry' = {} /\ slashes' = {}
  /\ tally' = [h \in Holder |-> NoEarnings] /\ payerPairs' = {}
  /\ paid' = [h \in Holder |-> NotPaid] /\ granted' = 0
  /\ UNCHANGED <<stage, revenue, outages>>

Bodies == {ds \in SeqOf(Deals, MaxDeals) : IsInjective(ds)}

TreasuryNext ==
  \/ \E ds \in Bodies : CommitDeals(ds)
  \/ RecordEarnings
  \/ AdvanceHeight
  \/ Outage
  \/ Relaunch

TreasurySpec == TreasuryInit /\ [][TreasuryNext]_treasuryVars

-----------------------------------------------------------------------------
(* Properties. *)

\* No coin is made or lost by fees, rewards, grants, bonds, slashes or a relaunch
\* from a snapshot, whose total and list of leftovers add up to the ledger; and
\* nothing leaves the pool but the grants and, at most, what the schedule emits.
PoolOnSchedule ==
  /\ Whole(coins) + Whole(bonds) = Supply
  /\ Snapshot.pool + Whole(Snapshot.held) + Snapshot.odd = Supply
  /\ coins[Pool] + granted * Grant + Whole([i \in 0 .. Len(blocks) - 1 |-> EmissionFor(i)]) >= opening

\* The tally never says more than happened: not more coins, payments or payers
\* than were paid, whatever block a crash kept out of it; without a crash, exactly
\* that.
EarningsHonest ==
  \A h \in Holder :
    LET payers == Cardinality(paid[h].payers)
    IN /\ tally[h].received <= paid[h].coins
       /\ tally[h].payments <= paid[h].payments
       /\ tally[h].payers <= payers
       /\ stage = "idle" /\ outages = 0 =>
            /\ tally[h].received = paid[h].coins
            /\ tally[h].payments = paid[h].payments
            /\ tally[h].payers = payers

\* Coins and the account of them (PoolOnSchedule and EarningsHonest).
PayoutsHonest == PoolOnSchedule /\ EarningsHonest

\* What the comments of treasury.go say of the pinned allocation: it is
\* single-use, since the pool never returns to a balance it had.
AllocatedOnce == granted <= 1
=============================================================================
