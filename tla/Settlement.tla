----------------------------- MODULE Settlement -----------------------------
(***************************************************************************)
(* The life of a transfer, from Submit to WaitForSettlement: the mempool   *)
(* and its nonce rule, blocks built from it and verified by the others,    *)
(* and the commit path that stores a block, moves the coins transfer by    *)
(* transfer, charges and distributes the fee, publishes the outcome and    *)
(* advances the height (internal/consensus/engine.go, market/ledger.go).   *)
(*                                                                         *)
(* chain.Commit and every ledger transfer are durable writes of their own: *)
(* a restart may fall between any two. Submit and WaitForSettlement run at *)
(* any moment of the commit path. What is abstracted:                      *)
(*   - Agreement on the next block (module Voting): a block is appended    *)
(*     once a quorum of nodes at the head verifies it.                     *)
(*   - Ordinary transfers only: reserved recipients move coins by rules of *)
(*     their own (module Bridge for two of them).                          *)
(*   - A transaction's dedup key is the transaction.                       *)
(***************************************************************************)
EXTENDS Fees, Sums, Sequences, FiniteSets, SequencesExt

CONSTANTS
  Node,          \* validators; a validator's id is also its account
  Faulty,        \* validators that may propose any signed transactions
  Quorum,        \* the sets of nodes whose votes commit a block
  Power,         \* voting power, by which fees are shared
  User,          \* accounts that sign transfers
  Accrual,       \* the fee accrual account
  Maintainer,    \* the account paid the maintainer share
  Transfer,      \* transfers users sign
  From, To, Amount, Nonce,  \* their fields
  Genesis,       \* opening balances
  Reach,         \* sets of peers one gossiped transaction may get to
  MaxPool,       \* mempool limit (MaxMempoolTxs)
  MaxBlockTxs,   \* transactions in a block
  MaxHeight,     \* bound on blocks
  MaxCrashes     \* bound on restarts

Honest == Node \ Faulty
Account == User \cup Node \cup {Accrual, Maintainer}
Balances == [Account -> Nat]

\* What the commit path does next with the block it holds.
Step == {"idle", "transfer", "fee", "distribute", "publish", "advance"}
Outcome == {"unknown", "moved", "skipped"}

ASSUME SettlementAssumption ==
  /\ Faulty \subseteq Node
  /\ Quorum \subseteq SUBSET Node
  /\ \A P, Q \in Quorum : P \cap Q \cap Honest # {}
  /\ IsFiniteSet(Node) /\ IsFiniteSet(User)
  /\ Power \in [Node -> Nat \ {0}]
  /\ From \in [Transfer -> User] /\ To \in [Transfer -> User]
  /\ Amount \in [Transfer -> Nat] /\ Nonce \in [Transfer -> Nat]
  /\ Genesis \in Balances
  /\ Reach \subseteq SUBSET Node
  /\ {MaxPool, MaxBlockTxs, MaxHeight, MaxCrashes} \subseteq Nat

VARIABLES
  chain,    \* the committed blocks: transfers and the state root they are built on
  stored,   \* blocks in a node's chain store
  balance,  \* a node's ledger
  step,     \* where a node's commit path is
  index,    \* the transfer of the block it is at
  outcome,  \* the outcomes of the block being applied
  applied,  \* appliedTxs: the outcomes published
  pool,     \* mempool, oldest first
  waiting,  \* settleWaiters: the transfers a node has a caller waiting for
  told,     \* history: what WaitForSettlement returned
  torn,     \* history: nodes restarted in the middle of a block
  crashes   \* restarts so far

memory == <<step, index, outcome, applied>>
clients == <<waiting, told>>
faults == <<torn, crashes>>
vars == <<chain, stored, balance, memory, pool, clients, faults>>

-----------------------------------------------------------------------------
(* What a node knows of the chain. *)

\* e.height: a block counts once advanceHeight has run for it.
Height(n) == IF step[n] = "idle" THEN stored[n] ELSE stored[n] - 1
AtHead(n) == step[n] = "idle" /\ stored[n] = Len(chain)
InBlocks(k) == UNION {ToSet(chain[i].txs) : i \in 1 .. k}
Committed(n) == InBlocks(Height(n))

NonceOf(t) == <<From[t], Nonce[t]>>
Spent(n) == {NonceOf(t) : t \in Committed(n)}
Pending(n) == {NonceOf(t) : t \in ToSet(pool[n])}

\* Fault for the mutation runs: a nonce is only compared with pending transfers.
AdmitsPending(n, t) ==
  t \notin Committed(n) /\ Len(pool[n]) < MaxPool /\ NonceOf(t) \notin Pending(n)

\* submit: not committed, not pending, room, and a nonce neither spent nor pending.
Admits(n, t) ==
  /\ t \notin Committed(n) \cup ToSet(pool[n])
  /\ Len(pool[n]) < MaxPool
  /\ NonceOf(t) \notin Spent(n) \cup Pending(n)

\* A client submits t at node n, which gossips it; handleTx at the peers applies
\* the same rule.
Submit(n, t) ==
  /\ Admits(n, t)
  /\ \E peers \in Reach :
       pool' = [m \in Honest |-> IF m \in peers \cup {n} /\ Admits(m, t)
                                 THEN Append(pool[m], t) ELSE pool[m]]
  /\ UNCHANGED <<chain, stored, balance, memory, clients, faults>>

-----------------------------------------------------------------------------
(* Building and agreeing on a block. *)

\* The transfers of s that are not in S, in their order.
Without(s, S) ==
  LET kept[i \in 0 .. Len(s)] ==
        IF i = 0 THEN <<>> ELSE IF s[i] \in S THEN kept[i - 1] ELSE Append(kept[i - 1], s[i])
  IN kept[Len(s)]

\* buildProposalLocked: the oldest pending transfers that have not committed.
Selected(n) ==
  LET fresh == Without(pool[n], Committed(n))
  IN SubSeq(fresh, 1, IF Len(fresh) < MaxBlockTxs THEN Len(fresh) ELSE MaxBlockTxs)

\* Fault for the mutation runs: replays are refused, spent nonces are not.
VerifiesKeys(n, txs, root) ==
  root = balance[n] /\ ToSet(txs) \cap Committed(n) = {} /\ IsInjective(txs)

\* verifyBlockForHeightLocked: the state root is this node's, and no transfer
\* replays a committed one or spends a nonce a second time.
Verifies(n, txs, root) ==
  /\ root = balance[n]
  /\ ToSet(txs) \cap Committed(n) = {}
  /\ \A i \in DOMAIN txs :
       /\ NonceOf(txs[i]) \notin Spent(n)
       /\ \A j \in DOMAIN txs : i # j => NonceOf(txs[i]) # NonceOf(txs[j])

\* A block with these transfers is committed: a quorum at the head verified it.
Agree(txs, root) ==
  /\ Len(chain) < MaxHeight
  /\ txs # <<>>
  /\ {n \in Honest : AtHead(n) /\ Verifies(n, txs, root)} \cup Faulty \in Quorum
  /\ chain' = Append(chain, [txs |-> txs, root |-> root])
  /\ UNCHANGED <<stored, balance, memory, pool, clients, faults>>

Propose(n) == AtHead(n) /\ Agree(Selected(n), balance[n])

\* A faulty leader's block.
ProposeAny ==
  /\ Faulty # {}
  /\ \E m \in Honest : \E txs \in BoundedSeq(Transfer, MaxBlockTxs) : Agree(txs, balance[m])

-----------------------------------------------------------------------------
(* Committing a block. *)

Goto(n, s) == step' = [step EXCEPT ![n] = s]
Block(n) == chain[stored[n]]
Current(n) == Block(n).txs[index[n]]

\* transferLocked: debit and credit in one batch, nothing for a self-transfer.
Moved(b, from, to, a) ==
  IF from = to THEN b ELSE [b EXCEPT ![from] = @ - a, ![to] = @ + a]

\* chain.Commit stores the block; appending the first transfer comes next.
Store(n) ==
  /\ step[n] = "idle" /\ stored[n] < Len(chain)
  /\ Verifies(n, chain[stored[n] + 1].txs, chain[stored[n] + 1].root)
  /\ stored' = [stored EXCEPT ![n] = @ + 1]
  /\ index' = [index EXCEPT ![n] = 1]
  /\ outcome' = [outcome EXCEPT ![n] = [t \in Transfer |-> "unknown"]]
  /\ Goto(n, "transfer")
  /\ UNCHANGED <<chain, balance, applied, pool, clients, faults>>

\* Fault for the mutation runs: the last transfer of a block is left out.
AdvancesShort(n) ==
  IF index[n] + 1 < Len(Block(n).txs)
  THEN index' = [index EXCEPT ![n] = @ + 1] /\ Goto(n, "transfer")
  ELSE UNCHANGED index /\ Goto(n, "distribute")

\* On to the next transfer of the block, or to the distribution of its fees.
Advances(n) ==
  IF index[n] < Len(Block(n).txs)
  THEN /\ index' = [index EXCEPT ![n] = @ + 1]
       /\ Goto(n, "transfer")
  ELSE /\ UNCHANGED index
       /\ Goto(n, "distribute")

Affords(b, t) == b[From[t]] >= Amount[t]

\* Fault for the mutation runs: a skipped transfer is reported as paid.
SkipAsMoved(n) ==
  /\ step[n] = "transfer" /\ ~Affords(balance[n], Current(n))
  /\ outcome' = [outcome EXCEPT ![n][Current(n)] = "moved"]
  /\ Advances(n)
  /\ UNCHANGED <<chain, stored, balance, applied, pool, clients, faults>>

\* A transfer its sender cannot afford is skipped, deterministically.
Skip(n) ==
  /\ step[n] = "transfer" /\ ~Affords(balance[n], Current(n))
  /\ outcome' = [outcome EXCEPT ![n][Current(n)] = "skipped"]
  /\ Advances(n)
  /\ UNCHANGED <<chain, stored, balance, applied, pool, clients, faults>>

\* The recipient gets the net amount.
PayNet(n) ==
  /\ step[n] = "transfer" /\ Affords(balance[n], Current(n))
  /\ LET t == Current(n)
     IN /\ balance' = [balance EXCEPT ![n] = Moved(@, From[t], To[t], Amount[t] - FeeFor(Amount[t]))]
        /\ outcome' = [outcome EXCEPT ![n][t] = "moved"]
  /\ Goto(n, "fee")
  /\ UNCHANGED <<chain, stored, index, applied, pool, clients, faults>>

\* The fee goes to the accrual account.
PayFee(n) ==
  /\ step[n] = "fee"
  /\ LET t == Current(n)
     IN balance' = [balance EXCEPT ![n] = Moved(@, From[t], Accrual, FeeFor(Amount[t]))]
  /\ Advances(n)
  /\ UNCHANGED <<chain, stored, outcome, applied, pool, clients, faults>>

\* distributeFeesLocked: the maintainer first, then the validators by power.
FeeShares(accrued) ==
  LET taken == MaintainerShare(accrued)
  IN [a \in Account |->
        (IF a = Maintainer THEN taken ELSE 0)
        + (IF a \in Node THEN ValidatorShare(accrued - taken, Power[a], Total(Power, Node)) ELSE 0)]

\* The shares are transfers out of the accrual account, where the remainder stays.
Distributed(b) ==
  LET paid == FeeShares(b[Accrual])
  IN [a \in Account |-> (b[a] + paid[a]) - (IF a = Accrual THEN Total(paid, Account) ELSE 0)]

\* The fees of the block are paid out (its transfers are one step here).
Distribute(n) ==
  /\ step[n] = "distribute"
  /\ balance' = [balance EXCEPT ![n] = Distributed(@)]
  /\ Goto(n, "publish")
  /\ UNCHANGED <<chain, stored, index, outcome, applied, pool, clients, faults>>

\* The transfers of n's block whose outcome is in S.
With(n, S) == {t \in ToSet(Block(n).txs) : outcome[n][t] \in S}

\* Fault for the mutation runs: only the transfers that moved coins are published.
PublishedMoved(n) == With(n, {"moved"})

Published(n) == With(n, {"moved", "skipped"})

\* recordApplied: publish the outcomes and wake who waits for them.
Publish(n) ==
  /\ step[n] = "publish"
  /\ LET known == Published(n)
     IN /\ applied' = [applied EXCEPT ![n] = [t \in Transfer |->
                         IF t \in known THEN outcome[n][t] ELSE @[t]]]
        /\ told' = [told EXCEPT ![n] = [t \in Transfer |->
                      IF t \in known \cap waiting[n] THEN outcome[n][t] ELSE @[t]]]
        /\ waiting' = [waiting EXCEPT ![n] = @ \ known]
  /\ Goto(n, "advance")
  /\ UNCHANGED <<chain, stored, balance, index, outcome, pool, faults>>

\* advanceHeight: the committed transfers leave the mempool, the height moves.
Advance(n) ==
  /\ step[n] = "advance"
  /\ pool' = [pool EXCEPT ![n] = Without(@, ToSet(Block(n).txs))]
  /\ Goto(n, "idle")
  /\ UNCHANGED <<chain, stored, balance, index, outcome, applied, clients, faults>>

-----------------------------------------------------------------------------
(* Waiting for the outcome. *)

\* WaitForSettlement: the published outcome, or a registered waiter, under one
\* critical section.
Wait(n, t) ==
  /\ t \notin waiting[n] /\ told[n][t] = "unknown"
  /\ \/ /\ applied[n][t] # "unknown"
        /\ told' = [told EXCEPT ![n][t] = applied[n][t]]
        /\ UNCHANGED waiting
     \/ /\ applied[n][t] = "unknown"
        /\ waiting' = [waiting EXCEPT ![n] = @ \cup {t}]
        /\ UNCHANGED told
  /\ UNCHANGED <<chain, stored, balance, memory, pool, faults>>

\* The caller's context ends first.
GiveUp(n, t) ==
  /\ t \in waiting[n]
  /\ waiting' = [waiting EXCEPT ![n] = @ \ {t}]
  /\ UNCHANGED <<chain, stored, balance, memory, pool, told, faults>>

\* Start: the chain store and the ledger are as they are; the rest of a block
\* that was being applied is not applied, and appliedTxs starts empty.
Restart(n) ==
  /\ crashes < MaxCrashes
  /\ crashes' = crashes + 1
  /\ torn' = IF step[n] \in {"transfer", "fee", "distribute"} THEN torn \cup {n} ELSE torn
  /\ Goto(n, "idle")
  /\ index' = [index EXCEPT ![n] = 1]
  /\ outcome' = [outcome EXCEPT ![n] = [t \in Transfer |-> "unknown"]]
  /\ applied' = [applied EXCEPT ![n] = [t \in Transfer |-> "unknown"]]
  /\ pool' = [pool EXCEPT ![n] = <<>>]
  /\ waiting' = [waiting EXCEPT ![n] = {}]
  /\ UNCHANGED <<chain, stored, balance, told>>

-----------------------------------------------------------------------------

Init ==
  /\ chain = <<>>
  /\ stored = [n \in Honest |-> 0]
  /\ balance = [n \in Honest |-> Genesis]
  /\ step = [n \in Honest |-> "idle"]
  /\ index = [n \in Honest |-> 1]
  /\ outcome = [n \in Honest |-> [t \in Transfer |-> "unknown"]]
  /\ applied = [n \in Honest |-> [t \in Transfer |-> "unknown"]]
  /\ pool = [n \in Honest |-> <<>>]
  /\ waiting = [n \in Honest |-> {}]
  /\ told = [n \in Honest |-> [t \in Transfer |-> "unknown"]]
  /\ torn = {}
  /\ crashes = 0

Commit(n) ==
  \/ Store(n)
  \/ Skip(n)
  \/ PayNet(n)
  \/ PayFee(n)
  \/ Distribute(n)
  \/ Publish(n)
  \/ Advance(n)

Client(n, t) == Submit(n, t) \/ Wait(n, t) \/ GiveUp(n, t)

Next ==
  \/ ProposeAny
  \/ \E n \in Honest : Propose(n) \/ Commit(n) \/ Restart(n)
  \/ \E n \in Honest, t \in Transfer : Client(n, t)

Spec == Init /\ [][Next]_vars

\* Leaders rotate, so every node that can propose does; applying a block never
\* blocks. Clients owe nothing.
Fairness == \A n \in Honest : WF_vars(Commit(n)) /\ SF_vars(Propose(n))

FairSpec == Spec /\ Fairness

-----------------------------------------------------------------------------
(* The ledger a chain stands for: blocks applied whole, one after another. *)

ApplyTransfer(s, t) ==
  IF Affords(s.balance, t)
  THEN [balance |-> Moved(Moved(s.balance, From[t], To[t], Amount[t] - FeeFor(Amount[t])),
                          From[t], Accrual, FeeFor(Amount[t])),
        outcome |-> [s.outcome EXCEPT ![t] = "moved"]]
  ELSE [balance |-> s.balance, outcome |-> [s.outcome EXCEPT ![t] = "skipped"]]

\* Balances and outcomes after each of the transfers.
AfterTransfers(s, txs) ==
  LET after[i \in 0 .. Len(txs)] == IF i = 0 THEN s ELSE ApplyTransfer(after[i - 1], txs[i])
  IN after

ApplyBlock(s, b) ==
  LET moved == AfterTransfers(s, b.txs)[Len(b.txs)]
  IN [balance |-> Distributed(moved.balance), outcome |-> moved.outcome]

AtGenesis == [balance |-> Genesis, outcome |-> [t \in Transfer |-> "unknown"]]

\* Balances and outcomes after the first k blocks.
LedgerOf(k) ==
  LET after[i \in 0 .. Len(chain)] == IF i = 0 THEN AtGenesis ELSE ApplyBlock(after[i - 1], chain[i])
  IN after[k]

-----------------------------------------------------------------------------
(* Properties. *)

\* The variables have their types; balances never go below zero.
TypeOK ==
  /\ chain \in Seq([txs : Seq(Transfer), root : Balances]) /\ Len(chain) <= MaxHeight
  /\ stored \in [Honest -> 0 .. Len(chain)]
  /\ balance \in [Honest -> Balances]
  /\ step \in [Honest -> Step]
  /\ index \in [Honest -> Nat \ {0}]
  /\ outcome \in [Honest -> [Transfer -> Outcome]]
  /\ applied \in [Honest -> [Transfer -> Outcome]]
  /\ pool \in [Honest -> Seq(Transfer)]
  /\ waiting \in [Honest -> SUBSET Transfer]
  /\ told \in [Honest -> [Transfer -> Outcome]]
  /\ torn \in SUBSET Honest
  /\ crashes \in 0 .. MaxCrashes

\* No coin is made or lost in any state, in the middle of a block included.
Conserved == \A n \in Honest : Total(balance[n], Account) = Total(Genesis, Account)

\* Between blocks a node's ledger is the fold of its chain, unless it restarted
\* in the middle of one.
LedgerIsChain ==
  \A n \in Honest \ torn : step[n] = "idle" => balance[n] = LedgerOf(stored[n]).balance

\* The ledger is right, in the middle of a block and between blocks.
LedgerTrue == Conserved /\ LedgerIsChain

\* A sender's nonce authorises at most one committed transfer, whatever the
\* leaders propose and the clients submit where.
NonceSpentOnce ==
  \A i, j \in DOMAIN chain : \A p \in DOMAIN chain[i].txs, q \in DOMAIN chain[j].txs :
    NonceOf(chain[i].txs[p]) = NonceOf(chain[j].txs[q]) => i = j /\ p = q

\* WaitForSettlement tells the truth: what it returned is the outcome the chain
\* gives the transfer.
ToldTruth ==
  \A n \in Honest \ torn, t \in Transfer :
    told[n][t] # "unknown" => t \in InBlocks(stored[n]) /\ told[n][t] = LedgerOf(stored[n]).outcome[t]

\* No lost wakeup: nobody waits for an outcome that has been published.
NoLostWakeup == \A n \in Honest : \A t \in waiting[n] : applied[n][t] = "unknown"

\* The promise of the mempool rule: an honest leader cannot build a block that
\* its peers, or itself, would refuse.
HonestBlockValid ==
  \A n \in Honest : AtHead(n) => Verifies(n, Selected(n), balance[n])

\* A caller waiting at a node for a transfer that is pending everywhere is
\* eventually answered, or gives up, unless a node was torn.
Settles ==
  \A n \in Honest, t \in Transfer :
    (t \in waiting[n] /\ \A m \in Honest : t \in ToSet(pool[m])) ~> (t \notin waiting[n] \/ torn # {})
=============================================================================
