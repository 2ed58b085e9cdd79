# Matrix OS: specifications and proofs

TLA+ models of the node of Matrix OS (`services/core`, Go), the TLC runs that
check them, and TLAPS proofs about them.

## 1. The system

A Matrix OS node is one process. It keeps one Pebble store (`internal/kv`), one
balance ledger (`internal/market/ledger.go`), one consensus engine
(`internal/consensus`) and the services that sell inference and compute against
the ledger. Nodes exchange messages over libp2p gossip (`internal/p2p`,
`internal/transport`), which may lose, repeat, delay and reorder them.

| component | state it keeps | operations | interacts with |
|---|---|---|---|
| voting (`consensus/engine.go`, `selfvotes.go`, `messages.go`, `validators.go`) | height, round, lock, valid value, bodies, tallies per round; own votes on disk | `tick`, `handleProposal`, `handleVote`, `castVoteMsg`, `processPrevoteQuorum`, `maybeCommit`, `handleSyncResponse`, `Start` | gossip in and out; the commit path; 9 goroutines over one mutex |
| commit path (`engine.go` `commitAndApply`, `advanceHeight`; `chain.go`; `market/ledger.go`) | block chain on disk, balances on disk, mempool and committed keys in memory, settlement waiters | `BlockChain.Commit`, `Ledger.Atomically`, `recordApplied`, `advanceHeight`, `WaitForSettlement`, `Submit` | called by voting; calls every application below |
| membership and stake (`setchange.go`, `stake.go`, `evidence.go`, `launchrepair.go`) | active set, pending changes, bonds, departure heights, evidence | set change, epoch boundary, reweighting, slash, bond, withdraw | applied by the commit path, read by voting |
| fees and rewards (`fees.go`, `rewards.go`, `treasury.go`, `maintainer.go`, `earnings.go`) | accrual account, provider registry, emission schedule | fee split, maintainer share, emission | inside the ledger critical section of a commit |
| budgets and reservations (`spendescrow.go`, `inferescrow.go`, `token/spendauth.go`) | escrow accounts and records | open, draw, close; fund, settle, claim | inside the ledger critical section of a commit |
| bridge (`bridge/`, `consensus/bridgelock.go`, `burnunlock.go`, `node/bridge_watch.go`) | escrow account, locked and unlocked totals, burn markers, watcher cursor, attestation tallies | lock, attest, tally, release, poll, reconcile | reads Ethereum; submits attestations to consensus |
| market (`market/market.go`, `merkle.go`, `pricing.go`) | providers, quotes, jobs, capacity | register, reserve, complete, release, cancel | ledger; persisted in the store |
| market exchange (`marketexchange/`) | remote offers, attestations | announce, request, settle | gossip; market |
| inference (`inference/`, `node/compute_settlement.go`, `budget_sweep.go`) | inference jobs, run authorizations seen, escrow plans | submit, run, invoice, settle, expire, recover | market, ledger, consensus, model backends |
| API surfaces (`connectapi`, `openaiapi`, `inferenceapi`, `marketapi`, `agentapi`, `admin`, `ethrpc`) | rate buckets, idempotency records, streams | request handlers | everything above |
| agents (`agent/`, `agentapi/`) | WebAssembly instances and their buffers | run, message | sandboxed in one process |
| keys and tokens (`token/`, `ethsig`, `evmtx`, `rlp`) | keystores, genesis, supply | sign, verify, encode | used everywhere |
| networking (`p2p/`, `transport/`) | peers, scores, subscriptions | publish, subscribe, score | libp2p |

What makes the system hard:

- **Interleaving.** Nine goroutines of one engine (driver, proposal, vote, sync
  and other handlers) share one mutex and release it between deciding and
  acting. Clients submit and wait while a block is being applied.
- **Restarts.** A block is durable before its effects, and every ledger transfer
  and every bridge record is a durable batch of its own. Votes are kept on disk;
  mempools, tallies, locks and outcomes are rebuilt or lost.
- **The network.** Votes, proposals and transactions are lost, delayed and
  reordered; nodes catch up from blocks their peers serve.
- **Faults.** Less than a third of the power may sign anything; Ethereum may
  reorganise, up to the depth the watchers wait for.
- **Arithmetic.** Fees and shares round, in machine words.

What each part has to guarantee: *voting*: one block per height, never two votes
for one position, a lock that only moves up. *Commit path*: every node's ledger
is the fold of its chain, no coin is made or lost, a nonce is spent once, callers
are told the truth. *Bridge*: the escrow covers the wrapped supply, is released
only for finalised burns and once for each, and every burn is redeemed.
*Membership*: every node switches to the same set at the same height, a bond
stays slashable while it can be. *Budgets and reservations*: what leaves an escrow
never exceeds what was funded, each reservation ends once. *Market*: reserved
capacity is returned exactly once.

## 2. Modules

Components first, then what composes them, then the proofs. `PROJECT.json` maps
every definition to the lines it models.

| module | what it is | code |
|---|---|---|
| `Consensus` | the choice of one value by a set of nodes: what voting promises | abstract |
| `Voting` | one height of the engine: proposals, prevotes, precommits, locks, certificates, sync, restarts, several goroutines per node | `consensus/engine.go`, `selfvotes.go`, `messages.go`, `validators.go` |
| `Fees` | the arithmetic of fees and shares | `consensus/fees.go` |
| `Settlement` | a transfer from `Submit` to `WaitForSettlement`: mempool, nonces, blocks, the commit path step by step, restarts | `engine.go`, `chain.go`, `market/ledger.go`, `stateroot.go` |
| `Membership` | bonds, withdrawals, admissions, removals, slashes and the epoch boundary, with restarts | `consensus/setchange.go`, `stake.go`, `evidence.go`, their callers in `engine.go` |
| `Candidacy` | how an operator gets into the open set and out of it: bonding, announcements, mempool slots and quota, rounds that fail | `engine.go`, `settle.go`, `stake.go`, `rewards.go` |
| `CatchUp` | block sync: stashed votes and bodies, announced heads, throttled requests and answers | `engine.go`, `messages.go` |
| `Treasury` | emission, pinned pool transfers, rotation of the maintainer, the earnings tally, a relaunch from a snapshot | `rewards.go`, `treasury.go`, `maintainer.go`, `earnings.go`, `launchrepair.go`, `genesis_snapshot.go` |
| `Bridge` | both chains of the bridge: locks, mints, burns, reorganisations, watchers, attestations, tally, release, restarts, a validator leaving | `bridge/`, `burnunlock.go`, `bridgelock.go`, `node/bridge_watch.go`, `WrappedMatrix.sol` |
| `Wallet` | Ethereum's JSON-RPC over the native chain: nonces, admission, receipts, indexes, and a transfer located in the history | `ethrpc/`, `evmindex.go`, `nonces.go`, `token/evm.go`, `node/transfer_settlement.go` |
| `Signatures` | V and the parity in it, and the two spellings of a signature | `evmtx/`, `ethsig/` |
| `Envelope` (extends `Signatures`) | the bytes of a wallet: RLP and the two envelopes | `rlp/`, `evmtx/` |
| `Reservations` | budgets and inference reservations on the chain: open, draw, close, sweep; fund, settle, claim | `spendescrow.go`, `inferescrow.go`, `blocktime.go`, `node/budget_sweep.go` |
| `Inference` (extends `Reservations`) | a job from its reservation to its payment, with concurrent handlers, lost answers, expiry, restart | `inference/service.go`, `settle.go`, `escrow.go`, `stream.go` |
| `Market` | providers, quotes, jobs, capacity, and the settlement of compute jobs on the chain | `market/market.go`, `node/compute_settlement.go` |
| `Exchange` (extends `Market`) | announcements and orders over gossip | `marketexchange/` |
| `Agents` | deployment, runs, messages, rent and eviction | `agentapi/manager.go`, `rent.go` |
| `Access` | rate limit, API keys and their reload, run authorizations | `connectapi/ratelimit.go`, `admin/auth.go`, `inference/runauth.go` |
| `Gateway` | posts under idempotency keys | `openaiapi/`, `node/idempotency.go` |
| `Metering` | from a vendor's frames to a bill | `inference/openai.go`, `openai_stream.go`, `stream.go`, `escrow.go` |
| `Purchase` | the buyer's own program: reserve, fund, stream, check, settle, recover | `cli/inference_escrow.go`, `cli/inference.go` |
| `Lifecycle` | what `Start` brings up and `Stop` takes down, while requests and loops are at work; the keys in force | `node/node.go`, `cmd/matrixd` |
| `Watchdog` | the watch over the ledger's lock and the loop that dials bootstrap peers | `node/ledger_watch.go`, `market/ledger.go`, `node.go` |
| `MCVoting`, `MCSettlement`, `MCMembership`, `MCCandidacy`, `MCTreasury`, `MCGateway` | an instance of one module | |
| `MCFaults`, `MCLedger`, `MCRecovery`, `MCInference`, `MCServices` | instances of several parts at once | |
| `VotingProofs` | theorems about `Voting` | |
| `Sums` | the sum over a set | |
| `SumProofs` | facts about sums, shares and recursion that the other proofs use | |
| `SettlementProofs` | theorems about `Settlement`, `Wallet` and `Signatures` | |
| `MembershipProofs`, `BridgeProofs` | theorems about `Membership` and `Bridge` | |
| `PaymentProofs` | theorems about `Fees`, `Reservations`, `Inference` and `Treasury` | |
| `RequestProofs` | theorems about `Lifecycle`, `Watchdog`, `Gateway`, `Access`, `Metering` and `Purchase` | |
| `ServicesProofs` | theorems about `Market`, `Exchange` and `Agents` | |

The roots of several parts are *sums*: the parts share no variable, `part` is
chosen at the start, and only the steps of that part are taken while the others
stay as they were set up. A run then checks several small systems in one go; it
claims nothing about their interplay. Where parts do share state, they are
composed in one module: `Inference` runs on the chain of `Reservations`,
`Exchange` on the market of `Market`, `Settlement` computes with `Fees`.

Definitions marked "Fault for the mutation runs" are plausible bugs of the code;
they take part in nothing until a mutation run puts one in the place of the
definition after it.

### Consensus and membership

*Voting.* `round`, `lock`, `valid`, `bodies`, `own`, `quorums`, `committing` are the
fields of `Engine` of the same purpose; `disk` is `SelfVoteStore`; `decided` the
block in the chain store with the round of its certificate. `votes` and
`proposals` are what was ever published: a peer may read any of it at any time or
never, which is loss, delay, duplication and reordering at once. `pc` and `queue`
say what each goroutine does next. A step ends where the engine releases `e.mu`
before acting on what it decided. So `HandleProposal` (`acceptProposal`) decides to
prevote and `CastVote` (`castVoteMsg`) signs in another step; between them the
other goroutines of the node move. Faulty validators have signed every vote in
advance and may send any proposal that passes verification. A block is the round
it was built in and a variant.

*Membership.* `sets` is a node's `validatorSet` with its power and its
`pendingChanges`; `disk` is `SetStore`. `bond`, `purse` and `pool` are what of its
ledger this part moves, `bondedAt` and `leftAt` the two clocks of `StakeLedger`,
`dirty` and `fresh` the flags that let a boundary skip its work. `Agree` appends a
block that a quorum verifies and approves; each node applies it in `Store`, `Move`
and `Advance`, which at an epoch boundary does `applyEpochBoundaryLocked`.
`Restart` may fall between any two. Bonds lock a fixed deposit; mempools are in
`Candidacy`.

*Candidacy.* The driver of a node tops up its bond, asks for admission, announces
again, leaves and withdraws; mempools keep one slot per operation and a quota for
the lot; a leader forgets a change it proposed in a round that failed. What is
committed is one state here. Timestamps make every offer a new transaction.

*CatchUp.* One block per height, as `Voting` shows; what is left of a height is
which precommits and which body a node has. `Announce`, `Ask`, `Serve` and
`ApplySync` are the head announcements, the requests and the answers, each behind
its throttle; messages may be lost, and a commit may fail after a body was taken.

### Ledger

*Settlement.* `chain` holds the agreed blocks (transfers and the state root they
were built on); `stored` is how many of them a node's chain store has; `balance`
its ledger; `step`, `index` and `outcome` the progress of `commitAndApply`: `Store`
(`chain.Commit`), `Skip` or `PayNet` then `PayFee` for every transfer, `Distribute`
(fees), `Publish` (`recordApplied`), `Advance` (`advanceHeight`). Each is a durable
write or a critical section, and clients (`Submit`, `Wait`, `GiveUp`) and `Restart`
come in between. Agreement is one step: a block is appended when a quorum, counting
all faulty nodes, accepts it (`verifyBlockForHeightLocked`).

*Treasury.* One node; a block's changes to the ledger are one step, while the
earnings, the registry of providers and the slashes are steps of their own that a
crash can fall before, as in the code.

*Reservations.* The ledger of one node; a transaction is a record, and two
signatures of one content differ in their nonce. `time` is the timestamp of the
last block, and a block is what is applied between two moves of it. A budget or
reservation is an account whose name is its terms, so the genesis gives it nothing.

*Bridge.* Ethereum is a sequence of events, one per block, that may lose its last
`ReorgDepth`. Each node applies one committed chain in four durable steps
(`CommitBlock`; `MoveLock` or `Attested`, the ledger transfer; `RecordLock` or
`MarkBurn`, the bridge's own batch; `Finish`), and `Restart` may come between any
two. `Watch` is one poll of a watcher over one block. A node's set (`vset`) may
lag: one that restarted while it applied a departure has missed it.

*Wallet, Envelope.* Blocks of one transaction, indexes that are filled after the
block is stored and lost with the process, admission by hash and by nonce, and the
client that signs without an envelope and finds its transfer page by page. `Signatures`
is apart from `Envelope` because it is proved about and the bytes are not. The
bytes are those of a small alphabet in which every kind of prefix has its place;
`wire` grows byte by byte, so that every short string is a state.

### Services

*Inference.* `status`, `reserved`, `invoice`, `due`, `billed`, `issued` are a job's
fields; `call` says where each handler is. The model, `Submit` and
`WaitForSettlement` run unlocked, so every handler may be called again meanwhile. A
job is paid for by the node, which signs for an account it holds, by the buyer's
signature of an invoice, or from a reservation funded first.

*Market, Exchange.* A call holds the market's locks from its first check to its
last write and is one action; what interleaves is `SettleAndCompleteJob`, which
waits for the chain. The second of a call's two disk writes may fail. Messages are
delivered late, out of order, twice or never.

*Agents.* `records` in memory and `stored` on disk; a charge waits for the chain
without the lock, so that the sweep and a deployment interleave.

### The process and the request

*Access, Gateway, Metering.* What a request passes on its way in, the key that
makes a retry cheap, and the count of its answer. A handler of `Gateway` is in
`serving`, the record of its key in `records`, the jobs it opened in `orders`.

*Purchase.* The command's place is `seat`, what it has heard of the node `heard`,
what its wallet signed `signatures`. The node may be honest or not; the process may
be killed anywhere, and another one recovers.

*Lifecycle.* `began` is what `Start` has brought up and `Stop` not closed; `loops`,
`listening` and `atWork` are the goroutines, the open listeners, and who is in the
middle of something; `stopped` counts the steps of `Stop`. A signal is taken once
`Start` has returned; one that comes earlier ends the process.

*Watchdog.* The lock is taken, noted, cleared and given up in four steps, writers
queue, readers may hold it for ever; the watch reads the counts and then decides.

## 3. Properties

| property | says | module |
|---|---|---|
| `Agreement` | no two honest validators commit different blocks | Voting |
| `LockHonoured`, `LockMovesUp` | a validator that precommitted backs another block only after a newer polka for it, through restarts; a lock is left only for a certificate no older | Voting |
| `OncePerPosition` | no two votes of an honest validator for one position: the pair would slash it | Voting |
| `PolkaBacked`, `CommitCertified` | a precommit rests on a polka of its round, a commit on precommits of one round | Voting |
| `ChoosesOnce` | voting implements `Consensus` (`INSTANCE Consensus WITH choice <- ...`) | Voting |
| `Solvent` | the escrow covers the wrapped supply and open burns, is what was locked and not released, pays a burn once, and nodes at one height keep the same books (`Mirror!Solvent`, `Backed`, `PaidOnce`, `SameBooks`) | Bridge |
| `NoFalseRelease` | escrow leaves only for a finalised burn, to its account | Bridge |
| `Redeemed` | a finalised burn is released at every node | Bridge |
| `WalletTold` | no success is shown for what moved nothing, a hash handed out is found, the pending nonce is usable, a transfer is located where it is | Wallet |
| `SignaturesHold` | the chain does what a payer signed, once; bytes have one reading and a reading one spelling, a signature and its twin one key | Wallet, Envelope, Signatures |
| `NonceSpentOnce` | a nonce authorises at most one committed transfer | Settlement |
| `LedgerTrue` | no coin is made or lost, in the middle of a block included; between blocks a ledger is the fold of the chain | Settlement |
| `CallersToldTruth`, `CallersAnswered` | callers are answered, with what the chain says, and none sleeps through it | Settlement |
| `PayoutsHonest` | the pool pays by its schedule, the earnings never say more than was paid, a snapshot loses nothing | Treasury |
| `SameSet` | nodes at one height have the same weighted set, pending changes, bonds and clocks | Membership |
| `BoundaryUsable` | no boundary meets a set it must refuse, dropping committed changes | Membership |
| `WeightsCurrent` | power is the bonds whenever the code takes it to be: skipping a boundary loses nothing | Membership |
| `StakeHeld` | a bond leaves by a slash, or after the whole unbonding period | Membership |
| `TakesEffect` | committed changes come into force, on an idle chain included | Membership |
| `JoinsAndLeaves` | an operator that wants to is in the set in the end, and out of it with its bond | Candidacy |
| `CatchesUp` | a node that fell behind holds what a validator committed | CatchUp |
| `PaidOncePerDeposit` | payments out of a reservation never share a deposit | Reservations |
| `BudgetTerms`, `BudgetsSwept` | coins leave a budget within its cap and before its expiry, or go back to the buyer; an expired one is emptied | Reservations |
| `CompletedIsPaid` | a completed job is paid for, a streamed answer had its deposit first | Inference |
| `EndedReleases`, `UnpaidExpires` | an ended job holds no capacity; no invoice stands for good | Inference |
| `CapacityAccounted`, `ChargedOnce` | the capacity that is sold is what the jobs hold; work is charged once | Market |
| `RentOnce`, `EvictedAfterGrace` | no period is charged twice; only an overdue deployment is evicted, after the grace | Agents |
| `WithinRate` | no client gets more than its burst and refill | Access |
| `ServedOnce` | an authorization runs once in the life of a process; a key is charged once, but for a payment that a handler stopped waiting for | Access, Gateway |
| `Metered` | a stream cut anywhere is never billed more than the whole answer counted the same way | Metering |
| `BuyerKept` | whoever the node is: what is signed unseen is within the deposit and what the text can have cost; an honest bill for the whole text is not refused; a funded job is recovered; one signature per purpose, for one bill | Purchase |
| `NodeWhole` | nothing is at work before what it uses is up nor, if `Stop` waits for it, after it is closed; the keys in force are of the last good config | Lifecycle |
| `WatchTells` | an alarm is true, none is missed or kept, each printed line tells a change | Watchdog |

Several are stated for nodes outside `torn`: those that restarted in the middle of
a block. Such a node is left with part of a block applied (section 6) and no
property of its books holds. Every property answers a hazard in `PROJECT.json`, and
has a mutant: a fault in the model of the code under which TLC finds it violated in
the run that checks it. `RentOnce` and `EvictedAfterGrace` leave out a deployment that
two loops disputed (`raced`), and `ChargedOnce` a job whose requests overlapped, or
that a crash or a failed write disturbed: what the code does then is in the comments
of `Agents` and `Market`. The types of `Voting` and `Bridge` are theorems; the other
inductive invariants carry the types their arguments need (section 5), and the
`TypeOK` of a module without one only states them.

## 4. Runs

| run | parts and instance | properties |
|---|---|---|
| `faults` | *voting*: powers 3, 2, 2, the last faulty; 2 rounds; 1 restart; one goroutine per node. *bridge*: 3 validators, one faulty, one departure; 1 lock, 1 burn, 2 accounts; reorganisations of depth 1; 1 restart; escrow carried over by a relaunch. *wallet*: 2 nodes, a payer who can afford one of her transactions, an envelope for another chain; 1 restart. *envelope*: every string of up to 4 bytes, 7 where an envelope begins | `Agreement`, `LockHonoured`, `CommitCertified`, `OncePerPosition`, `PolkaBacked`, `LockMovesUp`, `ChoosesOnce`; `Solvent`, `NoFalseRelease`; `WalletTold`; `SignaturesHold` |
| `recovery` | *bridge*: 2 validators that must both attest. *sync*: a validator and a follower, 2 blocks, 1 fault. *candidacy*: a founder and a candidate, 2 turns, 1 loss | `Redeemed`; `CatchesUp`; `JoinsAndLeaves` |
| `ledger` | *rogue*: 3 nodes, one faulty; transfers at one nonce, a self-transfer; blocks of 2; 2 blocks. *restarted*: 2 nodes; a transfer and one that is unaffordable unless it comes second; 1 restart; callers. *treasury*: a founder, a provider, a buyer, ten deals, 2 blocks, 1 outage | `NonceSpentOnce`, `LedgerTrue`, `CallersToldTruth`, `CallersAnswered`; `PayoutsHonest` |
| `membership_epoch` | 3 validators, one that equivocates; both modes; 4 blocks, epochs of 2; 1 restart | `SameSet`, `BoundaryUsable`, `WeightsCurrent`, `StakeHeld`, `TakesEffect` |
| `inference` | *inference*: one job paid from a budget, 2 handlers, 1 restart. *access*: 2 clients, 2 authorizations, 4 requests. *gateway*: 2 handlers, 1 key, 2 posts, 2 hours, 1 restart. *metering*: 2 pieces of text, calls, working. *purchase*: an honest and any other node. *lifecycle*: six config files, 2 edits, 2 processes. *watch*, *dial*: 2 writers, a reader, 2 peers of which one malformed | `CompletedIsPaid`, `EndedReleases`, `UnpaidExpires`; `WithinRate`, `ServedOnce`; `Metered`; `BuyerKept`; `NodeWhole`; `WatchTells` |
| `services` | *chain*: a budget of 4 with cap 3, a reservation that outlives it, two deposits. *market*: capacity 2, 2 jobs, with a chain or with gossip, 1 restart. *agents*: one agent, 3 charges, 1 restart | `PaidOncePerDeposit`, `BudgetTerms`, `BudgetsSwept`; `CapacityAccounted`, `ChargedOnce`; `RentOnce`, `EvictedAfterGrace` |
| `voting_fork` | powers 5 and 1, both honest, 2 goroutines | *violates* `Agreement` |
| `settlement_nonce` | 2 nodes, two transfers at one nonce | *violates* `HonestBlockValid` |
| `membership_unbonded` | 2 validators and a candidate | *violates* `AdmittedBonded` |
| `provider_veto` | a founder who lists a provider and a validator who does not | *violates* `KeepsCommitting` |
| `gateway_cut` | 2 posts under one key, one cut short | *violates* `ChargedOncePerKey` |
| `treasury_grant` | an allocation, a bond of its amount and a slash | *violates* `AllocatedOnce` |

**Bounds.** Two rounds are the least in which a lock can be contradicted, three
validators of unequal power the least in which a faulty one leaves quorums that
intersect in an honest one. Two blocks are the least in which a nonce is reused
across blocks and dust is carried over; two transfers per block the least in which
they conflict or depend on each other. One restart falls between any two steps; a
second one adds nothing the first, at another step, does not. The divisor of a
basis point is 4 in the runs, so that every rounding happens with small amounts. Two
epochs of two blocks are the least in which a validator leaves at one boundary and
its unbonding period ends before the last block, a change waits a block for its
boundary, and a set that was weighted is weighted again. Two handlers are the least
that race, and jobs share nothing but capacity and a buyer's balance. A deposit as
large as the cap and a budget that affords one and not two bring out every refusal.
`IdleTTL` is long enough to fill a bucket and not shorter: with a shorter one
`WithinRate` does not hold, so the code's default matters. Pools and mempools are
small enough to be full.

**Reductions.** `RunThrough` (Voting) lets a goroutine finish before another of the
same node starts: the hypothesis of serial handlers, not what the engine does
(section 5). In `Bridge`, `Settlement` and `Membership` a node that has begun a block
finishes it or restarts: its steps touch that node only. `OneBehind` keeps the node
that does not restart up to date with the chain; `Reduced` (MCFaults) lets the
second of two like validators, or the first of two like nodes, be the one that
restarts. `CursorsMatter` and `CursorsSaved` drop failed saves of a cursor that
nothing reads. `RunThrough` (Membership) brings evidence before the first block or
never, since only the validity of a slash reads it. `NobodyWaits` and
`CallersAtOne` limit callers that change nothing but their own entries.
`RestartsMatter` drops restarts of a node without jobs, `CallersInTurn` takes like
goroutines in order, `EditsOrCalls` follows a reload or a shutdown, which share no
state. `MarketApart` separates the coordinator, which needs a chain, from gossip,
which needs none. A wallet's blocks carry one transaction.

**Deadlock** is not checked: rounds, blocks, requests and clocks are bounded, so the
models stop where the program would go on.

**Fairness.** *Settlement*: applying a block never blocks (weak fairness of the
commit path); leaders rotate with the height and the round, so a node that can
propose again and again does (strong fairness of `Propose`). Clients owe nothing.
*Bridge*: the watcher's ticker and the commit path keep going; an attestation that
is pending everywhere is proposed, since leaders take mempools oldest first.
*Membership*: a leader that `mustAdvanceToEpochBoundaryLocked` tells to propose gets
its block agreed to if honest validators have a quorum. *CatchUp*: the driver ticks;
what is announced, asked and answered again and again arrives once. *Candidacy*:
drivers tick, leaders commit again and again, and what is announced again and again
arrives. *Reservations*, *Inference*: time passes, blocks come, and the
sweeps run on their tickers. Progress of voting itself is not claimed: it needs
synchrony that is not modelled.

## 5. Proofs

For every value of the constants, under the named assumptions of the modules. A
star marks a property that a run checks under the same name.

| theorem | states |
|---|---|
| `VotingProofs!TypeCorrect` | `Spec => []TypeOK` |
| `VotingProofs!NeverEquivocates` | `Spec => []OncePerPosition` * |
| `VotingProofs!PrecommitsBacked` | `Spec => []PolkaBacked` * |
| `VotingProofs!CommitsCertified` | `Spec => []CommitCertified` * |
| `VotingProofs!AgreementUnlessOvertaken` | `Spec /\ []NoneOvertaken => []Agreement` * |
| `VotingProofs!SerialOvertakesNothing` | serial handlers overtake nothing |
| `VotingProofs!SerialAgreement`, `SerialLocks` | serial handlers: `[]Agreement` *, `[]LockHonoured` * |
| `VotingProofs!LocksMoveUp` | `Spec => LockMovesUp` * |
| `VotingProofs!ChoosesOnceUnlessOvertaken`, `SerialChoosesOnce` | the refinement of `Consensus`: `ChoosesOnce` * |
| `SettlementProofs!NonceAuthorisesOnce` | `Spec => []NonceSpentOnce` * |
| `SettlementProofs!WakeupsKept` | `Spec => []NoLostWakeup` |
| `SettlementProofs!LedgerTypes` | `Spec => []TypeOK`: no balance falls below zero |
| `SettlementProofs!LedgerIsTrue` | `Spec => []LedgerTrue` * |
| `SettlementProofs!CallersToldTrue` | `Spec => []ToldTruth`: with the two theorems on its other parts, all of `CallersToldTruth` |
| `SettlementProofs!ToldTrue` | `WalletSpec => []WalletTold` * |
| `SettlementProofs!DoneAsSigned` | `WalletSpec => []AsSigned`, a part of `SignaturesHold` |
| `SettlementProofs!OneKey` | `OneKeyPerSignature`, another part of it, for a curve of any odd order |
| `SettlementProofs!SignedVReadBack` | `Sign` and `recoveryID` are inverse to each other |
| `PaymentProofs!PartExact`, `PartWithinAmount`, `ProductsFit`, `ShareWithinAccrued` | dividing first gives the exact rounded fee, never more than the amount, and no product wraps |
| `MembershipProofs!BoundaryNeverRefuses`, `BondsHeld` | `BoundaryUsable` *, `StakeHeld` * |
| `MembershipProofs!SetsAgree`, `PowerIsCurrent` | `SameSet` *, `WeightsCurrent` * |
| `BridgeProofs!TypeCorrect`, `ReleasesOnlyFinalBurns` | `TypeOK`, `NoFalseRelease` |
| `BridgeProofs!EscrowCoversWrapped` | `FewFaulty => (Spec => []Solvent)`, `Solvent` of `Bridge` |
| `BridgeProofs!EscrowIsBacked`, `PaysOnce`, `BooksAgree` | `Backed`, `PaidOnce`, `SameBooks`: what `MCFaults!Solvent` states besides |
| `PaymentProofs!PaidOnce`, `BudgetKept`, `NoOverdraft`, `JobsPayOnce` | `PaidOncePerDeposit`, `BudgetTerms`, and balances above zero, on the chain alone and under the node's jobs |
| `PaymentProofs!CompletedPaid`, `EndedHoldNothing` | `CompletedIsPaid` *, `EndedReleases` * |
| `PaymentProofs!TreasuryKept`, `PayoutsAreHonest` | the invariant of the treasury, `PayoutsHonest` * |
| `SumProofs!TotalCounts` | the sum over a finite set is the number of its coins |
| `SumProofs!Apportioned` | shares rounded down of a whole come to no more than the whole |
| `SumProofs!RecursionExists` | a recursion along a sequence defines a function, and one only |
| `RequestProofs!WorksOnOpen`, `WatchIsTrue` | `NodeWhole` *, `WatchTells` * |
| `RequestProofs!AuthorizationRunsOnce`, `KeyPaysOnce`, `RetriesServedOnce` | `SingleUse`, `ChargedOnceAnswered`, and both in the program: `ServedOnce` * |
| `RequestProofs!RateIsKept` | `FillsWhileIdle /\ AccessSpec => []WithinRate` * |
| `RequestProofs!CutNeverDearer` | `Metered` * |
| `RequestProofs!BuyerIsKept` | `BuyerKept` * |
| `ServicesProofs!RequestChargedOnce`, `CapacityIsAccounted` | `ChargedOnce` *, `CapacityAccounted` * |
| `ServicesProofs!RentIsFair`, `EvictionIsDue` | `RentOnce` *, `EvictedAfterGrace` * |

**Voting.** The inductive invariant `IInv` adds to the properties what every
goroutine is about to do: a pending vote of a node is its own and, if a
precommit, has a polka among the published votes; a pending certificate is backed
(`Control`); every quorum a node counted is made of published votes (`Tallied`);
an undecided node remembers in memory and on disk exactly what it published
(`Remembered`). Without `Remembered` a restart could sign a second vote; without
`Control` a decision made before the mutex was released could be acted on when
its ground is gone. The proof holds for any number of goroutines.

**Agreement.** It is false for the engine as it is (`voting_fork`), and the theorem
says how alone it can fail: `NoneOvertaken` says that no vote is signed against a
lock or in a round that moved between the decision and the signature, and the
counterexample breaks it. A check of lock and round again inside `castVoteMsg`, in
the critical section that signs, would make `NoneOvertaken` hold and agreement with
it; `Serial`, one goroutine at a time, is the hypothesis of run `faults`. The
invariant is the classical one: a lock covers every precommit until a quorum
releases it (`LockKept`), and once a block has its prevotes no other one can still
be committed in an earlier round (`PolkasSafe`), the least round of a conflict
being found by well-foundedness. The round of a proposal's polka is not bounded by
the proposal's own round in the code; agreement does not need it.

**Settlement.** `NonceSpentOnce` is inductive with the chain being a sequence: a
committed block was verified by an honest node at the head (`HonestWitness`, from
the quorum assumption), and what such a node takes for spent is the whole chain.
`NoLostWakeup` is inductive with the types of the three variables waiting reads.
For `LedgerTrue` one has to say where in a block a node is: what is left of a sender
after `PayNet` covers the fee that `PayFee` takes (`TrackInv`), and balances,
outcomes and answers of a node that no crash has torn are those of the fold of the
chain, up to the very transfer it is at (`FollowInv`). `Distribute` conserves because
shares rounded down come to no more than what is shared (`Apportioned`). `ToldTruth`
follows from `FollowInv`: what is told was an outcome of the fold, and the fold of a
longer chain keeps it, since by `NonceSpentOnce` no transfer is in it twice.

**Membership.** `BoundaryUsable` alone is not inductive: a block is checked when
it is stored and its changes are added two steps later. `IInv` adds that the block
being applied was checked against the very set and pending changes it will be
added to (`Checked`), that disk and memory agree, so that a restart in the middle
of a block resumes a usable set (`Typed`), and that the clock of whoever was in the
set and is not runs from after it served (`Clocked`), from which `BondsHeld`
follows. Both hold for torn nodes too. The branch of `applyEpochBoundaryLocked` that
drops committed changes is thereby unreachable, as its comment claims. For `SameSet`
there is a history `h` of views, one for each block, each made of the one before by
the block alone (`After`); every node outside `torn` holds the view of its height, or
the one on the way to the next (`On`). The view also says whether a bond moved since
the set was weighed; a node that restarted does not know, and weighs again
(`Knows`), which by `Weighted` changes nothing.

**Bridge.** An attestation of an honest validator is of a burn that is final and to
its account (`Truthful`), and each quorum of a set in force has an honest one, so
what is released is due. The assumption that `ValidatorSets` is closed upwards is
there because a node may miss a departure: its set is then larger than the one in
force, and must still have honest quorums. `Balanced` relates escrow and totals but
in the middle of a block; `Marked` says that what was paid has its marker or is
about to get it; `BooksAgree` has a history of books, as above. All speak of nodes
outside `torn`. For the sum in `Solvent` (`SInv`): every node that applies a block, torn
or not, agrees with its root, so a lock recorded anywhere was one its payer could
fund there; a mint needs an honest signature (`FewFaulty`: the faulty are fewer than
the signatures that mint), hence such a lock; and a node at the head that no crash
tore has recorded all of them. Its totals are sums over the locks it recorded and
the burns it paid (`Summed`), each counted once.

**Payments.** `pays` and `funds` count; a payment or a balance of a reservation is
backed by a deposit of its own, and one that was funded and is empty has paid
(`Deposited`). Under the jobs, nonces the node issues are fresh (`Bounded`), and a
settlement that a handler carries is of a reservation that was funded
(`Payment`): applied, it has paid, though a settlement of an empty reservation
would be reported as applied too. `Genesis` gives a reservation nothing, since its
name is derived from its terms.

**Treasury.** `TreasuryInv` says that the coins and bonds come to the supply, that the
pool has lost no more than the grants and what was emitted, and that the tally,
with the payments of the last block if it is yet to hear of them, is no more than
was paid (`Fits`) and, as long as there was no crash, exactly that (`Exact`). In the
middle of a block the books are `InProgress`: they come to the supply, only grants
have left the pool, and what each account was brought is what the list of payments
says. Every kind of deal keeps that; emission and fees are split by `Apportioned`.

**Sums and recursion.** The prover has no induction scheme that can be applied, so
`SumProofs` takes a smallest counterexample: it exists because the order of the
numbers is well founded (`SmallestExists`), and the step leads to a contradiction.
`Total` is thus the number of pairs `<<a, i>>` with `i` at most `f[a]` (`TotalCounts`), and
its laws follow from cardinalities. That a recursive function has the values its
definition says is had in the same way. `SelectSeq` and `FoldLeft` cannot be expanded
in a proof, so the modules that are proved about have sets of positions and recursive
functions in their place.

**Requests.** *Lifecycle*: `Start` goes in order (`Ordered`), what `Stop` has waited
for is gone (`Gone`), and the first resource is closed after eight steps. *Watchdog*:
the window of the watch is quiet for no longer than writers were kept out and an
interval (`WindowInv`), which makes an alarm true and at most that early. *Gateway*:
the key of a request is remembered from its reservation to its answer (`KeyHeld`),
one handler holds it (`Apart`), and a job that may charge it is what it is
remembered for (`OrderKept`). *Access*: what this process ran is remembered or stale
(`UsedOnce`); what a client was let through since any moment, with what it could
still ask for at once, is no more than its burst and the refill since (`Earned`), and
a purge drops only full buckets (`FillsWhileIdle`, which the code's defaults
satisfy). *Metering*: no more of the text has arrived than there is of it, and what
is counted grows with the text. *Purchase*: the invariant says what each seat of the
command implies, and that a signature is of the bill (`Signed1`).

**Market.** What a job has on the chain is one transfer, which is under way or decided
(`Once`): a call that serves the job and has signed nothing finds nothing sent, one
that waits does so for what is under way, and what is decided and still not finished
has its call. It is the invariant of one job whose settlement is in order; others are
left alone (`OthersServed`). A completed job has a payment in any case (`PaidFor`),
and every request that made a job is known (`Listed`), which a restart finds on disk.
The capacity sold is a sum over the jobs that hold it; a step takes one job into that
set or out of it, or none (`TotalAdd`, `TotalRemove`, `TotalSame`).

**Agents.** For an agent without two writers: memory says what the disk says, once it
was shown there (`Shown`); a record's clock says up to when the rent that was taken
is fair (`Fair`), and its grace clock runs from no earlier than the last payment
(`Sound`); a bill in the sweep is of the record as it still is (`Billed`). The credits
of a charge and the time they cover are both rounded down (`Rounding`), so each may
take up to a unit of rent, less one part, more than the time it is recorded for.

**Wallet.** A transaction that was taken in is what its signature says
(`TakenVerified`), so two with one key are one; the nonces of the mempool's index are
those of its transfers (`NoncesHeld`), so the next one is above both. Outcomes are
known of exactly the blocks since the process began (`OutcomesKnown`). A caller finds
its transfer because the history only grows at its end (`HistoryGrows`), has a nonce
of a sender once (`HistoryOnce`), and what was read of it has been compared
(`CallerFollows`). The history is stated by positions, the k-th transfer being the
block with k transfers up to it, because a filter is a recursive definition.

**Fees.** From the uniqueness of quotient and remainder. `PartWithinAmount` shows
that the cap in `FeeFor` is never reached, which is why the model has none.

Only model-checked: `CallersAnswered`, `Redeemed`, `CatchesUp`, `JoinsAndLeaves`,
`TakesEffect`, `BudgetsSwept` and `UnpaidExpires`, which are liveness under
fairness; and `OneSpelling`, the part of `SignaturesHold` that is about bytes:
`Envelope` reads them with RECURSIVE operators. Both are beyond the prover. What a
root states of one part (`Solvent`, `NoFalseRelease` and `SignaturesHold` of `MCFaults`,
`CallersToldTruth` of `MCLedger`, `PaidOncePerDeposit` and `BudgetTerms` of
`MCServices`) is proved of the module that the root instantiates.

## 6. What the runs found

- `voting_fork`: `acceptProposal` checks the lock in one critical section and
  `castVoteMsg` signs the prevote in a later one. A precommit by another goroutine
  in between leaves a prevote against the lock, and two honest validators can
  commit different blocks.
- `settlement_nonce`: the loser of two transfers at one nonce stays in a mempool,
  and every later block of that node is refused.
- `membership_unbonded`: an account whose admission is committed may withdraw its
  bond before the boundary, and becomes a validator with nothing at stake. In a set
  that was weighted, the old weights then stay and it counts one.
- `provider_veto`: a provider that some validators approve and others do not stays
  in the mempools, is proposed by every leader and refused by every vote: the chain
  stops, where a set change in the same position costs one round.
- `gateway_cut`: a handler that stops waiting for a payment frees the key of its
  request as if nothing was charged, and the retry is charged again.
- `treasury_grant`: a slash returns a bond to the reward pool, whose exact balance
  guards an allocation that is meant to happen once; it can happen twice.

Other boundaries bite without a run of their own. A restart after `chain.Commit`
leaves the block partly applied, and nothing replays it: with a release of escrow
durable before its marker, such a node may pay a burn again, and a set change whose
block was torn is lost at that node. A burn whose attestation the mempool refused,
or that was pending at a restart, is skipped by that watcher for good. A departure
can complete a burn's quorum with no attestation left to release it. Outcomes of
committed transfers are forgotten by a restart, and `WaitForSettlement` then waits
in vain. In the open mode a node without evidence refuses a committed slash, and
stays behind.

What modelling showed and no property states: `Stop` with a bridge watcher cancels
`n.ctx` first, and the servers it stops afterwards get that cancelled context, so
that `Shutdown` does not wait for the requests in flight, as the comment on wallet
polls would have it; without a watcher the watch over the lock may set the health
to serving while the servers stop. The window of that watch may be up to one
interval longer than writers were kept out. Without `--timeout` an interrupt after
the reservation is not heard (`context.WithoutCancel`), though the text on Ctrl-C in
`inference_escrow.go` says it is; a recovery after part of the text has arrived
checks an honest bill against that part, and may refuse it. The next nonce after
2^64-1 is 0. `rentOwed` rounds the time a charge covers down after it rounded the
charge itself, so the next charge may take less than a unit of time's rent again,
where its comment says that nothing is charged twice. A signal during `Start` ends the process without `Stop`.

## 7. Not modelled, and the plan

1. `Voting` over two heights and two sets (stashes, stale nil votes), and its
   progress under synchrony; the set of `Membership` as the one `Voting` runs under.
2. The replay of a torn block, if the engine gets one: `torn` would go, and the
   properties would hold for every node.
3. The loops that `Stop` only cancels (dialer, announcer, sweeps): `NodeWhole`
   excuses them.

Left out: the offers of the approved-membership mode, networks without stake, and
the one-time launch repair but for what it reads of the pool; the bridge's
direct mode, which the daemon does not call; wire formats and signatures outside
`Envelope` (a message carries its true author); HTTP decoding, other commands of
the command line, user interfaces and SDKs, deployment, the token and vesting
contracts, storage and networking layers, and derived indexes outside `Wallet`.
`PROJECT.json` lists each with its reason.
