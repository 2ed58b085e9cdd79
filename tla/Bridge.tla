------------------------------- MODULE Bridge -------------------------------
(***************************************************************************)
(* The bridge between the native chain and the wrapped ERC-20 on Ethereum: *)
(* a lock escrows native coins and lets WrappedMatrix.mint be attested, a  *)
(* burn on Ethereum is attested by each validator's watcher and releases   *)
(* the escrow when a quorum of the set in force has attested to it         *)
(* (internal/bridge, internal/consensus/burnunlock.go and bridgelock.go).  *)
(*                                                                         *)
(* Every honest validator applies the one committed chain in steps: the    *)
(* block is durable first, then the ledger transfer, then the bridge's own *)
(* batch, then the bookkeeping of advanceHeight; each is a durable write   *)
(* of its own and a restart may fall between any two. What is abstracted:  *)
(*   - Agreement on the chain (module Voting): blocks carry one            *)
(*     transaction and are appended to a chain all nodes read.             *)
(*   - Everything not in escrow is one free balance, which locks draw on   *)
(*     and releases go back to.                                            *)
(*   - An altered detail of a burn (account or amount) is another account. *)
(*   - Submissions that differ only in nonce or timestamp are one pending  *)
(*     transaction until they are committed.                               *)
(***************************************************************************)
EXTENDS Integers, Sequences, FiniteSets, Sums

CONSTANTS
  Validator,      \* the genesis validator set
  Faulty,         \* validators that may attest to anything
  ValidatorSets,  \* the sets of validators that may be in force at a node
  Quorum,         \* Quorum[V]: the sets of attesters that reach quorum in V
  Threshold,      \* attestor signatures WrappedMatrix.mint asks for
  Lock, Burn,     \* the locks and the burns users may make
  Amount,         \* Amount[x]: native base units of a lock or a burn
  Account,        \* accounts a burn may be claimed for
  Owner,          \* Owner[b]: the account burn b really names
  Supply,         \* all native coins
  GenesisEscrow,  \* escrow, and wrapped supply, carried over by a relaunch
  Confirmations,  \* how far the watchers stay behind the head
  ReorgDepth,     \* how deep Ethereum may reorganise
  Reach,          \* sets of peers one gossiped transaction may get to
  MaxPool,        \* mempool limit (MaxMempoolTxs)
  MaxEth,         \* bound on Ethereum blocks
  MaxHeight,      \* bound on native blocks
  MaxLeaves,      \* bound on validators leaving
  MaxCrashes      \* bound on restarts

Honest == Validator \ Faulty
Claim == [burn : Burn, to : Account]
Event == [kind : {"mint"}, lock : Lock] \cup [kind : {"burn"}, burn : Burn]
         \cup [kind : {"empty"}]
Tx == [kind : {"lock"}, lock : Lock]
      \cup [kind : {"attest"}, by : Validator, claim : Claim]
      \cup [kind : {"leave"}, by : Validator]
Phase == {"idle", "move", "record", "finish"}

ASSUME BridgeAssumption ==
  /\ Faulty \subseteq Validator
  /\ Validator \in ValidatorSets
  /\ ValidatorSets \subseteq SUBSET Validator
  \* A node that restarted while it applied a departure has missed it.
  /\ \A V \in ValidatorSets : \A W \in SUBSET Validator : V \subseteq W => W \in ValidatorSets
  /\ Quorum \in [ValidatorSets -> SUBSET SUBSET Validator]
  /\ \A V \in ValidatorSets : \A Q \in Quorum[V] : Q \cap V \cap Honest # {}
  /\ Amount \in [Lock \cup Burn -> Nat \ {0}]
  /\ Owner \in [Burn -> Account]
  /\ {Supply, GenesisEscrow, Threshold, Confirmations, ReorgDepth} \subseteq Nat
  /\ ReorgDepth <= Confirmations
  /\ GenesisEscrow <= Supply
  /\ Reach \subseteq SUBSET Validator
  /\ {MaxPool, MaxEth, MaxHeight, MaxLeaves, MaxCrashes} \subseteq Nat

VARIABLES
  eth,       \* Ethereum: one event of WrappedMatrix per block
  chain,     \* the committed native blocks
  root,      \* the StateRoot each block carries: the escrow before it
  stored,    \* blocks in a node's chain store
  phase,     \* how far a node is in applying its last block
  escrow,    \* ledger balance of the escrow account
  locked,    \* locked total of the bridge
  unlocked,  \* unlocked total of the bridge
  recorded,  \* lock events recorded
  released,  \* processed-burn markers: the claims released
  tally,     \* burnAttestations: who attested to which claim
  vset,      \* the validator set in force at a node
  pool,      \* mempool
  next,      \* next Ethereum block the watcher scans
  cursor,    \* the saved cursor
  paid,      \* history: how often a node paid a burn out
  torn,      \* history: nodes that restarted while applying a block
  crashes    \* restarts so far

ledgers == <<escrow, locked, unlocked, recorded, released, paid>>
watchers == <<next, cursor>>
upsets == <<torn, crashes>>
vars == <<eth, chain, root, stored, phase, ledgers, tally, vset, pool, watchers, upsets>>

-----------------------------------------------------------------------------
(* Ethereum and WrappedMatrix. *)

MintOf(l) == [kind |-> "mint", lock |-> l]
BurnOf(b) == [kind |-> "burn", burn |-> b]
Empty == [kind |-> "empty"]
Minted == {l \in Lock : \E i \in DOMAIN eth : eth[i] = MintOf(l)}
Burned == {b \in Burn : \E i \in DOMAIN eth : eth[i] = BurnOf(b)}
Wrapped == GenesisEscrow + Total(Amount, Minted) - Total(Amount, Burned)

\* Blocks 1 .. Final stay in Ethereum for good.
Final == Len(eth) - ReorgDepth

\* Fault for the mutation runs: scanning up to the head.
TargetIsHead == Len(eth)

\* The last Ethereum block that `confirmations` blocks cover.
Target == Len(eth) - Confirmations

\* Fault for the mutation runs: signing what is still in the mempool.
EagerSigners(l) == {n \in Honest : l \in recorded[n] \/ [kind |-> "lock", lock |-> l] \in pool[n]}
                   \cup Faulty

\* The attestors whose signature over lock l can be had: AttestLock signs what
\* the node has recorded, a faulty one signs anything.
Signers(l) == {n \in Honest : l \in recorded[n]} \cup Faulty

\* The next block holds event e.
Mine(e) ==
  /\ Len(eth) < MaxEth
  /\ eth' = Append(eth, e)
  /\ UNCHANGED <<chain, root, stored, phase, ledgers, tally, vset, pool, watchers, upsets>>

\* WrappedMatrix.mint: one mint per lock id, on Threshold attestors.
Mint(l) ==
  /\ l \notin Minted
  /\ Cardinality(Signers(l)) >= Threshold
  /\ Mine(MintOf(l))

\* WrappedMatrix.burn: the coins exist; the event names the native account.
BurnWrapped(b) ==
  /\ b \notin Burned
  /\ Wrapped >= Amount[b]
  /\ Mine(BurnOf(b))

\* A reorganisation drops what is not yet ReorgDepth deep. The mints and
\* burns it drops go together, so the wrapped supply stays covered by mints.
Reorg ==
  /\ \E k \in 0 .. Len(eth) :
       /\ k >= Final
       /\ eth' = [i \in DOMAIN eth |-> IF i <= k THEN eth[i] ELSE Empty]
  /\ eth' # eth
  /\ UNCHANGED <<chain, root, stored, phase, ledgers, tally, vset, pool, watchers, upsets>>

-----------------------------------------------------------------------------
(* Submitting transactions. *)

Room(n) == Cardinality(pool[n]) < MaxPool

\* Engine.submit at node n, and handleTx at the peers the gossip reaches.
Admit(n, tx, peers) ==
  pool' = [m \in Honest |-> IF m = n \/ (m \in peers /\ Room(m))
                            THEN pool[m] \cup {tx} ELSE pool[m]]

LockTx(l) == [kind |-> "lock", lock |-> l]
AttestTx(n, c) == [kind |-> "attest", by |-> n, claim |-> c]
LeaveTx(n) == [kind |-> "leave", by |-> n]
InChain(tx) == \E i \in DOMAIN chain : chain[i] = tx

\* A user submits a lock to node n.
SubmitLock(n, l) ==
  /\ Room(n) /\ LockTx(l) \notin pool[n] /\ ~InChain(LockTx(l))
  /\ \E peers \in Reach : Admit(n, LockTx(l), peers)
  /\ UNCHANGED <<eth, chain, root, stored, phase, ledgers, tally, vset, watchers, upsets>>

\* SubmitBurnAttestation accepts: the node is in the set in force and its
\* mempool has room.
Accepts(n) == n \in vset[n] /\ Room(n)

\* One span of Poll: a burn in it is attested to, or the refusal is reported
\* and skipped; either way the watcher moves past the span, and saving the
\* cursor may fail.
Watch(n) ==
  /\ next[n] <= Target
  /\ \/ /\ eth[next[n]].kind = "burn" /\ Accepts(n)
        /\ LET b == eth[next[n]].burn
               c == [burn |-> b, to |-> Owner[b]]
           IN \E peers \in Reach : Admit(n, AttestTx(n, c), peers)
     \/ /\ ~ (eth[next[n]].kind = "burn" /\ Accepts(n))
        /\ UNCHANGED pool
  /\ next' = [next EXCEPT ![n] = @ + 1]
  /\ cursor' \in {cursor, [cursor EXCEPT ![n] = next[n] + 1]}
  /\ UNCHANGED <<eth, chain, root, stored, phase, ledgers, tally, vset, upsets>>

-----------------------------------------------------------------------------
(* The native chain. *)

Left == {n \in Validator : InChain(LeaveTx(n))}
InForce == Validator \ Left

\* A node with an idle driver at the head can propose what it has pending, a
\* faulty leader whatever its own kind signed.
Proposable(tx) ==
  \/ \E n \in Honest : phase[n] = "idle" /\ stored[n] = Len(chain) /\ tx \in pool[n]
  \/ tx.kind = "attest" /\ tx.by \in Faulty

\* verifyBlockForHeightLocked: a lock spends its nonce once, an attestation
\* comes from the set in force, a change keeps the set usable.
Valid(tx) ==
  CASE tx.kind = "lock" -> ~InChain(tx)
    [] tx.kind = "attest" -> tx.by \in InForce
    [] tx.kind = "leave" -> tx.by \in InForce /\ InForce \ {tx.by} \in ValidatorSets

\* The validators that vote for a block carrying state root r: those at the head
\* whose own ledger agrees (verifyBlockStateRootLocked), and the faulty.
Voters(r) ==
  {n \in Honest : phase[n] = "idle" /\ stored[n] = Len(chain) /\ escrow[n] = r} \cup Faulty

\* The set commits one more transaction.
Extend(tx) ==
  /\ Len(chain) < MaxHeight
  /\ IF tx.kind = "leave" THEN Cardinality(Left) < MaxLeaves ELSE Proposable(tx)
  /\ Valid(tx)
  /\ chain' = Append(chain, tx)
  /\ \E r \in 0 .. Supply :
       /\ Voters(r) \cap InForce \in Quorum[InForce]
       /\ root' = Append(root, r)
  /\ UNCHANGED <<eth, stored, phase, ledgers, tally, vset, pool, watchers, upsets>>

Goto(n, p) == phase' = [phase EXCEPT ![n] = p]

\* chain.Commit, once the node's ledger agrees with the block: the block is
\* durable before anything of it is applied.
CommitBlock(n) ==
  /\ phase[n] = "idle" /\ stored[n] < Len(chain)
  /\ escrow[n] = root[stored[n] + 1]
  /\ stored' = [stored EXCEPT ![n] = @ + 1]
  /\ Goto(n, "move")
  /\ UNCHANGED <<eth, chain, root, ledgers, tally, vset, pool, watchers, upsets>>

\* The transaction node n is applying.
Current(n) == chain[stored[n]]

\* moveToEscrow, or the deterministic skip of a lock its sender cannot pay.
MoveLock(n) ==
  /\ phase[n] = "move" /\ Current(n).kind = "lock"
  /\ LET a == Amount[Current(n).lock]
     IN IF Supply - escrow[n] >= a
        THEN /\ escrow' = [escrow EXCEPT ![n] = @ + a]
             /\ Goto(n, "record")
        ELSE /\ UNCHANGED escrow
             /\ Goto(n, "finish")
  /\ UNCHANGED <<eth, chain, root, stored, locked, unlocked, recorded, released, paid,
                 tally, vset, pool, watchers, upsets>>

\* RecordLock, idempotent per lock id.
RecordLock(n) ==
  /\ phase[n] = "record" /\ Current(n).kind = "lock"
  /\ LET l == Current(n).lock
     IN /\ recorded' = [recorded EXCEPT ![n] = @ \cup {l}]
        /\ locked' = IF l \in recorded[n] THEN locked
                     ELSE [locked EXCEPT ![n] = @ + Amount[l]]
  /\ Goto(n, "finish")
  /\ UNCHANGED <<eth, chain, root, stored, escrow, unlocked, released, paid,
                 tally, vset, pool, watchers, upsets>>

\* Fault for the mutation runs: a tally per burn, whatever account it names.
AttestersOfBurn(T, c) == {n \in Validator : \E to \in Account : <<n, [c EXCEPT !.to = to]>> \in T}

Attesters(T, c) == {n \in Validator : <<n, c>> \in T}
Processed(n, b) == \E c \in released[n] : c.burn = b

\* Fault for the mutation runs: counting before the attestation is recorded.
DueLate(n, c, T) ==
  /\ Attesters(tally[n], c) \cap vset[n] \in Quorum[vset[n]]
  /\ ~Processed(n, c.burn)

\* Whether claim c is released on tally T: a quorum of the set in force has
\* attested to it, no marker, and the escrow covers it.
Due(n, c, T) ==
  /\ Attesters(T, c) \cap vset[n] \in Quorum[vset[n]]
  /\ ~Processed(n, c.burn)
  /\ escrow[n] >= Amount[c.burn]

\* applyBurnAttestation: tally, and pay the claim out of escrow when it is due.
Attested(n) ==
  /\ phase[n] = "move" /\ Current(n).kind = "attest"
  /\ LET c == Current(n).claim
         T == tally[n] \cup {<<Current(n).by, c>>}
     IN /\ tally' = [tally EXCEPT ![n] = T]
        /\ IF Due(n, c, T)
           THEN /\ escrow' = [escrow EXCEPT ![n] = @ - Amount[c.burn]]
                /\ paid' = [paid EXCEPT ![n][c.burn] = @ + 1]
                /\ Goto(n, "record")
           ELSE /\ UNCHANGED <<escrow, paid>>
                /\ Goto(n, "finish")
  /\ UNCHANGED <<eth, chain, root, stored, locked, unlocked, recorded, released,
                 vset, pool, watchers, upsets>>

\* The batch of releaseLocked: the marker and the unlocked total.
MarkBurn(n) ==
  /\ phase[n] = "record" /\ Current(n).kind = "attest"
  /\ LET c == Current(n).claim
     IN /\ released' = [released EXCEPT ![n] = @ \cup {c}]
        /\ unlocked' = [unlocked EXCEPT ![n] = @ + Amount[c.burn]]
  /\ Goto(n, "finish")
  /\ UNCHANGED <<eth, chain, root, stored, escrow, locked, recorded, paid,
                 tally, vset, pool, watchers, upsets>>

\* advanceHeight: the transaction leaves the mempool, a set change is in force
\* from here on (an epoch of one block).
Finish(n) ==
  /\ phase[n] = "finish" \/ (phase[n] = "move" /\ Current(n).kind = "leave")
  /\ pool' = [pool EXCEPT ![n] = @ \ {Current(n)}]
  /\ vset' = IF Current(n).kind = "leave"
             THEN [vset EXCEPT ![n] = @ \ {Current(n).by}] ELSE vset
  /\ Goto(n, "idle")
  /\ UNCHANGED <<eth, chain, root, stored, ledgers, tally, watchers, upsets>>

-----------------------------------------------------------------------------
(* Restarts. *)

\* Start: the tally of the first k blocks.
Attestations(k) ==
  {<<chain[i].by, chain[i].claim>> : i \in {j \in 1 .. k : chain[j].kind = "attest"}}

\* AdoptGenesisEscrow: an escrow with no history counts as locked.
Adopted(n) == IF locked[n] = 0 /\ unlocked[n] = 0 THEN escrow[n] ELSE locked[n]

\* The node comes back with what is on disk: the tally is rebuilt from the whole
\* chain, the rest of a block that was being applied is never applied, the
\* mempool is empty and the watcher resumes at the saved cursor.
Restart(n) ==
  /\ crashes < MaxCrashes
  /\ crashes' = crashes + 1
  /\ torn' = IF phase[n] = "idle" THEN torn ELSE torn \cup {n}
  /\ Goto(n, "idle")
  /\ tally' = [tally EXCEPT ![n] = Attestations(stored[n])]
  /\ locked' = [locked EXCEPT ![n] = Adopted(n)]
  /\ next' = [next EXCEPT ![n] = cursor[n]]
  /\ pool' = [pool EXCEPT ![n] = {}]
  /\ UNCHANGED <<eth, chain, root, stored, escrow, unlocked, recorded, released, paid, vset, cursor>>

-----------------------------------------------------------------------------

Init ==
  /\ eth = <<>>
  /\ chain = <<>>
  /\ root = <<>>
  /\ stored = [n \in Honest |-> 0]
  /\ phase = [n \in Honest |-> "idle"]
  /\ escrow = [n \in Honest |-> GenesisEscrow]
  /\ locked = [n \in Honest |-> GenesisEscrow]
  /\ unlocked = [n \in Honest |-> 0]
  /\ recorded = [n \in Honest |-> {}]
  /\ released = [n \in Honest |-> {}]
  /\ tally = [n \in Honest |-> {}]
  /\ vset = [n \in Honest |-> Validator]
  /\ pool = [n \in Honest |-> {}]
  /\ next = [n \in Honest |-> 1]
  /\ cursor = [n \in Honest |-> 1]
  /\ paid = [n \in Honest |-> [b \in Burn |-> 0]]
  /\ torn = {}
  /\ crashes = 0

\* Applying a block, at one node.
Apply(n) ==
  \/ CommitBlock(n)
  \/ MoveLock(n)
  \/ RecordLock(n)
  \/ Attested(n)
  \/ MarkBurn(n)
  \/ Finish(n)

NodeOf(n) ==
  \/ \E l \in Lock : SubmitLock(n, l)
  \/ Watch(n)
  \/ Apply(n)
  \/ Restart(n)

Ethereum ==
  \/ \E l \in Lock : Mint(l)
  \/ \E b \in Burn : BurnWrapped(b)
  \/ Mine(Empty)
  \/ Reorg

Next ==
  \/ Ethereum
  \/ \E tx \in Tx : Extend(tx)
  \/ \E n \in Honest : NodeOf(n)

Spec == Init /\ [][Next]_vars

\* The watcher's ticker, the block application and the proposers keep going; a
\* transaction that can be proposed at the head of every mempool order is, since
\* a leader takes its pending transactions oldest first.
Fairness ==
  /\ \A n \in Honest : WF_vars(Watch(n)) /\ WF_vars(Apply(n))
  /\ \A tx \in [kind : {"attest"}, by : Honest, claim : Claim] : SF_vars(Extend(tx))

FairSpec == Spec /\ Fairness

-----------------------------------------------------------------------------
(* Properties. *)

\* The variables have their types.
TypeOK ==
  /\ eth \in Seq(Event) /\ Len(eth) <= MaxEth
  /\ chain \in Seq(Tx) /\ Len(chain) <= MaxHeight
  /\ root \in Seq(0 .. Supply) /\ Len(root) = Len(chain)
  /\ stored \in [Honest -> 0 .. Len(chain)]
  /\ phase \in [Honest -> Phase]
  /\ escrow \in [Honest -> 0 .. Supply]
  /\ locked \in [Honest -> Nat]
  /\ unlocked \in [Honest -> Nat]
  /\ recorded \in [Honest -> SUBSET Lock]
  /\ released \in [Honest -> SUBSET Claim]
  /\ tally \in [Honest -> SUBSET (Validator \X Claim)]
  /\ vset \in [Honest -> ValidatorSets]
  /\ pool \in [Honest -> SUBSET Tx]
  /\ next \in [Honest -> Nat \ {0}]
  /\ cursor \in [Honest -> Nat \ {0}]
  /\ paid \in [Honest -> [Burn -> Nat]]
  /\ torn \in SUBSET Honest
  /\ crashes \in 0 .. MaxCrashes

\* Reconcile between blocks: the escrow is what was locked and not unlocked, at
\* every node that was never restarted in the middle of a block.
Backed ==
  \A n \in Honest \ torn : phase[n] = "idle" =>
    unlocked[n] <= locked[n] /\ escrow[n] = locked[n] - unlocked[n]

\* One-to-one backing across both chains: at a node that has applied the whole
\* chain, the escrow covers the wrapped supply and every burn not yet released,
\* through reorganisations, faulty attestors and restarts.
Solvent ==
  \A n \in Honest \ torn : phase[n] = "idle" /\ stored[n] = Len(chain) =>
    escrow[n] >= Wrapped + Total(Amount, {b \in Burned : ~Processed(n, b)})

\* Escrow only leaves for a burn that Ethereum has finalised, to the account the
\* burn names: faulty attestations and reorganised burns release nothing.
NoFalseRelease ==
  \A n \in Honest : \A c \in released[n] :
    c.to = Owner[c.burn] /\ \E i \in 1 .. Final : eth[i] = BurnOf(c.burn)

\* A burn is paid out at most once by a node that was never restarted in the
\* middle of a block, however many attestations are committed for it.
PaidOnce == \A n \in Honest \ torn, b \in Burn : paid[n][b] <= 1

\* Nodes that have applied the same blocks keep the same books, whether or not
\* they have restarted in between: the tally decides the release on every node
\* at the same block.
SameBooks ==
  \A m, n \in Honest \ torn :
    phase[m] = "idle" /\ phase[n] = "idle" /\ stored[m] = stored[n] =>
      /\ escrow[m] = escrow[n]
      /\ released[m] = released[n]
      /\ recorded[m] = recorded[n]

\* Without restarts, faults and departures, a finalised burn is released at
\* every node.
Redeemed ==
  \A b \in Burn : \A n \in Honest :
    (\E i \in 1 .. Target : eth[i] = BurnOf(b)) ~> Processed(n, b)
=============================================================================
