----------------------------- MODULE Candidacy -----------------------------
(***************************************************************************)
(* How an operator gets into the open validator set and out of it          *)
(* (internal/consensus/engine.go, settle.go): the driver of its node bonds, *)
(* asks and re-announces; mempools with a slot per operation and a quota   *)
(* for them; a leader that forgets the set changes it proposed; and the    *)
(* registry of providers, whose changes go the same way.                   *)
(*                                                                         *)
(* The nodes agree on the chain (module Voting) and follow it (CatchUp), so *)
(* what is committed is one state here.  What differs is their mempools.   *)
(* An operation is known by what it does: its timestamp makes every offer a *)
(* new transaction, so an offer made again is not taken for a replay.      *)
(***************************************************************************)
EXTENDS Integers, FiniteSets, FiniteSetsExt

CONSTANTS
  Node,
  Founder,          \* the genesis validators
  Approver,         \* operators with the provider in their approved_providers
  TargetBond,       \* the bond every operator configured
  MinBond,          \* the bond admission asks for
  Funds,            \* Funds[n]: what an operator's account holds at first
  PoolLimit,          \* MaxMempoolTxs
  EpochLength,
  Unbonding,        \* blocks until a bond may be withdrawn
  MaxTurns,         \* bound on how often operators change their minds
  MaxLosses         \* bound on rounds lost and on restarts

Public == {"bond", "withdraw", "add", "remove"}
Offerable == [op : Public \cup {"provider", "pay"}, by : Node, to : Node, amount : 0 .. TargetBond]
Slot == [op : Public, by : Node]

ASSUME CandidacyAssumption ==
  /\ IsFiniteSet(Node) /\ Founder \subseteq Node /\ Founder # {} /\ Approver \subseteq Node
  /\ Funds \in [Node -> Nat]
  /\ {TargetBond, MinBond, PoolLimit, Unbonding, MaxTurns, MaxLosses} \subseteq Nat /\ EpochLength \in Nat \ {0}

VARIABLES
  members,      \* the active validator set
  changes,      \* set changes that wait for the boundary
  bond, coins,  \* bonded and spendable
  held,         \* blocks until a bond may be withdrawn
  epoch,        \* blocks until the boundary
  registered,   \* whether the provider is in the registry
  mempool,      \* per node: transactions, and slots of the public ones
  want,         \* participate_in_open_set of an operator
  turns,        \* changes of mind so far
  losses        \* rounds lost and restarts so far

committed == <<members, changes, bond, coins, held, epoch, registered>>
candidacyVars == <<committed, mempool, want, turns, losses>>

EmptyPool == [txs |-> {}, slots |-> {}]

CandidacyInit ==
  /\ members = Founder
  /\ changes = {}
  /\ bond = [n \in Node |-> IF n \in Founder THEN TargetBond ELSE 0]
  /\ coins = Funds
  /\ held = [n \in Node |-> 0]
  /\ epoch = EpochLength
  /\ registered = FALSE
  /\ mempool = [n \in Node |-> EmptyPool]
  /\ want = [n \in Node |-> n \in Founder]
  /\ turns = 0 /\ losses = 0

----------------------------------------------------------------------------
(* What a block may carry, and what a mempool may hold.                    *)

SlotOf(tx) == [op |-> tx.op, by |-> tx.by]
SlotsOf(S) == {SlotOf(tx) : tx \in {t \in S : t.op \in Public}}

\* A change must concern an account that nothing is pending for, and leave a
\* validator (verifySetChangeLocked).
ChangeAllowed(tx) ==
  /\ \A c \in changes : c.by # tx.by
  /\ IF tx.op = "add"
       THEN tx.by \notin members /\ bond[tx.by] >= MinBond
       ELSE tx.by \in members /\ members # {tx.by}

\* verifyProviderChangeLocked
ProviderAllowed(tx) == tx.by \in members /\ ~registered

\* verifyReservedRecipientLocked: what a leader selects and a voter accepts.
Selectable(tx) ==
  CASE tx.op \in {"add", "remove"} -> ChangeAllowed(tx)
    [] tx.op = "withdraw" -> tx.by \notin members /\ held[tx.by] = 0
    [] tx.op = "provider" -> ProviderAllowed(tx)
    [] OTHER -> TRUE

\* The gate of the mempool is narrower for a bond, which must be affordable,
\* and wider for a withdrawal, which may wait for its time.
Admissible(tx) ==
  CASE tx.op = "bond" -> coins[tx.by] >= tx.amount
    [] tx.op = "withdraw" -> bond[tx.by] > 0
    [] OTHER -> ChangeAllowed(tx)

\* Fault for the mutation runs: an operation leaves the mempool, its slot stays.
RemovedNotFreed(pool, S) == [txs |-> pool.txs \ S, slots |-> pool.slots]

Removed(pool, S) == [txs |-> pool.txs \ S, slots |-> pool.slots \ SlotsOf(S)]
Pruned(pool) == Removed(pool, {tx \in pool.txs : tx.op \in Public /\ ~Admissible(tx)})

MembershipLimit ==
  IF PoolLimit <= 1 THEN 0 ELSE Min({Max({PoolLimit \div 4, 1}), PoolLimit - 1})

Refused(pool, tx) ==
  \/ tx \in pool.txs
  \/ /\ tx.op \in Public
     /\ \/ ~Admissible(tx)
        \/ SlotOf(tx) \in pool.slots
        \/ Cardinality(pool.slots) >= MembershipLimit
  \/ Cardinality(pool.txs) >= PoolLimit

Added(pool, S) == [txs |-> pool.txs \cup S, slots |-> pool.slots \cup SlotsOf(S)]

Submit(pool, tx) ==
  IF Refused(Pruned(pool), tx) THEN Pruned(pool) ELSE Added(Pruned(pool), {tx})

\* Several submitted one after the other, in the order of the mempool that
\* announces them: as many as there is room for.
Heard(pool, S) ==
  LET new == {tx \in S : ~Refused(pool, tx)}
      Room(T) == /\ Cardinality(pool.slots \cup SlotsOf(T)) <= MembershipLimit
                 /\ Cardinality(pool.txs \cup T) <= PoolLimit
                 /\ \A s, t \in T : s # t /\ s.op \in Public => SlotOf(s) # SlotOf(t)
  IN  Added(pool, CHOOSE T \in SUBSET new :
                    Room(T) /\ \A tx \in new \ T : ~Room(T \cup {tx}))

----------------------------------------------------------------------------
(* What the driver of a node offers.  Its timers only bound how often.     *)

Op(op, n, amount) == [op |-> op, by |-> n, to |-> n, amount |-> amount]

OwnTxs(n, ops) == {tx \in mempool[n].txs : tx.by = n /\ tx.op \in ops}

\* A transaction the node takes itself is published once; a peer hears it or
\* not.  What the node refuses stays with it.
Offer(n, tx) ==
  \E hearing \in SUBSET (Node \ {n}) :
    mempool' = [m \in Node |->
      IF m = n \/ (m \in hearing /\ ~Refused(Pruned(mempool[n]), tx))
        THEN Submit(mempool[m], tx) ELSE mempool[m]]

TopUp(n) ==
  /\ want[n]
  /\ OwnTxs(n, {"bond", "withdraw"}) = {}
  /\ bond[n] < TargetBond /\ coins[n] > 0
  /\ Offer(n, Op("bond", n, Min({TargetBond - bond[n], coins[n]})))
  /\ UNCHANGED <<committed, want, turns, losses>>

Maintain(n) ==
  /\ (n \in members) # want[n]
  /\ [op |-> IF want[n] THEN "add" ELSE "remove", by |-> n] \notin changes
  /\ OwnTxs(n, {"add", "remove"}) = {}
  /\ want[n] => bond[n] >= MinBond
  /\ Offer(n, Op(IF want[n] THEN "add" ELSE "remove", n, 0))
  /\ UNCHANGED <<committed, want, turns, losses>>

OfferProvider(n) ==
  /\ n \in members \cap Approver
  /\ ~registered /\ \A tx \in mempool[n].txs : tx.op # "provider"
  /\ Offer(n, Op("provider", n, 0))
  /\ UNCHANGED <<committed, want, turns, losses>>

\* The public operations and the rest travel on two topics; a peer that hears
\* one submits it as if it were new.
GossipTo(n, m) ==
  /\ \E tx \in mempool[n].txs : ~Refused(Pruned(mempool[m]), tx)
  /\ mempool' = [mempool EXCEPT ![m] = Heard(Pruned(@), mempool[n].txs)]
  /\ UNCHANGED <<committed, want, turns, losses>>

----------------------------------------------------------------------------
(* What users do, at any time.                                             *)

Withdraw(n) ==
  /\ ~want[n]
  /\ bond[n] > 0 /\ OwnTxs(n, {"withdraw"}) = {}
  /\ Offer(n, Op("withdraw", n, 0))
  /\ UNCHANGED <<committed, want, turns, losses>>

\* A founder sends a coin to an operator who is short of the bond.
Fund(n, to) ==
  /\ coins[n] > 0 /\ n \in Founder
  /\ to \notin Founder /\ want[to] /\ bond[to] + coins[to] < MinBond
  /\ \A m \in Node : \A tx \in mempool[m].txs : tx.op # "pay"
  /\ Offer(n, [op |-> "pay", by |-> n, to |-> to, amount |-> 1])
  /\ UNCHANGED <<committed, want, turns, losses>>

\* An operator who is not a founder changes its mind: it restarts its node with
\* another configuration and an empty mempool.
Reconfigure(n) ==
  /\ n \notin Founder /\ turns < MaxTurns
  /\ turns' = turns + 1
  /\ want' = [want EXCEPT ![n] = ~@]
  /\ mempool' = [mempool EXCEPT ![n] = EmptyPool]
  /\ UNCHANGED <<committed, losses>>

LoseMempool(n) ==
  /\ losses < MaxLosses
  /\ losses' = losses + 1
  /\ mempool' = [mempool EXCEPT ![n] = EmptyPool]
  /\ UNCHANGED <<committed, want, turns>>

----------------------------------------------------------------------------
(* A block, from its selection to its boundary.                            *)

\* At most one public operation per identity, set changes that leave a
\* validator together, and nothing left out that would still fit.
Fits(S) ==
  /\ \A s, t \in S : s # t /\ s.op \in Public /\ t.op \in Public => s.by # t.by
  /\ members \ {c.by : c \in {d \in changes \cup S : d.op = "remove"}} # {}
Selections(n) ==
  LET ready == {tx \in Pruned(mempool[n]).txs : Selectable(tx)}
  IN  {S \in SUBSET ready : Fits(S) /\ \A tx \in ready \ S : ~Fits(S \cup {tx})}

\* Every validator votes its approvals, and so few are all needed.
Approves(n, S) == (\E tx \in S : tx.op = "provider") => n \in Approver
Passes(S) == \A n \in members : Approves(n, S)

Dropped(S) == {tx \in S : tx.op \in {"add", "remove"}}

Affordable(S, op) == {tx \in S : tx.op = op /\ tx.amount <= coins[tx.by]}
Withdrawn(S, n) == IF \E tx \in S : tx.op = "withdraw" /\ tx.by = n THEN bond[n] ELSE 0
Bonded(S, n) == SumSet({tx.amount : tx \in {t \in Affordable(S, "bond") : t.by = n}})
Got(S, n) == Cardinality({tx \in Affordable(S, "pay") : tx.to = n})
Gave(S, n) == Cardinality({tx \in Affordable(S, "pay") : tx.by = n})

ApplyMoves(S) ==
  /\ bond' = [n \in Node |-> bond[n] + Bonded(S, n) - Withdrawn(S, n)]
  /\ coins' = [n \in Node |->
                  coins[n] + Withdrawn(S, n) - Bonded(S, n) + Got(S, n) - Gave(S, n)]

\* At the boundary the changes take effect.  A bond waits from the block that
\* raised it or the boundary at which its owner left.
Boundary(S) ==
  LET all == changes \cup SlotsOf(Dropped(S))
      Named(op) == {c.by : c \in {d \in all : d.op = op}}
      out == IF epoch = 1 THEN Named("remove") ELSE {}
  IN  /\ epoch' = IF epoch = 1 THEN EpochLength ELSE epoch - 1
      /\ changes' = IF epoch = 1 THEN {} ELSE all
      /\ members' = IF epoch = 1 THEN (members \ out) \cup Named("add") ELSE members
      /\ held' = [n \in Node |-> IF n \in out \/ Bonded(S, n) > 0
                                   THEN Unbonding ELSE Max({held[n] - 1, 0})]

\* What a commit leaves in a mempool: nothing it carried or has overtaken.
AfterCommit(pool, S) ==
  LET left == Removed(pool, S)
  IN  Removed(left, {tx \in left.txs : tx.op \in Public /\ ~Admissible(tx)'})

\* A leader with nothing to propose and no boundary to reach waits until the
\* height has been idle for long; then it proposes an empty block.
Proposes(n, S) == n \in members /\ Approves(n, S)

Commit(n) ==
  \E S \in Selections(n) :
    /\ Proposes(n, S) /\ Passes(S)
    /\ ApplyMoves(S) /\ Boundary(S)
    /\ registered' = (registered \/ \E tx \in S : tx.op = "provider")
    /\ mempool' = [m \in Node |-> AfterCommit(mempool[m], S)]
    /\ UNCHANGED <<want, turns, losses>>

\* A round that fails costs its leader the set changes it proposed.
LoseRound(n) ==
  \E S \in Selections(n) :
    /\ Proposes(n, S)
    /\ Passes(S) => losses < MaxLosses
    /\ losses' = losses + (IF Passes(S) THEN 1 ELSE 0)
    /\ mempool' = [mempool EXCEPT ![n] = Removed(Pruned(@), Dropped(S))]
    /\ UNCHANGED <<committed, want, turns>>

CandidacyNext ==
  \/ \E n \in Node :
       \/ TopUp(n) \/ Maintain(n) \/ OfferProvider(n)
       \/ Withdraw(n) \/ Reconfigure(n) \/ LoseMempool(n)
       \/ Commit(n) \/ LoseRound(n)
  \/ \E n, m \in Node : GossipTo(n, m) \/ Fund(n, m)

\* The driver offers and announces on its timers, leaders take turns, what is
\* announced again and again arrives; and an operator who left asks for its bond.
CandidacyFairness ==
  /\ \A n \in Node :
       /\ WF_candidacyVars(TopUp(n)) /\ WF_candidacyVars(Maintain(n))
       /\ WF_candidacyVars(Withdraw(n)) /\ SF_candidacyVars(Commit(n))
  /\ \A n, m \in Node : SF_candidacyVars(GossipTo(n, m)) /\ WF_candidacyVars(Fund(n, m))

CandidacySpec == CandidacyInit /\ [][CandidacyNext]_candidacyVars /\ CandidacyFairness

----------------------------------------------------------------------------
(* Properties                                                              *)

\* The chain keeps committing blocks, whatever the operators approve of:
\* ApprovedProviders has the veto of ApprovedSetChanges, where a proposal that
\* is voted down costs one round (engine.go:282 and engine.go:1763).
KeepsCommitting == []<>(epoch = EpochLength) /\ []<>(epoch # EpochLength)

\* An operator who keeps to its decision gets into the set or out of it, and
\* one who left gets its bond back, whatever rounds and mempools were lost.  It
\* fails if an operation that was dropped, overtaken or refused keeps its slot.
JoinsAndLeaves ==
  \A n \in Node :
    /\ want[n] ~> (n \in members \/ ~want[n])
    /\ ~want[n] ~> ((n \notin members /\ bond[n] = 0) \/ want[n])
=============================================================================
