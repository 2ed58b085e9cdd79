----------------------------- MODULE Membership -----------------------------
(***************************************************************************)
(* Who validates, and with what at stake: bonds and withdrawals, admission *)
(* and removal of validators, slashing on evidence, and the epoch boundary *)
(* at which committed changes take effect (internal/consensus/setchange.go, *)
(* stake.go, evidence.go and the parts of engine.go that call them).       *)
(*                                                                         *)
(* Every node derives the validator set from the chain on its own and      *)
(* keeps a copy on disk for its next start. What is abstracted:            *)
(*   - Agreement on the next block (module Voting): a block is appended    *)
(*     once validators holding a quorum of the power verify and approve it.*)
(*     The honest ones among them are at least one (less than a third of   *)
(*     the power is faulty).                                               *)
(*   - The mempool: anything valid may be in the next block. The sender of *)
(*     an operation is the one its rule asks for.                          *)
(*   - Of the ledger: an account's own coins, its bond and the reward pool.*)
(*     A bond locks Deposit coins; the state root of a block is the bonds. *)
(***************************************************************************)
EXTENDS Integers, Sequences, FiniteSets, SequencesExt, Sums

CONSTANTS
  Node,           \* accounts, each with a node of its own
  Faulty,         \* nodes that may vote for anything and equivocate
  Genesis,        \* the validators of the configuration
  Funds,          \* coins of an account at the start
  Deposit,        \* coins one bond transaction of an account locks
  Offer,          \* operations that get submitted
  Approved,       \* changes an operator lists (ApprovedSetChanges)
  Modes,          \* membership modes
  MinBond, Epoch, Unbonding, Residency,  \* StakeConfig
  MinValidators, MaxValidators,
  MaxBlockOps,    \* operations in a block
  MaxOps,         \* bound on operations in all blocks
  MaxHeight,      \* bound on blocks
  MaxCrashes,     \* bound on restarts
  None            \* no height recorded

Honest == Node \ Faulty

StakeKind == {"bond", "withdraw"}
ChangeKind == {"add", "remove", "slash"}
Change == [kind : ChangeKind, id : Node]
Op == [kind : StakeKind \cup ChangeKind, id : Node]
Height == 0 .. MaxHeight
Sets == [active : SUBSET Node, power : [Node -> Nat], pending : SUBSET Change]

ASSUME MembershipAssumption ==
  /\ Faulty \subseteq Node /\ Genesis \subseteq Node
  /\ Funds \in [Node -> Nat] /\ Deposit \in [Node -> Nat \ {0}]
  /\ Offer \subseteq Op /\ Approved \in [Node -> SUBSET Change]
  /\ Modes \subseteq {"operator", "open"}
  /\ {MinBond, Unbonding, Residency, MaxBlockOps, MaxOps, MaxHeight, MaxCrashes} \subseteq Nat
  /\ Epoch \in Nat \ {0}
  /\ None \notin Nat
  /\ MinValidators \in Nat \ {0} /\ MaxValidators \in Nat
  /\ Cardinality(Genesis) \in MinValidators .. MaxValidators

VARIABLES
  mode,      \* the membership mode, the same at every node
  chain,     \* the committed blocks: operations and the root they are built on
  stored,    \* blocks in a node's chain store
  step,      \* where a node's commit path is
  purse,     \* an account's own coins, in a node's ledger
  bond,      \* an account's bond, in a node's ledger
  pool,      \* the reward pool, in a node's ledger
  bondedAt,  \* the height an account's bond was posted at
  leftAt,    \* the height an account left the set at
  sets,      \* validatorSet with its power, and pendingChanges
  disk,      \* SetStore: the same, as persisted
  dirty,     \* stakeDirty: a bond moved since the last boundary
  fresh,     \* stakeNeverWeighted: not weighted since the node started
  evidence,  \* the equivocators a node has evidence of
  served,    \* history: the last height an account was in the set at
  torn,      \* history: nodes restarted in the middle of a block
  crashes    \* restarts so far

ledger == <<purse, bond, pool>>
clocks == <<bondedAt, leftAt>>
weighing == <<dirty, fresh>>
faults == <<torn, crashes>>
vars == <<mode, chain, stored, step, ledger, clocks, sets, disk, weighing, evidence, served, faults>>

-----------------------------------------------------------------------------
(* What a node makes of the chain. *)

CurrentHeight(n) == IF step[n] = "idle" THEN stored[n] ELSE stored[n] - 1
AtHead(n) == step[n] = "idle" /\ stored[n] = Len(chain)
Block(n) == chain[stored[n]]
Changes(ops) == {c \in ops : c.kind \in ChangeKind}
Ids(S) == {c.id : c \in S}
Active(n) == sets[n].active

\* WithChanges: removals first, admissions after.
WithChanges(S, changes) ==
  (S \ {c.id : c \in {d \in changes : d.kind # "add"}}) \cup {c.id : c \in {d \in changes : d.kind = "add"}}

Usable(S) == Cardinality(S) \in MinValidators .. MaxValidators
InForce(c, S) == (c.kind = "add") = (c.id \in S)

\* Fault for the mutation runs: the unbonding period is not waited for.
WithdrawableSoon(n, a, age, h) ==
  /\ a \notin Active(n)
  /\ age[a] # None => h >= age[a] + Residency

\* WithdrawableAt: never for a validator; else the later of residency and unbonding.
Withdrawable(n, a, age, h) ==
  /\ a \notin Active(n)
  /\ age[a] # None => h >= age[a] + Residency
  /\ leftAt[n][a] # None => h >= leftAt[n][a] + Unbonding

\* verifySetChangeLocked.
ChangeValid(n, c) ==
  /\ mode = "open" /\ c.kind = "slash" => c.id \in evidence[n]
  /\ Usable(WithChanges(Active(n), sets[n].pending \cup {c}))
  /\ c.kind = "add" => bond[n][c.id] >= MinBond
  /\ \/ ~InForce(c, WithChanges(Active(n), sets[n].pending))
     \/ c.kind = "slash" /\ bond[n][c.id] > 0

\* verifyReservedRecipientLocked; a bond is checked when it is applied.
OpValid(n, op) ==
  CASE op.kind = "bond" -> TRUE
    [] op.kind = "withdraw" -> Withdrawable(n, op.id, bondedAt[n], CurrentHeight(n))
    [] OTHER -> ChangeValid(n, op)

\* openMembershipSlot: an account may ask for one thing in a block.
OneSlotEach(ops) ==
  \A p, q \in {op \in ops : op.kind # "slash"} : p.id = q.id => p = q

\* Fault for the mutation runs: changes of one block are judged one by one only.
BatchUnchecked(n, ops) == Ids(Changes(ops)) \cap Ids(sets[n].pending) = {}

\* verifySetChangeBatchLocked: one pending change for an account, and a set that
\* stays usable with all of them.
BatchValid(n, ops) ==
  /\ Ids(Changes(ops)) \cap Ids(sets[n].pending) = {}
  /\ \A c, d \in Changes(ops) : c.id = d.id => c = d
  /\ Changes(ops) # {} => Usable(WithChanges(Active(n), sets[n].pending \cup Changes(ops)))

\* verifyBlockForHeightLocked.
Verifies(n, block) ==
  /\ block.root = bond[n]
  /\ \A op \in block.ops : OpValid(n, op)
  /\ mode = "open" => OneSlotEach(block.ops)
  /\ BatchValid(n, block.ops)

\* approvesChangesLocked: the operator's list, which evidence adds to, or in the
\* open mode the evidence alone.
Approves(n, ops) ==
  \A c \in Changes(ops) :
    \/ c.kind = "slash" /\ c.id \in evidence[n]
    \/ mode = "open" /\ c.kind # "slash"
    \/ mode = "operator" /\ c \in Approved[n]

\* QuorumPower, measured in a node's set.
HasQuorum(n, voters) ==
  LET power == sets[n].power
  IN Total(power, voters \cap Active(n)) >= (2 * Total(power, Active(n))) \div 3 + 1

Voters(block) == {n \in Honest : AtHead(n) /\ Verifies(n, block) /\ Approves(n, block.ops)}
Used == IF chain = <<>> THEN 0
        ELSE Total([i \in DOMAIN chain |-> Cardinality(chain[i].ops)], DOMAIN chain)

\* A block that n, at the head and a validator, votes for gets a quorum of the
\* votes of these nodes.
Agree(n, ops, voters) ==
  LET block == [ops |-> ops, root |-> bond[n]] IN
  /\ Len(chain) < MaxHeight
  /\ Used + Cardinality(ops) <= MaxOps
  /\ n \in (Voters(block) \cap Active(n)) \ torn
  /\ HasQuorum(n, voters \cap (Voters(block) \cup Faulty))
  /\ chain' = Append(chain, block)
  /\ UNCHANGED <<mode, stored, step, ledger, clocks, sets, disk, weighing, evidence, served, faults>>

Blocks == UNION {kSubset(k, Offer) : k \in 0 .. MaxBlockOps}
Propose(n) == \E ops \in Blocks : Agree(n, ops, Node)

\* Fault for the mutation runs: a pending change alone does not keep blocks coming.
MustAdvanceOnBonds(n) == dirty[n]

\* mustAdvanceToEpochBoundaryLocked: with a change or a bond to put into force,
\* the leader proposes, if only an empty block.
MustAdvance(n) == sets[n].pending # {} \/ dirty[n]
ProposeEmpty(n) == MustAdvance(n) /\ Agree(n, {}, Honest)

-----------------------------------------------------------------------------
(* Committing a block. *)

\* chain.Commit.
Store(n) ==
  /\ step[n] = "idle" /\ stored[n] < Len(chain)
  /\ Verifies(n, chain[stored[n] + 1])
  /\ stored' = [stored EXCEPT ![n] = @ + 1]
  /\ step' = [step EXCEPT ![n] = "move"]
  /\ UNCHANGED <<mode, chain, ledger, clocks, sets, disk, weighing, evidence, served, faults>>

\* Accounts whose bond in this block moves, and whose withdrawal does once the
\* bonds have: RecordBonded keeps the first height, Withdraw checks again.
Bonding(n) == {a \in Node : [kind |-> "bond", id |-> a] \in Block(n).ops /\ purse[n][a] >= Deposit[a]}
Aged(n) == [a \in Node |-> IF a \in Bonding(n) /\ bondedAt[n][a] = None
                           THEN CurrentHeight(n) ELSE bondedAt[n][a]]
Withdrawing(n) ==
  {a \in Node : /\ [kind |-> "withdraw", id |-> a] \in Block(n).ops
                /\ Withdrawable(n, a, Aged(n), CurrentHeight(n))}

\* commitAndApply: bonds with the transfers of the block, withdrawals after them.
Move(n) ==
  LET posted == [a \in Node |-> bond[n][a] + IF a \in Bonding(n) THEN Deposit[a] ELSE 0]
      left == [a \in Node |-> purse[n][a] - IF a \in Bonding(n) THEN Deposit[a] ELSE 0]
      back == Withdrawing(n)
  IN /\ step[n] = "move"
     /\ bond' = [bond EXCEPT ![n] = [a \in Node |-> IF a \in back THEN 0 ELSE posted[a]]]
     /\ purse' = [purse EXCEPT ![n] = [a \in Node |-> left[a] + IF a \in back THEN posted[a] ELSE 0]]
     /\ bondedAt' = [bondedAt EXCEPT ![n] = [a \in Node |->
                       IF a \in back /\ posted[a] > 0 THEN None ELSE Aged(n)[a]]]
     /\ step' = [step EXCEPT ![n] = "advance"]
     /\ UNCHANGED <<mode, chain, stored, pool, leftAt, sets, disk, weighing, evidence, served, faults>>

-----------------------------------------------------------------------------
(* The epoch boundary. *)

\* WithChanges carries the power of members over and gives a newcomer 1;
\* reweightLocked replaces it by the bonds, unless a member has none.
CarriedPower(n, next) ==
  [a \in Node |-> IF a \notin next THEN 0
                  ELSE IF a \in Active(n) THEN sets[n].power[a] ELSE 1]
Reweighted(n, next) ==
  IF \A a \in next : bond[n][a] > 0
  THEN [a \in Node |-> IF a \in next THEN bond[n][a] ELSE 0]
  ELSE CarriedPower(n, next)

\* applyEpochBoundaryLocked, with what there is to apply: the set changes, the
\* departure clocks start and stop, slashed bonds go to the pool.
Cross(n, h, pending) ==
  LET next == WithChanges(Active(n), pending)
      slashed == {c.id : c \in {d \in pending : d.kind = "slash"}}
      now == [active |-> next, power |-> Reweighted(n, next), pending |-> {}]
  IN /\ sets' = [sets EXCEPT ![n] = now]
     /\ disk' = [disk EXCEPT ![n] = now]
     /\ dirty' = [dirty EXCEPT ![n] = FALSE]
     /\ fresh' = [fresh EXCEPT ![n] = FALSE]
     /\ leftAt' = [leftAt EXCEPT ![n] = [a \in Node |->
                     IF a \in Active(n) \ next THEN h
                     ELSE IF a \in next \ Active(n) THEN None ELSE @[a]]]
     /\ bond' = [bond EXCEPT ![n] = [a \in Node |-> IF a \in slashed THEN 0 ELSE @[a]]]
     /\ pool' = [pool EXCEPT ![n] = @ + Total(bond[n], slashed)]

\* Fault for the mutation runs: pending changes are not persisted.
WaitInMemory(n, pending, moved) ==
  /\ sets' = [sets EXCEPT ![n].pending = pending]
  /\ dirty' = [dirty EXCEPT ![n] = moved]
  /\ UNCHANGED <<disk, fresh, leftAt, bond, pool>>

\* No boundary, or one that finds the set unusable, which keeps the old one.
Wait(n, pending, moved) ==
  /\ sets' = [sets EXCEPT ![n].pending = pending]
  /\ disk' = [disk EXCEPT ![n].pending = pending]
  /\ dirty' = [dirty EXCEPT ![n] = moved]
  /\ UNCHANGED <<fresh, leftAt, bond, pool>>

\* advanceHeight: the changes of the block wait for the boundary, which may be
\* the height just entered.
Advance(n) ==
  LET h == stored[n]
      pending == sets[n].pending \cup Changes(Block(n).ops)
      moved == dirty[n] \/ \E op \in Block(n).ops : op.kind \in StakeKind
      due == h % Epoch = 0 /\ (pending # {} \/ moved \/ fresh[n])
      usable == Usable(WithChanges(Active(n), pending))
  IN /\ step[n] = "advance"
     /\ \/ due /\ usable /\ Cross(n, h, pending)
        \/ due /\ ~usable /\ Wait(n, {}, moved)
        \/ ~due /\ Wait(n, pending, moved)
     /\ served' = [served EXCEPT ![n] = [a \in Node |-> IF a \in sets'[n].active THEN h ELSE @[a]]]
     /\ step' = [step EXCEPT ![n] = "idle"]
     /\ UNCHANGED <<mode, chain, stored, purse, bondedAt, evidence, faults>>

-----------------------------------------------------------------------------
(* Evidence and restarts. *)

\* reportEquivocation: proof against a validator of the set in force is kept,
\* however it got here. It may never get here.
Report(n, a) ==
  /\ a \in (Faulty \cap Active(n)) \ evidence[n]
  /\ evidence' = [evidence EXCEPT ![n] = @ \cup {a}]
  /\ UNCHANGED <<mode, chain, stored, step, ledger, clocks, sets, disk, weighing, served, faults>>

\* Fault for the mutation runs: a started node takes the weights it finds for
\* current.
RestartWeighted(n) ==
  /\ crashes < MaxCrashes
  /\ crashes' = crashes + 1
  /\ torn' = IF step[n] = "idle" THEN torn ELSE torn \cup {n}
  /\ step' = [step EXCEPT ![n] = "idle"]
  /\ sets' = [sets EXCEPT ![n] = disk[n]]
  /\ dirty' = [dirty EXCEPT ![n] = FALSE]
  /\ fresh' = [fresh EXCEPT ![n] = FALSE]
  /\ UNCHANGED <<mode, chain, stored, ledger, clocks, disk, evidence, served>>

\* Start: height from the chain store, the set and the pending changes from
\* disk. The rest of a block that was being applied is not applied.
Restart(n) ==
  /\ crashes < MaxCrashes
  /\ crashes' = crashes + 1
  /\ torn' = IF step[n] = "idle" THEN torn ELSE torn \cup {n}
  /\ step' = [step EXCEPT ![n] = "idle"]
  /\ sets' = [sets EXCEPT ![n] = disk[n]]
  /\ dirty' = [dirty EXCEPT ![n] = FALSE]
  /\ fresh' = [fresh EXCEPT ![n] = TRUE]
  /\ UNCHANGED <<mode, chain, stored, ledger, clocks, disk, evidence, served>>

-----------------------------------------------------------------------------

Init ==
  LET unweighted == [active |-> Genesis, power |-> [a \in Node |-> IF a \in Genesis THEN 1 ELSE 0],
                     pending |-> {}]
      Everywhere(x) == [n \in Honest |-> x]
  IN /\ mode \in Modes
     /\ chain = <<>>
     /\ stored = Everywhere(0)
     /\ step = Everywhere("idle")
     /\ purse = Everywhere(Funds)
     /\ bond = Everywhere([a \in Node |-> 0])
     /\ pool = Everywhere(0)
     /\ bondedAt = Everywhere([a \in Node |-> None])
     /\ leftAt = Everywhere([a \in Node |-> None])
     /\ sets = Everywhere(unweighted)
     /\ disk = Everywhere(unweighted)
     /\ dirty = Everywhere(FALSE)
     /\ fresh = Everywhere(TRUE)
     /\ evidence = Everywhere({})
     /\ served = Everywhere([a \in Node |-> IF a \in Genesis THEN 0 ELSE None])
     /\ torn = {}
     /\ crashes = 0

Commit(n) == Store(n) \/ Move(n) \/ Advance(n)

Next == \E n \in Honest :
  \/ Propose(n) \/ Commit(n) \/ Restart(n)
  \/ \E a \in Faulty : Report(n, a)

Spec == Init /\ [][Next]_vars

\* Applying a block never blocks, and while a node has something to put into
\* force the leaders, who rotate, propose.
FairSpec ==
  /\ Spec
  /\ \A n \in Honest : WF_vars(Commit(n)) /\ WF_vars(ProposeEmpty(n))

-----------------------------------------------------------------------------
(* Properties. *)

\* The variables have their types.
TypeOK ==
  /\ mode \in Modes
  /\ \A i \in DOMAIN chain : chain[i].ops \subseteq Op
  /\ stored \in [Honest -> Nat]
  /\ step \in [Honest -> {"idle", "move", "advance"}]
  /\ purse \in [Honest -> [Node -> Nat]]
  /\ bond \in [Honest -> [Node -> Nat]]
  /\ pool \in [Honest -> Nat]
  /\ bondedAt \in [Honest -> [Node -> Nat \cup {None}]]
  /\ leftAt \in [Honest -> [Node -> Nat \cup {None}]]
  /\ sets \in [Honest -> Sets]
  /\ disk \in [Honest -> Sets]
  /\ dirty \in [Honest -> BOOLEAN]
  /\ fresh \in [Honest -> BOOLEAN]
  /\ evidence \in [Honest -> SUBSET Node]
  /\ served \in [Honest -> [Node -> Nat \cup {None}]]
  /\ torn \subseteq Honest
  /\ crashes \in Nat

\* Between blocks, nodes at one height have the same validator set with the same
\* power, the same pending changes, bonds and clocks, restarted or not: each
\* derives them on its own (advanceHeight, applyEpochBoundaryLocked, Start), and
\* a difference is a fork.
View(n) == <<sets[n], bond[n], bondedAt[n], leftAt[n]>>
SameSet ==
  \A n, m \in Honest \ torn :
    step[n] = "idle" /\ step[m] = "idle" /\ stored[n] = stored[m] => View(n) = View(m)

\* A boundary never meets a set it must refuse: the branch of
\* applyEpochBoundaryLocked that drops committed changes is unreachable, as its
\* comment says.
BoundaryUsable == \A n \in Honest : Usable(WithChanges(Active(n), sets[n].pending))

\* The power in force is the bonds, whenever all validators are bonded and no
\* bond has moved since the boundary: what stakeDirty and stakeNeverWeighted
\* let a boundary skip did not need doing.
WeightsCurrent ==
  \A n \in Honest \ torn :
    ~dirty[n] /\ ~fresh[n] /\ step[n] = "idle" /\ (\A a \in Active(n) : bond[n][a] > 0)
      => \A a \in Active(n) : sets[n].power[a] = bond[n][a]

\* A bond leaves its account by a slash of the network, or in Withdraw, and then
\* its owner has been out of the set for the whole unbonding period.
StakeHeld ==
  [][\A n \in Honest : \A a \in Node :
       bond'[n][a] < bond[n][a] =>
         \/ /\ step[n] = "advance"
            /\ [kind |-> "slash", id |-> a] \in sets[n].pending \cup Block(n).ops
         \/ /\ a \notin Active(n)
            /\ served[n][a] # None => CurrentHeight(n) > served[n][a] + Unbonding]_vars

\* Committed changes come into force, on an idle chain included, at every node
\* that honest validators can get there: none is torn, they have a quorum, and
\* the node does not refuse the next block (for want of evidence).
Able(n) ==
  /\ torn = {}
  /\ HasQuorum(n, Honest)
  /\ stored[n] < Len(chain) /\ step[n] = "idle" => Verifies(n, chain[stored[n] + 1])
TakesEffect ==
  \A n \in Honest : sets[n].pending # {} ~> (sets[n].pending = {} \/ ~Able(n))

\* A validator that was admitted has the minimum bond (verifySetChangeLocked:
\* "An admission requires a bond").
AdmittedBonded ==
  \A n \in Honest \ torn : \A a \in Active(n) \ Genesis : bond[n][a] >= MinBond
=============================================================================
