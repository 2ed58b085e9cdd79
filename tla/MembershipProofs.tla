------------------------- MODULE MembershipProofs -------------------------
(***************************************************************************)
(* Theorems about Membership, for every set of nodes, every configuration  *)
(* and every fall of restarts: no epoch boundary meets a validator set it  *)
(* must refuse, no bond leaves early, and nodes at one height have derived *)
(* the same set, with the same power, from the chain.                      *)
(***************************************************************************)
EXTENDS Membership, FiniteSetTheorems, TLAPS

-----------------------------------------------------------------------------
(* The inductive invariant. *)

BlockType == [ops : SUBSET Op, root : [Node -> Nat]]
Recorded == [Node -> Nat \cup {None}]

\* The types the argument needs. What is on disk is what is in memory.
Typed ==
  /\ chain \in Seq(BlockType)
  /\ stored \in [Honest -> Nat]
  /\ step \in [Honest -> {"idle", "move", "advance"}]
  /\ bond \in [Honest -> [Node -> Nat]]
  /\ leftAt \in [Honest -> Recorded]
  /\ served \in [Honest -> Recorded]
  /\ sets \in [Honest -> Sets]
  /\ disk = sets

\* A node applies blocks of the chain.
Within ==
  \A n \in Honest :
    /\ stored[n] <= Len(chain)
    /\ step[n] # "idle" => stored[n] > 0

\* The changes that wait for the boundary once the block being applied is.
Upcoming(n) == sets[n].pending \cup Changes(Block(n).ops)

\* The block a node has begun was checked against the set it is applied to.
Checked ==
  \A n \in Honest :
    step[n] # "idle" => Usable(WithChanges(Active(n), Upcoming(n)))

\* Whoever was in the set and is not has its clock running since it left.
Clocked ==
  \A n \in Honest : \A a \in Node :
    served[n][a] # None =>
      /\ served[n][a] <= CurrentHeight(n)
      /\ a \notin Active(n) => leftAt[n][a] # None /\ leftAt[n][a] > served[n][a]

Safe == BoundaryUsable /\ Checked
IInv == Typed /\ Within /\ Safe /\ Clocked

LEMMA Initial == Init => IInv
<1> SUFFICES ASSUME Init PROVE IInv
  OBVIOUS
<1>1. Typed
  BY MembershipAssumption DEF Init, Typed, Sets, Recorded
<1>2. \A n \in Honest : /\ Active(n) = Genesis /\ sets[n].pending = {}
                        /\ step[n] = "idle" /\ stored[n] = 0
  BY DEF Init, Active
<1>3. WithChanges(Genesis, {}) = Genesis
  BY DEF WithChanges
<1>4. BoundaryUsable
  BY <1>2, <1>3, MembershipAssumption DEF BoundaryUsable, Usable
<1>5. Within /\ Checked
  BY <1>1, <1>2 DEF Within, Checked, Typed, Init
<1>6. Clocked
  <2> SUFFICES ASSUME NEW n \in Honest, NEW a \in Node, served[n][a] # None
               PROVE  served[n][a] <= CurrentHeight(n) /\ a \in Active(n)
    BY DEF Clocked
  <2>1. a \in Genesis /\ served[n][a] = 0
    BY DEF Init
  <2> QED BY <1>2, <2>1 DEF CurrentHeight
<1> QED BY <1>1, <1>4, <1>5, <1>6 DEF IInv, Safe

-----------------------------------------------------------------------------
(* The steps. *)

\* A block joins the chain and leaves the others where they are.
LEMMA AgreeStep ==
  ASSUME Typed, NEW n \in Honest, Propose(n)
  PROVE  /\ chain' \in Seq(BlockType)
         /\ Len(chain') = Len(chain) + 1
         /\ \A i \in 1 .. Len(chain) : chain'[i] = chain[i]
         /\ UNCHANGED <<stored, step, bond, leftAt, served, sets, disk>>
<1>1. PICK ops \in Blocks : Agree(n, ops, Node)
  BY DEF Propose
<1> DEFINE block == [ops |-> ops, root |-> bond[n]]
<1>2. ops \subseteq Op
  BY <1>1, MembershipAssumption DEF Blocks, kSubset
<1>3. block \in BlockType
  BY <1>2 DEF BlockType, Typed
<1>4. chain' = Append(chain, block)
  BY <1>1 DEF Agree
<1>5. UNCHANGED <<stored, step, bond, leftAt, served, sets, disk>>
  BY <1>1 DEF Agree, ledger, clocks
<1> HIDE DEF block
<1> QED BY <1>3, <1>4, <1>5 DEF Typed

\* The set of the next boundary is one of nodes, with a weight for each.
LEMMA Weighed ==
  ASSUME Typed, NEW n \in Honest, NEW next \in SUBSET Node
  PROVE  Reweighted(n, next) \in [Node -> Nat]
  BY DEF Typed, Reweighted, CarriedPower, Sets

LEMMA SetOfNodes ==
  ASSUME NEW S \in SUBSET Node, NEW changes \in SUBSET Change
  PROVE  WithChanges(S, changes) \in SUBSET Node
  BY DEF WithChanges, Change

LEMMA ChangesOfBlock ==
  ASSUME Typed, Within, NEW n \in Honest, step[n] # "idle"
  PROVE  /\ Block(n) \in BlockType
         /\ Changes(Block(n).ops) \in SUBSET Change
<1>1. stored[n] \in 1 .. Len(chain)
  BY DEF Typed, Within
<1>2. Block(n) \in BlockType
  BY <1>1 DEF Typed, Block
<1> QED BY <1>2 DEF BlockType, Changes, Op, Change, ChangeKind, StakeKind

\* Entering the next height crosses the boundary or waits for it: a checked
\* block leaves no set to refuse.
LEMMA AdvanceSplits ==
  ASSUME Checked, NEW n \in Honest, Advance(n)
  PROVE  /\ step[n] = "advance"
         /\ step' = [step EXCEPT ![n] = "idle"]
         /\ served' = [served EXCEPT ![n] = [a \in Node |->
                         IF a \in sets'[n].active THEN stored[n] ELSE @[a]]]
         /\ UNCHANGED <<chain, stored>>
         /\ \/ Cross(n, stored[n], Upcoming(n))
            \/ \E moved : Wait(n, Upcoming(n), moved)
<1>1. Usable(WithChanges(Active(n), Upcoming(n)))
  BY DEF Checked, Advance
<1> QED BY <1>1 DEF Advance, Upcoming

LEMMA AdvanceTyped ==
  ASSUME Typed, Within, Checked, NEW n \in Honest, Advance(n)
  PROVE  Typed'
<1> DEFINE U == Upcoming(n)
<1>1. U \in SUBSET Change
  <2>1. step[n] # "idle"
    BY DEF Advance
  <2> QED BY <2>1, ChangesOfBlock DEF Typed, Sets, Upcoming
<1>2. chain' \in Seq(BlockType) /\ stored' \in [Honest -> Nat]
  BY AdvanceSplits DEF Typed
<1>3. step' \in [Honest -> {"idle", "move", "advance"}]
  BY AdvanceSplits DEF Typed
<1>4. served' \in [Honest -> Recorded]
  <2> DEFINE row == [a \in Node |-> IF a \in sets'[n].active THEN stored[n] ELSE served[n][a]]
  <2>1. row \in Recorded
    BY DEF Typed, Recorded
  <2>2. served' = [served EXCEPT ![n] = row]
    BY AdvanceSplits
  <2> HIDE DEF row
  <2> QED BY <2>1, <2>2 DEF Typed
<1>5. CASE Cross(n, stored[n], U)
  <2> DEFINE next == WithChanges(Active(n), U)
             now == [active |-> next, power |-> Reweighted(n, next), pending |-> {}]
  <2>1. next \in SUBSET Node
    BY <1>1, SetOfNodes DEF Typed, Sets, Active
  <2>2. now \in Sets
    BY <2>1, Weighed DEF Sets
  <2>3. sets' = [sets EXCEPT ![n] = now] /\ disk' = [disk EXCEPT ![n] = now]
    BY <1>5 DEF Cross
  <2>4. sets' \in [Honest -> Sets] /\ disk' = sets'
    <3> HIDE DEF now
    <3> QED BY <2>2, <2>3 DEF Typed
  <2>5. bond' \in [Honest -> [Node -> Nat]]
    BY <1>5 DEF Cross, Typed
  <2>6. leftAt' \in [Honest -> Recorded]
    <3> HIDE DEF U, next
    <3> QED BY <1>5 DEF Cross, Typed, Recorded
  <2> QED BY <1>2, <1>3, <1>4, <2>4, <2>5, <2>6 DEF Typed
<1>6. CASE \E moved : Wait(n, U, moved)
  <2>1. sets' = [sets EXCEPT ![n].pending = U] /\ disk' = [disk EXCEPT ![n].pending = U]
    BY <1>6 DEF Wait
  <2>2. sets' \in [Honest -> Sets] /\ disk' = sets'
    <3> HIDE DEF U
    <3> QED BY <1>1, <2>1 DEF Typed, Sets
  <2>3. UNCHANGED <<bond, leftAt>>
    BY <1>6 DEF Wait
  <2> QED BY <1>2, <1>3, <1>4, <2>2, <2>3 DEF Typed
<1> QED BY <1>5, <1>6, AdvanceSplits

\* A bond grows by the deposit or is paid back whole.
LEMMA MoveTyped ==
  ASSUME Typed, NEW n \in Honest, Move(n)
  PROVE  bond' \in [Honest -> [Node -> Nat]]
  BY MembershipAssumption DEF Typed, Move

LEMMA TypedStep ==
  ASSUME Typed, Within, Checked, [Next]_vars
  PROVE  Typed'
<1> USE DEF Typed
<1>1. CASE UNCHANGED vars
  BY <1>1 DEF vars, ledger, clocks
<1>2. ASSUME NEW n \in Honest, Propose(n) PROVE Typed'
  BY <1>2, AgreeStep
<1>3. ASSUME NEW n \in Honest, Store(n) PROVE Typed'
  BY <1>3 DEF Store, ledger, clocks
<1>4. ASSUME NEW n \in Honest, Move(n) PROVE Typed'
  <2>1. UNCHANGED <<chain, stored, leftAt, served, sets, disk>>
    BY <1>4 DEF Move
  <2>2. step' \in [Honest -> {"idle", "move", "advance"}]
    BY <1>4 DEF Move
  <2> QED BY <1>4, <2>1, <2>2, MoveTyped
<1>5. ASSUME NEW n \in Honest, Advance(n) PROVE Typed'
  BY <1>5, AdvanceTyped
<1>6. ASSUME NEW n \in Honest, Restart(n) PROVE Typed'
  BY <1>6 DEF Restart, ledger, clocks
<1>7. ASSUME NEW n \in Honest, NEW a \in Faulty, Report(n, a) PROVE Typed'
  BY <1>7 DEF Report, ledger, clocks
<1> QED BY <1>1, <1>2, <1>3, <1>4, <1>5, <1>6, <1>7 DEF Next, Commit

LEMMA WithinStep ==
  ASSUME Typed, Within, [Next]_vars
  PROVE  Within'
<1> USE DEF Typed, Within
<1>1. CASE UNCHANGED vars
  BY <1>1 DEF vars
<1>2. ASSUME NEW n \in Honest, Propose(n) PROVE Within'
  BY <1>2, AgreeStep
<1>3. ASSUME NEW n \in Honest, Store(n) PROVE Within'
  BY <1>3 DEF Store
<1>4. ASSUME NEW n \in Honest, Move(n) PROVE Within'
  BY <1>4 DEF Move
<1>5. ASSUME NEW n \in Honest, Advance(n) PROVE Within'
  BY <1>5 DEF Advance
<1>6. ASSUME NEW n \in Honest, Restart(n) PROVE Within'
  BY <1>6 DEF Restart
<1>7. ASSUME NEW n \in Honest, NEW a \in Faulty, Report(n, a) PROVE Within'
  BY <1>7 DEF Report
<1> QED BY <1>1, <1>2, <1>3, <1>4, <1>5, <1>6, <1>7 DEF Next, Commit

\* A restarted node resumes the set it had.
LEMMA Resumes ==
  ASSUME Typed, NEW n \in Honest, Restart(n)
  PROVE  /\ sets' = sets
         /\ UNCHANGED <<chain, stored, bond, leftAt, served>>
         /\ step' = [step EXCEPT ![n] = "idle"]
  BY DEF Typed, Restart, ledger, clocks

LEMMA SafeStep ==
  ASSUME Typed, Within, Safe, [Next]_vars
  PROVE  Safe'
<1> USE DEF Safe
<1>1. ASSUME sets' = sets,
             \A n \in Honest : step'[n] # "idle" => step[n] # "idle" /\ Block(n)' = Block(n)
      PROVE  Safe'
  BY <1>1 DEF BoundaryUsable, Checked, Active, Upcoming
<1>2. CASE UNCHANGED vars
  BY <1>1, <1>2 DEF vars, Block
<1>3. ASSUME NEW n \in Honest, Propose(n) PROVE Safe'
  <2>1. \A m \in Honest : step[m] # "idle" => stored[m] \in 1 .. Len(chain)
    BY DEF Typed, Within
  <2> QED BY <1>1, <1>3, <2>1, AgreeStep DEF Block
<1>4. ASSUME NEW n \in Honest, Store(n) PROVE Safe'
  <2> DEFINE ops == chain[stored[n] + 1].ops
  <2>1. /\ sets' = sets /\ chain' = chain
        /\ stored' = [stored EXCEPT ![n] = @ + 1]
        /\ step' = [step EXCEPT ![n] = "move"]
        /\ BatchValid(n, ops)
    BY <1>4 DEF Store, Verifies
  <2>2. BoundaryUsable'
    BY <2>1 DEF BoundaryUsable, Active
  <2>3. ASSUME NEW m \in Honest, step'[m] # "idle"
        PROVE  Usable(WithChanges(Active(m), Upcoming(m)))'
    <3>1. CASE m = n
      <4>1. Block(n)'.ops = ops
        BY <2>1 DEF Block, Typed
      <4>2. Upcoming(n)' = sets[n].pending \cup Changes(ops)
        BY <2>1, <4>1 DEF Upcoming, Changes
      <4>3. Usable(WithChanges(Active(n), sets[n].pending \cup Changes(ops)))
        <5>1. CASE Changes(ops) = {}
          BY <5>1 DEF BoundaryUsable
        <5>2. CASE Changes(ops) # {}
          BY <2>1, <5>2 DEF BatchValid
        <5> QED BY <5>1, <5>2
      <4> QED BY <2>1, <3>1, <4>2, <4>3 DEF Active, Usable, WithChanges
    <3>2. CASE m # n
      BY <2>1, <2>3, <3>2 DEF Checked, Upcoming, Active, Block, Typed, Usable, WithChanges, Changes
    <3> QED BY <3>1, <3>2
  <2> QED BY <2>2, <2>3 DEF Checked
<1>5. ASSUME NEW n \in Honest, Move(n) PROVE Safe'
  BY <1>1, <1>5 DEF Move, Block, Typed
<1>6. ASSUME NEW n \in Honest, Advance(n) PROVE Safe'
  <2> DEFINE U == Upcoming(n)
             next == WithChanges(Active(n), U)
  <2>1. Usable(next)
    BY <1>6 DEF Checked, Advance
  <2>2. Usable(WithChanges(Active(n), sets[n].pending))'
    <3>1. CASE Cross(n, stored[n], U)
      <4>1. sets'[n].active = next /\ sets'[n].pending = {}
        BY <3>1 DEF Cross, Typed
      <4>2. WithChanges(next, {}) = next
        BY DEF WithChanges
      <4> HIDE DEF next
      <4> QED BY <2>1, <4>1, <4>2 DEF Active
    <3>2. CASE \E moved : Wait(n, U, moved)
      <4> HIDE DEF U
      <4>1. sets'[n].active = sets[n].active /\ sets'[n].pending = U
        BY <3>2 DEF Wait, Typed, Sets
      <4> QED BY <2>1, <4>1 DEF Active
    <3> QED BY <1>6, <3>1, <3>2, AdvanceSplits
  <2>3. \A m \in Honest \ {n} : sets'[m] = sets[m] /\ Block(m)' = Block(m) /\ step'[m] = step[m]
    BY <1>6 DEF Advance, Cross, Wait, Typed, Block
  <2>4. step'[n] = "idle"
    BY <1>6 DEF Advance, Typed
  <2>5. BoundaryUsable'
    <3> SUFFICES ASSUME NEW m \in Honest PROVE Usable(WithChanges(Active(m), sets[m].pending))'
      BY DEF BoundaryUsable
    <3>1. CASE m = n
      BY <2>2, <3>1
    <3>2. CASE m # n
      BY <2>3, <3>2 DEF BoundaryUsable, Active
    <3> QED BY <3>1, <3>2
  <2>6. Checked'
    <3> SUFFICES ASSUME NEW m \in Honest, step'[m] # "idle"
                 PROVE  Usable(WithChanges(Active(m), Upcoming(m)))'
      BY DEF Checked
    <3> QED BY <2>3, <2>4 DEF Checked, Active, Upcoming
  <2> QED BY <2>5, <2>6
<1>7. ASSUME NEW n \in Honest, Restart(n) PROVE Safe'
  BY <1>1, <1>7, Resumes DEF Block, Typed
<1>8. ASSUME NEW n \in Honest, NEW a \in Faulty, Report(n, a) PROVE Safe'
  BY <1>1, <1>8 DEF Report, Block
<1> QED BY <1>2, <1>3, <1>4, <1>5, <1>6, <1>7, <1>8 DEF Next, Commit

LEMMA ClockedStep ==
  ASSUME Typed, Within, Checked, Clocked, [Next]_vars
  PROVE  Clocked'
<1> USE DEF Typed, Within
<1>1. ASSUME UNCHANGED <<sets, leftAt, served>>,
             \A n \in Honest : CurrentHeight(n) <= CurrentHeight(n)'
      PROVE  Clocked'
  <2> SUFFICES ASSUME NEW n \in Honest, NEW a \in Node, served[n][a] # None
               PROVE  /\ served[n][a] <= CurrentHeight(n)'
                      /\ a \notin Active(n) => leftAt[n][a] # None /\ leftAt[n][a] > served[n][a]
    BY <1>1 DEF Clocked, Active
  <2>1. /\ served[n][a] <= CurrentHeight(n)
        /\ a \notin Active(n) => leftAt[n][a] # None /\ leftAt[n][a] > served[n][a]
    BY DEF Clocked
  <2>2. served[n][a] \in Nat /\ CurrentHeight(n) \in Int /\ CurrentHeight(n)' \in Int
    <3>1. stored'[n] \in Nat
      BY TypedStep
    <3> QED BY <3>1 DEF Recorded, CurrentHeight
  <2> QED BY <1>1, <2>1, <2>2
<1>2. CASE UNCHANGED vars
  BY <1>1, <1>2 DEF vars, CurrentHeight, clocks
<1>3. ASSUME NEW n \in Honest, Propose(n) PROVE Clocked'
  BY <1>1, <1>3, AgreeStep DEF CurrentHeight
<1>4. ASSUME NEW n \in Honest, Store(n) PROVE Clocked'
  BY <1>1, <1>4 DEF Store, CurrentHeight, clocks
<1>5. ASSUME NEW n \in Honest, Move(n) PROVE Clocked'
  BY <1>1, <1>5 DEF Move, CurrentHeight
<1>6. ASSUME NEW n \in Honest, Advance(n) PROVE Clocked'
  <2> DEFINE h == stored[n]
             U == Upcoming(n)
             next == WithChanges(Active(n), U)
  <2>1. /\ CurrentHeight(n) = h - 1 /\ CurrentHeight(n)' = h /\ h \in Nat
        /\ \A m \in Honest \ {n} : /\ CurrentHeight(m)' = CurrentHeight(m)
                                   /\ sets'[m] = sets[m] /\ leftAt'[m] = leftAt[m]
                                   /\ served'[m] = served[m]
    BY <1>6 DEF Advance, CurrentHeight, Cross, Wait
  <2>2. \A a \in Node : served'[n][a] = IF a \in sets'[n].active THEN h ELSE served[n][a]
    BY <1>6, AdvanceSplits
  <2>3. ASSUME NEW a \in Node, a \notin sets'[n].active, served[n][a] # None
        PROVE  leftAt'[n][a] # None /\ leftAt'[n][a] > served[n][a]
    <3>1. /\ served[n][a] \in Nat /\ served[n][a] <= h - 1
          /\ a \notin Active(n) => leftAt[n][a] # None /\ leftAt[n][a] > served[n][a]
      BY <2>1, <2>3 DEF Clocked, Recorded
    <3>2. CASE Cross(n, h, U)
      <4>1. sets'[n].active = next
        BY <3>2 DEF Cross
      <4>2. leftAt'[n][a] = IF a \in Active(n) \ next THEN h
                            ELSE IF a \in next \ Active(n) THEN None ELSE leftAt[n][a]
        <5> HIDE DEF U, next
        <5>1. leftAt' = [leftAt EXCEPT ![n] = [b \in Node |->
                           IF b \in Active(n) \ WithChanges(Active(n), U) THEN h
                           ELSE IF b \in WithChanges(Active(n), U) \ Active(n) THEN None ELSE @[b]]]
          BY <3>2 DEF Cross
        <5> QED BY <5>1 DEF next
      <4> HIDE DEF next
      <4> QED BY <2>1, <2>3, <3>1, <4>1, <4>2, MembershipAssumption
    <3>3. CASE \E moved : Wait(n, U, moved)
      <4> HIDE DEF U
      <4>1. sets'[n].active = Active(n) /\ leftAt' = leftAt
        BY <3>3 DEF Wait, Sets, Active
      <4> QED BY <2>3, <3>1, <4>1
    <3> QED BY <1>6, <3>2, <3>3, AdvanceSplits
  <2>4. ASSUME NEW m \in Honest, NEW a \in Node, served'[m][a] # None
        PROVE  /\ served'[m][a] <= CurrentHeight(m)'
               /\ a \notin Active(m)' => leftAt'[m][a] # None /\ leftAt'[m][a] > served'[m][a]
    <3> HIDE DEF h
    <3>1. CASE m # n
      BY <2>1, <2>4, <3>1 DEF Clocked, Active
    <3>2. CASE m = n /\ a \in sets'[n].active
      BY <2>1, <2>2, <3>2 DEF Active
    <3>3. CASE m = n /\ a \notin sets'[n].active
      <4>1. served'[n][a] = served[n][a] /\ served[n][a] # None
        BY <2>2, <2>4, <3>3
      <4>2. served[n][a] \in Nat /\ served[n][a] <= h - 1
        BY <2>1, <4>1 DEF Clocked, Recorded
      <4> QED BY <2>1, <2>3, <3>3, <4>1, <4>2 DEF Active
    <3> QED BY <3>1, <3>2, <3>3
  <2> QED BY <2>4 DEF Clocked
<1>7. ASSUME NEW n \in Honest, Restart(n) PROVE Clocked'
  BY <1>1, <1>7, Resumes DEF CurrentHeight
<1>8. ASSUME NEW n \in Honest, NEW a \in Faulty, Report(n, a) PROVE Clocked'
  BY <1>1, <1>8 DEF Report, CurrentHeight, clocks
<1> QED BY <1>2, <1>3, <1>4, <1>5, <1>6, <1>7, <1>8 DEF Next, Commit

-----------------------------------------------------------------------------
(* The theorems. *)

LEMMA Step == IInv /\ [Next]_vars => IInv'
  BY TypedStep, WithinStep, SafeStep, ClockedStep DEF IInv, Safe

\* The invariant behind the theorems, of every reachable state.
THEOREM Invariance == Spec => []IInv
<1>1. IInv /\ [Next]_vars => IInv'
  BY Step
<1> QED BY Initial, <1>1, PTL DEF Spec

\* No epoch boundary meets a validator set too small or too large, so the branch
\* of applyEpochBoundaryLocked that drops committed changes is never taken.
THEOREM BoundaryNeverRefuses == Spec => []BoundaryUsable
<1>1. IInv => BoundaryUsable
  BY DEF IInv, Safe
<1> QED BY Invariance, <1>1, PTL

\* What may lower the bond of an account in one step of a node.
Released(n, a) ==
  bond'[n][a] < bond[n][a] =>
    \/ /\ step[n] = "advance"
       /\ [kind |-> "slash", id |-> a] \in sets[n].pending \cup Block(n).ops
    \/ /\ a \notin Active(n)
       /\ served[n][a] # None => CurrentHeight(n) > served[n][a] + Unbonding

LEMMA ReleaseStep ==
  ASSUME IInv, [Next]_vars, NEW n \in Honest, NEW a \in Node
  PROVE  Released(n, a)
<1> SUFFICES ASSUME bond'[n][a] < bond[n][a]
             PROVE  \/ /\ step[n] = "advance"
                       /\ [kind |-> "slash", id |-> a] \in sets[n].pending \cup Block(n).ops
                    \/ /\ a \notin Active(n)
                       /\ served[n][a] # None => CurrentHeight(n) > served[n][a] + Unbonding
  BY DEF Released
<1> USE DEF IInv, Typed
<1>1. bond[n][a] \in Nat
  OBVIOUS
<1>2. bond'[n] # bond[n]
  BY <1>1
<1>3. ASSUME NEW m \in Honest, Move(m)
      PROVE  a \notin Active(n) /\ (served[n][a] # None => CurrentHeight(n) > served[n][a] + Unbonding)
  <2> DEFINE posted == [b \in Node |-> bond[m][b] + IF b \in Bonding(m) THEN Deposit[b] ELSE 0]
             row == [b \in Node |-> IF b \in Withdrawing(m) THEN 0 ELSE posted[b]]
  <2>1. bond' = [bond EXCEPT ![m] = row]
    BY <1>3 DEF Move
  <2>2. m = n
    <3> HIDE DEF row
    <3> QED BY <1>2, <2>1
  <2>3. bond'[n][a] = row[a]
    <3> HIDE DEF row
    <3> QED BY <2>1, <2>2
  <2>4. posted[a] \in Nat /\ posted[a] >= bond[n][a]
    BY <2>2, MembershipAssumption
  <2>5. a \in Withdrawing(n)
    <3>1. row[a] = IF a \in Withdrawing(n) THEN 0 ELSE posted[a]
      BY <2>2
    <3> HIDE DEF posted, row
    <3> QED BY <1>1, <2>3, <2>4, <3>1
  <2>6. Withdrawable(n, a, Aged(n), CurrentHeight(n))
    BY <2>5 DEF Withdrawing
  <2>7. ASSUME served[n][a] # None PROVE CurrentHeight(n) > served[n][a] + Unbonding
    <3>1. leftAt[n][a] # None /\ leftAt[n][a] > served[n][a]
      BY <2>6, <2>7 DEF Withdrawable, Clocked
    <3>2. CurrentHeight(n) >= leftAt[n][a] + Unbonding
      BY <2>6, <3>1 DEF Withdrawable
    <3>3. leftAt[n][a] \in Nat /\ served[n][a] \in Nat /\ CurrentHeight(n) \in Int /\ Unbonding \in Nat
      BY <2>7, <3>1, MembershipAssumption DEF Recorded, CurrentHeight
    <3> QED BY <3>1, <3>2, <3>3
  <2> QED BY <2>6, <2>7 DEF Withdrawable
<1>4. ASSUME NEW m \in Honest, Advance(m)
      PROVE  /\ step[n] = "advance"
             /\ [kind |-> "slash", id |-> a] \in sets[n].pending \cup Block(n).ops
  <2>1. Cross(m, stored[m], Upcoming(m))
    BY <1>2, <1>4, AdvanceSplits DEF Wait, Safe
  <2> DEFINE slashed == {c.id : c \in {d \in Upcoming(m) : d.kind = "slash"}}
             row == [b \in Node |-> IF b \in slashed THEN 0 ELSE bond[m][b]]
  <2>2. bond' = [bond EXCEPT ![m] = [b \in Node |-> IF b \in slashed THEN 0 ELSE @[b]]]
    BY <2>1 DEF Cross
  <2>3. m = n
    <3> HIDE DEF slashed
    <3> QED BY <1>2, <2>2
  <2>4. a \in slashed
    <3> HIDE DEF slashed
    <3> QED BY <1>1, <2>2, <2>3
  <2>5. PICK c \in Upcoming(n) : c.kind = "slash" /\ c.id = a
    BY <2>3, <2>4
  <2>6. step[n] = "advance"
    BY <1>4, <2>3 DEF Advance
  <2>7. Upcoming(n) \in SUBSET Change
    BY <2>6, ChangesOfBlock DEF Upcoming, Sets
  <2>8. c = [kind |-> "slash", id |-> a]
    BY <2>5, <2>7 DEF Change
  <2> QED BY <2>5, <2>6, <2>8 DEF Upcoming, Changes
<1>5. CASE UNCHANGED bond
  BY <1>2, <1>5
<1>6. \/ UNCHANGED bond
      \/ \E m \in Honest : Move(m) \/ Advance(m)
  <2>1. CASE UNCHANGED vars
    BY <2>1 DEF vars, ledger
  <2>2. ASSUME NEW m \in Honest, Propose(m) PROVE UNCHANGED bond
    BY <2>2, AgreeStep
  <2>3. ASSUME NEW m \in Honest, Store(m) PROVE UNCHANGED bond
    BY <2>3 DEF Store, ledger
  <2>4. ASSUME NEW m \in Honest, Restart(m) PROVE UNCHANGED bond
    BY <2>4 DEF Restart, ledger
  <2>5. ASSUME NEW m \in Honest, NEW b \in Faulty, Report(m, b) PROVE UNCHANGED bond
    BY <2>5 DEF Report, ledger
  <2> QED BY <2>1, <2>2, <2>3, <2>4, <2>5 DEF Next, Commit
<1> QED BY <1>3, <1>4, <1>5, <1>6

\* A bond leaves its account by a slash, or once its owner has been out of the
\* set for the whole unbonding period.
THEOREM BondsHeld == Spec => StakeHeld
<1>1. IInv /\ [Next]_vars =>
        [\A n \in Honest : \A a \in Node :
           bond'[n][a] < bond[n][a] =>
             \/ /\ step[n] = "advance"
                /\ [kind |-> "slash", id |-> a] \in sets[n].pending \cup Block(n).ops
             \/ /\ a \notin Active(n)
                /\ served[n][a] # None => CurrentHeight(n) > served[n][a] + Unbonding]_vars
  BY ReleaseStep DEF Released
<1> QED BY Invariance, <1>1, PTL DEF Spec, StakeHeld

-----------------------------------------------------------------------------
(* What the chain alone makes of the accounts and of the set. A view is what *)
(* a node holds of them between blocks, and whether a bond has moved since   *)
(* the set was last weighed, which no node remembers for long.               *)

Views == [purse : [Node -> Nat], bond : [Node -> Nat], bondedAt : Recorded,
          leftAt : Recorded, set : Sets, moved : BOOLEAN]

Stakes(ops) == \E op \in ops : op.kind \in StakeKind
AtBoundary(k) == k % Epoch = 0

Posting(v, ops) == {a \in Node : [kind |-> "bond", id |-> a] \in ops /\ v.purse[a] >= Deposit[a]}
Since(v, k, ops) ==
  [a \in Node |-> IF a \in Posting(v, ops) /\ v.bondedAt[a] = None THEN k ELSE v.bondedAt[a]]
Returning(v, k, ops) ==
  {a \in Node : /\ [kind |-> "withdraw", id |-> a] \in ops
                /\ a \notin v.set.active
                /\ Since(v, k, ops)[a] # None => k >= Since(v, k, ops)[a] + Residency
                /\ v.leftAt[a] # None => k >= v.leftAt[a] + Unbonding}
Posted(v, ops) == [a \in Node |-> v.bond[a] + IF a \in Posting(v, ops) THEN Deposit[a] ELSE 0]
Spent(v, ops) == [a \in Node |-> v.purse[a] - IF a \in Posting(v, ops) THEN Deposit[a] ELSE 0]

\* The stake operations of a block (Move).
AfterMoves(v, k, ops) ==
  [purse |-> [a \in Node |-> Spent(v, ops)[a] + IF a \in Returning(v, k, ops) THEN Posted(v, ops)[a] ELSE 0],
   bond |-> [a \in Node |-> IF a \in Returning(v, k, ops) THEN 0 ELSE Posted(v, ops)[a]],
   bondedAt |-> [a \in Node |-> IF a \in Returning(v, k, ops) /\ Posted(v, ops)[a] > 0 THEN None
                                ELSE Since(v, k, ops)[a]],
   leftAt |-> v.leftAt, set |-> v.set, moved |-> v.moved \/ Stakes(ops)]

Pending(v, ops) == v.set.pending \cup Changes(ops)
Upon(v, ops) == WithChanges(v.set.active, Pending(v, ops))
Weights(v, next) ==
  IF \A a \in next : v.bond[a] > 0
  THEN [a \in Node |-> IF a \in next THEN v.bond[a] ELSE 0]
  ELSE [a \in Node |-> IF a \notin next THEN 0 ELSE IF a \in v.set.active THEN v.set.power[a] ELSE 1]
Slashed(P) == {c.id : c \in {d \in P : d.kind = "slash"}}

Crossed(v, k, ops) ==
  [purse |-> v.purse,
   bond |-> [a \in Node |-> IF a \in Slashed(Pending(v, ops)) THEN 0 ELSE v.bond[a]],
   bondedAt |-> v.bondedAt,
   leftAt |-> [a \in Node |-> IF a \in v.set.active \ Upon(v, ops) THEN k
                              ELSE IF a \in Upon(v, ops) \ v.set.active THEN None ELSE v.leftAt[a]],
   set |-> [active |-> Upon(v, ops), power |-> Weights(v, Upon(v, ops)), pending |-> {}],
   moved |-> FALSE]

Waited(v, ops) ==
  [purse |-> v.purse, bond |-> v.bond, bondedAt |-> v.bondedAt, leftAt |-> v.leftAt,
   set |-> [active |-> v.set.active, power |-> v.set.power, pending |-> Pending(v, ops)],
   moved |-> v.moved]

\* The boundary, where there is something to put into force (Advance).
AfterBoundary(v, k, ops) ==
  IF AtBoundary(k) /\ (Pending(v, ops) # {} \/ v.moved) THEN Crossed(v, k, ops) ELSE Waited(v, ops)

After(v, k, ops) == AfterBoundary(AfterMoves(v, k - 1, ops), k, ops)

\* The power is the bonds unless a bond has moved, and an outsider has none.
Weighted(v) ==
  /\ \A a \in Node \ v.set.active : v.set.power[a] = 0
  /\ ~v.moved /\ (\A a \in v.set.active : v.bond[a] > 0)
       => \A a \in v.set.active : v.set.power[a] = v.bond[a]

IsHistory(h) ==
  /\ \A k \in 0 .. Len(chain) : h[k] \in Views /\ Weighted(h[k])
  /\ \A k \in 1 .. Len(chain) : h[k] = After(h[k - 1], k, chain[k].ops)

\* A node holds view v.
Holds(n, v) ==
  /\ purse[n] = v.purse /\ bond[n] = v.bond
  /\ bondedAt[n] = v.bondedAt /\ leftAt[n] = v.leftAt
  /\ sets[n] = v.set

\* A node that does not know of a move since it weighed the set weighs it anew.
Knows(n, v) ==
  /\ dirty[n] => v.moved
  /\ v.moved => dirty[n] \/ fresh[n]

\* How a node stands to the history, between blocks and in one.
On(h, n) ==
  /\ step[n] = "idle" => Holds(n, h[stored[n]]) /\ Knows(n, h[stored[n]])
  /\ step[n] = "move" => Holds(n, h[stored[n] - 1]) /\ Knows(n, h[stored[n] - 1])
  /\ step[n] = "advance" => /\ Holds(n, AfterMoves(h[stored[n] - 1], stored[n] - 1, Block(n).ops))
                            /\ Knows(n, h[stored[n] - 1])

Followed == \E h : IsHistory(h) /\ \A n \in Honest \ torn : On(h, n)

Kept ==
  /\ purse \in [Honest -> [Node -> Nat]]
  /\ bondedAt \in [Honest -> Recorded]
  /\ dirty \in [Honest -> BOOLEAN] /\ fresh \in [Honest -> BOOLEAN]
  /\ torn \subseteq Honest

HInv == IInv /\ Kept /\ Followed

-----------------------------------------------------------------------------

LEMMA WaitedWeighs ==
  ASSUME NEW v \in Views, Weighted(v), NEW ops \in SUBSET Op
  PROVE  Waited(v, ops) \in Views /\ Weighted(Waited(v, ops))
<1>1. Pending(v, ops) \in SUBSET Change
  BY DEF Views, Sets, Pending, Changes, Op, Change, ChangeKind
<1>2. Waited(v, ops).set \in Sets
  BY <1>1 DEF Waited, Views, Sets
<1>3. Waited(v, ops) \in Views
  BY <1>2 DEF Waited, Views
<1> QED BY <1>3 DEF Waited, Weighted

LEMMA MovesWeigh ==
  ASSUME NEW v \in Views, Weighted(v), NEW k \in Nat, NEW ops \in SUBSET Op
  PROVE  AfterMoves(v, k, ops) \in Views /\ Weighted(AfterMoves(v, k, ops))
<1> DEFINE w == AfterMoves(v, k, ops)
           back == Returning(v, k, ops)
<1>1. \A a \in Node : Deposit[a] \in Nat \ {0}
  BY MembershipAssumption
<1>2. Posted(v, ops) \in [Node -> Nat] /\ Spent(v, ops) \in [Node -> Nat]
  <2>1. \A a \in Posting(v, ops) : a \in Node /\ v.purse[a] >= Deposit[a]
    BY DEF Posting
  <2>2. v.purse \in [Node -> Nat] /\ v.bond \in [Node -> Nat]
    BY DEF Views
  <2> QED BY <1>1, <2>1, <2>2 DEF Posted, Spent
<1>3. Since(v, k, ops) \in Recorded
  BY DEF Since, Recorded, Views
<1>4. w.purse \in [Node -> Nat] /\ w.bond \in [Node -> Nat] /\ w.bondedAt \in Recorded
  <2> HIDE DEF back
  <2>1. w.purse = [a \in Node |-> Spent(v, ops)[a] + IF a \in back THEN Posted(v, ops)[a] ELSE 0]
    BY DEF AfterMoves, back
  <2>2. w.bond = [a \in Node |-> IF a \in back THEN 0 ELSE Posted(v, ops)[a]]
    BY DEF AfterMoves, back
  <2>3. w.bondedAt = [a \in Node |-> IF a \in back /\ Posted(v, ops)[a] > 0 THEN None
                                ELSE Since(v, k, ops)[a]]
    BY DEF AfterMoves, back
  <2> HIDE DEF w
  <2> QED BY <1>2, <1>3, <2>1, <2>2, <2>3 DEF Recorded
<1>5. w \in Views
  <2>1. w.leftAt \in Recorded /\ w.set \in Sets /\ w.moved \in BOOLEAN
    BY DEF AfterMoves, Views, Stakes
  <2>2. w = [purse |-> w.purse, bond |-> w.bond, bondedAt |-> w.bondedAt, leftAt |-> w.leftAt,
             set |-> w.set, moved |-> w.moved]
    BY DEF AfterMoves
  <2> HIDE DEF w
  <2> QED BY <1>4, <2>1, <2>2 DEF Views
<1>6. w.set = v.set /\ (~w.moved => ~v.moved /\ ~Stakes(ops))
  BY DEF AfterMoves
<1>7. ASSUME ~Stakes(ops) PROVE w.bond = v.bond
  <2>1. \A a \in Node : [kind |-> "bond", id |-> a] \notin ops /\ [kind |-> "withdraw", id |-> a] \notin ops
    BY <1>7 DEF Stakes, StakeKind
  <2>2. Posting(v, ops) = {} /\ back = {}
    BY <2>1 DEF Posting, Returning
  <2>3. Posted(v, ops) = v.bond
    <3>1. \A a \in Node : v.bond[a] + 0 = v.bond[a]
      BY DEF Views
    <3> QED BY <2>2, <3>1 DEF Posted, Views
  <2>4. w.bond = [a \in Node |-> IF a \in back THEN 0 ELSE Posted(v, ops)[a]]
    BY DEF AfterMoves
  <2> HIDE DEF w, back
  <2> QED BY <2>2, <2>3, <2>4 DEF Views
<1> HIDE DEF w
<1>8. Weighted(w)
  BY <1>6, <1>7 DEF Weighted
<1> QED BY <1>5, <1>8 DEF w

LEMMA CrossedWeighs ==
  ASSUME NEW v \in Views, NEW k \in Nat, NEW ops \in SUBSET Op
  PROVE  Crossed(v, k, ops) \in Views /\ Weighted(Crossed(v, k, ops))
<1> DEFINE w == Crossed(v, k, ops)
           next == Upon(v, ops)
           lost == Slashed(Pending(v, ops))
<1>1. next \in SUBSET Node
  <2>1. Pending(v, ops) \in SUBSET Change
    BY DEF Views, Sets, Pending, Changes, Op, Change, ChangeKind
  <2> QED BY <2>1, SetOfNodes DEF Upon, Views, Sets
<1>2. Weights(v, next) \in [Node -> Nat]
  <2> HIDE DEF next
  <2> QED BY <1>1 DEF Weights, Views, Sets
<1>3. w.set = [active |-> next, power |-> Weights(v, next), pending |-> {}]
  BY DEF Crossed
<1>4. w.bond = [a \in Node |-> IF a \in lost THEN 0 ELSE v.bond[a]]
  BY DEF Crossed
<1>5. w \in Views
  <2> HIDE DEF next, lost
  <2>1. w.set \in Sets
    BY <1>1, <1>2, <1>3 DEF Sets
  <2>2. w.bond \in [Node -> Nat]
    BY <1>4 DEF Views
  <2>3. w.leftAt \in Recorded
    BY DEF Crossed, Views, Recorded
  <2>4. w.purse \in [Node -> Nat] /\ w.bondedAt \in Recorded /\ w.moved = FALSE
    BY DEF Crossed, Views
  <2>5. w = [purse |-> w.purse, bond |-> w.bond, bondedAt |-> w.bondedAt, leftAt |-> w.leftAt,
             set |-> w.set, moved |-> w.moved]
    BY DEF Crossed
  <2> HIDE DEF w
  <2> QED BY <2>1, <2>2, <2>3, <2>4, <2>5 DEF Views
<1> HIDE DEF w, next, lost
<1>6. \A a \in Node \ w.set.active : w.set.power[a] = 0
  BY <1>1, <1>3 DEF Weights
<1>7. ASSUME \A a \in next : w.bond[a] > 0
      PROVE  \A a \in next : w.set.power[a] = w.bond[a]
  <2>1. \A a \in next : a \notin lost /\ w.bond[a] = v.bond[a]
    BY <1>1, <1>4, <1>7
  <2> QED BY <1>1, <1>3, <1>7, <2>1 DEF Weights
<1>8. Weighted(w)
  BY <1>3, <1>6, <1>7 DEF Weighted
<1> QED BY <1>5, <1>8 DEF w

LEMMA AfterWeighs ==
  ASSUME NEW v \in Views, Weighted(v), NEW k \in Nat \ {0}, NEW ops \in SUBSET Op
  PROVE  After(v, k, ops) \in Views /\ Weighted(After(v, k, ops))
<1>1. k - 1 \in Nat
  OBVIOUS
<1>2. AfterMoves(v, k - 1, ops) \in Views /\ Weighted(AfterMoves(v, k - 1, ops))
  BY <1>1, MovesWeigh
<1> QED BY <1>2, WaitedWeighs, CrossedWeighs DEF After, AfterBoundary

-----------------------------------------------------------------------------

\* A new block makes the history one longer.
LEMMA HistoryExtends ==
  ASSUME Typed, NEW n \in Honest, Propose(n), NEW h, IsHistory(h)
  PROVE  \E g : IsHistory(g)' /\ \A k \in 0 .. Len(chain) : g[k] = h[k]
<1>0. PICK size : size = Len(chain)
  OBVIOUS
<1>1. size \in Nat
  BY <1>0 DEF Typed
<1>2. PICK new : new = chain'
  OBVIOUS
<1>3. new \in Seq(BlockType) /\ Len(new) = size + 1 /\ \A i \in 1 .. size : new[i] = chain[i]
  BY AgreeStep, <1>0, <1>2
<1> DEFINE next == After(h[size], size + 1, new[size + 1].ops)
           g == [k \in 0 .. size + 1 |-> IF k = size + 1 THEN next ELSE h[k]]
<1>4. \A k \in 0 .. size : g[k] = h[k]
  BY <1>1
<1>5. g[size + 1] = next
  BY <1>1
<1>6. next \in Views /\ Weighted(next)
  <2>1. h[size] \in Views /\ Weighted(h[size])
    BY <1>0, <1>1 DEF IsHistory
  <2>2. new[size + 1].ops \in SUBSET Op
    <3>1. new[size + 1] \in BlockType
      BY <1>1, <1>3
    <3> QED BY <3>1 DEF BlockType
  <2>3. size + 1 \in Nat \ {0}
    BY <1>1
  <2> QED BY <2>1, <2>2, <2>3, AfterWeighs
<1> HIDE DEF next, g
<1>7. \A k \in 0 .. size + 1 : g[k] \in Views /\ Weighted(g[k])
  <2> SUFFICES ASSUME NEW k \in 0 .. size + 1 PROVE g[k] \in Views /\ Weighted(g[k])
    OBVIOUS
  <2>1. CASE k = size + 1
    BY <1>5, <1>6, <2>1
  <2>2. CASE k # size + 1
    <3>1. k \in 0 .. size
      BY <1>1, <2>2
    <3> QED BY <1>0, <1>4, <3>1 DEF IsHistory
  <2> QED BY <2>1, <2>2
<1>8. \A k \in 1 .. size + 1 : g[k] = After(g[k - 1], k, new[k].ops)
  <2> SUFFICES ASSUME NEW k \in 1 .. size + 1 PROVE g[k] = After(g[k - 1], k, new[k].ops)
    OBVIOUS
  <2>1. CASE k = size + 1
    <3>1. k - 1 = size /\ size \in 0 .. size
      BY <1>1, <2>1
    <3> QED BY <1>4, <1>5, <2>1, <3>1 DEF next
  <2>2. CASE k # size + 1
    <3>1. k \in 1 .. size /\ k \in 0 .. size /\ k - 1 \in 0 .. size
      BY <1>1, <2>2
    <3> QED BY <1>0, <1>3, <1>4, <3>1 DEF IsHistory
  <2> QED BY <2>1, <2>2
<1>9. Len(chain') = size + 1
  BY <1>2, <1>3
<1>10. IsHistory(g)'
  BY <1>2, <1>7, <1>8, <1>9 DEF IsHistory
<1> QED BY <1>0, <1>4, <1>10

LEMMA HInvInit == Init => HInv
<1> SUFFICES ASSUME Init PROVE HInv
  OBVIOUS
<1>0. Typed
  BY Initial DEF IInv
<1> DEFINE unweighted == [active |-> Genesis, power |-> [a \in Node |-> IF a \in Genesis THEN 1 ELSE 0],
                          pending |-> {}]
           v == [purse |-> Funds, bond |-> [a \in Node |-> 0], bondedAt |-> [a \in Node |-> None],
                 leftAt |-> [a \in Node |-> None], set |-> unweighted, moved |-> FALSE]
           h == [k \in {0} |-> v]
<1>1. Kept
  BY MembershipAssumption DEF Init, Kept, Recorded
<1>2. unweighted \in Sets
  BY MembershipAssumption DEF Sets
<1>3. v \in Views /\ v.set = unweighted /\ v.bond = [a \in Node |-> 0]
  <2> HIDE DEF unweighted
  <2> QED BY <1>2, MembershipAssumption DEF Views, Recorded
<1>4. Weighted(v)
  <2>1. \A a \in Node \ v.set.active : v.set.power[a] = 0
    BY MembershipAssumption
  <2>2. Genesis # {}
    <3>1. Cardinality(Genesis) # 0
      BY MembershipAssumption
    <3> QED BY <3>1, FS_EmptySet
  <2>3. \E a \in v.set.active : ~(v.bond[a] > 0)
    BY <2>2, MembershipAssumption
  <2> HIDE DEF v
  <2> QED BY <2>1, <2>3 DEF Weighted
<1>5. Len(chain) = 0
  BY DEF Init
<1>6. IsHistory(h)
  <2>1. 1 .. Len(chain) = {} /\ \A k \in 0 .. Len(chain) : k = 0
    BY <1>5
  <2> HIDE DEF v
  <2> QED BY <1>3, <1>4, <2>1 DEF IsHistory
<1>7. \A n \in Honest : On(h, n)
  <2> SUFFICES ASSUME NEW n \in Honest PROVE On(h, n)
    OBVIOUS
  <2>1. step[n] = "idle" /\ stored[n] = 0 /\ h[0] = v
    BY DEF Init
  <2>2. Holds(n, v)
    BY DEF Init, Holds
  <2>3. Knows(n, v)
    BY DEF Init, Knows
  <2> HIDE DEF v, h
  <2> QED BY <2>1, <2>2, <2>3 DEF On
<1> HIDE DEF h
<1>8. Followed
  BY <1>6, <1>7 DEF Followed
<1> QED BY <1>1, <1>8, Initial DEF HInv

-----------------------------------------------------------------------------
(* A node's steps. *)

\* What a step leaves alone at the other nodes.
Same(m) ==
  /\ step'[m] = step[m] /\ stored'[m] = stored[m]
  /\ purse'[m] = purse[m] /\ bond'[m] = bond[m]
  /\ bondedAt'[m] = bondedAt[m] /\ leftAt'[m] = leftAt[m]
  /\ sets'[m] = sets[m] /\ dirty'[m] = dirty[m] /\ fresh'[m] = fresh[m]

LEMMA OthersFollow ==
  ASSUME Typed, Within, NEW m \in Honest, Same(m), UNCHANGED chain, NEW h, On(h, m)
  PROVE  On(h, m)'
<1>1. Block(m)' = Block(m)
  BY DEF Same, Block
<1> QED BY <1>1 DEF On, Same, Holds, Knows

LEMMA StoreFollows ==
  ASSUME Typed, NEW n \in Honest, Store(n), NEW h, On(h, n)
  PROVE  On(h, n)'
<1>1. step[n] = "idle" /\ step'[n] = "move" /\ stored'[n] - 1 = stored[n]
  BY DEF Store, Typed
<1>2. PICK v : v = h[stored[n]]
  OBVIOUS
<1>3. Holds(n, v)' /\ Knows(n, v)'
  BY <1>1, <1>2 DEF On, Store, Holds, Knows, ledger, clocks, weighing
<1>4. h[stored'[n] - 1] = v
  BY <1>1, <1>2
<1> QED BY <1>1, <1>3, <1>4 DEF On

LEMMA MoveFollows ==
  ASSUME Typed, Within, Kept, NEW n \in Honest, Move(n), NEW h, On(h, n)
  PROVE  On(h, n)'
<1>1. PICK v : v = h[stored[n] - 1]
  OBVIOUS
<1>2. PICK ops : ops = Block(n).ops
  OBVIOUS
<1>3. PICK k : k = stored[n] - 1
  OBVIOUS
<1>4. Holds(n, v) /\ Knows(n, v)
  BY <1>1 DEF On, Move
<1>5. CurrentHeight(n) = k
  BY <1>3 DEF CurrentHeight, Move
<1>6. Bonding(n) = Posting(v, ops)
  BY <1>2, <1>4 DEF Bonding, Posting, Holds
<1>7. Aged(n) = Since(v, k, ops)
  BY <1>4, <1>5, <1>6 DEF Aged, Since, Holds
<1>8. Withdrawing(n) = Returning(v, k, ops)
  <2>1. \A a \in Node : Withdrawable(n, a, Aged(n), CurrentHeight(n)) <=>
          /\ a \notin v.set.active
          /\ Since(v, k, ops)[a] # None => k >= Since(v, k, ops)[a] + Residency
          /\ v.leftAt[a] # None => k >= v.leftAt[a] + Unbonding
    BY <1>4, <1>5, <1>7 DEF Withdrawable, Holds, Active
  <2> QED BY <1>2, <2>1 DEF Withdrawing, Returning
<1> DEFINE posted == [a \in Node |-> bond[n][a] + IF a \in Bonding(n) THEN Deposit[a] ELSE 0]
           left == [a \in Node |-> purse[n][a] - IF a \in Bonding(n) THEN Deposit[a] ELSE 0]
           back == Withdrawing(n)
<1>9. posted = Posted(v, ops) /\ left = Spent(v, ops)
  BY <1>4, <1>6 DEF Posted, Spent, Holds
<1>10. /\ bond' = [bond EXCEPT ![n] = [a \in Node |-> IF a \in back THEN 0 ELSE posted[a]]]
       /\ purse' = [purse EXCEPT ![n] = [a \in Node |-> left[a] + IF a \in back THEN posted[a] ELSE 0]]
       /\ bondedAt' = [bondedAt EXCEPT ![n] = [a \in Node |->
                         IF a \in back /\ posted[a] > 0 THEN None ELSE Aged(n)[a]]]
  BY DEF Move
<1> HIDE DEF posted, left, back
<1>11. /\ bond'[n] = [a \in Node |-> IF a \in back THEN 0 ELSE posted[a]]
       /\ purse'[n] = [a \in Node |-> left[a] + IF a \in back THEN posted[a] ELSE 0]
       /\ bondedAt'[n] = [a \in Node |-> IF a \in back /\ posted[a] > 0 THEN None ELSE Aged(n)[a]]
  BY <1>10 DEF Typed, Kept
<1>12. back = Returning(v, k, ops)
  BY <1>8 DEF back
<1>13. Holds(n, AfterMoves(v, k, ops))'
  <2>1. leftAt'[n] = v.leftAt /\ sets'[n] = v.set
    BY <1>4 DEF Move, Holds
  <2>2. bond'[n] = AfterMoves(v, k, ops).bond
    BY <1>9, <1>11, <1>12 DEF AfterMoves
  <2>3. purse'[n] = AfterMoves(v, k, ops).purse
    BY <1>9, <1>11, <1>12 DEF AfterMoves
  <2>4. bondedAt'[n] = AfterMoves(v, k, ops).bondedAt
    BY <1>7, <1>9, <1>11, <1>12 DEF AfterMoves
  <2>5. AfterMoves(v, k, ops).leftAt = v.leftAt /\ AfterMoves(v, k, ops).set = v.set
    BY DEF AfterMoves
  <2> QED BY <2>1, <2>2, <2>3, <2>4, <2>5 DEF Holds
<1>14. Knows(n, v)'
  BY <1>4 DEF Knows, Move, weighing
<1>15. step'[n] = "advance" /\ stored'[n] = stored[n] /\ Block(n)' = Block(n)
  BY DEF Move, Typed, Block
<1>16. /\ h[stored'[n] - 1] = v /\ stored'[n] - 1 = k /\ Block(n)'.ops = ops
  BY <1>1, <1>2, <1>3, <1>15
<1> QED BY <1>13, <1>14, <1>15, <1>16 DEF On

\* Crossing a boundary with nothing to put into force changes nothing.
LEMMA CrossingIdle ==
  ASSUME NEW v \in Views, Weighted(v), ~v.moved, NEW k \in Nat, NEW ops \in SUBSET Op,
         Pending(v, ops) = {}
  PROVE  LET w == Crossed(v, k, ops)
         IN /\ w.purse = v.purse /\ w.bond = v.bond /\ w.bondedAt = v.bondedAt
            /\ w.leftAt = v.leftAt /\ w.set = Waited(v, ops).set
<1> DEFINE w == Crossed(v, k, ops)
<1>1. Upon(v, ops) = v.set.active /\ Slashed(Pending(v, ops)) = {}
  BY DEF Upon, WithChanges, Slashed
<1>2. v.bond \in [Node -> Nat] /\ v.leftAt \in Recorded /\ v.set \in Sets
  BY DEF Views
<1>3. w.bond = v.bond
  BY <1>1, <1>2 DEF Crossed
<1>4. w.leftAt = v.leftAt
  BY <1>1, <1>2 DEF Crossed, Recorded
<1>5. Weights(v, v.set.active) = v.set.power
  <2>1. v.set.power \in [Node -> Nat] /\ v.set.active \in SUBSET Node
    BY <1>2 DEF Sets
  <2>2. CASE \A a \in v.set.active : v.bond[a] > 0
    <3>1. Weights(v, v.set.active) = [a \in Node |-> IF a \in v.set.active THEN v.bond[a] ELSE 0]
      BY <2>2 DEF Weights
    <3>2. \A a \in Node : v.set.power[a] = IF a \in v.set.active THEN v.bond[a] ELSE 0
      BY <2>2 DEF Weighted
    <3> QED BY <2>1, <3>1, <3>2
  <2>3. CASE ~(\A a \in v.set.active : v.bond[a] > 0)
    <3>1. Weights(v, v.set.active) = [a \in Node |-> IF a \notin v.set.active THEN 0
                                                    ELSE v.set.power[a]]
      BY <2>3 DEF Weights
    <3>2. \A a \in Node : a \notin v.set.active => v.set.power[a] = 0
      BY DEF Weighted
    <3> QED BY <2>1, <3>1, <3>2
  <2> QED BY <2>2, <2>3
<1>6. w.set = Waited(v, ops).set
  BY <1>1, <1>5 DEF Crossed, Waited
<1>7. w.purse = v.purse /\ w.bondedAt = v.bondedAt
  BY DEF Crossed
<1> QED BY <1>3, <1>4, <1>6, <1>7

LEMMA CrossHolds ==
  ASSUME Typed, Kept, NEW n \in Honest, NEW v, Holds(n, v), NEW k, k = stored[n],
         NEW ops, ops = Block(n).ops, Cross(n, k, Upcoming(n)), UNCHANGED <<purse, bondedAt>>
  PROVE  Holds(n, Crossed(v, k, ops))' /\ ~dirty'[n] /\ ~fresh'[n]
<1>1. PICK P : P = Upcoming(n)
  OBVIOUS
<1>2. PICK next : next = WithChanges(Active(n), P)
  OBVIOUS
<1>3. P = Pending(v, ops) /\ Active(n) = v.set.active /\ next = Upon(v, ops)
  BY <1>1, <1>2 DEF Upcoming, Pending, Holds, Active, Upon
<1>4. Reweighted(n, next) = Weights(v, next)
  BY <1>3 DEF Reweighted, CarriedPower, Weights, Holds
<1>5. sets'[n] = Crossed(v, k, ops).set
  <2>1. sets' = [sets EXCEPT ![n] = [active |-> next, power |-> Reweighted(n, next), pending |-> {}]]
    BY <1>1, <1>2 DEF Cross
  <2>2. Crossed(v, k, ops).set = [active |-> next, power |-> Weights(v, next), pending |-> {}]
    BY <1>3 DEF Crossed
  <2> QED BY <1>4, <2>1, <2>2 DEF Typed
<1>6. bond'[n] = Crossed(v, k, ops).bond
  <2>1. bond' = [bond EXCEPT ![n] = [a \in Node |->
                   IF a \in Slashed(P) THEN 0 ELSE bond[n][a]]]
    BY <1>1 DEF Cross, Slashed
  <2>2. Crossed(v, k, ops).bond = [a \in Node |-> IF a \in Slashed(P) THEN 0 ELSE v.bond[a]]
    BY <1>3 DEF Crossed
  <2>3. bond[n] = v.bond
    BY DEF Holds
  <2> QED BY <2>1, <2>2, <2>3 DEF Typed
<1>7. leftAt'[n] = Crossed(v, k, ops).leftAt
  <2>1. leftAt' = [leftAt EXCEPT ![n] = [a \in Node |->
                     IF a \in Active(n) \ next THEN k
                     ELSE IF a \in next \ Active(n) THEN None ELSE leftAt[n][a]]]
    BY <1>1, <1>2 DEF Cross
  <2>2. Crossed(v, k, ops).leftAt = [a \in Node |->
                     IF a \in Active(n) \ next THEN k
                     ELSE IF a \in next \ Active(n) THEN None ELSE v.leftAt[a]]
    BY <1>3 DEF Crossed
  <2>3. leftAt[n] = v.leftAt
    BY DEF Holds
  <2> QED BY <2>1, <2>2, <2>3 DEF Typed
<1>8. purse'[n] = Crossed(v, k, ops).purse /\ bondedAt'[n] = Crossed(v, k, ops).bondedAt
  BY DEF Crossed, Holds
<1>9. ~dirty'[n] /\ ~fresh'[n]
  BY DEF Cross, Kept
<1> QED BY <1>5, <1>6, <1>7, <1>8, <1>9 DEF Holds

LEMMA WaitHolds ==
  ASSUME Typed, Kept, NEW n \in Honest, NEW v, Holds(n, v), NEW moved,
         NEW ops, ops = Block(n).ops, Wait(n, Upcoming(n), moved), UNCHANGED <<purse, bondedAt>>
  PROVE  Holds(n, Waited(v, ops))' /\ dirty'[n] = moved /\ fresh'[n] = fresh[n]
<1>1. PICK P : P = Upcoming(n)
  OBVIOUS
<1>2. P = Pending(v, ops)
  BY <1>1 DEF Upcoming, Pending, Holds
<1>3. sets'[n] = Waited(v, ops).set
  <2>1. sets' = [sets EXCEPT ![n].pending = P]
    BY <1>1 DEF Wait
  <2>2. sets'[n] = [sets[n] EXCEPT !.pending = P]
    BY <2>1 DEF Typed
  <2>3. sets[n] \in Sets
    BY DEF Typed
  <2>4. sets'[n] = [active |-> sets[n].active, power |-> sets[n].power, pending |-> P]
    BY <2>2, <2>3 DEF Sets
  <2> QED BY <1>2, <2>4 DEF Waited, Holds
<1>4. Waited(v, ops).purse = v.purse /\ Waited(v, ops).bond = v.bond
      /\ Waited(v, ops).bondedAt = v.bondedAt /\ Waited(v, ops).leftAt = v.leftAt
  BY DEF Waited
<1>5. dirty'[n] = moved /\ fresh'[n] = fresh[n]
  BY DEF Wait, Kept
<1> QED BY <1>3, <1>4, <1>5 DEF Holds, Wait

LEMMA OneStepOn ==
  ASSUME Typed, NEW n \in Honest, NEW h, NEW k, NEW x, k = stored[n], h[k] = x,
         step' = [step EXCEPT ![n] = "idle"], UNCHANGED stored,
         Holds(n, x)', dirty'[n] => x.moved, x.moved => dirty'[n] \/ fresh'[n]
  PROVE  On(h, n)'
<1>1. step'[n] = "idle" /\ h[stored'[n]] = x
  BY DEF Typed
<1>2. Knows(n, x)'
  BY DEF Knows
<1> QED BY <1>1, <1>2 DEF On

LEMMA AdvanceFollows ==
  ASSUME Typed, Within, Checked, Kept, NEW n \in Honest, Advance(n),
         NEW h, IsHistory(h), On(h, n)
  PROVE  On(h, n)'
<1>1. PICK ops : ops = Block(n).ops
  OBVIOUS
<1>2. PICK k : k = stored[n]
  OBVIOUS
<1>3. PICK v : v = h[k - 1]
  OBVIOUS
<1>4. PICK w : w = AfterMoves(v, k - 1, ops)
  OBVIOUS
<1>5. step[n] = "advance" /\ k \in 1 .. Len(chain) /\ ops \in SUBSET Op
  <2>1. step[n] = "advance"
    BY DEF Advance
  <2>2. k \in 1 .. Len(chain)
    <3>1. k \in Nat /\ k > 0 /\ k <= Len(chain)
      BY <1>2, <2>1 DEF Typed, Within
    <3>2. Len(chain) \in Nat
      BY DEF Typed
    <3> QED BY <3>1, <3>2
  <2>3. ops \in SUBSET Op
    BY <1>1, <2>1, ChangesOfBlock DEF BlockType
  <2> QED BY <2>1, <2>2, <2>3
<1>6. Holds(n, w) /\ Knows(n, v)
  BY <1>1, <1>2, <1>3, <1>4, <1>5 DEF On
<1>7. w \in Views /\ Weighted(w)
  <2>1. k - 1 \in Nat /\ k - 1 \in 0 .. Len(chain)
    BY <1>5
  <2>2. v \in Views /\ Weighted(v)
    BY <1>3, <2>1 DEF IsHistory
  <2> QED BY <1>4, <1>5, <2>1, <2>2, MovesWeigh
<1>8. PICK x : x = AfterBoundary(w, k, ops)
  OBVIOUS
<1>9. h[k] = x
  <2>1. h[k] = After(h[k - 1], k, chain[k].ops)
    BY <1>5 DEF IsHistory
  <2> QED BY <1>1, <1>2, <1>3, <1>4, <1>8, <2>1 DEF After, Block
<1>10. PICK P : P = Upcoming(n)
  OBVIOUS
<1>11. P = Pending(w, ops)
  BY <1>1, <1>6, <1>10 DEF Upcoming, Pending, Holds
<1>12. PICK moved : moved = (dirty[n] \/ Stakes(ops))
  OBVIOUS
<1>13. moved \in BOOLEAN /\ (moved => w.moved) /\ (w.moved => moved \/ fresh[n])
  <2>1. w.moved = (v.moved \/ Stakes(ops))
    BY <1>4 DEF AfterMoves
  <2> QED BY <1>6, <1>12, <2>1 DEF Knows
<1>14. PICK due : due = (AtBoundary(k) /\ (P # {} \/ moved \/ fresh[n]))
  OBVIOUS
<1>15. Usable(WithChanges(Active(n), P))
  BY <1>5, <1>10 DEF Checked
<1>16. \/ due /\ Cross(n, k, P)
       \/ ~due /\ Wait(n, P, moved)
  BY <1>1, <1>2, <1>10, <1>12, <1>14, <1>15 DEF Advance, Upcoming, AtBoundary, Stakes
<1>17. UNCHANGED <<purse, bondedAt>>
  BY DEF Advance
<1>18. k \in Nat
  BY <1>5
<1>19. CASE due /\ Cross(n, k, P)
  <2>1. Holds(n, Crossed(w, k, ops))' /\ ~dirty'[n] /\ ~fresh'[n]
    BY <1>1, <1>2, <1>6, <1>10, <1>17, <1>19, CrossHolds
  <2>2. CASE P # {} \/ w.moved
    <3>1. x = Crossed(w, k, ops) /\ ~x.moved
      BY <1>8, <1>11, <1>14, <1>19, <2>2 DEF AfterBoundary, Crossed
    <3> QED BY <2>1, <3>1, <1>2, <1>5, <1>9, AdvanceSplits, OneStepOn
  <2>3. CASE ~(P # {} \/ w.moved)
    <3>1. x = Waited(w, ops) /\ ~x.moved
      BY <1>8, <1>11, <2>3 DEF AfterBoundary, Waited
    <3>2. /\ Crossed(w, k, ops).purse = x.purse /\ Crossed(w, k, ops).bond = x.bond
          /\ Crossed(w, k, ops).bondedAt = x.bondedAt /\ Crossed(w, k, ops).leftAt = x.leftAt
          /\ Crossed(w, k, ops).set = x.set
      <4>1. x.purse = w.purse /\ x.bond = w.bond /\ x.bondedAt = w.bondedAt /\ x.leftAt = w.leftAt
        BY <3>1 DEF Waited
      <4> QED BY <1>5, <1>7, <1>11, <1>18, <2>3, <3>1, <4>1, CrossingIdle
    <3>3. Holds(n, x)'
      BY <2>1, <3>2 DEF Holds
    <3> QED BY <2>1, <3>1, <3>3, <1>2, <1>5, <1>9, AdvanceSplits, OneStepOn
  <2> QED BY <2>2, <2>3
<1>20. CASE ~due /\ Wait(n, P, moved)
  <2>1. Holds(n, Waited(w, ops))' /\ dirty'[n] = moved /\ fresh'[n] = fresh[n]
    BY <1>1, <1>6, <1>10, <1>17, <1>20, WaitHolds
  <2>2. x = Waited(w, ops) /\ x.moved = w.moved
    BY <1>8, <1>11, <1>13, <1>14, <1>20 DEF AfterBoundary, Waited
  <2>3. (dirty'[n] => x.moved) /\ (x.moved => dirty'[n] \/ fresh'[n])
    BY <1>13, <2>1, <2>2
  <2> QED BY <2>1, <2>2, <2>3, <1>2, <1>5, <1>9, AdvanceSplits, OneStepOn
<1> QED BY <1>16, <1>19, <1>20

LEMMA RestartFollows ==
  ASSUME Typed, Kept, NEW n \in Honest, Restart(n), n \notin torn', NEW h, On(h, n)
  PROVE  On(h, n)'
<1>1. step[n] = "idle" /\ step'[n] = "idle" /\ stored'[n] = stored[n]
  BY DEF Restart, Typed
<1>2. PICK v : v = h[stored[n]]
  OBVIOUS
<1>3. Holds(n, v) /\ Knows(n, v)
  BY <1>1, <1>2 DEF On
<1>4. Holds(n, v)'
  BY <1>3, Resumes DEF Restart, Holds, ledger, clocks
<1>5. Knows(n, v)'
  BY <1>3 DEF Restart, Knows, Kept
<1>6. h[stored'[n]] = v
  BY <1>1, <1>2
<1> QED BY <1>1, <1>4, <1>5, <1>6 DEF On

LEMMA KeptStep ==
  ASSUME Typed, Within, Kept, [Next]_vars
  PROVE  Kept'
<1> USE DEF Kept
<1>1. CASE UNCHANGED vars
  BY <1>1 DEF vars, ledger, clocks, weighing, faults
<1>2. ASSUME NEW n \in Honest, Propose(n) PROVE Kept'
  BY <1>2 DEF Propose, Agree, ledger, clocks, weighing, faults
<1>3. ASSUME NEW n \in Honest, Store(n) PROVE Kept'
  BY <1>3 DEF Store, ledger, clocks, weighing, faults
<1>4. ASSUME NEW n \in Honest, Move(n) PROVE Kept'
  <2> DEFINE posted == [a \in Node |-> bond[n][a] + IF a \in Bonding(n) THEN Deposit[a] ELSE 0]
             left == [a \in Node |-> purse[n][a] - IF a \in Bonding(n) THEN Deposit[a] ELSE 0]
             back == Withdrawing(n)
  <2>1. CurrentHeight(n) \in Nat
    <3>1. step[n] = "move" /\ stored[n] \in Nat /\ stored[n] > 0
      BY <1>4 DEF Move, Typed, Within
    <3> QED BY <3>1 DEF CurrentHeight
  <2>2. Aged(n) \in Recorded
    <3> HIDE DEF Kept
    <3>1. bondedAt[n] \in [Node -> Nat \cup {None}]
      BY DEF Kept, Recorded
    <3> QED BY <2>1, <3>1 DEF Aged, Recorded
  <2>3. posted \in [Node -> Nat] /\ left \in [Node -> Nat]
    <3>1. \A a \in Node : Deposit[a] \in Nat
      BY MembershipAssumption
    <3>2. \A a \in Bonding(n) : a \in Node /\ purse[n][a] >= Deposit[a]
      BY DEF Bonding
    <3>3. purse[n] \in [Node -> Nat] /\ bond[n] \in [Node -> Nat]
      BY DEF Typed
    <3> QED BY <3>1, <3>2, <3>3
  <2>4. /\ purse' = [purse EXCEPT ![n] = [a \in Node |-> left[a] + IF a \in back THEN posted[a] ELSE 0]]
        /\ bondedAt' = [bondedAt EXCEPT ![n] = [a \in Node |->
                          IF a \in back /\ posted[a] > 0 THEN None ELSE Aged(n)[a]]]
    BY <1>4 DEF Move
  <2> HIDE DEF posted, left, back
  <2>5. [a \in Node |-> left[a] + IF a \in back THEN posted[a] ELSE 0] \in [Node -> Nat]
    BY <2>3
  <2>6. [a \in Node |-> IF a \in back /\ posted[a] > 0 THEN None ELSE Aged(n)[a]] \in Recorded
    BY <2>2 DEF Recorded
  <2>7. UNCHANGED <<dirty, fresh, torn>>
    BY <1>4 DEF Move, weighing, faults
  <2> QED BY <2>4, <2>5, <2>6, <2>7
<1>5. ASSUME NEW n \in Honest, Advance(n) PROVE Kept'
  <2>1. UNCHANGED <<purse, bondedAt, torn>>
    BY <1>5 DEF Advance, faults
  <2>2. dirty' \in [Honest -> BOOLEAN] /\ fresh' \in [Honest -> BOOLEAN]
    <3>1. PICK P : \E moved \in BOOLEAN : Cross(n, stored[n], P) \/ Wait(n, P, moved)
      <4>1. (dirty[n] \/ \E op \in Block(n).ops : op.kind \in StakeKind) \in BOOLEAN
        OBVIOUS
      <4> QED BY <1>5, <4>1 DEF Advance
    <3> QED BY <3>1 DEF Cross, Wait
  <2> QED BY <2>1, <2>2
<1>6. ASSUME NEW n \in Honest, Restart(n) PROVE Kept'
  BY <1>6 DEF Restart, ledger, clocks
<1>7. ASSUME NEW n \in Honest, NEW a \in Faulty, Report(n, a) PROVE Kept'
  BY <1>7 DEF Report, ledger, clocks, weighing, faults
<1> QED BY <1>1, <1>2, <1>3, <1>4, <1>5, <1>6, <1>7 DEF Next, Commit

LEMMA FollowedStep ==
  ASSUME IInv, Kept, Followed, [Next]_vars
  PROVE  Followed'
<1> PICK h : IsHistory(h) /\ \A m \in Honest \ torn : On(h, m)
  BY DEF Followed
<1>0. Typed /\ Within /\ Checked
  BY DEF IInv, Safe
<1>1. ASSUME UNCHANGED chain, NEW n \in Honest, torn \subseteq torn',
             \A m \in Honest \ {n} : Same(m),
             n \notin torn' => On(h, n)'
      PROVE  Followed'
  <2>1. \A m \in Honest \ torn' : On(h, m)'
    <3> SUFFICES ASSUME NEW m \in Honest \ torn' PROVE On(h, m)'
      OBVIOUS
    <3>1. CASE m = n
      BY <1>1, <3>1
    <3>2. CASE m # n
      BY <1>0, <1>1, <3>2, OthersFollow
    <3> QED BY <3>1, <3>2
  <2>2. IsHistory(h)'
    BY <1>1 DEF IsHistory
  <2> QED BY <2>1, <2>2 DEF Followed
<1>2. ASSUME UNCHANGED <<chain, stored, step, ledger, clocks, sets, weighing, torn>>
      PROVE  Followed'
  <2>1. \A m \in Honest : Same(m)
    BY <1>2 DEF Same, ledger, clocks, weighing
  <2>2. \A m \in Honest \ torn' : On(h, m)'
    BY <1>0, <1>2, <2>1, OthersFollow
  <2>3. IsHistory(h)'
    BY <1>2 DEF IsHistory
  <2> QED BY <2>2, <2>3 DEF Followed
<1>3. CASE UNCHANGED vars
  BY <1>2, <1>3 DEF vars, faults
<1>4. ASSUME NEW n \in Honest, Propose(n) PROVE Followed'
  <2>1. PICK g : IsHistory(g)' /\ \A k \in 0 .. Len(chain) : g[k] = h[k]
    BY <1>0, <1>4, HistoryExtends
  <2>2. ASSUME NEW m \in Honest \ torn' PROVE On(g, m)'
    <3>1. UNCHANGED <<stored, step, ledger, clocks, sets, weighing, torn>>
      BY <1>4 DEF Propose, Agree, faults
    <3>2. On(h, m)
      BY <3>1
    <3>3. PICK s : s = stored[m]
      OBVIOUS
    <3>4. /\ s \in 0 .. Len(chain)
          /\ step[m] # "idle" => s - 1 \in 0 .. Len(chain) /\ Block(m)' = Block(m)
      <4>1. s \in Nat /\ s <= Len(chain) /\ Len(chain) \in Nat
        BY <1>0, <3>3 DEF Typed, Within
      <4>2. step[m] # "idle" => s > 0
        BY <1>0, <3>3 DEF Within
      <4>3. step[m] # "idle" => Block(m)' = Block(m)
        BY <1>0, <1>4, <3>1, <3>3, <4>1, <4>2, AgreeStep DEF Block
      <4> QED BY <4>1, <4>2, <4>3
    <3>5. g[s] = h[s] /\ (step[m] # "idle" => g[s - 1] = h[s - 1])
      BY <2>1, <3>4
    <3>6. On(g, m)
      <4>1. step[m] = "idle" => Holds(m, g[s]) /\ Knows(m, g[s])
        BY <3>2, <3>3, <3>5 DEF On
      <4>2. step[m] = "move" => Holds(m, g[s - 1]) /\ Knows(m, g[s - 1])
        BY <3>2, <3>3, <3>5 DEF On
      <4>3. step[m] = "advance" => /\ Holds(m, AfterMoves(g[s - 1], s - 1, Block(m).ops))
                                   /\ Knows(m, g[s - 1])
        BY <3>2, <3>3, <3>5 DEF On
      <4> QED BY <3>3, <4>1, <4>2, <4>3 DEF On
    <3>7. step[m] = "advance" => Block(m)' = Block(m)
      BY <3>4
    <3> QED BY <3>1, <3>6, <3>7 DEF On, Holds, Knows, ledger, clocks, weighing
  <2> QED BY <2>1, <2>2 DEF Followed
<1>5. ASSUME NEW n \in Honest, Commit(n) PROVE Followed'
  <2>1. UNCHANGED <<chain, torn>>
    BY <1>5 DEF Commit, Store, Move, Advance, faults
  <2>2. \A m \in Honest \ {n} : Same(m)
    <3>1. CASE Store(n)
      BY <1>0, <3>1 DEF Store, Same, Typed, ledger, clocks, weighing
    <3>2. CASE Move(n)
      BY <1>0, <3>2 DEF Move, Same, Typed, Kept, weighing
    <3>3. CASE Advance(n)
      <4>1. UNCHANGED <<purse, bondedAt, stored>>
        BY <3>3 DEF Advance
      <4>2. \A m \in Honest \ {n} : step'[m] = step[m]
        BY <1>0, <3>3 DEF Advance, Typed
      <4>3. PICK P, moved : Cross(n, stored[n], P) \/ Wait(n, P, moved)
        BY <3>3 DEF Advance
      <4>4. \A m \in Honest \ {n} :
              /\ sets'[m] = sets[m] /\ bond'[m] = bond[m] /\ leftAt'[m] = leftAt[m]
              /\ dirty'[m] = dirty[m] /\ fresh'[m] = fresh[m]
        BY <1>0, <4>3 DEF Cross, Wait, Typed, Kept
      <4> QED BY <4>1, <4>2, <4>4 DEF Same
    <3> QED BY <1>5, <3>1, <3>2, <3>3 DEF Commit
  <2>3. n \notin torn => On(h, n)'
    BY <1>0, <1>5, StoreFollows, MoveFollows, AdvanceFollows DEF Commit
  <2> QED BY <1>1, <2>1, <2>2, <2>3
<1>6. ASSUME NEW n \in Honest, Restart(n) PROVE Followed'
  <2>1. UNCHANGED chain /\ torn \subseteq torn'
    BY <1>6 DEF Restart
  <2>2. \A m \in Honest \ {n} : Same(m)
    <3>1. sets' = sets
      BY <1>0, <1>6, Resumes
    <3> QED BY <1>0, <1>6, <3>1 DEF Restart, Same, Typed, Kept, ledger, clocks
  <2>3. n \notin torn' => On(h, n)'
    BY <1>0, <1>6, <2>1, RestartFollows
  <2> QED BY <1>1, <2>1, <2>2, <2>3
<1>7. ASSUME NEW n \in Honest, NEW a \in Faulty, Report(n, a) PROVE Followed'
  BY <1>2, <1>7 DEF Report, faults
<1> QED BY <1>3, <1>4, <1>5, <1>6, <1>7 DEF Next

LEMMA HInvStep == HInv /\ [Next]_vars => HInv'
  BY Step, KeptStep, FollowedStep DEF HInv, IInv

LEMMA Histories == Spec => []HInv
  BY HInvInit, HInvStep, PTL DEF Spec

\* Nodes at one height, each having derived the validator set from the chain on its
\* own, have the same set with the same power and pending changes, the same bonds and
\* the same clocks, wherever they restarted but in the middle of a block: what a restart
\* forgets of moved bonds (stakeDirty) makes them weigh the set anew, and that changes
\* nothing if none has.
THEOREM SetsAgree == Spec => []SameSet
<1>1. HInv => SameSet
  <2> SUFFICES ASSUME HInv, NEW n \in Honest \ torn, NEW m \in Honest \ torn,
                      step[n] = "idle", step[m] = "idle", stored[n] = stored[m]
               PROVE  View(n) = View(m)
    BY DEF SameSet
  <2>1. PICK h : On(h, n) /\ On(h, m)
    BY DEF HInv, Followed
  <2> QED BY <2>1 DEF On, Holds, View
<1> QED BY <1>1, Histories, PTL

\* The power in force is the bonds whenever a node has no reason to weigh them again,
\* so a boundary that it skips had nothing to do.
THEOREM PowerIsCurrent == Spec => []WeightsCurrent
<1>1. HInv => WeightsCurrent
  <2> SUFFICES ASSUME HInv, NEW n \in Honest \ torn,
                      ~dirty[n], ~fresh[n], step[n] = "idle",
                      \A a \in Active(n) : bond[n][a] > 0
               PROVE  \A a \in Active(n) : sets[n].power[a] = bond[n][a]
    BY DEF WeightsCurrent
  <2>1. PICK h : IsHistory(h) /\ On(h, n)
    BY DEF HInv, Followed
  <2>2. PICK v : v = h[stored[n]]
    OBVIOUS
  <2>3. Holds(n, v) /\ ~v.moved
    BY <2>1, <2>2 DEF On, Knows
  <2>4. Weighted(v)
    <3>1. stored[n] \in 0 .. Len(chain)
      BY DEF HInv, IInv, Typed, Within
    <3> QED BY <2>1, <2>2, <3>1 DEF IsHistory
  <2> QED BY <2>3, <2>4 DEF Weighted, Holds, Active
<1> QED BY <1>1, Histories, PTL
=============================================================================
