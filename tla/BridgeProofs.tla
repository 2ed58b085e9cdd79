---------------------------- MODULE BridgeProofs ----------------------------
(***************************************************************************)
(* Theorems about Bridge, for every set of validators, users, faults,      *)
(* reorganisations and restarts: nothing is released that Ethereum has not *)
(* finalised, the books of a node balance, no burn is paid twice, nodes at *)
(* one height keep the same books, and the escrow covers what is wrapped.  *)
(***************************************************************************)
EXTENDS Bridge, SumProofs, SequenceTheorems, TLAPS

-----------------------------------------------------------------------------
(* Transactions. *)

LEMMA Kinds ==
  ASSUME NEW tx \in Tx
  PROVE  /\ tx.kind \in {"lock", "attest", "leave"}
         /\ tx.kind = "lock" => tx.lock \in Lock /\ tx = LockTx(tx.lock)
         /\ tx.kind = "attest" => /\ tx.by \in Validator /\ tx.claim \in Claim
                                  /\ tx = AttestTx(tx.by, tx.claim)
         /\ tx.kind = "leave" => tx.by \in Validator /\ tx = LeaveTx(tx.by)
  BY DEF Tx, LockTx, AttestTx, LeaveTx

LEMMA Parameters ==
  /\ Supply \in Nat /\ GenesisEscrow \in 0 .. Supply
  /\ Confirmations \in Nat /\ ReorgDepth \in Nat /\ ReorgDepth <= Confirmations
  /\ \A l \in Lock : Amount[l] \in Nat \ {0}
  BY BridgeAssumption

LEMMA OneMore ==
  ASSUME NEW k \in Nat
  PROVE  1 .. (k + 1) = (1 .. k) \cup {k + 1}
  OBVIOUS

LEMMA Claims ==
  ASSUME NEW c \in Claim
  PROVE  /\ c.burn \in Burn /\ c.to \in Account
         /\ Amount[c.burn] \in Nat \ {0}
  BY BridgeAssumption DEF Claim

-----------------------------------------------------------------------------
(* The types, and what keeps the validator set of a node one that can be in  *)
(* force: no validator that is in force on the chain is missing from it.     *)

\* The set that is in force at the head of chain ch.
Remaining(ch) == {v \in Validator : \A i \in DOMAIN ch : ch[i] # LeaveTx(v)}

SetsUsable ==
  /\ Remaining(chain) \in ValidatorSets
  /\ \A n \in Honest : Remaining(chain) \subseteq vset[n]

Begun == \A n \in Honest : phase[n] # "idle" => stored[n] > 0

TInv == TypeOK /\ SetsUsable /\ Begun

LEMMA InForceIs == InForce = Remaining(chain)
  BY DEF InForce, Left, InChain, Remaining

LEMMA TInvInit == Init => TInv
<1> SUFFICES ASSUME Init PROVE TInv
  OBVIOUS
<1> USE BridgeAssumption
<1>1. TypeOK
  BY DEF Init, TypeOK, Phase, Honest
<1>2. SetsUsable
  BY DEF Init, SetsUsable, Remaining, Honest
<1>3. Begun
  BY DEF Init, Begun
<1> QED
  BY <1>1, <1>2, <1>3 DEF TInv

\* The transaction a node applies is one of the chain.
LEMMA Applied ==
  ASSUME TInv, NEW n \in Honest, phase[n] # "idle"
  PROVE  /\ stored[n] \in 1 .. Len(chain)
         /\ Current(n) \in Tx
  BY DEF TInv, TypeOK, Begun, Current

LEMMA TInvEthereum == TInv /\ Ethereum => TInv'
<1> SUFFICES ASSUME TInv, Ethereum PROVE TInv'
  OBVIOUS
<1> USE BridgeAssumption
<1>1. eth' \in Seq(Event) /\ Len(eth') <= MaxEth
  <2>1. ASSUME NEW e \in Event, Mine(e)
        PROVE  eth' \in Seq(Event) /\ Len(eth') <= MaxEth
    BY <2>1 DEF Mine, TInv, TypeOK
  <2>2. CASE \E l \in Lock : Mint(l)
    BY <2>1, <2>2 DEF Mint, MintOf, Event
  <2>3. CASE \E b \in Burn : BurnWrapped(b)
    BY <2>1, <2>3 DEF BurnWrapped, BurnOf, Event
  <2>4. CASE Mine(Empty)
    BY <2>1, <2>4 DEF Empty, Event
  <2>5. CASE Reorg
    <3>1. PICK k \in 0 .. Len(eth) : eth' = [i \in DOMAIN eth |-> IF i <= k THEN eth[i] ELSE Empty]
      BY <2>5 DEF Reorg
    <3>2. DOMAIN eth = 1 .. Len(eth) /\ Empty \in Event /\ Len(eth) \in Nat
      BY DEF TInv, TypeOK, Empty, Event
    <3>3. \A i \in 1 .. Len(eth) : eth'[i] \in Event
      BY <3>1, <3>2 DEF TInv, TypeOK
    <3>4. eth' = [i \in 1 .. Len(eth) |-> eth'[i]]
      BY <3>1, <3>2
    <3>5. eth' \in Seq(Event) /\ Len(eth') = Len(eth)
      BY <3>2, <3>3, <3>4, IsASeq
    <3> QED
      BY <3>5 DEF TInv, TypeOK
  <2> QED
    BY <2>2, <2>3, <2>4, <2>5 DEF Ethereum
<1>2. UNCHANGED <<chain, root, stored, phase, ledgers, tally, vset, pool, watchers, upsets>>
  BY DEF Ethereum, Mint, BurnWrapped, Mine, Reorg
<1> QED
  BY <1>1, <1>2 DEF TInv, TypeOK, SetsUsable, Begun, Remaining, ledgers, watchers, upsets

\* What is appended to the chain, and who may still be in force after it.
LEMMA Extended ==
  ASSUME TInv, NEW tx \in Tx, Extend(tx)
  PROVE  /\ chain' = Append(chain, tx)
         /\ chain' \in Seq(Tx) /\ Len(chain') = Len(chain) + 1 /\ Len(chain') <= MaxHeight
         /\ \A i \in 1 .. Len(chain) : chain'[i] = chain[i]
         /\ chain'[Len(chain) + 1] = tx
         /\ Remaining(chain') = IF tx.kind = "leave" THEN InForce \ {tx.by} ELSE InForce
         /\ Remaining(chain') \in ValidatorSets
<1> USE DEF TInv, TypeOK
<1>1. chain' = Append(chain, tx) /\ Len(chain) < MaxHeight /\ Valid(tx)
  BY DEF Extend
<1>2. /\ chain' \in Seq(Tx) /\ Len(chain') = Len(chain) + 1 /\ Len(chain') <= MaxHeight
      /\ \A i \in 1 .. Len(chain) : chain'[i] = chain[i]
      /\ chain'[Len(chain) + 1] = tx
  BY <1>1, BridgeAssumption
<1>3. Remaining(chain') = {v \in Remaining(chain) : tx # LeaveTx(v)}
  <2>1. DOMAIN chain = 1 .. Len(chain) /\ DOMAIN chain' = 1 .. (Len(chain) + 1) /\ Len(chain) \in Nat
    BY <1>2
  <2>2. DOMAIN chain' = DOMAIN chain \cup {Len(chain) + 1}
    BY <2>1, OneMore
  <2> QED
    BY <1>2, <2>1, <2>2 DEF Remaining
<1>4. \A v : tx = LeaveTx(v) <=> tx.kind = "leave" /\ tx.by = v
  BY Kinds DEF LeaveTx
<1>5. Remaining(chain') = IF tx.kind = "leave" THEN InForce \ {tx.by} ELSE InForce
  BY <1>3, <1>4, InForceIs
<1>6. Remaining(chain') \in ValidatorSets
  BY <1>1, <1>5, InForceIs DEF Valid, SetsUsable
<1> QED
  BY <1>1, <1>2, <1>5, <1>6

LEMMA TInvExtend ==
  ASSUME TInv, NEW tx \in Tx, Extend(tx)
  PROVE  TInv'
<1>1. root' \in Seq(0 .. Supply) /\ Len(root') = Len(chain) + 1
  BY DEF Extend, TInv, TypeOK
<1>2. UNCHANGED <<eth, stored, phase, ledgers, tally, vset, pool, watchers, upsets>>
  BY DEF Extend
<1>3. TypeOK'
  <2>1. Len(chain) \in Nat /\ 0 .. Len(chain) \subseteq 0 .. Len(chain')
    BY Extended DEF TInv, TypeOK
  <2>2. stored' \in [Honest -> 0 .. Len(chain')]
    BY <1>2, <2>1 DEF TInv, TypeOK
  <2> QED
    BY <1>1, <1>2, <2>2, Extended DEF TInv, TypeOK, ledgers, watchers, upsets
<1>4. SetsUsable'
  BY <1>2, Extended, InForceIs DEF TInv, SetsUsable
<1>5. Begun'
  BY <1>2 DEF TInv, Begun
<1> QED
  BY <1>3, <1>4, <1>5 DEF TInv

LEMMA TInvAdmit ==
  ASSUME TInv, NEW n \in Honest, NEW tx \in Tx, NEW peers, Admit(n, tx, peers)
  PROVE  pool' \in [Honest -> SUBSET Tx]
  BY DEF TInv, TypeOK, Admit

LEMMA TInvUsers ==
  ASSUME TInv, NEW n \in Honest, (\E l \in Lock : SubmitLock(n, l)) \/ Watch(n)
  PROVE  TInv'
<1> USE BridgeAssumption
<1>1. CASE \E l \in Lock : SubmitLock(n, l)
  <2>1. PICK l \in Lock, peers \in Reach : Admit(n, LockTx(l), peers)
    BY <1>1 DEF SubmitLock
  <2>2. LockTx(l) \in Tx
    BY DEF LockTx, Tx
  <2>3. pool' \in [Honest -> SUBSET Tx]
    BY <2>1, <2>2, TInvAdmit
  <2>4. UNCHANGED <<eth, chain, root, stored, phase, ledgers, tally, vset, watchers, upsets>>
    BY <1>1 DEF SubmitLock
  <2> QED
    BY <2>3, <2>4 DEF TInv, TypeOK, SetsUsable, Begun, Remaining, ledgers, watchers, upsets
<1>2. CASE Watch(n)
  <2>1. pool' \in [Honest -> SUBSET Tx]
    <3>1. CASE eth[next[n]].kind = "burn" /\ Accepts(n)
      <4> DEFINE b == eth[next[n]].burn
                 c == [burn |-> b, to |-> Owner[b]]
      <4>1. PICK peers \in Reach : Admit(n, AttestTx(n, c), peers)
        BY <1>2, <3>1 DEF Watch
      <4>2. next[n] \in 1 .. Len(eth)
        <5>1. next[n] \in Nat \ {0} /\ next[n] <= Len(eth) - Confirmations /\ Len(eth) \in Nat
          BY <1>2 DEF Watch, Target, TInv, TypeOK
        <5> QED
          BY <5>1, Parameters
      <4>3. eth[next[n]] \in Event
        <5>1. eth \in Seq(Event)
          BY DEF TInv, TypeOK
        <5> QED
          BY <4>2, <5>1, ElementOfSeq
      <4>4. b \in Burn
        BY <3>1, <4>3 DEF Event
      <4>5. AttestTx(n, c) \in Tx
        BY <4>4 DEF AttestTx, Tx, Claim, Honest
      <4> QED
        BY <4>1, <4>5, TInvAdmit
    <3>2. CASE ~ (eth[next[n]].kind = "burn" /\ Accepts(n))
      BY <1>2, <3>2 DEF Watch, TInv, TypeOK
    <3> QED
      BY <3>1, <3>2
  <2>2. next' \in [Honest -> Nat \ {0}] /\ cursor' \in [Honest -> Nat \ {0}]
    <3>1. next[n] + 1 \in Nat \ {0}
      <4>1. next[n] \in Nat
        BY DEF TInv, TypeOK
      <4> QED
        BY <4>1
    <3>2. /\ next' = [next EXCEPT ![n] = next[n] + 1]
          /\ cursor' \in {cursor, [cursor EXCEPT ![n] = next[n] + 1]}
      BY <1>2 DEF Watch
    <3>3. next \in [Honest -> Nat \ {0}] /\ cursor \in [Honest -> Nat \ {0}]
      BY DEF TInv, TypeOK
    <3> QED
      BY <3>1, <3>2, <3>3
  <2>3. UNCHANGED <<eth, chain, root, stored, phase, ledgers, tally, vset, upsets>>
    BY <1>2 DEF Watch
  <2> QED
    BY <2>1, <2>2, <2>3 DEF TInv, TypeOK, SetsUsable, Begun, Remaining, ledgers, watchers, upsets
<1> QED
  BY <1>1, <1>2

LEMMA TInvCommit ==
  ASSUME TInv, NEW n \in Honest, CommitBlock(n)
  PROVE  TInv'
<1>1. stored' \in [Honest -> 0 .. Len(chain)] /\ stored'[n] = stored[n] + 1 /\ stored[n] \in Nat
      /\ \A m \in Honest \ {n} : stored'[m] = stored[m]
  BY DEF CommitBlock, TInv, TypeOK
<1>2. phase' \in [Honest -> Phase] /\ \A m \in Honest \ {n} : phase'[m] = phase[m]
  BY DEF CommitBlock, Goto, Phase, TInv, TypeOK
<1>3. UNCHANGED <<eth, chain, root, ledgers, tally, vset, pool, watchers, upsets>>
  BY DEF CommitBlock
<1>4. TypeOK' /\ SetsUsable'
  BY <1>1, <1>2, <1>3 DEF TInv, TypeOK, SetsUsable, Remaining, ledgers, watchers, upsets
<1>5. Begun'
  BY <1>1, <1>2 DEF TInv, Begun
<1> QED
  BY <1>4, <1>5 DEF TInv

\* The escrow of a node, its books and its phase are what a block is applied with.
LEMMA TInvLedger ==
  ASSUME TInv, NEW n \in Honest, phase[n] # "idle",
         phase' \in [Honest -> Phase], \A m \in Honest \ {n} : phase'[m] = phase[m],
         escrow' \in [Honest -> 0 .. Supply],
         locked' \in [Honest -> Nat], unlocked' \in [Honest -> Nat],
         recorded' \in [Honest -> SUBSET Lock], released' \in [Honest -> SUBSET Claim],
         tally' \in [Honest -> SUBSET (Validator \X Claim)],
         paid' \in [Honest -> [Burn -> Nat]],
         UNCHANGED <<eth, chain, root, stored, vset, pool, watchers, upsets>>
  PROVE  TInv'
<1>1. TypeOK' /\ SetsUsable'
  BY DEF TInv, TypeOK, SetsUsable, Remaining, watchers, upsets
<1>2. Begun'
  BY DEF TInv, Begun
<1> QED
  BY <1>1, <1>2 DEF TInv

LEMMA TInvMoveLock ==
  ASSUME TInv, NEW n \in Honest, MoveLock(n)
  PROVE  TInv'
<1>1. phase[n] # "idle" /\ Current(n).kind = "lock"
  BY DEF MoveLock
<1>2. Current(n).lock \in Lock
  BY <1>1, Applied, Kinds
<1>3. /\ phase' \in [Honest -> Phase]
      /\ \A m \in Honest \ {n} : phase'[m] = phase[m]
  BY DEF MoveLock, Goto, Phase, TInv, TypeOK
<1>4. escrow' \in [Honest -> 0 .. Supply]
  <2>1. escrow[n] \in 0 .. Supply /\ Supply \in Nat /\ Amount[Current(n).lock] \in Nat
    BY <1>2, Parameters DEF TInv, TypeOK
  <2>2. \/ UNCHANGED escrow
        \/ /\ Supply - escrow[n] >= Amount[Current(n).lock]
           /\ escrow' = [escrow EXCEPT ![n] = escrow[n] + Amount[Current(n).lock]]
    BY DEF MoveLock
  <2>3. Supply - escrow[n] >= Amount[Current(n).lock]
          => escrow[n] + Amount[Current(n).lock] \in 0 .. Supply
    BY <2>1
  <2> QED
    BY <2>2, <2>3 DEF TInv, TypeOK
<1>5. UNCHANGED <<locked, unlocked, recorded, released, tally, paid>>
      /\ UNCHANGED <<eth, chain, root, stored, vset, pool, watchers, upsets>>
  BY DEF MoveLock
<1> QED
  BY <1>1, <1>3, <1>4, <1>5, TInvLedger DEF TInv, TypeOK

LEMMA TInvRecordLock ==
  ASSUME TInv, NEW n \in Honest, RecordLock(n)
  PROVE  TInv'
<1>1. phase[n] # "idle" /\ Current(n).kind = "lock"
  BY DEF RecordLock
<1>2. Current(n).lock \in Lock
  BY <1>1, Applied, Kinds
<1>3. /\ phase' \in [Honest -> Phase]
      /\ \A m \in Honest \ {n} : phase'[m] = phase[m]
  BY DEF RecordLock, Goto, Phase, TInv, TypeOK
<1>4. locked' \in [Honest -> Nat]
  <2>1. locked[n] + Amount[Current(n).lock] \in Nat
    BY <1>2, Parameters DEF TInv, TypeOK
  <2>2. \/ UNCHANGED locked
        \/ locked' = [locked EXCEPT ![n] = locked[n] + Amount[Current(n).lock]]
    BY DEF RecordLock
  <2> QED
    BY <2>1, <2>2 DEF TInv, TypeOK
<1>5. recorded' \in [Honest -> SUBSET Lock]
  BY <1>2 DEF RecordLock, TInv, TypeOK
<1>6. UNCHANGED <<escrow, unlocked, released, tally, paid>>
      /\ UNCHANGED <<eth, chain, root, stored, vset, pool, watchers, upsets>>
  BY DEF RecordLock
<1> QED
  BY <1>1, <1>3, <1>4, <1>5, <1>6, TInvLedger DEF TInv, TypeOK

LEMMA TInvAttested ==
  ASSUME TInv, NEW n \in Honest, Attested(n)
  PROVE  TInv'
<1> DEFINE c == Current(n).claim
           T == tally[n] \cup {<<Current(n).by, c>>}
<1>1. phase[n] # "idle" /\ Current(n).kind = "attest"
  BY DEF Attested
<1>2. Current(n).by \in Validator /\ c \in Claim
  BY <1>1, Applied, Kinds
<1>3. /\ phase' \in [Honest -> Phase]
      /\ \A m \in Honest \ {n} : phase'[m] = phase[m]
  BY DEF Attested, Goto, Phase, TInv, TypeOK
<1>4. tally' \in [Honest -> SUBSET (Validator \X Claim)]
  BY <1>2 DEF Attested, TInv, TypeOK
<1>5. \/ UNCHANGED <<escrow, paid>>
      \/ /\ escrow[n] >= Amount[c.burn]
         /\ escrow' = [escrow EXCEPT ![n] = escrow[n] - Amount[c.burn]]
         /\ paid' = [paid EXCEPT ![n][c.burn] = paid[n][c.burn] + 1]
  BY DEF Attested, Due
<1> HIDE DEF c, T
<1>6. c.burn \in Burn /\ Amount[c.burn] \in Nat /\ escrow[n] \in 0 .. Supply /\ Supply \in Nat
      /\ paid[n] \in [Burn -> Nat] /\ paid[n][c.burn] \in Nat
  BY <1>2, Claims, Parameters DEF TInv, TypeOK
<1>7. escrow' \in [Honest -> 0 .. Supply]
  <2>1. escrow[n] >= Amount[c.burn] => escrow[n] - Amount[c.burn] \in 0 .. Supply
    BY <1>6
  <2> QED
    BY <1>5, <2>1 DEF TInv, TypeOK
<1>8. paid' \in [Honest -> [Burn -> Nat]]
  <2>1. [paid[n] EXCEPT ![c.burn] = paid[n][c.burn] + 1] \in [Burn -> Nat]
    BY <1>6
  <2>2. \/ UNCHANGED paid
        \/ paid' = [paid EXCEPT ![n] = [paid[n] EXCEPT ![c.burn] = paid[n][c.burn] + 1]]
    BY <1>5
  <2> QED
    BY <2>1, <2>2 DEF TInv, TypeOK
<1>9. UNCHANGED <<locked, unlocked, recorded, released>>
      /\ UNCHANGED <<eth, chain, root, stored, vset, pool, watchers, upsets>>
  BY DEF Attested
<1> QED
  BY <1>1, <1>3, <1>4, <1>7, <1>8, <1>9, TInvLedger DEF TInv, TypeOK

LEMMA TInvMarkBurn ==
  ASSUME TInv, NEW n \in Honest, MarkBurn(n)
  PROVE  TInv'
<1>1. phase[n] # "idle" /\ Current(n).kind = "attest"
  BY DEF MarkBurn
<1>2. Current(n).claim \in Claim
  BY <1>1, Applied, Kinds
<1>3. /\ phase' \in [Honest -> Phase]
      /\ \A m \in Honest \ {n} : phase'[m] = phase[m]
  BY DEF MarkBurn, Goto, Phase, TInv, TypeOK
<1>4. released' \in [Honest -> SUBSET Claim]
  BY <1>2 DEF MarkBurn, TInv, TypeOK
<1>5. unlocked' \in [Honest -> Nat]
  <2>1. unlocked[n] + Amount[Current(n).claim.burn] \in Nat
    BY <1>2, Claims DEF TInv, TypeOK
  <2>2. unlocked' = [unlocked EXCEPT ![n] = unlocked[n] + Amount[Current(n).claim.burn]]
    BY DEF MarkBurn
  <2> QED
    BY <2>1, <2>2 DEF TInv, TypeOK
<1>6. UNCHANGED <<escrow, locked, recorded, tally, paid>>
      /\ UNCHANGED <<eth, chain, root, stored, vset, pool, watchers, upsets>>
  BY DEF MarkBurn
<1> QED
  BY <1>1, <1>3, <1>4, <1>5, <1>6, TInvLedger DEF TInv, TypeOK

LEMMA TInvFinish ==
  ASSUME TInv, NEW n \in Honest, Finish(n)
  PROVE  TInv'
<1>1. phase[n] # "idle"
  BY DEF Finish
<1>2. pool' \in [Honest -> SUBSET Tx]
  BY DEF Finish, TInv, TypeOK
<1>3. /\ phase' \in [Honest -> Phase]
      /\ \A m \in Honest : phase'[m] # "idle" => phase[m] # "idle"
  BY DEF Finish, Goto, Phase, TInv, TypeOK
<1>4. UNCHANGED <<eth, chain, root, stored, ledgers, tally, watchers, upsets>>
  BY DEF Finish
<1>5. /\ vset' \in [Honest -> ValidatorSets]
      /\ \A m \in Honest : Remaining(chain) \subseteq vset'[m]
  <2>1. CASE Current(n).kind # "leave"
    BY <2>1 DEF Finish, TInv, TypeOK, SetsUsable
  <2>2. CASE Current(n).kind = "leave"
    <3>1. chain[stored[n]] = LeaveTx(Current(n).by) /\ stored[n] \in DOMAIN chain
      BY <1>1, <2>2, Applied, Kinds DEF Current, TInv, TypeOK
    <3>2. Current(n).by \notin Remaining(chain)
      BY <3>1 DEF Remaining
    <3>3. vset' = [vset EXCEPT ![n] = vset[n] \ {Current(n).by}]
      BY <2>2 DEF Finish
    <3>4. Remaining(chain) \subseteq vset[n] \ {Current(n).by}
      BY <3>2 DEF TInv, SetsUsable
    <3>5. vset[n] \ {Current(n).by} \in SUBSET Validator
      BY BridgeAssumption DEF TInv, TypeOK
    <3>6. vset[n] \ {Current(n).by} \in ValidatorSets
      BY <3>4, <3>5, BridgeAssumption DEF TInv, SetsUsable
    <3> QED
      BY <3>3, <3>4, <3>6 DEF TInv, TypeOK, SetsUsable
  <2> QED
    BY <2>1, <2>2
<1>6. TypeOK'
  BY <1>2, <1>3, <1>4, <1>5 DEF TInv, TypeOK, ledgers, watchers, upsets
<1>7. SetsUsable' /\ Begun'
  BY <1>3, <1>4, <1>5 DEF TInv, SetsUsable, Begun, Remaining
<1> QED
  BY <1>6, <1>7 DEF TInv

\* What a restart reads out of the chain is a tally.
LEMMA AttestationsAre ==
  ASSUME TInv, NEW k \in 0 .. Len(chain)
  PROVE  Attestations(k) \subseteq Validator \X Claim
<1>1. \A j \in 1 .. k : chain[j] \in Tx
  BY DEF TInv, TypeOK
<1>2. \A j \in 1 .. k : chain[j].kind = "attest"
        => chain[j].by \in Validator /\ chain[j].claim \in Claim
  BY <1>1, Kinds
<1> QED
  BY <1>2 DEF Attestations

LEMMA TInvRestart ==
  ASSUME TInv, NEW n \in Honest, Restart(n)
  PROVE  TInv'
<1>1. /\ phase' \in [Honest -> Phase]
      /\ \A m \in Honest : phase'[m] # "idle" => phase[m] # "idle"
  BY DEF Restart, Goto, Phase, TInv, TypeOK
<1>2. tally' \in [Honest -> SUBSET (Validator \X Claim)]
  <2>1. stored[n] \in 0 .. Len(chain)
    BY DEF TInv, TypeOK
  <2> QED
    BY <2>1, AttestationsAre DEF Restart, TInv, TypeOK
<1>3. locked' \in [Honest -> Nat]
  <2>1. Adopted(n) \in Nat
    BY Parameters DEF Adopted, TInv, TypeOK
  <2> QED
    BY <2>1 DEF Restart, TInv, TypeOK
<1>4. next' \in [Honest -> Nat \ {0}] /\ pool' \in [Honest -> SUBSET Tx]
  BY DEF Restart, TInv, TypeOK
<1>5. torn' \in SUBSET Honest /\ crashes' \in 0 .. MaxCrashes
  <2>1. MaxCrashes \in Nat /\ crashes \in Nat
    BY BridgeAssumption DEF TInv, TypeOK
  <2> QED
    BY <2>1 DEF Restart, TInv, TypeOK
<1>6. UNCHANGED <<eth, chain, root, stored, escrow, unlocked, recorded, released, paid, vset, cursor>>
  BY DEF Restart
<1>7. TypeOK'
  BY <1>1, <1>2, <1>3, <1>4, <1>5, <1>6 DEF TInv, TypeOK
<1>8. SetsUsable' /\ Begun'
  BY <1>1, <1>6 DEF TInv, SetsUsable, Begun, Remaining
<1> QED
  BY <1>7, <1>8 DEF TInv

LEMMA TInvStep == TInv /\ [Next]_vars => TInv'
<1> SUFFICES ASSUME TInv, [Next]_vars PROVE TInv'
  OBVIOUS
<1>1. CASE UNCHANGED vars
  BY <1>1 DEF vars, ledgers, watchers, upsets, TInv, TypeOK, SetsUsable, Begun, Remaining
<1>2. CASE Ethereum
  BY <1>2, TInvEthereum
<1>3. CASE \E tx \in Tx : Extend(tx)
  BY <1>3, TInvExtend
<1>4. CASE \E n \in Honest : NodeOf(n)
  BY <1>4, TInvUsers, TInvCommit, TInvMoveLock, TInvRecordLock, TInvAttested, TInvMarkBurn,
     TInvFinish, TInvRestart DEF NodeOf, Apply
<1> QED
  BY <1>1, <1>2, <1>3, <1>4 DEF Next

\* The variables of the bridge keep their types, whatever leaves the set and whatever
\* a restart interrupts.
THEOREM TypeCorrect == Spec => []TypeOK
<1>1. TInv => TypeOK
  BY DEF TInv
<1> QED
  BY <1>1, TInvInit, TInvStep, PTL DEF Spec

-----------------------------------------------------------------------------
(* What is released: an honest validator attests only to a burn that stays   *)
(* for good, and no claim is due without one of them.                        *)

\* Ethereum has burn c.burn where no reorganisation gets to, and c is for the account
\* that it names.
Sound(c) == c.to = Owner[c.burn] /\ \E i \in 1 .. Final : eth[i] = BurnOf(c.burn)

SoundTx(tx) == tx.kind = "attest" /\ tx.by \in Honest => Sound(tx.claim)

\* Every attestation of an honest validator is sound: pending, committed or tallied.
Truthful ==
  /\ \A n \in Honest : \A tx \in pool[n] : SoundTx(tx)
  /\ \A i \in 1 .. Len(chain) : SoundTx(chain[i])
  /\ \A n, m \in Honest : \A c \in Claim : <<m, c>> \in tally[n] => Sound(c)

\* The claim that a node is about to mark was due.
Marking ==
  \A n \in Honest :
    phase[n] = "record" /\ Current(n).kind = "attest" => Sound(Current(n).claim)

RInv == TInv /\ Truthful /\ Marking /\ NoFalseRelease

LEMMA RInvInit == Init => RInv
<1> SUFFICES ASSUME Init PROVE RInv
  OBVIOUS
<1>1. Truthful /\ Marking /\ NoFalseRelease
  BY DEF Init, Truthful, Marking, NoFalseRelease
<1> QED
  BY <1>1, TInvInit DEF RInv

\* A quorum's worth of attesters has an honest one.
LEMMA DueIsSound ==
  ASSUME TInv, NEW n \in Honest, NEW c \in Claim, NEW T, Due(n, c, T),
         \A m \in Honest : <<m, c>> \in T => Sound(c)
  PROVE  Sound(c)
<1>1. vset[n] \in ValidatorSets /\ Attesters(T, c) \cap vset[n] \in Quorum[vset[n]]
  BY DEF Due, TInv, TypeOK
<1>2. PICK m \in Honest : m \in Attesters(T, c)
  BY <1>1, BridgeAssumption
<1> QED
  BY <1>2 DEF Attesters

\* Ethereum keeps what is final.
LEMMA FinalStays ==
  ASSUME TInv, Ethereum
  PROVE  /\ Final' >= Final
         /\ \A i \in 1 .. Final : eth'[i] = eth[i]
<1> USE DEF Final
<1>1. Len(eth) \in Nat /\ ReorgDepth \in Nat /\ DOMAIN eth = 1 .. Len(eth) /\ eth \in Seq(Event)
  BY Parameters DEF TInv, TypeOK
<1>2. ASSUME NEW e \in Event, Mine(e)
      PROVE  Final' >= Final /\ \A i \in 1 .. Final : eth'[i] = eth[i]
  BY <1>1, <1>2 DEF Mine
<1>3. CASE \E l \in Lock : Mint(l)
  BY <1>2, <1>3 DEF Mint, MintOf, Event
<1>4. CASE \E b \in Burn : BurnWrapped(b)
  BY <1>2, <1>4 DEF BurnWrapped, BurnOf, Event
<1>5. CASE Mine(Empty)
  BY <1>2, <1>5 DEF Empty, Event
<1>6. CASE Reorg
  <2>1. PICK k \in 0 .. Len(eth) :
          k >= Final /\ eth' = [i \in DOMAIN eth |-> IF i <= k THEN eth[i] ELSE Empty]
    BY <1>6 DEF Reorg
  <2>2. Len(eth') = Len(eth)
    <3>1. DOMAIN eth' = 1 .. Len(eth) /\ eth' \in Seq(Event)
      BY <1>1, <2>1, TInvEthereum DEF TInv, TypeOK
    <3> QED
      BY <1>1, <3>1, LenProperties
  <2>3. \A i \in 1 .. Final : i \in 1 .. Len(eth) /\ i <= k
    BY <1>1, <2>1
  <2> QED
    BY <1>1, <2>1, <2>2, <2>3
<1> QED
  BY <1>3, <1>4, <1>5, <1>6 DEF Ethereum

\* What is sound stays so.
LEMMA SoundStays ==
  ASSUME TInv, [Next]_vars, NEW c, Sound(c)
  PROVE  Sound(c)'
<1>1. CASE Ethereum
  <2>1. PICK i \in 1 .. Final : eth[i] = BurnOf(c.burn)
    BY DEF Sound
  <2>2. Final \in Int /\ Final' \in Int
    BY Parameters, TInvStep DEF Final, TInv, TypeOK
  <2>3. i \in 1 .. Final' /\ eth'[i] = BurnOf(c.burn)
    BY <1>1, <2>1, <2>2, FinalStays
  <2> QED
    BY <2>3 DEF Sound
<1>2. CASE UNCHANGED eth
  BY <1>2 DEF Sound, Final
<1>3. Ethereum \/ UNCHANGED eth
  BY DEF Next, vars, Extend, NodeOf, SubmitLock, Watch, Apply, CommitBlock, MoveLock, RecordLock,
     Attested, MarkBurn, Finish, Restart
<1> QED
  BY <1>1, <1>2, <1>3

\* The burns a watcher reaches are final, and it attests to what they say.
LEMMA WatchIsSound ==
  ASSUME TInv, NEW n \in Honest, Watch(n), eth[next[n]].kind = "burn"
  PROVE  LET b == eth[next[n]].burn IN Sound([burn |-> b, to |-> Owner[b]])
<1> DEFINE b == eth[next[n]].burn
<1>1. /\ next[n] \in Nat \ {0} /\ next[n] <= Len(eth) - Confirmations
      /\ Len(eth) \in Nat /\ eth \in Seq(Event)
  BY DEF Watch, Target, TInv, TypeOK
<1>2. next[n] \in 1 .. Len(eth) /\ next[n] \in 1 .. Final
  BY <1>1, Parameters DEF Final
<1>3. eth[next[n]] \in Event
  BY <1>1, <1>2, ElementOfSeq
<1>4. eth[next[n]] = BurnOf(b)
  BY <1>3 DEF Event, BurnOf
<1> QED
  BY <1>2, <1>4 DEF Sound

\* What is pending, committed and tallied after a step was sound before it.
LEMMA PoolSound ==
  ASSUME RInv, [Next]_vars, NEW n \in Honest, NEW tx \in pool'[n]
  PROVE  SoundTx(tx)
<1> USE DEF RInv
<1>1. CASE tx \in pool[n]
  BY <1>1 DEF Truthful
<1>2. CASE tx \notin pool[n]
  <2>1. ASSUME NEW m \in Honest, NEW t, NEW peers, Admit(m, t, peers)
        PROVE  tx = t
    BY <1>2, <2>1 DEF Admit
  <2>2. ASSUME NEW m \in Honest, NEW l \in Lock, SubmitLock(m, l)
        PROVE  SoundTx(tx)
    <3>1. tx = LockTx(l)
      BY <2>1, <2>2 DEF SubmitLock
    <3> QED
      BY <3>1 DEF SoundTx, LockTx
  <2>3. ASSUME NEW m \in Honest, Watch(m)
        PROVE  SoundTx(tx)
    <3> DEFINE b == eth[next[m]].burn
               c == [burn |-> b, to |-> Owner[b]]
    <3>1. pool' # pool
      BY <1>2
    <3>2. eth[next[m]].kind = "burn" /\ \E peers \in Reach : Admit(m, AttestTx(m, c), peers)
      BY <2>3, <3>1 DEF Watch
    <3>3. tx = AttestTx(m, c)
      BY <2>1, <3>2
    <3>4. Sound(c)
      BY <2>3, <3>2, WatchIsSound
    <3> QED
      BY <3>3, <3>4 DEF SoundTx, AttestTx
  <2>4. ASSUME NEW m \in Honest, Finish(m) \/ Restart(m)
        PROVE  FALSE
    BY <1>2, <2>4 DEF Finish, Restart, TInv, TypeOK
  <2>5. CASE UNCHANGED pool
    BY <1>2, <2>5
  <2>6. \/ UNCHANGED pool
        \/ \E m \in Honest : \/ \E l \in Lock : SubmitLock(m, l)
                             \/ Watch(m) \/ Finish(m) \/ Restart(m)
    BY DEF Next, vars, Ethereum, Mint, BurnWrapped, Mine, Reorg, Extend, NodeOf, Apply,
       CommitBlock, MoveLock, RecordLock, Attested, MarkBurn
  <2> QED
    BY <2>2, <2>3, <2>4, <2>5, <2>6
<1> QED
  BY <1>1, <1>2

LEMMA ChainSound ==
  ASSUME RInv, [Next]_vars, NEW i \in 1 .. Len(chain')
  PROVE  SoundTx(chain'[i])
<1> USE DEF RInv
<1>1. CASE UNCHANGED chain
  BY <1>1 DEF Truthful
<1>2. ASSUME NEW tx \in Tx, Extend(tx)
      PROVE  SoundTx(chain'[i])
  <2>1. CASE i \in 1 .. Len(chain)
    BY <1>2, <2>1, Extended DEF Truthful
  <2>2. CASE i = Len(chain) + 1
    <3>1. chain'[i] = tx
      BY <1>2, <2>2, Extended
    <3>2. SoundTx(tx)
      <4>1. CASE tx.kind = "leave"
        BY <4>1 DEF SoundTx
      <4>2. CASE Proposable(tx)
        BY <4>2 DEF Proposable, SoundTx, Truthful, Honest
      <4> QED
        BY <1>2, <4>1, <4>2 DEF Extend
    <3> QED
      BY <3>1, <3>2
  <2>3. Len(chain) \in Nat /\ Len(chain') = Len(chain) + 1
    BY <1>2, Extended DEF TInv, TypeOK
  <2> QED
    BY <2>1, <2>2, <2>3
<1>3. UNCHANGED chain \/ \E tx \in Tx : Extend(tx)
  BY DEF Next, vars, Ethereum, Mint, BurnWrapped, Mine, Reorg, NodeOf, Apply, SubmitLock, Watch,
     CommitBlock, MoveLock, RecordLock, Attested, MarkBurn, Finish, Restart
<1> QED
  BY <1>1, <1>2, <1>3

LEMMA TallySound ==
  ASSUME RInv, [Next]_vars, NEW n \in Honest, NEW m \in Honest, NEW c \in Claim,
         <<m, c>> \in tally'[n]
  PROVE  Sound(c)
<1> USE DEF RInv
<1>1. CASE <<m, c>> \in tally[n]
  BY <1>1 DEF Truthful
<1>2. CASE <<m, c>> \notin tally[n]
  <2>1. ASSUME NEW k \in Honest, Attested(k)
        PROVE  Sound(c)
    <3>1. phase[k] # "idle" /\ Current(k).kind = "attest"
      BY <2>1 DEF Attested
    <3>2. <<m, c>> = <<Current(k).by, Current(k).claim>>
      BY <1>2, <2>1 DEF Attested, TInv, TypeOK
    <3>3. stored[k] \in 1 .. Len(chain) /\ Current(k) = chain[stored[k]]
      BY <3>1, Applied DEF Current
    <3>4. SoundTx(Current(k))
      BY <3>3 DEF Truthful
    <3> QED
      BY <3>1, <3>2, <3>4 DEF SoundTx
  <2>2. ASSUME NEW k \in Honest, Restart(k)
        PROVE  Sound(c)
    <3>1. <<m, c>> \in Attestations(stored[k])
      BY <1>2, <2>2 DEF Restart, TInv, TypeOK
    <3>2. PICK j \in 1 .. stored[k] :
            chain[j].kind = "attest" /\ <<chain[j].by, chain[j].claim>> = <<m, c>>
      BY <3>1 DEF Attestations
    <3>3. j \in 1 .. Len(chain)
      <4>1. stored[k] \in 0 .. Len(chain) /\ Len(chain) \in Nat
        BY DEF TInv, TypeOK
      <4> QED
        BY <4>1
    <3>4. SoundTx(chain[j])
      BY <3>3 DEF Truthful
    <3> QED
      BY <3>2, <3>4 DEF SoundTx
  <2>3. CASE UNCHANGED tally
    BY <1>2, <2>3
  <2>4. UNCHANGED tally \/ \E k \in Honest : Attested(k) \/ Restart(k)
    BY DEF Next, vars, Ethereum, Mint, BurnWrapped, Mine, Reorg, Extend, NodeOf, Apply, SubmitLock,
       Watch, CommitBlock, MoveLock, RecordLock, MarkBurn, Finish
  <2> QED
    BY <2>1, <2>2, <2>3, <2>4
<1> QED
  BY <1>1, <1>2

\* The transaction that a node is applying stays in the chain.
LEMMA CurrentStays ==
  ASSUME TInv, [Next]_vars, NEW n \in Honest, phase[n] # "idle", stored'[n] = stored[n]
  PROVE  Current(n)' = Current(n)
<1>1. stored[n] \in 1 .. Len(chain)
  BY Applied
<1>2. CASE \E tx \in Tx : Extend(tx)
  BY <1>1, <1>2, Extended DEF Current
<1>3. CASE UNCHANGED chain
  BY <1>3 DEF Current
<1>4. UNCHANGED chain \/ \E tx \in Tx : Extend(tx)
  BY DEF Next, vars, Ethereum, Mint, BurnWrapped, Mine, Reorg, NodeOf, Apply, SubmitLock, Watch,
     CommitBlock, MoveLock, RecordLock, Attested, MarkBurn, Finish, Restart
<1> QED
  BY <1>2, <1>3, <1>4

LEMMA TruthfulStep == RInv /\ [Next]_vars => Truthful'
<1> SUFFICES ASSUME RInv, [Next]_vars PROVE Truthful'
  OBVIOUS
<1>1. \A c : Sound(c) => Sound(c)'
  BY SoundStays DEF RInv
<1>2. \A tx : SoundTx(tx) => SoundTx(tx)'
  BY <1>1 DEF SoundTx
<1>3. \A n \in Honest : \A tx \in pool'[n] : SoundTx(tx)'
  BY <1>2, PoolSound
<1>4. ASSUME NEW i \in 1 .. Len(chain')
      PROVE  SoundTx(chain[i])'
  <2>1. PICK tx : tx = chain'[i]
    OBVIOUS
  <2>2. SoundTx(tx)'
    BY <1>2, <2>1, ChainSound
  <2> QED
    BY <2>1, <2>2 DEF SoundTx, Sound
<1>5. \A n, m \in Honest : \A c \in Claim : <<m, c>> \in tally'[n] => Sound(c)'
  BY <1>1, TallySound
<1> QED
  BY <1>3, <1>4, <1>5 DEF Truthful

\* The burn that is marked was due when it was paid.
LEMMA MarkingStep == RInv /\ [Next]_vars => Marking'
<1> SUFFICES ASSUME RInv, [Next]_vars,
                    NEW n \in Honest, phase'[n] = "record", Current(n)'.kind = "attest"
             PROVE  Sound(Current(n).claim)'
  BY DEF Marking
<1> USE DEF RInv
<1>1. PICK c : c = Current(n)'.claim
  OBVIOUS
<1>2. Sound(c)
  <2>1. CASE phase[n] = "record"
    <3>1. stored'[n] = stored[n]
      <4>1. ASSUME NEW k \in Honest, CommitBlock(k)
            PROVE  stored'[n] = stored[n]
        BY <2>1, <4>1 DEF CommitBlock, TInv, TypeOK
      <4>2. UNCHANGED stored \/ \E k \in Honest : CommitBlock(k)
        BY DEF Next, vars, Ethereum, Mint, BurnWrapped, Mine, Reorg, Extend, NodeOf, Apply,
           SubmitLock, Watch, MoveLock, RecordLock, Attested, MarkBurn, Finish, Restart
      <4> QED
        BY <4>1, <4>2
    <3> QED
      BY <1>1, <2>1, <3>1, CurrentStays DEF Marking
  <2>2. CASE phase[n] # "record"
    <3>1. MoveLock(n) \/ Attested(n)
      <4>1. phase'[n] # phase[n]
        BY <2>2
      <4>2. PICK k \in Honest : \/ CommitBlock(k) \/ MoveLock(k) \/ RecordLock(k) \/ Attested(k)
                                \/ MarkBurn(k) \/ Finish(k) \/ Restart(k)
        BY <4>1 DEF Next, vars, Ethereum, Mint, BurnWrapped, Mine, Reorg, Extend, NodeOf, Apply,
           SubmitLock, Watch
      <4>3. phase \in [Honest -> Phase]
        BY DEF TInv, TypeOK
      <4>4. k = n
        BY <4>1, <4>2, <4>3 DEF CommitBlock, MoveLock, RecordLock, Attested, MarkBurn, Finish,
           Restart, Goto
      <4> QED
        BY <4>2, <4>3, <4>4 DEF CommitBlock, RecordLock, MarkBurn, Finish, Restart, Goto
    <3>2. phase[n] # "idle" /\ UNCHANGED stored
      BY <3>1 DEF MoveLock, Attested
    <3>3. Current(n)' = Current(n)
      BY <3>2, CurrentStays
    <3>4. CASE MoveLock(n)
      BY <3>3, <3>4 DEF MoveLock
    <3>5. CASE Attested(n)
      <4> DEFINE d == Current(n).claim
                 T == tally[n] \cup {<<Current(n).by, d>>}
      <4>1. Due(n, d, T)
        BY <3>5 DEF Attested, Goto, TInv, TypeOK
      <4>2. d \in Claim
        BY <3>2, <3>3, Applied, Kinds
      <4>3. \A m \in Honest : <<m, d>> \in T => Sound(d)
        <5>1. SoundTx(Current(n))
          BY <3>2, Applied DEF Current, Truthful
        <5>2. Current(n).by \in Honest => Sound(d)
          BY <3>3, <5>1 DEF SoundTx
        <5> QED
          BY <4>2, <5>2 DEF Truthful
      <4> QED
        BY <1>1, <3>3, <4>1, <4>2, <4>3, DueIsSound
    <3> QED
      BY <3>1, <3>4, <3>5
  <2> QED
    BY <2>1, <2>2
<1>3. Sound(c)'
  BY <1>2, SoundStays
<1> QED
  BY <1>1, <1>3 DEF Sound

LEMMA RInvStep == RInv /\ [Next]_vars => RInv'
<1> SUFFICES ASSUME RInv, [Next]_vars PROVE RInv'
  OBVIOUS
<1>1. ASSUME NEW n \in Honest, NEW c \in released'[n]
      PROVE  Sound(c)
  <2>1. CASE c \in released[n]
    BY <2>1 DEF RInv, NoFalseRelease, Sound
  <2>2. CASE c \notin released[n]
    <3>1. PICK k \in Honest : MarkBurn(k)
      BY <2>2 DEF Next, vars, ledgers, Ethereum, Mint, BurnWrapped, Mine, Reorg, Extend, NodeOf, Apply,
         SubmitLock, Watch, CommitBlock, MoveLock, RecordLock, Attested, Finish, Restart
    <3>2. c = Current(k).claim
      BY <2>2, <3>1 DEF MarkBurn, RInv, TInv, TypeOK
    <3> QED
      BY <3>1, <3>2 DEF MarkBurn, RInv, Marking
  <2> QED
    BY <2>1, <2>2
<1>2. \A n \in Honest : \A c \in released'[n] : Sound(c)'
  BY <1>1, SoundStays DEF RInv
<1>3. NoFalseRelease'
  BY <1>2 DEF NoFalseRelease, Sound
<1> QED
  BY <1>3, TInvStep, TruthfulStep, MarkingStep DEF RInv

\* Escrow only leaves for a burn that Ethereum has finalised, to the account that the
\* burn names, whatever the faulty validators attest to, wherever Ethereum reorganises
\* and whatever the restarts interrupt.
THEOREM ReleasesOnlyFinalBurns == Spec => []NoFalseRelease
<1>1. RInv => NoFalseRelease
  BY DEF RInv
<1> QED
  BY <1>1, RInvInit, RInvStep, PTL DEF Spec

-----------------------------------------------------------------------------
(* The books of a node that was never restarted in the middle of a block.    *)

\* What of a node only its own steps change.
Ledger(n) ==
  <<stored[n], phase[n], escrow[n], locked[n], unlocked[n], recorded[n], released[n], paid[n],
    tally[n], vset[n]>>

LEMMA Elsewhere ==
  ASSUME TInv, NEW k \in Honest, NodeOf(k), NEW n \in Honest \ {k}
  PROVE  UNCHANGED <<chain, Ledger(n)>> /\ (n \in torn' <=> n \in torn)
<1>1. CASE (\E l \in Lock : SubmitLock(k, l)) \/ Watch(k)
  BY <1>1 DEF SubmitLock, Watch, Ledger, ledgers, upsets
<1>2. CASE CommitBlock(k) \/ MoveLock(k) \/ RecordLock(k) \/ Attested(k) \/ MarkBurn(k) \/ Finish(k)
  BY <1>2 DEF CommitBlock, MoveLock, RecordLock, Attested, MarkBurn, Finish, Goto, Ledger, ledgers,
     upsets, TInv, TypeOK
<1>3. CASE Restart(k)
  BY <1>3 DEF Restart, Goto, Ledger, TInv, TypeOK
<1> QED
  BY <1>1, <1>2, <1>3 DEF NodeOf, Apply

\* Everything but applying a block and restarting leaves the books alone.
LEMMA BooksTouched ==
  ASSUME TInv, [Next]_vars
  PROVE  \/ \E tx \in Tx : Extend(tx)
         \/ \E k \in Honest : Apply(k)
         \/ \E k \in Honest : Restart(k)
         \/ UNCHANGED <<chain, stored, phase, ledgers, tally, vset, upsets>>
<1>1. CASE Ethereum
  BY <1>1 DEF Ethereum, Mint, BurnWrapped, Mine, Reorg
<1>2. CASE \E k \in Honest : (\E l \in Lock : SubmitLock(k, l)) \/ Watch(k)
  BY <1>2 DEF SubmitLock, Watch
<1> QED
  BY <1>1, <1>2 DEF Next, NodeOf, vars

\* A lock is committed once.
LocksOnce ==
  \A i, j \in 1 .. Len(chain) : chain[i].kind = "lock" /\ chain[i] = chain[j] => i = j

\* What a node has recorded is of blocks it has applied.
RecordedApplied ==
  \A n \in Honest : \A l \in recorded[n] :
    \E i \in 1 .. stored[n] :
      chain[i] = LockTx(l) /\ (phase[n] \in {"move", "record"} => i # stored[n])

\* The escrow is what the totals say, but for the transfer that is not booked yet.
Balanced(n) ==
  /\ phase[n] = "record" /\ Current(n).kind = "lock" =>
       escrow[n] + unlocked[n] = locked[n] + Amount[Current(n).lock]
  /\ phase[n] = "record" /\ Current(n).kind = "attest" =>
       escrow[n] + unlocked[n] + Amount[Current(n).claim.burn] = locked[n]
  /\ phase[n] = "record" => Current(n).kind \in {"lock", "attest"}
  /\ phase[n] # "record" => escrow[n] + unlocked[n] = locked[n]

\* A burn that was paid has its marker, or is about to get it.
Marked(n) ==
  \A b \in Burn :
    /\ paid[n][b] <= 1
    /\ paid[n][b] > 0 =>
         \/ Processed(n, b)
         \/ phase[n] = "record" /\ Current(n).kind = "attest" /\ Current(n).claim.burn = b

BInv == TInv /\ LocksOnce /\ RecordedApplied /\ \A n \in Honest \ torn : Balanced(n) /\ Marked(n)

LEMMA BInvInit == Init => BInv
<1> SUFFICES ASSUME Init PROVE BInv
  OBVIOUS
<1>1. LocksOnce /\ RecordedApplied
  BY DEF Init, LocksOnce, RecordedApplied
<1>2. \A n \in Honest : Balanced(n) /\ Marked(n)
  BY Parameters DEF Init, Balanced, Marked
<1> QED
  BY <1>1, <1>2, TInvInit DEF BInv

LEMMA LocksOnceStep == BInv /\ [Next]_vars => LocksOnce'
<1> SUFFICES ASSUME BInv, [Next]_vars PROVE LocksOnce'
  OBVIOUS
<1>1. ASSUME NEW tx \in Tx, Extend(tx)
      PROVE  LocksOnce'
  <2>1. tx.kind = "lock" => \A i \in 1 .. Len(chain) : chain[i] # tx
    BY <1>1 DEF Extend, Valid, InChain, BInv, TInv, TypeOK
  <2>2. Len(chain) \in Nat
    BY DEF BInv, TInv, TypeOK
  <2>3. \A i \in 1 .. Len(chain') : i \in 1 .. Len(chain) \/ i = Len(chain) + 1
    BY <1>1, <2>2, Extended DEF BInv
  <2> QED
    BY <1>1, <2>1, <2>3, Extended DEF BInv, LocksOnce
<1>2. CASE UNCHANGED chain
  BY <1>2 DEF BInv, LocksOnce
<1>3. UNCHANGED chain \/ \E tx \in Tx : Extend(tx)
  BY BooksTouched DEF BInv, Apply, CommitBlock, MoveLock, RecordLock, Attested, MarkBurn, Finish, Restart
<1> QED
  BY <1>1, <1>2, <1>3

\* The lock that a node is about to record is a new one.
LEMMA RecordsNew ==
  ASSUME BInv, NEW n \in Honest, RecordLock(n)
  PROVE  Current(n).lock \notin recorded[n]
<1>1. phase[n] = "record" /\ Current(n).kind = "lock"
  BY DEF RecordLock
<1>2. /\ stored[n] \in 1 .. Len(chain) /\ Current(n) = chain[stored[n]]
      /\ Current(n) = LockTx(Current(n).lock)
  BY <1>1, Applied, Kinds DEF BInv, Current
<1>3. SUFFICES ASSUME Current(n).lock \in recorded[n] PROVE FALSE
  OBVIOUS
<1>4. PICK i \in 1 .. stored[n] : chain[i] = LockTx(Current(n).lock) /\ i # stored[n]
  BY <1>1, <1>3 DEF BInv, RecordedApplied
<1>5. i \in 1 .. Len(chain)
  BY <1>2 DEF BInv, TInv, TypeOK
<1> QED
  BY <1>1, <1>2, <1>4, <1>5 DEF BInv, LocksOnce

LEMMA RecordedStep == BInv /\ [Next]_vars => RecordedApplied'
<1> SUFFICES ASSUME BInv, [Next]_vars, NEW n \in Honest, NEW l \in recorded'[n]
             PROVE  \E i \in 1 .. stored'[n] :
                      chain'[i] = LockTx(l) /\ (phase'[n] \in {"move", "record"} => i # stored'[n])
  BY DEF RecordedApplied
<1> USE DEF BInv
<1>1. /\ stored[n] \in Nat /\ stored[n] <= Len(chain) /\ Len(chain) \in Nat
      /\ stored \in [Honest -> 0 .. Len(chain)] /\ phase \in [Honest -> Phase]
      /\ recorded \in [Honest -> SUBSET Lock]
  BY DEF TInv, TypeOK
<1>2. ASSUME l \in recorded[n], stored'[n] = stored[n],
             phase'[n] \in {"move", "record"} => phase[n] \in {"move", "record"},
             \A i \in 1 .. stored[n] : chain'[i] = chain[i]
      PROVE  \E i \in 1 .. stored'[n] :
               chain'[i] = LockTx(l) /\ (phase'[n] \in {"move", "record"} => i # stored'[n])
  BY <1>2 DEF RecordedApplied
<1>3. CASE \E tx \in Tx : Extend(tx)
  <2>1. UNCHANGED <<stored, phase, recorded>>
    BY <1>3 DEF Extend, ledgers
  <2>2. \A i \in 1 .. stored[n] : chain'[i] = chain[i]
    BY <1>1, <1>3, Extended
  <2> QED
    BY <1>2, <2>1, <2>2
<1>4. CASE \E k \in Honest \ {n} : NodeOf(k)
  BY <1>2, <1>4, Elsewhere DEF Ledger
<1>5. CASE CommitBlock(n)
  <2>1. l \in recorded[n] /\ stored'[n] = stored[n] + 1 /\ chain' = chain
    BY <1>1, <1>5 DEF CommitBlock, ledgers
  <2>2. PICK i \in 1 .. stored[n] : chain[i] = LockTx(l)
    BY <2>1 DEF RecordedApplied
  <2>3. i \in 1 .. stored'[n] /\ i # stored'[n]
    BY <1>1, <2>1
  <2> QED
    BY <2>1, <2>2, <2>3
<1>6. CASE MoveLock(n) \/ Attested(n) \/ MarkBurn(n) \/ Finish(n)
  BY <1>1, <1>2, <1>6 DEF MoveLock, Attested, MarkBurn, Finish, Goto, ledgers
<1>7. CASE RecordLock(n)
  <2>1. /\ phase'[n] = "finish" /\ chain' = chain /\ stored' = stored
        /\ recorded'[n] = recorded[n] \cup {Current(n).lock}
    BY <1>1, <1>7 DEF RecordLock, Goto
  <2>2. CASE l \in recorded[n]
    BY <1>2, <2>1, <2>2
  <2>3. CASE l = Current(n).lock
    <3>1. stored[n] \in 1 .. stored[n] /\ chain[stored[n]] = LockTx(l)
      BY <1>1, <1>7, <2>3, Applied, Kinds DEF RecordLock, Current
    <3> QED
      BY <2>1, <3>1
  <2> QED
    BY <2>1, <2>2, <2>3
<1>8. CASE Restart(n)
  BY <1>1, <1>2, <1>8 DEF Restart, Goto
<1>9. CASE UNCHANGED <<chain, stored, phase, ledgers, tally, vset, upsets>>
  BY <1>2, <1>9 DEF ledgers
<1> QED
  BY <1>3, <1>4, <1>5, <1>6, <1>7, <1>8, <1>9, BooksTouched DEF Apply, NodeOf

\* A step of a node keeps its own books balanced and its payments marked.
LEMMA BalancedApply ==
  ASSUME BInv, NEW n \in Honest, Balanced(n), Marked(n), Apply(n)
  PROVE  Balanced(n)' /\ Marked(n)'
<1> USE DEF BInv
<1>1. /\ escrow \in [Honest -> 0 .. Supply] /\ Supply \in Nat
      /\ locked \in [Honest -> Nat] /\ unlocked \in [Honest -> Nat]
      /\ phase \in [Honest -> Phase] /\ recorded \in [Honest -> SUBSET Lock]
      /\ released \in [Honest -> SUBSET Claim] /\ paid \in [Honest -> [Burn -> Nat]]
      /\ stored \in [Honest -> 0 .. Len(chain)]
      /\ tally \in [Honest -> SUBSET (Validator \X Claim)]
  BY Parameters DEF TInv, TypeOK
<1>2. chain' = chain
  BY DEF Apply, CommitBlock, MoveLock, RecordLock, Attested, MarkBurn, Finish
<1>3. stored'[n] = stored[n] => Current(n)' = Current(n)
  BY <1>2 DEF Current
<1>4. phase[n] # "idle" => Current(n) \in Tx
  BY Applied
<1>5. CASE CommitBlock(n)
  <2>1. phase[n] = "idle" /\ phase'[n] = "move" /\ UNCHANGED ledgers
    BY <1>1, <1>5 DEF CommitBlock, Goto
  <2> QED
    BY <2>1 DEF Balanced, Marked, Processed, ledgers
<1>6. CASE MoveLock(n)
  <2> DEFINE a == Amount[Current(n).lock]
  <2>1. /\ phase[n] = "move" /\ Current(n).kind = "lock" /\ stored'[n] = stored[n]
        /\ UNCHANGED <<locked, unlocked, released, paid>>
        /\ \/ escrow'[n] = escrow[n] + a /\ phase'[n] = "record"
           \/ escrow'[n] = escrow[n] /\ phase'[n] = "finish"
    BY <1>1, <1>6 DEF MoveLock, Goto
  <2>2. a \in Nat
    BY <1>4, <2>1, Kinds, Parameters
  <2> HIDE DEF a
  <2>3. Balanced(n)'
    <3>1. escrow[n] + unlocked[n] = locked[n]
      BY <2>1 DEF Balanced
    <3>2. escrow[n] \in Nat /\ unlocked[n] \in Nat /\ locked[n] \in Nat
      BY <1>1
    <3>3. (escrow[n] + a) + unlocked[n] = locked[n] + a
      BY <2>2, <3>1, <3>2
    <3> QED
      BY <1>3, <2>1, <3>1, <3>3 DEF Balanced, a
  <2>4. Marked(n)'
    BY <2>1 DEF Marked, Processed
  <2> QED
    BY <2>3, <2>4
<1>7. CASE RecordLock(n)
  <2>1. /\ phase[n] = "record" /\ Current(n).kind = "lock" /\ phase'[n] = "finish"
        /\ stored'[n] = stored[n] /\ UNCHANGED <<escrow, unlocked, released, paid>>
        /\ locked'[n] = locked[n] + Amount[Current(n).lock]
    BY <1>1, <1>7, RecordsNew DEF RecordLock, Goto
  <2>2. Balanced(n)'
    BY <1>3, <2>1 DEF Balanced
  <2>3. Marked(n)'
    BY <2>1 DEF Marked, Processed
  <2> QED
    BY <2>2, <2>3
<1>8. CASE Attested(n)
  <2> DEFINE c == Current(n).claim
             T == tally[n] \cup {<<Current(n).by, c>>}
  <2>1. /\ phase[n] = "move" /\ Current(n).kind = "attest" /\ stored'[n] = stored[n]
        /\ UNCHANGED <<locked, unlocked, released>>
    BY <1>8 DEF Attested
  <2>2. c \in Claim /\ c.burn \in Burn /\ Amount[c.burn] \in Nat
    BY <1>4, <2>1, Kinds, Claims
  <2>3. CASE Due(n, c, T)
    <3>1. /\ phase'[n] = "record"
          /\ escrow'[n] = escrow[n] - Amount[c.burn] /\ escrow[n] >= Amount[c.burn]
          /\ paid'[n] = [paid[n] EXCEPT ![c.burn] = paid[n][c.burn] + 1]
      BY <1>1, <1>8, <2>3 DEF Attested, Due, Goto
    <3>2. ~Processed(n, c.burn)
      BY <2>3 DEF Due
    <3> HIDE DEF c, T
    <3>3. Balanced(n)'
      <4>1. escrow[n] + unlocked[n] = locked[n]
        BY <2>1 DEF Balanced
      <4>2. escrow[n] \in Nat /\ unlocked[n] \in Nat /\ locked[n] \in Nat
        BY <1>1
      <4>3. escrow'[n] + unlocked[n] + Amount[c.burn] = locked[n]
        BY <2>2, <3>1, <4>1, <4>2
      <4> QED
        BY <1>3, <2>1, <3>1, <4>3 DEF Balanced, c
    <3>4. Marked(n)'
      <4>1. ASSUME NEW b \in Burn
            PROVE  /\ paid'[n][b] <= 1
                   /\ paid'[n][b] > 0 =>
                        Processed(n, b)' \/ c.burn = b
        <5>1. CASE b = c.burn
          <6>1. paid[n][b] = 0
            BY <1>1, <2>1, <3>2, <5>1 DEF Marked
          <6>2. paid'[n][b] = 1
            BY <1>1, <2>2, <3>1, <5>1, <6>1
          <6> QED
            BY <5>1, <6>2
        <5>2. CASE b # c.burn
          <6>1. paid'[n][b] = paid[n][b]
            BY <1>1, <2>2, <3>1, <5>2
          <6> QED
            BY <2>1, <6>1 DEF Marked, Processed
        <5> QED
          BY <5>1, <5>2
      <4> QED
        BY <1>3, <2>1, <3>1, <4>1 DEF Marked, c
    <3> QED
      BY <3>3, <3>4
  <2>4. CASE ~Due(n, c, T)
    <3>1. phase'[n] = "finish" /\ escrow'[n] = escrow[n] /\ paid'[n] = paid[n]
      BY <1>1, <1>8, <2>4 DEF Attested, Goto
    <3> QED
      BY <2>1, <3>1 DEF Balanced, Marked, Processed
  <2> QED
    BY <2>3, <2>4
<1>9. CASE MarkBurn(n)
  <2> DEFINE c == Current(n).claim
  <2>1. /\ phase[n] = "record" /\ Current(n).kind = "attest" /\ phase'[n] = "finish"
        /\ UNCHANGED <<escrow, locked, paid>>
        /\ unlocked'[n] = unlocked[n] + Amount[c.burn]
        /\ released'[n] = released[n] \cup {c}
    BY <1>1, <1>9 DEF MarkBurn, Goto
  <2>2. Amount[c.burn] \in Nat
    BY <1>4, <2>1, Kinds, Claims
  <2>3. Balanced(n)'
    <3>1. escrow[n] + unlocked[n] + Amount[c.burn] = locked[n]
      BY <2>1 DEF Balanced
    <3>2. escrow[n] \in Nat /\ unlocked[n] \in Nat
      BY <1>1
    <3> QED
      BY <2>1, <2>2, <3>1, <3>2 DEF Balanced
  <2>4. Marked(n)'
    BY <2>1 DEF Marked, Processed
  <2> QED
    BY <2>3, <2>4
<1>10. CASE Finish(n)
  <2>1. phase[n] # "record" /\ phase'[n] = "idle" /\ UNCHANGED ledgers
    BY <1>1, <1>10 DEF Finish, Goto
  <2> QED
    BY <2>1 DEF Balanced, Marked, Processed, ledgers
<1> QED
  BY <1>5, <1>6, <1>7, <1>8, <1>9, <1>10 DEF Apply

LEMMA BInvStep == BInv /\ [Next]_vars => BInv'
<1> SUFFICES ASSUME BInv, [Next]_vars PROVE BInv'
  OBVIOUS
<1>1. ASSUME NEW n \in Honest \ torn'
      PROVE  Balanced(n)' /\ Marked(n)'
  <2>1. n \notin torn
    BY DEF BInv, Next, vars, upsets, Ethereum, Mint, BurnWrapped, Mine, Reorg, Extend, NodeOf, Apply,
       SubmitLock, Watch, CommitBlock, MoveLock, RecordLock, Attested, MarkBurn, Finish, Restart
  <2>2. Balanced(n) /\ Marked(n)
    BY <2>1 DEF BInv
  <2>3. ASSUME UNCHANGED Ledger(n), phase[n] # "idle" => Current(n)' = Current(n)
        PROVE  Balanced(n)' /\ Marked(n)'
    BY <2>2, <2>3 DEF Ledger, Balanced, Marked, Processed
  <2>4. CASE \E tx \in Tx : Extend(tx)
    <3>1. UNCHANGED <<stored, Ledger(n)>>
      BY <2>4 DEF Extend, Ledger, ledgers
    <3> QED
      BY <2>3, <3>1, CurrentStays DEF BInv
  <2>5. CASE \E k \in Honest \ {n} : NodeOf(k)
    <3>1. UNCHANGED <<chain, Ledger(n)>>
      BY <2>5, Elsewhere DEF BInv
    <3> QED
      BY <2>3, <3>1 DEF Ledger, Current
  <2>6. CASE Apply(n)
    BY <2>2, <2>6, BalancedApply
  <2>7. CASE Restart(n)
    <3>1. phase[n] = "idle"
      BY <2>7 DEF Restart
    <3>2. /\ phase'[n] = "idle" /\ locked'[n] = Adopted(n)
          /\ UNCHANGED <<escrow, unlocked, released, paid>>
      BY <2>7 DEF Restart, Goto, BInv, TInv, TypeOK
    <3>3. Adopted(n) = locked[n]
      <4>1. escrow[n] + unlocked[n] = locked[n]
        BY <2>2, <3>1 DEF Balanced
      <4>2. escrow[n] \in Nat /\ unlocked[n] \in Nat /\ locked[n] \in Nat
        BY Parameters DEF BInv, TInv, TypeOK
      <4> QED
        BY <4>1, <4>2 DEF Adopted
    <3> QED
      BY <2>2, <3>1, <3>2, <3>3 DEF Balanced, Marked, Processed
  <2>8. CASE UNCHANGED <<chain, stored, phase, ledgers, tally, vset, upsets>>
    BY <2>3, <2>8 DEF Ledger, ledgers, Current
  <2> QED
    BY <2>4, <2>5, <2>6, <2>7, <2>8, BooksTouched DEF BInv, NodeOf
<1> QED
  BY <1>1, TInvStep, LocksOnceStep, RecordedStep DEF BInv

\* Between blocks the escrow of a node is what was locked and not unlocked, wherever it
\* was restarted but in the middle of a block: what Reconcile reads.
THEOREM EscrowIsBacked == Spec => []Backed
<1>1. BInv => Backed
  <2> SUFFICES ASSUME BInv, NEW n \in Honest \ torn, phase[n] = "idle"
               PROVE  unlocked[n] <= locked[n] /\ escrow[n] = locked[n] - unlocked[n]
    BY DEF Backed
  <2>1. escrow[n] + unlocked[n] = locked[n]
    BY DEF BInv, Balanced
  <2>2. escrow[n] \in Nat /\ unlocked[n] \in Nat /\ locked[n] \in Nat
    BY Parameters DEF BInv, TInv, TypeOK
  <2> QED
    BY <2>1, <2>2
<1> QED
  BY <1>1, BInvInit, BInvStep, PTL DEF Spec

\* No such node pays a burn twice, however many attestations the chain carries for it.
THEOREM PaysOnce == Spec => []PaidOnce
<1>1. BInv => PaidOnce
  BY DEF BInv, Marked, PaidOnce
<1> QED
  BY <1>1, BInvInit, BInvStep, PTL DEF Spec

-----------------------------------------------------------------------------
(* The books are a function of the blocks: a history of the books after each *)
(* block of the chain, which every such node is on.                          *)

Book(e, locks, claims, T, V) ==
  [escrow |-> e, recorded |-> locks, released |-> claims, tally |-> T, vset |-> V]

BookOf(n) == Book(escrow[n], recorded[n], released[n], tally[n], vset[n])
Opening == Book(GenesisEscrow, {}, {}, {}, Validator)

\* Whether a claim is due, by the books (Due).
Covers(book, c, T) ==
  /\ Attesters(T, c) \cap book.vset \in Quorum[book.vset]
  /\ ~ \E d \in book.released : d.burn = c.burn
  /\ book.escrow >= Amount[c.burn]

AfterLock(book, l) ==
  IF Supply - book.escrow >= Amount[l]
  THEN Book(book.escrow + Amount[l], book.recorded \cup {l}, book.released, book.tally, book.vset)
  ELSE Book(book.escrow, book.recorded, book.released, book.tally, book.vset)

AfterAttest(book, by, c) ==
  LET T == book.tally \cup {<<by, c>>}
  IN IF Covers(book, c, T)
     THEN Book(book.escrow - Amount[c.burn], book.recorded, book.released \cup {c}, T, book.vset)
     ELSE Book(book.escrow, book.recorded, book.released, T, book.vset)

AfterLeave(book, by) ==
  Book(book.escrow, book.recorded, book.released, book.tally, book.vset \ {by})

\* The books after one more block.
After(book, tx) ==
  CASE tx.kind = "lock" -> AfterLock(book, tx.lock)
    [] tx.kind = "attest" -> AfterAttest(book, tx.by, tx.claim)
    [] tx.kind = "leave" -> AfterLeave(book, tx.by)

IsHistory(h) ==
  /\ h[0] = Opening
  /\ \A k \in 1 .. Len(chain) : h[k] = After(h[k - 1], chain[k])
  /\ \A k \in 0 .. Len(chain) : h[k].tally = Attestations(k)

\* How the books of a node stand to the history, while it applies a block and
\* between blocks.
On(h, n) ==
  /\ phase[n] = "idle" => BookOf(n) = h[stored[n]]
  /\ phase[n] = "move" => BookOf(n) = h[stored[n] - 1]
  /\ phase[n] = "record" /\ Current(n).kind = "lock" =>
       h[stored[n]] = Book(escrow[n], recorded[n] \cup {Current(n).lock}, released[n], tally[n], vset[n])
  /\ phase[n] = "record" /\ Current(n).kind = "attest" =>
       h[stored[n]] = Book(escrow[n], recorded[n], released[n] \cup {Current(n).claim}, tally[n], vset[n])
  /\ phase[n] = "finish" => BookOf(n) = h[stored[n]] /\ Current(n).kind # "leave"

Followed == \E h : IsHistory(h) /\ \A n \in Honest \ torn : On(h, n)

HInv == TInv /\ Followed

LEMMA HInvInit == Init => HInv
<1> SUFFICES ASSUME Init PROVE HInv
  OBVIOUS
<1> DEFINE h == [k \in {0} |-> Opening]
<1>1. Attestations(0) = {}
  BY DEF Attestations
<1>2. Len(chain) = 0
  BY DEF Init
<1>3. IsHistory(h)
  <2>1. h[0] = Opening /\ Opening.tally = {}
    BY DEF Opening, Book
  <2>2. 1 .. Len(chain) = {} /\ \A k \in 0 .. Len(chain) : k = 0
    BY <1>2
  <2> HIDE DEF h
  <2> QED
    BY <1>1, <2>1, <2>2 DEF IsHistory
<1>4. \A n \in Honest \ torn : On(h, n)
  BY DEF Init, On, BookOf, Opening, Book
<1> QED
  BY <1>3, <1>4, TInvInit DEF HInv, Followed

\* A new block makes the history one longer.
LEMMA HistoryExtends ==
  ASSUME TInv, NEW tx \in Tx, Extend(tx), NEW h, IsHistory(h)
  PROVE  \E g : IsHistory(g)' /\ \A k \in 0 .. Len(chain) : g[k] = h[k]
<1>0. PICK size : size = Len(chain)
  OBVIOUS
<1> DEFINE g == [k \in 0 .. size + 1 |-> IF k <= size THEN h[k] ELSE After(h[size], tx)]
<1>1. size \in Nat /\ Len(chain') = size + 1
      /\ (\A i \in 1 .. size : chain'[i] = chain[i]) /\ chain'[size + 1] = tx
  BY <1>0, Extended DEF TInv, TypeOK
<1>2. \A k \in 0 .. size : g[k] = h[k]
  BY <1>1
<1>3. g[size + 1] = After(h[size], tx)
  BY <1>1
<1>4. \A k \in 0 .. size : Attestations(k)' = Attestations(k)
  BY <1>1 DEF Attestations
<1>5. Attestations(size + 1)' = IF tx.kind = "attest" THEN Attestations(size) \cup {<<tx.by, tx.claim>>}
                                ELSE Attestations(size)
  <2>1. \A p : p \in Attestations(size)
          <=> \E i \in 1 .. size : chain[i].kind = "attest" /\ p = <<chain[i].by, chain[i].claim>>
    BY DEF Attestations
  <2>2. \A p : p \in Attestations(size + 1)'
          <=> \E i \in 1 .. size + 1 : chain'[i].kind = "attest" /\ p = <<chain'[i].by, chain'[i].claim>>
    BY DEF Attestations
  <2>3. 1 .. (size + 1) = (1 .. size) \cup {size + 1}
    BY <1>1, OneMore
  <2>4. \A p : p \in Attestations(size + 1)'
          <=> p \in Attestations(size) \/ (tx.kind = "attest" /\ p = <<tx.by, tx.claim>>)
    BY <1>1, <2>1, <2>2, <2>3
  <2> QED
    BY <2>4
<1>6. h[size].tally = Attestations(size)
  BY <1>0, <1>1 DEF IsHistory
<1>7. After(h[size], tx).tally = Attestations(size + 1)'
  BY <1>5, <1>6, Kinds DEF After, AfterLock, AfterAttest, AfterLeave, Book
<1> HIDE DEF g
<1>8. IsHistory(g)'
  <2>1. g[0] = Opening
    BY <1>1, <1>2 DEF IsHistory
  <2>2. ASSUME NEW k \in 1 .. size + 1
        PROVE  g[k] = After(g[k - 1], chain'[k])
    <3>1. CASE k \in 1 .. size
      <4>1. h[k] = After(h[k - 1], chain[k])
        BY <1>0, <3>1 DEF IsHistory
      <4>2. k - 1 \in 0 .. size /\ k \in 0 .. size
        BY <1>1, <3>1
      <4> QED
        BY <1>1, <1>2, <3>1, <4>1, <4>2
    <3>2. CASE k = size + 1
      <4>1. k - 1 = size
        BY <1>1, <3>2
      <4> QED
        BY <1>1, <1>2, <1>3, <3>2, <4>1
    <3> QED
      BY <1>1, <3>1, <3>2
  <2>3. ASSUME NEW k \in 0 .. size + 1
        PROVE  g[k].tally = Attestations(k)'
    <3>1. CASE k \in 0 .. size
      BY <1>2, <1>4, <1>0, <3>1 DEF IsHistory
    <3>2. CASE k = size + 1
      BY <1>3, <1>7, <3>2
    <3> QED
      BY <1>1, <3>1, <3>2
  <2> QED
    BY <1>1, <2>1, <2>2, <2>3 DEF IsHistory
<1> QED
  BY <1>0, <1>2, <1>8

\* A node that applies a block goes from one book of the history to the next.
LEMMA OnApply ==
  ASSUME TInv, NEW h, IsHistory(h), NEW n \in Honest, On(h, n), Apply(n)
  PROVE  On(h, n)'
<1>1. /\ escrow \in [Honest -> 0 .. Supply] /\ Supply \in Nat
      /\ phase \in [Honest -> Phase] /\ recorded \in [Honest -> SUBSET Lock]
      /\ released \in [Honest -> SUBSET Claim]
      /\ stored \in [Honest -> 0 .. Len(chain)] /\ Len(chain) \in Nat
      /\ tally \in [Honest -> SUBSET (Validator \X Claim)]
      /\ vset \in [Honest -> ValidatorSets]
  BY Parameters DEF TInv, TypeOK
<1>2. chain' = chain
  BY DEF Apply, CommitBlock, MoveLock, RecordLock, Attested, MarkBurn, Finish
<1>3. stored'[n] = stored[n] => Current(n)' = Current(n)
  BY <1>2 DEF Current
<1>4. phase[n] # "idle" =>
        /\ Current(n) \in Tx
        /\ h[stored[n]] = After(h[stored[n] - 1], Current(n))
  BY Applied DEF IsHistory, Current
<1>5. CASE CommitBlock(n)
  <2>1. /\ phase[n] = "idle" /\ phase'[n] = "move" /\ stored'[n] = stored[n] + 1
        /\ BookOf(n)' = BookOf(n)
    BY <1>1, <1>5 DEF CommitBlock, Goto, BookOf, ledgers
  <2>2. stored'[n] - 1 = stored[n]
    BY <1>1, <2>1
  <2> QED
    BY <2>1, <2>2 DEF On
<1>6. CASE MoveLock(n)
  <2>1. /\ phase[n] = "move" /\ Current(n).kind = "lock" /\ stored'[n] = stored[n]
        /\ UNCHANGED <<recorded, released, tally, vset>>
        /\ IF Supply - escrow[n] >= Amount[Current(n).lock]
           THEN escrow'[n] = escrow[n] + Amount[Current(n).lock] /\ phase'[n] = "record"
           ELSE escrow'[n] = escrow[n] /\ phase'[n] = "finish"
    BY <1>1, <1>6 DEF MoveLock, Goto
  <2>2. h[stored[n]] = AfterLock(BookOf(n), Current(n).lock)
    BY <1>4, <2>1 DEF On, After
  <2> QED
    BY <1>3, <2>1, <2>2 DEF On, AfterLock, BookOf, Book
<1>7. CASE RecordLock(n)
  <2>1. /\ phase[n] = "record" /\ Current(n).kind = "lock" /\ phase'[n] = "finish"
        /\ stored'[n] = stored[n] /\ UNCHANGED <<escrow, released, tally, vset>>
        /\ recorded'[n] = recorded[n] \cup {Current(n).lock}
    BY <1>1, <1>7 DEF RecordLock, Goto
  <2> QED
    BY <1>3, <2>1 DEF On, BookOf
<1>8. CASE Attested(n)
  <2> DEFINE c == Current(n).claim
             T == tally[n] \cup {<<Current(n).by, c>>}
  <2>1. /\ phase[n] = "move" /\ Current(n).kind = "attest" /\ stored'[n] = stored[n]
        /\ UNCHANGED <<recorded, released, vset>> /\ tally'[n] = T
        /\ IF Due(n, c, T)
           THEN escrow'[n] = escrow[n] - Amount[c.burn] /\ phase'[n] = "record"
           ELSE escrow'[n] = escrow[n] /\ phase'[n] = "finish"
    BY <1>1, <1>8 DEF Attested, Goto
  <2>2. h[stored[n]] = AfterAttest(BookOf(n), Current(n).by, c)
    BY <1>4, <2>1 DEF On, After
  <2>3. Covers(BookOf(n), c, T) <=> Due(n, c, T)
    BY DEF Covers, Due, Processed, BookOf, Book
  <2>4. h[stored[n]] =
          IF Due(n, c, T)
          THEN Book(escrow[n] - Amount[c.burn], recorded[n], released[n] \cup {c}, T, vset[n])
          ELSE Book(escrow[n], recorded[n], released[n], T, vset[n])
    BY <2>2, <2>3 DEF AfterAttest, BookOf, Book
  <2> HIDE DEF T
  <2> QED
    BY <1>3, <2>1, <2>4 DEF On, BookOf
<1>9. CASE MarkBurn(n)
  <2>1. /\ phase[n] = "record" /\ Current(n).kind = "attest" /\ phase'[n] = "finish"
        /\ stored'[n] = stored[n] /\ UNCHANGED <<escrow, recorded, tally, vset>>
        /\ released'[n] = released[n] \cup {Current(n).claim}
    BY <1>1, <1>9 DEF MarkBurn, Goto
  <2> QED
    BY <1>3, <2>1 DEF On, BookOf
<1>10. CASE Finish(n)
  <2>1. phase'[n] = "idle" /\ stored'[n] = stored[n] /\ UNCHANGED <<escrow, recorded, released, tally>>
    BY <1>1, <1>10 DEF Finish, Goto, ledgers
  <2>2. CASE phase[n] = "finish"
    <3>1. vset' = vset /\ BookOf(n) = h[stored[n]]
      BY <1>10, <2>2 DEF Finish, On
    <3> QED
      BY <2>1, <3>1 DEF On, BookOf
  <2>3. CASE phase[n] = "move" /\ Current(n).kind = "leave"
    <3>1. vset'[n] = vset[n] \ {Current(n).by}
      BY <1>1, <1>10, <2>3 DEF Finish
    <3>2. h[stored[n]] = AfterLeave(BookOf(n), Current(n).by)
      BY <1>4, <2>3 DEF On, After
    <3>3. h[stored[n]] = Book(escrow[n], recorded[n], released[n], tally[n], vset[n] \ {Current(n).by})
      BY <3>2 DEF AfterLeave, BookOf, Book
    <3> QED
      BY <2>1, <3>1, <3>3 DEF On, BookOf
  <2> QED
    BY <1>10, <2>2, <2>3 DEF Finish
<1> QED
  BY <1>5, <1>6, <1>7, <1>8, <1>9, <1>10 DEF Apply

LEMMA HInvStep == HInv /\ [Next]_vars => HInv'
<1> SUFFICES ASSUME HInv, [Next]_vars PROVE Followed'
  BY TInvStep DEF HInv
<1> USE DEF HInv
<1>1. PICK h : IsHistory(h) /\ \A n \in Honest \ torn : On(h, n)
  BY DEF Followed
<1>2. \A n \in Honest : stored[n] \in 0 .. Len(chain) /\ (phase[n] # "idle" => stored[n] - 1 \in 0 .. Len(chain))
  BY DEF TInv, TypeOK, Begun
<1>3. chain' = chain => IsHistory(h)'
  BY <1>1 DEF IsHistory, Attestations
<1>4. ASSUME NEW g, \A k \in 0 .. Len(chain) : g[k] = h[k],
             NEW n \in Honest \ torn, UNCHANGED Ledger(n),
             phase[n] # "idle" => Current(n)' = Current(n)
      PROVE  On(g, n)'
  <2>1. /\ g[stored[n]] = h[stored[n]]
        /\ phase[n] # "idle" => g[stored[n] - 1] = h[stored[n] - 1]
    BY <1>2, <1>4
  <2>2. On(h, n)
    BY <1>1
  <2> QED
    BY <1>4, <2>1, <2>2 DEF On, Ledger, BookOf
<1>5. CASE \E tx \in Tx : Extend(tx)
  <2>1. PICK g : IsHistory(g)' /\ \A k \in 0 .. Len(chain) : g[k] = h[k]
    BY <1>1, <1>5, HistoryExtends
  <2>2. UNCHANGED <<stored, torn>> /\ \A n \in Honest : UNCHANGED Ledger(n)
    BY <1>5 DEF Extend, Ledger, ledgers, upsets
  <2>3. \A n \in Honest \ torn' : On(g, n)'
    BY <1>4, <2>1, <2>2, CurrentStays
  <2> QED
    BY <2>1, <2>3 DEF Followed
<1>6. ASSUME NEW k \in Honest, Apply(k) \/ Restart(k)
      PROVE  Followed'
  <2>1. chain' = chain
    BY <1>6 DEF Apply, CommitBlock, MoveLock, RecordLock, Attested, MarkBurn, Finish, Restart
  <2>2. ASSUME NEW n \in Honest \ torn', n # k
        PROVE  On(h, n)'
    <3>1. UNCHANGED Ledger(n) /\ n \notin torn
      BY <1>6, <2>2, Elsewhere DEF NodeOf
    <3> QED
      BY <1>4, <2>1, <3>1 DEF Ledger, Current
  <2>3. ASSUME k \notin torn'
        PROVE  On(h, k)'
    <3>1. CASE Apply(k)
      <4>1. k \notin torn
        BY <2>3, <3>1 DEF Apply, CommitBlock, MoveLock, RecordLock, Attested, MarkBurn, Finish, upsets
      <4> QED
        BY <1>1, <3>1, <4>1, OnApply
    <3>2. CASE Restart(k)
      <4>1. phase[k] = "idle" /\ k \notin torn
        BY <2>3, <3>2 DEF Restart
      <4>2. /\ phase'[k] = "idle" /\ tally'[k] = Attestations(stored[k])
            /\ UNCHANGED <<escrow, recorded, released, vset, stored>>
        BY <3>2 DEF Restart, Goto, TInv, TypeOK
      <4>3. BookOf(k) = h[stored[k]] /\ h[stored[k]].tally = Attestations(stored[k])
        BY <1>1, <1>2, <4>1 DEF On, IsHistory
      <4>4. tally[k] = Attestations(stored[k])
        BY <4>3 DEF BookOf, Book
      <4> QED
        BY <4>2, <4>3, <4>4 DEF On, BookOf
    <3> QED
      BY <1>6, <3>1, <3>2
  <2> QED
    BY <1>3, <2>1, <2>2, <2>3 DEF Followed
<1>7. CASE UNCHANGED <<chain, stored, phase, ledgers, tally, vset, upsets>>
  <2>1. \A n \in Honest : UNCHANGED Ledger(n) /\ Current(n)' = Current(n)
    BY <1>7 DEF Ledger, ledgers, Current
  <2>2. \A n \in Honest \ torn' : On(h, n)'
    BY <1>4, <1>7, <2>1 DEF upsets
  <2> QED
    BY <1>3, <1>7, <2>2 DEF Followed
<1> QED
  BY <1>5, <1>6, <1>7, BooksTouched

\* Nodes that have applied the same blocks keep the same books, wherever they restarted
\* but in the middle of a block: the same escrow, locks and releases.
THEOREM BooksAgree == Spec => []SameBooks
<1>1. HInv => SameBooks
  <2> SUFFICES ASSUME HInv, NEW m \in Honest \ torn, NEW n \in Honest \ torn,
                      phase[m] = "idle", phase[n] = "idle", stored[m] = stored[n]
               PROVE  /\ escrow[m] = escrow[n]
                      /\ released[m] = released[n]
                      /\ recorded[m] = recorded[n]
    BY DEF SameBooks
  <2>1. BookOf(m) = BookOf(n)
    BY DEF HInv, Followed, On
  <2> QED
    BY <2>1 DEF BookOf, Book
<1> QED
  BY <1>1, HInvInit, HInvStep, PTL DEF Spec

-----------------------------------------------------------------------------
(* One-to-one backing across both chains: what was minted was locked, at every *)
(* node that has applied the whole chain.                                      *)

\* Lock l was committed to a ledger that could pay it: the escrow before its block is the
\* block's state root.
Funded(l) == \E i \in 1 .. Len(chain) : chain[i] = LockTx(l) /\ Supply - root[i] >= Amount[l]

\* Any node that applies a block, restarted or not, agrees with the block's state root.
AtRoot(n) ==
  /\ phase[n] = "move" => escrow[n] = root[stored[n]]
  /\ phase[n] = "record" /\ Current(n).kind = "lock" =>
       Supply - root[stored[n]] >= Amount[Current(n).lock]

RecordsFunded == \A n \in Honest : AtRoot(n) /\ \A l \in recorded[n] : Funded(l)
MintsFunded == \A l \in Minted : Funded(l)

\* A node that was never restarted in the middle of a block has recorded every funded lock
\* of the blocks it has applied.
Complete(n) ==
  \A i \in 1 .. stored[n] :
    chain[i].kind = "lock" /\ Supply - root[i] >= Amount[chain[i].lock] =>
      chain[i].lock \in recorded[n] \/ (i = stored[n] /\ phase[n] \in {"move", "record"})

BurnsPaid(n) == {c.burn : c \in released[n]}

\* Its totals are the sums of what it has recorded and released, each burn counted once.
Summed(n) ==
  /\ Counts(Amount, recorded[n]) /\ locked[n] = GenesisEscrow + Total(Amount, recorded[n])
  /\ Counts(Amount, BurnsPaid(n)) /\ unlocked[n] = Total(Amount, BurnsPaid(n))
  /\ phase[n] = "record" /\ Current(n).kind = "attest" => ~Processed(n, Current(n).claim.burn)

\* What minting relies on: the faulty attestors are too few to mint alone.
FewFaulty == IsFiniteSet(Faulty) /\ Cardinality(Faulty) < Threshold

SInv ==
  /\ RInv /\ BInv
  /\ RecordsFunded /\ MintsFunded
  /\ \A n \in Honest \ torn : Complete(n) /\ Summed(n)

LEMMA SInvInit == Init => SInv
<1> SUFFICES ASSUME Init PROVE SInv
  OBVIOUS
<1>1. RecordsFunded /\ MintsFunded
  BY DEF Init, RecordsFunded, MintsFunded, AtRoot, Minted
<1>2. ASSUME NEW n \in Honest PROVE Complete(n) /\ Summed(n)
  <2>1. recorded[n] = {} /\ BurnsPaid(n) = {} /\ stored[n] = 0 /\ phase[n] = "idle"
    BY DEF Init, BurnsPaid
  <2>2. Counts(Amount, {}) /\ Total(Amount, {}) = 0
    BY TotalEmpty, FS_EmptySet DEF Counts
  <2>3. locked[n] = GenesisEscrow + 0 /\ unlocked[n] = 0
    BY Parameters DEF Init
  <2> QED BY <2>1, <2>2, <2>3 DEF Complete, Summed
<1> QED BY <1>1, <1>2, RInvInit, BInvInit DEF SInv

\* The state root of a block stays what it was.
LEMMA RootsStay ==
  ASSUME TInv, [Next]_vars
  PROVE  /\ \A i \in 1 .. Len(chain) : chain'[i] = chain[i] /\ root'[i] = root[i]
         /\ Len(chain') >= Len(chain) /\ Len(chain) \in Nat /\ Len(chain') \in Nat
<1>1. chain \in Seq(Tx) /\ root \in Seq(0 .. Supply) /\ Len(root) = Len(chain)
  BY DEF TInv, TypeOK
<1>2. CASE \E tx \in Tx : Extend(tx)
  <2>1. PICK tx \in Tx : Extend(tx)
    BY <1>2
  <2>2. PICK r \in 0 .. Supply : root' = Append(root, r)
    BY <2>1 DEF Extend
  <2>3. \A i \in 1 .. Len(chain) : root'[i] = root[i]
    BY <1>1, <2>2
  <2> QED BY <1>1, <2>1, <2>3, Extended
<1>3. CASE UNCHANGED <<chain, root>>
  BY <1>1, <1>3
<1>4. UNCHANGED <<chain, root>> \/ \E tx \in Tx : Extend(tx)
  BY DEF Next, vars, Ethereum, Mint, BurnWrapped, Mine, Reorg, NodeOf, Apply, SubmitLock, Watch,
     CommitBlock, MoveLock, RecordLock, Attested, MarkBurn, Finish, Restart
<1> QED BY <1>2, <1>3, <1>4

LEMMA FundedStays ==
  ASSUME TInv, [Next]_vars, NEW l, Funded(l)
  PROVE  Funded(l)'
<1>1. PICK i \in 1 .. Len(chain) : chain[i] = LockTx(l) /\ Supply - root[i] >= Amount[l]
  BY DEF Funded
<1>2. i \in 1 .. Len(chain')
  BY RootsStay
<1>3. chain'[i] = LockTx(l) /\ Supply - root'[i] >= Amount[l]
  BY <1>1, RootsStay
<1> QED BY <1>2, <1>3 DEF Funded

\* The books of a node change in its own steps only.
LEMMA StepsOf ==
  ASSUME TInv, [Next]_vars, NEW n \in Honest
  PROVE  \/ Apply(n)
         \/ Restart(n)
         \/ /\ UNCHANGED Ledger(n) /\ (n \in torn' <=> n \in torn)
            /\ phase[n] # "idle" => Current(n)' = Current(n)
<1>1. CASE \E tx \in Tx : Extend(tx)
  <2>1. UNCHANGED Ledger(n) /\ torn' = torn
    BY <1>1 DEF Extend, Ledger, ledgers, upsets
  <2>2. stored'[n] = stored[n]
    BY <2>1 DEF Ledger
  <2> QED BY <2>1, <2>2, CurrentStays
<1>2. CASE \E k \in Honest \ {n} : NodeOf(k)
  <2>1. UNCHANGED <<chain, Ledger(n)>> /\ (n \in torn' <=> n \in torn)
    BY <1>2, Elsewhere
  <2> QED BY <2>1 DEF Ledger, Current
<1>3. CASE UNCHANGED <<chain, stored, phase, ledgers, tally, vset, upsets>>
  BY <1>3 DEF Ledger, ledgers, upsets, Current
<1> QED BY <1>1, <1>2, <1>3, BooksTouched DEF NodeOf

LEMMA RecordsFundedStep == SInv /\ [Next]_vars => RecordsFunded'
<1> SUFFICES ASSUME SInv, [Next]_vars, NEW n \in Honest
             PROVE  AtRoot(n)' /\ \A l \in recorded'[n] : Funded(l)'
  BY DEF RecordsFunded
<1>0. TInv /\ RecordsFunded
  BY DEF SInv, RInv
<1>1. /\ phase \in [Honest -> Phase] /\ stored \in [Honest -> 0 .. Len(chain)] /\ Len(chain) \in Nat
      /\ escrow \in [Honest -> 0 .. Supply] /\ recorded \in [Honest -> SUBSET Lock]
      /\ Supply \in Nat
  BY <1>0, Parameters DEF TInv, TypeOK
<1>2. AtRoot(n) /\ \A l \in recorded[n] : Funded(l)
  BY <1>0 DEF RecordsFunded
<1>3. \A l : Funded(l) => Funded(l)'
  BY <1>0, FundedStays
<1>4. CASE UNCHANGED Ledger(n) /\ (phase[n] # "idle" => Current(n)' = Current(n))
  <2>1. UNCHANGED <<stored[n], phase[n], escrow[n], recorded[n]>>
    BY <1>4 DEF Ledger
  <2>2. phase[n] # "idle" => stored[n] \in 1 .. Len(chain)
    BY <1>0, Applied
  <2>3. phase[n] # "idle" => root'[stored[n]] = root[stored[n]]
    BY <1>0, <2>2, RootsStay
  <2>4. AtRoot(n)'
    BY <1>2, <1>4, <2>1, <2>3 DEF AtRoot
  <2> QED BY <1>2, <1>3, <2>1, <2>4
<1>5. CASE CommitBlock(n)
  <2>1. /\ phase'[n] = "move" /\ escrow' = escrow /\ root' = root /\ stored'[n] = stored[n] + 1
        /\ escrow[n] = root[stored[n] + 1] /\ recorded' = recorded
    BY <1>1, <1>5 DEF CommitBlock, Goto, ledgers
  <2>2. AtRoot(n)'
    BY <2>1 DEF AtRoot
  <2> QED BY <1>2, <1>3, <2>1, <2>2
<1>6. CASE MoveLock(n)
  <2>1. /\ phase[n] = "move" /\ UNCHANGED <<chain, root, stored, recorded>>
        /\ IF Supply - escrow[n] >= Amount[Current(n).lock]
           THEN phase'[n] = "record" ELSE phase'[n] = "finish"
    BY <1>1, <1>6 DEF MoveLock, Goto
  <2>2. escrow[n] = root[stored[n]] /\ Current(n)' = Current(n)
    BY <1>2, <2>1 DEF AtRoot, Current
  <2>3. AtRoot(n)'
    BY <2>1, <2>2 DEF AtRoot
  <2> QED BY <1>2, <1>3, <2>1, <2>3
<1>7. CASE RecordLock(n)
  <2>1. /\ phase[n] = "record" /\ Current(n).kind = "lock" /\ phase'[n] = "finish"
        /\ recorded'[n] = recorded[n] \cup {Current(n).lock}
    BY <1>1, <1>7 DEF RecordLock, Goto
  <2>2. /\ stored[n] \in 1 .. Len(chain) /\ Current(n) = chain[stored[n]]
        /\ Current(n) = LockTx(Current(n).lock)
    BY <1>0, <2>1, Applied, Kinds DEF Current
  <2>3. Supply - root[stored[n]] >= Amount[Current(n).lock]
    BY <1>2, <2>1 DEF AtRoot
  <2>4. Funded(Current(n).lock)
    BY <2>2, <2>3 DEF Funded
  <2>5. AtRoot(n)'
    BY <2>1 DEF AtRoot
  <2> QED BY <1>2, <1>3, <2>1, <2>4, <2>5
<1>8. CASE Attested(n)
  <2>1. /\ Current(n).kind = "attest" /\ UNCHANGED <<chain, stored, recorded>>
        /\ phase'[n] \in {"record", "finish"}
    BY <1>1, <1>8 DEF Attested, Goto
  <2>2. Current(n)' = Current(n)
    BY <2>1 DEF Current
  <2>3. AtRoot(n)'
    BY <2>1, <2>2 DEF AtRoot
  <2> QED BY <1>2, <1>3, <2>1, <2>3
<1>9. CASE MarkBurn(n) \/ Finish(n) \/ Restart(n)
  <2>1. phase'[n] \in {"finish", "idle"} /\ recorded' = recorded
    BY <1>1, <1>9 DEF MarkBurn, Finish, Restart, Goto, ledgers
  <2>2. AtRoot(n)'
    BY <2>1 DEF AtRoot
  <2> QED BY <1>2, <1>3, <2>1, <2>2
<1> QED BY <1>0, <1>4, <1>5, <1>6, <1>7, <1>8, <1>9, StepsOf DEF Apply

\* One of the attestors of a mint is honest and has recorded the lock.
LEMMA MintsFundedStep ==
  ASSUME FewFaulty, SInv, [Next]_vars
  PROVE  MintsFunded'
<1>0. TInv /\ RecordsFunded /\ MintsFunded
  BY DEF SInv, RInv
<1> SUFFICES ASSUME NEW l \in Minted' PROVE Funded(l)
  BY <1>0, FundedStays DEF MintsFunded
<1>1. CASE l \in Minted
  BY <1>0, <1>1 DEF MintsFunded
<1>2. ASSUME l \notin Minted PROVE Mint(l)
  <2>1. PICK i \in DOMAIN eth' : eth'[i] = MintOf(l)
    BY DEF Minted
  <2>2. l \in Lock
    BY DEF Minted
  <2>3. \A j \in DOMAIN eth : eth[j] # MintOf(l)
    BY <1>2, <2>2 DEF Minted
  <2>4. eth' # eth
    BY <2>1, <2>3
  <2>5. ~ UNCHANGED vars
    BY <2>4 DEF vars
  <2>6. Ethereum
    BY <2>4, <2>5 DEF Next, Extend, NodeOf, Apply, SubmitLock, Watch,
       CommitBlock, MoveLock, RecordLock, Attested, MarkBurn, Finish, Restart
  <2>7. ASSUME NEW e, Mine(e) PROVE e = MintOf(l)
    <3>1. eth \in Seq(Event) /\ eth' = Append(eth, e)
      BY <1>0, <2>7 DEF Mine, TInv, TypeOK
    <3>2. DOMAIN eth = 1 .. Len(eth) /\ DOMAIN eth' = 1 .. (Len(eth) + 1) /\ Len(eth) \in Nat
          /\ (\A j \in 1 .. Len(eth) : eth'[j] = eth[j]) /\ eth'[Len(eth) + 1] = e
      BY <3>1, AppendProperties
    <3>3. i \notin DOMAIN eth
      BY <2>1, <2>3, <3>2
    <3>4. i = Len(eth) + 1
      BY <2>1, <3>2, <3>3
    <3> QED BY <2>1, <3>2, <3>4
  <2>8. ~Reorg
    BY <2>1, <2>3 DEF Reorg, MintOf, Empty
  <2>9. CASE \E k \in Lock : Mint(k)
    BY <2>7, <2>9 DEF Mint, MintOf
  <2>10. ~ \E b \in Burn : BurnWrapped(b)
    BY <2>7 DEF BurnWrapped, BurnOf, MintOf
  <2>11. ~ Mine(Empty)
    BY <2>7 DEF Empty, MintOf
  <2> QED BY <2>6, <2>8, <2>9, <2>10, <2>11 DEF Ethereum
<1>3. ASSUME Mint(l) PROVE Funded(l)
  <2>1. Cardinality(Signers(l)) >= Threshold
    BY <1>3 DEF Mint
  <2>2. Cardinality(Faulty) = Cardinality(Signers(l)) => FALSE
    <3> SUFFICES ASSUME Cardinality(Faulty) = Cardinality(Signers(l)) PROVE FALSE
      OBVIOUS
    <3>1. Cardinality(Faulty) \in Nat /\ Threshold \in Nat
      BY BridgeAssumption, FS_CardinalityType DEF FewFaulty
    <3> QED BY <2>1, <3>1 DEF FewFaulty
  <2>3. Signers(l) # Faulty
    BY <2>2
  <2>4. PICK n \in Honest : l \in recorded[n]
    BY <2>3 DEF Signers
  <2> QED BY <1>0, <2>4 DEF RecordsFunded
<1> QED BY <1>1, <1>2, <1>3

LEMMA CompleteStep ==
  ASSUME SInv, [Next]_vars, NEW n \in Honest \ torn, n \notin torn'
  PROVE  Complete(n)'
<1>0. TInv /\ RecordsFunded /\ Complete(n)
  BY DEF SInv, RInv
<1>1. /\ phase \in [Honest -> Phase] /\ stored \in [Honest -> 0 .. Len(chain)] /\ Len(chain) \in Nat
      /\ escrow \in [Honest -> 0 .. Supply] /\ recorded \in [Honest -> SUBSET Lock]
      /\ stored[n] \in 0 .. Len(chain) /\ n \in Honest
  BY <1>0 DEF TInv, TypeOK
<1>2. \A i \in 1 .. stored[n] : chain'[i] = chain[i] /\ root'[i] = root[i]
  BY <1>0, <1>1, RootsStay
<1>3. phase[n] # "idle" => stored[n] \in 1 .. Len(chain) /\ Current(n) = chain[stored[n]]
  BY <1>0, Applied DEF Current
\* The blocks before the last are where they were, and nothing recorded is lost.
<1>4. ASSUME stored'[n] = stored[n], recorded[n] \subseteq recorded'[n],
             phase[n] \in {"move", "record"} =>
               \/ phase'[n] \in {"move", "record"}
               \/ /\ Current(n).kind = "lock" /\ Supply - root[stored[n]] >= Amount[Current(n).lock]
                     => Current(n).lock \in recorded'[n]
      PROVE  Complete(n)'
  <2> SUFFICES ASSUME NEW i \in 1 .. stored[n], chain[i].kind = "lock",
                      Supply - root[i] >= Amount[chain[i].lock]
               PROVE  \/ chain[i].lock \in recorded'[n]
                      \/ i = stored[n] /\ phase'[n] \in {"move", "record"}
    BY <1>2, <1>4 DEF Complete
  <2>1. chain[i].lock \in recorded[n] \/ (i = stored[n] /\ phase[n] \in {"move", "record"})
    BY <1>0 DEF Complete
  <2>2. CASE i = stored[n] /\ phase[n] \in {"move", "record"}
    BY <1>3, <1>4, <2>2
  <2> QED BY <1>4, <2>1, <2>2
<1>5. CASE UNCHANGED Ledger(n)
  <2>1. UNCHANGED <<stored[n], phase[n], recorded[n]>>
    BY <1>5 DEF Ledger
  <2> QED BY <1>4, <2>1
<1>6. CASE CommitBlock(n)
  <2>1. phase[n] = "idle" /\ phase'[n] = "move" /\ stored'[n] = stored[n] + 1 /\ recorded' = recorded
        /\ chain' = chain /\ root' = root
    BY <1>1, <1>6 DEF CommitBlock, Goto, ledgers
  <2> SUFFICES ASSUME NEW i \in 1 .. stored[n] + 1, chain[i].kind = "lock",
                      Supply - root[i] >= Amount[chain[i].lock]
               PROVE  chain[i].lock \in recorded[n] \/ i = stored[n] + 1
    BY <2>1 DEF Complete
  <2>2. i \in 1 .. stored[n] \/ i = stored[n] + 1
    BY <1>1
  <2> QED BY <1>0, <2>1, <2>2 DEF Complete
<1>7. CASE MoveLock(n)
  <2>1. /\ phase[n] = "move" /\ UNCHANGED <<stored, recorded>>
        /\ IF Supply - escrow[n] >= Amount[Current(n).lock]
           THEN phase'[n] = "record" ELSE phase'[n] = "finish"
    BY <1>1, <1>7 DEF MoveLock, Goto
  <2>2. escrow[n] = root[stored[n]]
    BY <1>0, <1>1, <2>1 DEF RecordsFunded, AtRoot
  <2> QED BY <1>4, <2>1, <2>2
<1>8. CASE RecordLock(n)
  <2>1. /\ phase[n] = "record" /\ stored' = stored
        /\ recorded'[n] = recorded[n] \cup {Current(n).lock}
    BY <1>1, <1>8 DEF RecordLock, Goto
  <2> QED BY <1>4, <2>1
<1>9. CASE Attested(n) \/ MarkBurn(n)
  <2>1. UNCHANGED <<stored, recorded>> /\ Current(n).kind = "attest"
    BY <1>9 DEF Attested, MarkBurn
  <2> QED BY <1>4, <2>1
<1>10. CASE Finish(n)
  <2>1. UNCHANGED <<stored, recorded>> /\ (phase[n] = "finish" \/ Current(n).kind = "leave")
    BY <1>10 DEF Finish, ledgers
  <2> QED BY <1>4, <2>1
<1>11. CASE Restart(n)
  <2>1. UNCHANGED <<stored, recorded>> /\ phase[n] = "idle"
    BY <1>1, <1>11 DEF Restart
  <2> QED BY <1>4, <2>1
<1> QED BY <1>0, <1>1, <1>5, <1>6, <1>7, <1>8, <1>9, <1>10, <1>11, StepsOf DEF Apply

\* A lock counts once, and so does a burn.
LEMMA SummedStep ==
  ASSUME SInv, [Next]_vars, NEW n \in Honest \ torn, n \notin torn'
  PROVE  Summed(n)'
<1>0. TInv /\ BInv /\ Summed(n) /\ Balanced(n)
  BY DEF SInv, RInv, BInv
<1>1. /\ phase \in [Honest -> Phase] /\ recorded \in [Honest -> SUBSET Lock]
      /\ locked \in [Honest -> Nat] /\ unlocked \in [Honest -> Nat]
      /\ released \in [Honest -> SUBSET Claim] /\ escrow \in [Honest -> 0 .. Supply]
      /\ Supply \in Nat /\ GenesisEscrow \in Nat /\ n \in Honest
      /\ stored \in [Honest -> 0 .. Len(chain)]
      /\ tally \in [Honest -> SUBSET (Validator \X Claim)]
  BY <1>0, Parameters DEF TInv, TypeOK
<1>2. phase[n] # "idle" => Current(n) \in Tx
  BY <1>0, Applied
<1>3. ASSUME UNCHANGED <<locked[n], unlocked[n], recorded[n], released[n]>>,
             phase'[n] = "record" /\ Current(n)'.kind = "attest" =>
               ~Processed(n, Current(n)'.claim.burn)
      PROVE  Summed(n)'
  BY <1>0, <1>3 DEF Summed, BurnsPaid, Processed
<1>4. CASE UNCHANGED Ledger(n) /\ (phase[n] # "idle" => Current(n)' = Current(n))
  <2>1. UNCHANGED <<phase[n], locked[n], unlocked[n], recorded[n], released[n]>>
    BY <1>4 DEF Ledger
  <2> QED BY <1>0, <1>3, <1>4, <2>1 DEF Summed
<1>5. CASE CommitBlock(n)
  <2>1. UNCHANGED <<locked, unlocked, recorded, released>> /\ phase'[n] = "move"
    BY <1>1, <1>5 DEF CommitBlock, Goto, ledgers
  <2> QED BY <1>3, <2>1
<1>6. CASE MoveLock(n)
  <2>1. UNCHANGED <<chain, stored, locked, unlocked, recorded, released>> /\ Current(n).kind = "lock"
    BY <1>1, <1>6 DEF MoveLock
  <2>2. Current(n)' = Current(n)
    BY <2>1 DEF Current
  <2> QED BY <1>3, <2>1, <2>2
<1>7. CASE RecordLock(n)
  <2> DEFINE l == Current(n).lock
  <2>1. /\ phase[n] = "record" /\ Current(n).kind = "lock" /\ phase'[n] = "finish"
        /\ UNCHANGED <<unlocked, released>>
        /\ recorded'[n] = recorded[n] \cup {l}
        /\ locked'[n] = locked[n] + Amount[l]
    BY <1>0, <1>1, <1>7, RecordsNew DEF RecordLock, Goto
  <2>2. l \notin recorded[n] /\ l \in Lock
    BY <1>0, <1>2, <1>7, <2>1, RecordsNew, Kinds
  <2>3. Amount[l] \in Nat
    BY <2>2, Parameters
  <2> HIDE DEF l
  <2>4. Counts(Amount, recorded[n]) /\ locked[n] = GenesisEscrow + Total(Amount, recorded[n])
    BY <1>0 DEF Summed
  <2>5. Total(Amount, recorded[n]) \in Nat
    BY <2>4, TotalType
  <2>6. /\ Total(Amount, recorded[n] \cup {l}) = Total(Amount, recorded[n]) + Amount[l]
        /\ Counts(Amount, recorded[n] \cup {l})
    BY <2>2, <2>3, <2>4, TotalAdd
  <2>7. locked'[n] = GenesisEscrow + Total(Amount, recorded[n] \cup {l})
    BY <1>1, <2>1, <2>3, <2>4, <2>5, <2>6
  <2>8. Counts(Amount, recorded'[n]) /\ locked'[n] = GenesisEscrow + Total(Amount, recorded'[n])
    BY <2>1, <2>6, <2>7
  <2>9. BurnsPaid(n)' = BurnsPaid(n)
    BY <2>1 DEF BurnsPaid
  <2> QED BY <1>0, <2>1, <2>8, <2>9 DEF Summed
<1>8. CASE Attested(n)
  <2> DEFINE c == Current(n).claim
             T == tally[n] \cup {<<Current(n).by, c>>}
  <2>1. /\ UNCHANGED <<chain, stored, locked, unlocked, recorded, released>>
        /\ Due(n, c, T) \/ phase'[n] = "finish"
    BY <1>1, <1>8 DEF Attested, Goto
  <2>2. Current(n)' = Current(n)
    BY <2>1 DEF Current
  <2>3. phase'[n] = "record" => ~Processed(n, c.burn)
    BY <2>1 DEF Due
  <2> QED BY <1>3, <2>1, <2>2, <2>3
<1>9. CASE MarkBurn(n)
  <2> DEFINE c == Current(n).claim
             R == BurnsPaid(n)
  <2>1. /\ phase[n] = "record" /\ Current(n).kind = "attest" /\ phase'[n] = "finish"
        /\ UNCHANGED <<locked, recorded>>
        /\ released'[n] = released[n] \cup {c}
        /\ unlocked'[n] = unlocked[n] + Amount[c.burn]
    BY <1>1, <1>9 DEF MarkBurn, Goto
  <2>2. c \in Claim /\ Amount[c.burn] \in Nat
    BY <1>2, <2>1, Kinds, Claims
  <2>3. c.burn \notin R
    BY <1>0, <2>1 DEF Summed, Processed, BurnsPaid
  <2>4. BurnsPaid(n)' = R \cup {c.burn}
    BY <2>1 DEF BurnsPaid
  <2>5. Counts(Amount, R) /\ unlocked[n] = Total(Amount, R)
    BY <1>0 DEF Summed
  <2> HIDE DEF c, R
  <2>6. Total(Amount, R \cup {c.burn}) = Total(Amount, R) + Amount[c.burn] /\ Counts(Amount, R \cup {c.burn})
    BY <2>2, <2>3, <2>5, TotalAdd
  <2>7. Counts(Amount, BurnsPaid(n)') /\ unlocked'[n] = Total(Amount, BurnsPaid(n)')
    BY <2>1, <2>4, <2>5, <2>6
  <2>8. Counts(Amount, recorded'[n]) /\ locked'[n] = GenesisEscrow + Total(Amount, recorded'[n])
    BY <1>0, <2>1 DEF Summed
  <2> QED BY <2>1, <2>7, <2>8 DEF Summed
<1>10. CASE Finish(n)
  <2>1. UNCHANGED <<locked, unlocked, recorded, released>> /\ phase'[n] = "idle"
    BY <1>1, <1>10 DEF Finish, Goto, ledgers
  <2> QED BY <1>3, <2>1
<1>11. CASE Restart(n)
  <2>1. phase[n] = "idle" /\ phase'[n] = "idle" /\ locked'[n] = Adopted(n)
        /\ UNCHANGED <<unlocked, recorded, released>>
    BY <1>1, <1>11 DEF Restart, Goto
  <2>2. escrow[n] + unlocked[n] = locked[n] /\ escrow[n] \in Nat /\ unlocked[n] \in Nat
    BY <1>0, <1>1, <2>1 DEF Balanced
  <2>3. Adopted(n) = locked[n]
    BY <1>1, <2>2 DEF Adopted
  <2> QED BY <1>3, <2>1, <2>3
<1> QED BY <1>0, <1>1, <1>4, <1>5, <1>6, <1>7, <1>8, <1>9, <1>10, <1>11, StepsOf DEF Apply

LEMMA SInvStep ==
  ASSUME FewFaulty
  PROVE  SInv /\ [Next]_vars => SInv'
<1> SUFFICES ASSUME SInv, [Next]_vars PROVE SInv'
  OBVIOUS
<1>1. RInv' /\ BInv'
  BY RInvStep, BInvStep DEF SInv
<1>2. RecordsFunded' /\ MintsFunded'
  BY RecordsFundedStep, MintsFundedStep
<1>3. torn \subseteq torn'
  BY DEF Next, vars, upsets, Ethereum, Mint, BurnWrapped, Mine, Reorg, Extend, NodeOf, Apply,
     SubmitLock, Watch, CommitBlock, MoveLock, RecordLock, Attested, MarkBurn, Finish, Restart
<1>4. ASSUME NEW n \in Honest \ torn' PROVE Complete(n)' /\ Summed(n)'
  BY <1>3, CompleteStep, SummedStep
<1> QED BY <1>1, <1>2, <1>4 DEF SInv

\* What Ethereum holds of either kind is finite, and counts.
LEMMA MinedCounts ==
  ASSUME TInv
  PROVE  Counts(Amount, Minted) /\ Counts(Amount, Burned)
<1>1. \A x \in Lock \cup Burn : Amount[x] \in Nat
  BY BridgeAssumption
<1>2. DOMAIN eth = 1 .. Len(eth) /\ IsFiniteSet(1 .. Len(eth))
  BY FS_Interval DEF TInv, TypeOK
<1>3. IsFiniteSet(Minted)
  <2> DEFINE D == {i \in 1 .. Len(eth) : \E l \in Lock : eth[i] = MintOf(l)}
             f == [i \in D |-> eth[i].lock]
  <2>1. IsFiniteSet(D)
    BY <1>2, FS_Subset
  <2>2. \A i \in D : f[i] \in Minted
    BY <1>2 DEF Minted, MintOf
  <2>3. \A l \in Minted : \E i \in D : f[i] = l
    BY <1>2 DEF Minted, MintOf
  <2>4. f \in [D -> Minted]
    BY <2>2
  <2>5. f \in Surjection(D, Minted)
    BY <2>3, <2>4 DEF Surjection
  <2> QED BY <2>1, <2>5, FS_Surjection
<1>4. IsFiniteSet(Burned)
  <2> DEFINE D == {i \in 1 .. Len(eth) : \E b \in Burn : eth[i] = BurnOf(b)}
             f == [i \in D |-> eth[i].burn]
  <2>1. IsFiniteSet(D)
    BY <1>2, FS_Subset
  <2>2. \A i \in D : f[i] \in Burned
    BY <1>2 DEF Burned, BurnOf
  <2>3. \A b \in Burned : \E i \in D : f[i] = b
    BY <1>2 DEF Burned, BurnOf
  <2>4. f \in [D -> Burned]
    BY <2>2
  <2>5. f \in Surjection(D, Burned)
    BY <2>3, <2>4 DEF Surjection
  <2> QED BY <2>1, <2>5, FS_Surjection
<1>5. Minted \subseteq Lock /\ Burned \subseteq Burn
  BY DEF Minted, Burned
<1> QED BY <1>1, <1>3, <1>4, <1>5 DEF Counts

\* The escrow of a node that has applied the whole chain covers the wrapped supply and
\* every burn not yet released, through reorganisations, faulty attestors and restarts,
\* as long as the faulty are too few to mint alone.
THEOREM EscrowCoversWrapped == FewFaulty => (Spec => []Solvent)
<1> SUFFICES ASSUME FewFaulty PROVE Spec => []Solvent
  OBVIOUS
<1>1. SInv => Solvent
  <2> SUFFICES ASSUME SInv, NEW n \in Honest \ torn, phase[n] = "idle", stored[n] = Len(chain)
               PROVE  escrow[n] >= Wrapped + Total(Amount, {b \in Burned : ~Processed(n, b)})
    BY DEF Solvent
  <2> DEFINE B == Burned
             M == Minted
             L == recorded[n]
             R == BurnsPaid(n)
  <2>1. TInv /\ NoFalseRelease /\ MintsFunded /\ Complete(n) /\ Summed(n) /\ Balanced(n)
    BY DEF SInv, RInv, BInv
  <2>2. M \subseteq L
    <3> SUFFICES ASSUME NEW l \in Minted PROVE l \in recorded[n]
      OBVIOUS
    <3>1. PICK i \in 1 .. Len(chain) : chain[i] = LockTx(l) /\ Supply - root[i] >= Amount[l]
      BY <2>1 DEF MintsFunded, Funded
    <3>2. chain[i].kind = "lock" /\ chain[i].lock = l
      BY <3>1 DEF LockTx
    <3> QED BY <2>1, <3>1, <3>2 DEF Complete
  <2>3. R \subseteq B
    <3> SUFFICES ASSUME NEW c \in released[n] PROVE c.burn \in Burned
      BY DEF BurnsPaid
    <3>1. c \in Claim /\ n \in Honest
      BY <2>1 DEF TInv, TypeOK
    <3>2. PICK i \in 1 .. Final : eth[i] = BurnOf(c.burn)
      BY <2>1, <3>1 DEF NoFalseRelease
    <3>3. i \in DOMAIN eth
      BY <2>1, Parameters DEF Final, TInv, TypeOK
    <3> QED BY <3>1, <3>2, <3>3, Claims DEF Burned
  <2>4. {b \in Burned : ~Processed(n, b)} = B \ R
    BY DEF Processed, BurnsPaid
  <2>5. Counts(Amount, M) /\ Counts(Amount, B)
    BY <2>1, MinedCounts
  <2>6. /\ Counts(Amount, L) /\ locked[n] = GenesisEscrow + Total(Amount, L)
        /\ Counts(Amount, R) /\ unlocked[n] = Total(Amount, R)
    BY <2>1 DEF Summed
  <2>7. /\ escrow[n] + unlocked[n] = locked[n]
        /\ escrow[n] \in Nat /\ GenesisEscrow \in Nat
    BY <2>1, Parameters DEF Balanced, TInv, TypeOK
  <2>8. Wrapped = GenesisEscrow + (Total(Amount, M) - Total(Amount, B))
    BY DEF Wrapped
  <2> HIDE DEF B, M, L, R
  <2>9. /\ Total(Amount, B) = Total(Amount, R) + Total(Amount, B \ R)
        /\ Total(Amount, R) \in Nat /\ Total(Amount, B \ R) \in Nat
    BY <2>3, <2>5, TotalParts
  <2>10. /\ Total(Amount, L) = Total(Amount, M) + Total(Amount, L \ M)
         /\ Total(Amount, M) \in Nat /\ Total(Amount, L \ M) \in Nat
    <3>1. Counts(Amount, L) /\ M \in SUBSET L
      BY <2>2, <2>6
    <3> QED BY <3>1, TotalParts
  <2>11. escrow[n] >= Wrapped + Total(Amount, B \ R)
    BY <2>6, <2>7, <2>8, <2>9, <2>10
  <2> QED BY <2>4, <2>11
<1> QED
  BY <1>1, SInvInit, SInvStep, PTL DEF Spec
=============================================================================
