-------------------------- MODULE SettlementProofs --------------------------
(***************************************************************************)
(* What becomes of a transfer. Theorems about Settlement, for every set of *)
(* nodes, every quorum system whose quorums meet in an honest node, every  *)
(* set of signed transfers, every opening ledger, and every fall of        *)
(* restarts: a nonce authorises once, a caller is told what the block did, *)
(* and a ledger is the one its chain stands for. And about Wallet,         *)
(* for every set of nodes and payers, every set of wishes, every opening   *)
(* ledger, and whatever is gossiped or proposed: what a wallet is told is  *)
(* so, and the chain does what was signed. And about Signatures, for every *)
(* odd order of the curve: an authorization has one identity.              *)
(***************************************************************************)
EXTENDS Settlement, Wallet, Signatures, SumProofs, SequenceTheorems, TLAPS

-----------------------------------------------------------------------------
(* Nonces. *)

\* The chain is a sequence, whatever the blocks are.
ChainOfBlocks == \E S : chain \in Seq(S)

\* A block that a quorum accepts was verified by an honest node at the head.
LEMMA HonestWitness ==
  ASSUME NEW txs, NEW root, Agree(txs, root)
  PROVE  \E n \in Honest : AtHead(n) /\ Verifies(n, txs, root)
<1> DEFINE P == {n \in Honest : AtHead(n) /\ Verifies(n, txs, root)} \cup Faulty
<1>1. P \in Quorum
  BY DEF Agree
<1>2. P \cap P \cap Honest # {}
  BY <1>1, SettlementAssumption
<1> QED BY <1>2 DEF Honest

\* Appending a block keeps the chain a sequence and its blocks where they are.
LEMMA Appended ==
  ASSUME NEW s, NEW e, \E S : s \in Seq(S)
  PROVE  /\ \E S : Append(s, e) \in Seq(S)
         /\ Len(s) \in Nat
         /\ DOMAIN s = 1 .. Len(s)
         /\ DOMAIN Append(s, e) = 1 .. Len(s) + 1
         /\ \A i \in 1 .. Len(s) : Append(s, e)[i] = s[i]
         /\ Append(s, e)[Len(s) + 1] = e
<1>1. PICK S : s \in Seq(S)
  OBVIOUS
<1> DEFINE T == S \cup {e}
<1>2. S \subseteq T /\ e \in T
  OBVIOUS
<1>3. s \in Seq(T)
  BY <1>1, <1>2
<1> HIDE DEF T
<1>4. Append(s, e) \in Seq(T)
  BY <1>2, <1>3
<1> QED BY <1>2, <1>3, <1>4

\* The invariant of the nonces is kept by a block, and nothing else grows the chain.
LEMMA NonceStep ==
  ChainOfBlocks /\ NonceSpentOnce /\ [Next]_vars => (ChainOfBlocks /\ NonceSpentOnce)'
<1> SUFFICES ASSUME ChainOfBlocks, NonceSpentOnce, [Next]_vars
             PROVE  ChainOfBlocks' /\ NonceSpentOnce'
  OBVIOUS
<1>1. ASSUME NEW txs, NEW root, Agree(txs, root)
      PROVE  ChainOfBlocks' /\ NonceSpentOnce'
  <2> DEFINE e == [txs |-> txs, root |-> root]
             L == Len(chain)
  <2>1. chain' = Append(chain, e)
    BY <1>1 DEF Agree
  <2>2. PICK n \in Honest : AtHead(n) /\ Verifies(n, txs, root)
    BY <1>1, HonestWitness
  <2>3. /\ \E S : Append(chain, e) \in Seq(S)
        /\ L \in Nat
        /\ DOMAIN chain = 1 .. L
        /\ DOMAIN Append(chain, e) = 1 .. L + 1
        /\ \A i \in 1 .. L : Append(chain, e)[i] = chain[i]
        /\ Append(chain, e)[L + 1] = e
    <3> HIDE DEF e
    <3> QED BY Appended DEF ChainOfBlocks
  <2>4. e.txs = txs
    OBVIOUS
  <2>5. Height(n) = L
    BY <2>2 DEF AtHead, Height
  <2> HIDE DEF e, L
  <2>6. ASSUME NEW i \in 1 .. L, NEW p \in DOMAIN chain[i].txs, NEW q \in DOMAIN txs
        PROVE  NonceOf(chain[i].txs[p]) # NonceOf(txs[q])
    <3>1. chain[i].txs[p] \in ToSet(chain[i].txs)
      BY DEF ToSet
    <3>2. chain[i].txs[p] \in Committed(n)
      BY <2>5, <3>1 DEF Committed, InBlocks
    <3>3. NonceOf(chain[i].txs[p]) \in Spent(n)
      BY <3>2 DEF Spent
    <3>4. NonceOf(txs[q]) \notin Spent(n)
      BY <2>2 DEF Verifies
    <3> QED BY <3>3, <3>4
  <2>7. ASSUME NEW p \in DOMAIN txs, NEW q \in DOMAIN txs, NonceOf(txs[p]) = NonceOf(txs[q])
        PROVE  p = q
    BY <2>2, <2>7 DEF Verifies
  <2>8. ASSUME NEW i \in DOMAIN chain', NEW j \in DOMAIN chain',
               NEW p \in DOMAIN chain'[i].txs, NEW q \in DOMAIN chain'[j].txs,
               NonceOf(chain'[i].txs[p]) = NonceOf(chain'[j].txs[q])
        PROVE  i = j /\ p = q
    <3>1. i \in 1 .. L \/ i = L + 1
      BY <2>1, <2>3
    <3>2. j \in 1 .. L \/ j = L + 1
      BY <2>1, <2>3
    <3>3. CASE i \in 1 .. L /\ j \in 1 .. L
      BY <2>1, <2>3, <2>8, <3>3 DEF NonceSpentOnce
    <3>4. CASE i \in 1 .. L /\ j = L + 1
      BY <2>1, <2>3, <2>4, <2>6, <2>8, <3>4
    <3>5. CASE i = L + 1 /\ j \in 1 .. L
      BY <2>1, <2>3, <2>4, <2>6, <2>8, <3>5
    <3>6. CASE i = L + 1 /\ j = L + 1
      BY <2>1, <2>3, <2>4, <2>7, <2>8, <3>6
    <3> QED BY <3>1, <3>2, <3>3, <3>4, <3>5, <3>6
  <2>9. ChainOfBlocks'
    BY <2>1, <2>3 DEF ChainOfBlocks
  <2>10. NonceSpentOnce'
    BY <2>8 DEF NonceSpentOnce, NonceOf
  <2> QED BY <2>9, <2>10
<1>2. CASE UNCHANGED chain
  BY <1>2 DEF ChainOfBlocks, NonceSpentOnce, NonceOf
<1>3. CASE ProposeAny
  BY <1>1, <1>3 DEF ProposeAny
<1>4. ASSUME NEW n \in Honest, Propose(n)
      PROVE  ChainOfBlocks' /\ NonceSpentOnce'
  BY <1>1, <1>4 DEF Propose
<1>5. ASSUME NEW n \in Honest, Commit(n) \/ Restart(n)
      PROVE  UNCHANGED chain
  BY <1>5 DEF Commit, Store, Skip, PayNet, PayFee, Distribute, Publish, Advance, Restart
<1>6. ASSUME NEW n \in Honest, NEW t \in Transfer, Client(n, t)
      PROVE  UNCHANGED chain
  BY <1>6 DEF Client, Submit, Wait, GiveUp
<1> QED BY <1>2, <1>3, <1>4, <1>5, <1>6 DEF Next, vars

\* A sender's nonce authorises at most one committed transfer, whatever the
\* leaders propose (verifyBlockForHeightLocked): NonceSpentOnce is an invariant.
THEOREM NonceAuthorisesOnce == Spec => []NonceSpentOnce
<1>1. Init => ChainOfBlocks /\ NonceSpentOnce
  <2> SUFFICES ASSUME chain = <<>>
               PROVE  ChainOfBlocks /\ NonceSpentOnce
    BY DEF Init
  <2>1. chain \in Seq({})
    OBVIOUS
  <2>2. DOMAIN chain = {}
    OBVIOUS
  <2> QED BY <2>1, <2>2 DEF ChainOfBlocks, NonceSpentOnce
<1> QED BY <1>1, NonceStep, PTL DEF Spec

-----------------------------------------------------------------------------
(* Waiters. *)

\* The types that waiting for an outcome relies on.
ClientTypes ==
  /\ waiting \in [Honest -> SUBSET Transfer]
  /\ applied \in [Honest -> [Transfer -> Outcome]]
  /\ outcome \in [Honest -> [Transfer -> Outcome]]

WakeInv == ClientTypes /\ NoLostWakeup

LEMMA WakeStep == WakeInv /\ [Next]_vars => WakeInv'
<1> SUFFICES ASSUME WakeInv, [Next]_vars
             PROVE  WakeInv'
  OBVIOUS
<1> USE DEF Outcome
<1>1. CASE UNCHANGED <<waiting, applied, outcome>>
  BY <1>1 DEF WakeInv, ClientTypes, NoLostWakeup
<1>2. ASSUME NEW n \in Honest, Store(n)
      PROVE  WakeInv'
  BY <1>2 DEF Store, WakeInv, ClientTypes, NoLostWakeup, clients
<1>3. ASSUME NEW n \in Honest, Skip(n)
      PROVE  WakeInv'
  BY <1>3 DEF Skip, WakeInv, ClientTypes, NoLostWakeup, clients
<1>4. ASSUME NEW n \in Honest, PayNet(n)
      PROVE  WakeInv'
  BY <1>4 DEF PayNet, WakeInv, ClientTypes, NoLostWakeup, clients
<1>5. ASSUME NEW n \in Honest, Publish(n)
      PROVE  WakeInv'
  <2> DEFINE shown == Published(n)
             a == [t \in Transfer |-> IF t \in shown THEN outcome[n][t] ELSE applied[n][t]]
             w == waiting[n] \ shown
  <2>1. /\ applied' = [applied EXCEPT ![n] = a]
        /\ waiting' = [waiting EXCEPT ![n] = w]
        /\ outcome' = outcome
    BY <1>5 DEF Publish, WakeInv, ClientTypes
  <2>2. a \in [Transfer -> Outcome] /\ w \in SUBSET Transfer
    BY DEF WakeInv, ClientTypes
  <2>3. \A t \in w : a[t] = "unknown"
    BY DEF WakeInv, ClientTypes, NoLostWakeup
  <2> HIDE DEF a, w
  <2>4. ClientTypes'
    BY <2>1, <2>2 DEF WakeInv, ClientTypes
  <2>5. NoLostWakeup'
    BY <2>1, <2>3 DEF WakeInv, ClientTypes, NoLostWakeup
  <2> QED BY <2>4, <2>5 DEF WakeInv
<1>6. ASSUME NEW n \in Honest, NEW t \in Transfer, Wait(n, t)
      PROVE  WakeInv'
  <2>1. applied' = applied /\ outcome' = outcome
    BY <1>6 DEF Wait, memory
  <2>2. CASE waiting' = waiting
    BY <2>1, <2>2 DEF WakeInv, ClientTypes, NoLostWakeup
  <2>3. CASE applied[n][t] = "unknown" /\ waiting' = [waiting EXCEPT ![n] = @ \cup {t}]
    BY <2>1, <2>3 DEF WakeInv, ClientTypes, NoLostWakeup
  <2> QED BY <1>6, <2>2, <2>3 DEF Wait
<1>7. ASSUME NEW n \in Honest, NEW t \in Transfer, GiveUp(n, t)
      PROVE  WakeInv'
  BY <1>7 DEF GiveUp, WakeInv, ClientTypes, NoLostWakeup, memory
<1>8. ASSUME NEW n \in Honest, Restart(n)
      PROVE  WakeInv'
  BY <1>8 DEF Restart, WakeInv, ClientTypes, NoLostWakeup
<1>9. ASSUME NEW n \in Honest, PayFee(n) \/ Distribute(n) \/ Advance(n) \/ Propose(n)
      PROVE  UNCHANGED <<waiting, applied, outcome>>
  BY <1>9 DEF PayFee, Distribute, Advance, Propose, Agree, clients, memory
<1>10. ASSUME NEW n \in Honest, NEW t \in Transfer, Submit(n, t)
       PROVE  UNCHANGED <<waiting, applied, outcome>>
  BY <1>10 DEF Submit, clients, memory
<1>11. ASSUME ProposeAny
       PROVE  UNCHANGED <<waiting, applied, outcome>>
  BY <1>11 DEF ProposeAny, Agree, clients, memory
<1>12. ASSUME UNCHANGED vars
       PROVE  UNCHANGED <<waiting, applied, outcome>>
  BY <1>12 DEF vars, clients, memory
<1>13. ASSUME NEW n \in Honest, Commit(n)
       PROVE  WakeInv'
  BY <1>1, <1>2, <1>3, <1>4, <1>5, <1>9, <1>13 DEF Commit
<1>14. ASSUME NEW n \in Honest, NEW t \in Transfer, Client(n, t)
       PROVE  WakeInv'
  BY <1>1, <1>6, <1>7, <1>10, <1>14 DEF Client
<1>15. ASSUME NEW n \in Honest, Propose(n)
       PROVE  WakeInv'
  BY <1>1, <1>9, <1>15
<1> QED BY <1>1, <1>8, <1>11, <1>12, <1>13, <1>14, <1>15 DEF Next

\* Nobody waits for an outcome that has been published (WaitForSettlement and
\* recordApplied share one mutex): NoLostWakeup is an invariant, restarts included.
THEOREM WakeupsKept == Spec => []NoLostWakeup
<1>1. Init => WakeInv
  BY DEF Init, WakeInv, ClientTypes, NoLostWakeup, Outcome
<1>2. WakeInv => NoLostWakeup
  BY DEF WakeInv
<1> QED BY <1>1, <1>2, WakeStep, PTL DEF Spec

-----------------------------------------------------------------------------
(* Coins: the fees and the ledger. *)

LEMMA Accounts ==
  /\ IsFiniteSet(Account) /\ Accrual \in Account /\ Maintainer \in Account
  /\ Node \subseteq Account /\ User \subseteq Account
<1>1. IsFiniteSet(User \cup Node)
  BY SettlementAssumption, FS_Union
<1>2. IsFiniteSet({Accrual}) /\ IsFiniteSet({Maintainer})
  BY FS_Singleton
<1>3. IsFiniteSet({Accrual} \cup {Maintainer})
  BY <1>2, FS_Union
<1>4. IsFiniteSet((User \cup Node) \cup ({Accrual} \cup {Maintainer}))
  BY <1>1, <1>3, FS_Union
<1>5. (User \cup Node) \cup ({Accrual} \cup {Maintainer}) = Account
  BY DEF Account
<1> QED BY <1>4, <1>5 DEF Account

LEMMA BalancesCount ==
  ASSUME NEW b \in Balances
  PROVE  Counts(b, Account)
BY Accounts DEF Balances, Counts

LEMMA FeeBound ==
  ASSUME NEW a \in Nat
  PROVE  FeeFor(a) \in 0 .. a /\ MaintainerShare(a) \in 0 .. a
BY FeesAssumption, PartBound DEF FeeFor, MaintainerShare, PartOf

\* A transfer the sender can pay makes and loses no coin.
LEMMA MoveKeeps ==
  ASSUME NEW b \in Balances, NEW x \in Account, NEW y \in Account, NEW a \in Nat, b[x] >= a
  PROVE  /\ Moved(b, x, y, a) \in Balances
         /\ Total(Moved(b, x, y, a), Account) = Total(b, Account)
         /\ Moved(b, x, y, a)[x] >= b[x] - a
<1>1. CASE x = y
  BY <1>1 DEF Moved, Balances
<1>2. CASE x # y
  <2> DEFINE c == [b EXCEPT ![x] = @ - a]
             d == [b EXCEPT ![x] = @ - a, ![y] = @ + a]
  <2>1. Moved(b, x, y, a) = d
    BY <1>2 DEF Moved
  <2>2. b[x] \in Nat /\ b[y] \in Nat /\ b[x] - a \in Nat /\ b[y] + a \in Nat
    BY DEF Balances
  <2>3. c[x] = b[x] - a /\ c[y] = b[y] /\ \A z \in Account \ {x} : c[z] = b[z]
    BY <1>2 DEF Balances
  <2>4. d[x] = b[x] - a /\ d[y] = b[y] + a /\ \A z \in Account \ {y} : d[z] = c[z]
    BY <1>2 DEF Balances
  <2>5. d \in Balances
    BY <2>2 DEF Balances
  <2> HIDE DEF c, d
  <2>6. Counts(b, Account)
    BY BalancesCount
  <2>7. Total(c, Account) = (Total(b, Account) - b[x]) + c[x] /\ Counts(c, Account)
    BY <2>2, <2>3, <2>6, TotalEdit
  <2>8. Total(d, Account) = (Total(c, Account) - c[y]) + d[y]
    BY <2>2, <2>4, <2>7, TotalEdit
  <2>9. Total(b, Account) \in Nat
    BY <2>6, TotalType
  <2>10. Total(d, Account) = Total(b, Account)
    <3> DEFINE tb == Total(b, Account)
               tc == Total(c, Account)
               td == Total(d, Account)
               bx == b[x]
               by == b[y]
    <3>1. tb \in Nat /\ bx \in Nat /\ by \in Nat
      BY <2>2, <2>9
    <3>2. tc = (tb - bx) + (bx - a) /\ td = (tc - by) + (by + a)
      BY <2>3, <2>4, <2>7, <2>8
    <3> HIDE DEF tb, tc, td, bx, by
    <3>3. td = tb
      BY <3>1, <3>2
    <3> QED BY <3>3 DEF td, tb
  <2>11. d[x] >= b[x] - a
    BY <2>2, <2>4
  <2> QED BY <2>1, <2>5, <2>10, <2>11
<1> QED BY <1>1, <1>2

\* Rounding down, the validators share no more than there is.
LEMMA SharesBound ==
  ASSUME NEW rest \in Nat, NEW share, \A a \in Node : share[a] = ValidatorShare(rest, Power[a], Total(Power, Node))
  PROVE  Counts(share, Node) /\ Total(share, Node) <= rest
<1>1. Counts(Power, Node) /\ (\A a \in Node : Power[a] \in Nat \ {0})
  BY SettlementAssumption DEF Counts
<1>2. ASSUME NEW a \in Node PROVE Total(Power, Node) > 0
  <2> DEFINE o == Total(Power, Node \ {a})
             p == Power[a]
             t == Total(Power, Node)
  <2>1. t = o + p /\ o \in Nat /\ p \in Nat \ {0}
    BY <1>1, TotalRemove
  <2> HIDE DEF o, p, t
  <2>2. t > 0
    BY <2>1
  <2> QED BY <2>2 DEF t
<1>3. \A a \in Node : share[a] = (Power[a] * rest) \div Total(Power, Node)
  BY DEF ValidatorShare
<1>4. Counts(share, Node) /\ Total(share, Node) \in 0 .. rest
  BY <1>1, <1>2, <1>3, Apportioned
<1> QED BY <1>4

\* The shares of a block's fees are no more than the fees.
LEMMA PaidBound ==
  ASSUME NEW accrued \in Nat
  PROVE  /\ Counts(FeeShares(accrued), Account)
         /\ Total(FeeShares(accrued), Account) \in 0 .. accrued
<1> DEFINE taken == MaintainerShare(accrued)
           rest == accrued - taken
           first == [a \in Account |-> IF a = Maintainer THEN taken ELSE 0]
           share(a) == ValidatorShare(rest, Power[a], Total(Power, Node))
           then == [a \in Account |-> IF a \in Node THEN share(a) ELSE 0]
<1>1. taken \in Nat /\ rest \in Nat /\ taken + rest = accrued
  BY FeeBound
<1>2. \A a \in Account : FeeShares(accrued)[a] = first[a] + then[a]
  BY DEF FeeShares
<1>3. \A a \in Node : then[a] = share(a)
  BY Accounts
<1>4. \A a \in Account \ Node : then[a] = 0
  OBVIOUS
<1>5. Counts(first, Account)
  BY <1>1, Accounts DEF Counts
<1>6. first[Maintainer] = taken /\ \A a \in Account \ {Maintainer} : first[a] = 0
  BY Accounts
<1> HIDE DEF taken, rest, first, then
<1>7. Total(first, Account) = taken
  BY <1>5, <1>6, Accounts, TotalOne
<1>8. Counts(then, Node) /\ Total(then, Node) <= rest
  BY <1>1, <1>3, SharesBound
<1>9. Counts(then, Account)
  BY <1>4, <1>8, Accounts DEF Counts
<1>10. Total(then, Account) = Total(then, Node)
  BY <1>4, <1>9, Accounts, TotalWithin
<1>11. Total(then, Node) \in Nat
  BY <1>8, TotalType
<1>12. /\ Total(FeeShares(accrued), Account) = Total(first, Account) + Total(then, Account)
       /\ Counts(FeeShares(accrued), Account)
  BY <1>2, <1>5, <1>9, TotalPlus
<1> QED BY <1>1, <1>7, <1>8, <1>10, <1>11, <1>12

\* Paying them out makes and loses no coin.
LEMMA DistributedKeeps ==
  ASSUME NEW b \in Balances
  PROVE  Distributed(b) \in Balances /\ Total(Distributed(b), Account) = Total(b, Account)
<1> DEFINE paid == FeeShares(b[Accrual])
           p == Total(paid, Account)
           more == [a \in Account |-> b[a] + paid[a]]
           d == Distributed(b)
<1>1. b[Accrual] \in Nat /\ (\A a \in Account : b[a] \in Nat) /\ Counts(b, Account)
  BY Accounts, BalancesCount DEF Balances
<1>2. Counts(paid, Account) /\ p \in 0 .. b[Accrual]
  BY <1>1, PaidBound
<1>3. \A a \in Account : more[a] = b[a] + paid[a]
  OBVIOUS
<1>4. d = [a \in Account |-> (b[a] + paid[a]) - (IF a = Accrual THEN p ELSE 0)]
  BY DEF Distributed
<1> HIDE DEF d, paid, more
<1>5. Total(more, Account) = Total(b, Account) + p /\ Counts(more, Account)
  BY <1>1, <1>2, <1>3, TotalPlus
<1>6. \A a \in Account : paid[a] \in Nat
  BY <1>2 DEF Counts
<1>7. d[Accrual] = more[Accrual] - p /\ d[Accrual] \in Nat /\ more[Accrual] \in Nat
  BY <1>1, <1>2, <1>3, <1>4, <1>6, Accounts
<1>8. \A a \in Account \ {Accrual} : d[a] = more[a] /\ d[a] \in Nat
  BY <1>1, <1>3, <1>4, <1>6
<1>9. d \in Balances
  <2>1. \A a \in Account : d[a] \in Nat
    BY <1>7, <1>8
  <2> HIDE DEF p
  <2> QED BY <1>4, <2>1 DEF Balances
<1>10. Total(d, Account) = (Total(more, Account) - more[Accrual]) + d[Accrual]
  BY <1>5, <1>7, <1>8, Accounts, TotalEdit
<1>11. Total(b, Account) \in Nat /\ p \in Nat
  BY <1>1, <1>2, TotalType
<1>12. Total(d, Account) = Total(b, Account)
  <2> DEFINE tb == Total(b, Account)
             tm == Total(more, Account)
             td == Total(d, Account)
             m == more[Accrual]
  <2>1. tm = tb + p /\ tb \in Nat /\ p \in Nat /\ m \in Nat /\ td = (tm - m) + (m - p)
    BY <1>5, <1>7, <1>10, <1>11
  <2> HIDE DEF tb, tm, td, m, p
  <2>2. td = tb
    BY <2>1
  <2> QED BY <2>2 DEF tb, td
<1> QED BY <1>9, <1>12 DEF d

-----------------------------------------------------------------------------
(* The ledger a chain stands for. *)

BlockType == [txs : Seq(Transfer), root : Balances]
State == [balance : Balances, outcome : [Transfer -> Outcome]]

\* What a transfer that is paid for leaves, after the net amount and after the fee.
LEMMA PaidTransfer ==
  ASSUME NEW b \in Balances, NEW t \in Transfer, Affords(b, t)
  PROVE  LET fee == FeeFor(Amount[t])
             c == Moved(b, From[t], To[t], Amount[t] - fee)
             d == Moved(c, From[t], Accrual, fee)
         IN /\ c \in Balances /\ d \in Balances /\ c[From[t]] >= fee
            /\ Total(c, Account) = Total(b, Account) /\ Total(d, Account) = Total(b, Account)
<1> DEFINE fee == FeeFor(Amount[t])
           x == From[t]
           y == To[t]
           a == Amount[t]
           c == Moved(b, x, y, a - fee)
           d == Moved(c, x, Accrual, fee)
<1>1. a \in Nat /\ x \in Account /\ y \in Account
  BY SettlementAssumption, Accounts
<1>2. fee \in 0 .. a /\ b[x] >= a
  BY <1>1, FeeBound DEF Affords
<1>3. b[x] \in Nat
  BY <1>1 DEF Balances
<1> HIDE DEF fee, x, y, a
<1>4. a - fee \in Nat /\ b[x] >= a - fee /\ fee \in Nat /\ b[x] - (a - fee) >= fee
  BY <1>1, <1>2, <1>3
<1>5. c \in Balances /\ Total(c, Account) = Total(b, Account) /\ c[x] >= b[x] - (a - fee)
  BY <1>1, <1>4, MoveKeeps
<1> HIDE DEF c
<1>6. c[x] \in Nat
  BY <1>1, <1>5 DEF Balances
<1>7. c[x] >= fee
  <2> DEFINE cx == c[x]
             bx == b[x]
  <2>1. cx \in Nat /\ bx \in Nat /\ cx >= bx - (a - fee)
    BY <1>3, <1>5, <1>6
  <2> HIDE DEF cx, bx
  <2>2. bx - (a - fee) >= fee
    BY <1>4 DEF bx
  <2>3. cx >= fee
    BY <1>1, <1>2, <1>4, <2>1, <2>2
  <2> QED BY <2>3 DEF cx
<1>8. d \in Balances /\ Total(d, Account) = Total(c, Account)
  BY <1>1, <1>4, <1>5, <1>7, Accounts, MoveKeeps
<1> QED BY <1>5, <1>7, <1>8 DEF fee, x, y, a, c, d

LEMMA TransferTyped ==
  ASSUME NEW s \in State, NEW t \in Transfer
  PROVE  ApplyTransfer(s, t) \in State
<1>1. s.balance \in Balances /\ s.outcome \in [Transfer -> Outcome]
  BY DEF State
<1>2. /\ [s.outcome EXCEPT ![t] = "moved"] \in [Transfer -> Outcome]
      /\ [s.outcome EXCEPT ![t] = "skipped"] \in [Transfer -> Outcome]
  BY <1>1 DEF Outcome
<1>3. CASE Affords(s.balance, t)
  <2> DEFINE d == Moved(Moved(s.balance, From[t], To[t], Amount[t] - FeeFor(Amount[t])),
                        From[t], Accrual, FeeFor(Amount[t]))
  <2>1. d \in Balances
    BY <1>1, <1>3, PaidTransfer
  <2>2. ApplyTransfer(s, t) = [balance |-> d, outcome |-> [s.outcome EXCEPT ![t] = "moved"]]
    BY <1>3 DEF ApplyTransfer
  <2> HIDE DEF d
  <2> QED BY <1>2, <2>1, <2>2 DEF State
<1>4. CASE ~Affords(s.balance, t)
  <2>1. ApplyTransfer(s, t) = [balance |-> s.balance, outcome |-> [s.outcome EXCEPT ![t] = "skipped"]]
    BY <1>4 DEF ApplyTransfer
  <2> QED BY <1>1, <1>2, <2>1 DEF State
<1> QED BY <1>3, <1>4

LEMMA AfterTransfersIs ==
  ASSUME NEW s \in State, NEW txs \in Seq(Transfer)
  PROVE  /\ AfterTransfers(s, txs)[0] = s
         /\ \A i \in 1 .. Len(txs) :
              AfterTransfers(s, txs)[i] = ApplyTransfer(AfterTransfers(s, txs)[i - 1], txs[i])
         /\ \A i \in 0 .. Len(txs) : AfterTransfers(s, txs)[i] \in State
<1> DEFINE L == Len(txs)
           F == [p \in (1 .. L) \X State |-> ApplyTransfer(p[2], txs[p[1]])]
           Rec(g) == [i \in 0 .. L |-> IF i = 0 THEN s ELSE ApplyTransfer(g[i - 1], txs[i])]
           h == AfterTransfers(s, txs)
<1>1. L \in Nat /\ \A i \in 1 .. L : txs[i] \in Transfer
  OBVIOUS
<1>2. F \in [(1 .. L) \X State -> State]
  BY <1>1, TransferTyped
<1>3. \A i \in 1 .. L : \A x \in State : F[<<i, x>>] = ApplyTransfer(x, txs[i])
  OBVIOUS
<1>4. h = CHOOSE g : g = Rec(g)
  BY DEF AfterTransfers
<1> HIDE DEF F, L
<1>a. StepType(F, L, State, s)
  BY <1>1, <1>2 DEF StepType
<1>5. PICK g \in [0 .. L -> State] : Follows(g, F, L, s)
  BY <1>a, RecursionExists
<1>6. g = Rec(g)
  <2>1. \A i \in 1 .. L : i - 1 \in 0 .. L
    BY <1>1
  <2>2. \A i \in 1 .. L : g[i] = ApplyTransfer(g[i - 1], txs[i])
    BY <1>3, <1>5, <2>1 DEF Follows
  <2>3. \A i \in 0 .. L : i # 0 => i \in 1 .. L
    BY <1>1
  <2>4. \A i \in 0 .. L : g[i] = IF i = 0 THEN s ELSE ApplyTransfer(g[i - 1], txs[i])
    BY <1>5, <2>2, <2>3 DEF Follows
  <2>5. g = [i \in 0 .. L |-> g[i]]
    BY <1>5
  <2> QED BY <2>4, <2>5
<1>7. h = Rec(h)
  BY <1>4, <1>6
<1> HIDE DEF h
<1>8. h[0] = s /\ \A i \in 1 .. L : h[i] = ApplyTransfer(h[i - 1], txs[i])
  <2>1. \A i \in 0 .. L : h[i] = Rec(h)[i]
    BY <1>7
  <2>2. \A i \in 0 .. L : h[i] = IF i = 0 THEN s ELSE ApplyTransfer(h[i - 1], txs[i])
    BY <2>1
  <2>3. 0 \in 0 .. L /\ \A i \in 1 .. L : i \in 0 .. L /\ i # 0
    BY <1>1
  <2> QED BY <2>2, <2>3
<1>9. FollowsIn(h, F, L, State, s)
  BY <1>3, <1>8 DEF FollowsIn
<1>10. StaysIn(h, L, State)
  BY <1>a, <1>9, RecursionTyped
<1> QED BY <1>8, <1>10 DEF h, L, StaysIn

LEMMA BlockTyped ==
  ASSUME NEW s \in State, NEW b \in BlockType
  PROVE  ApplyBlock(s, b) \in State
<1> DEFINE m == AfterTransfers(s, b.txs)[Len(b.txs)]
<1>1. b.txs \in Seq(Transfer) /\ Len(b.txs) \in 0 .. Len(b.txs)
  BY DEF BlockType
<1>2. m \in State
  BY <1>1, AfterTransfersIs
<1>3. ApplyBlock(s, b) = [balance |-> Distributed(m.balance), outcome |-> m.outcome]
  BY DEF ApplyBlock
<1> HIDE DEF m
<1>4. m.balance \in Balances /\ m.outcome \in [Transfer -> Outcome]
  BY <1>2 DEF State
<1>5. Distributed(m.balance) \in Balances
  BY <1>4, DistributedKeeps
<1> QED BY <1>3, <1>4, <1>5 DEF State

LEMMA GenesisTyped == AtGenesis \in State
BY SettlementAssumption DEF AtGenesis, State, Outcome

ChainTyped == chain \in Seq(BlockType)

LEMMA LedgerOfIs ==
  ChainTyped =>
  /\ LedgerOf(0) = AtGenesis
  /\ \A i \in 1 .. Len(chain) : LedgerOf(i) = ApplyBlock(LedgerOf(i - 1), chain[i])
  /\ \A i \in 0 .. Len(chain) : LedgerOf(i) \in State
<1> SUFFICES ASSUME ChainTyped
             PROVE  /\ LedgerOf(0) = AtGenesis
                    /\ \A i \in 1 .. Len(chain) : LedgerOf(i) = ApplyBlock(LedgerOf(i - 1), chain[i])
                    /\ \A i \in 0 .. Len(chain) : LedgerOf(i) \in State
  OBVIOUS
<1> DEFINE L == Len(chain)
           F == [p \in (1 .. L) \X State |-> ApplyBlock(p[2], chain[p[1]])]
           Rec(g) == [i \in 0 .. L |-> IF i = 0 THEN AtGenesis ELSE ApplyBlock(g[i - 1], chain[i])]
           h == CHOOSE g : g = Rec(g)
<1>1. L \in Nat /\ \A i \in 1 .. L : chain[i] \in BlockType
  BY DEF ChainTyped
<1>2. F \in [(1 .. L) \X State -> State]
  BY <1>1, BlockTyped
<1>3. \A i \in 1 .. L : \A x \in State : F[<<i, x>>] = ApplyBlock(x, chain[i])
  OBVIOUS
<1>4. \A k : LedgerOf(k) = h[k]
  BY DEF LedgerOf
<1> HIDE DEF F, L
<1>a. StepType(F, L, State, AtGenesis)
  BY <1>1, <1>2, GenesisTyped DEF StepType
<1>5. PICK g \in [0 .. L -> State] : Follows(g, F, L, AtGenesis)
  BY <1>a, RecursionExists
<1>6. g = Rec(g)
  <2>1. \A i \in 1 .. L : i - 1 \in 0 .. L
    BY <1>1
  <2>2. \A i \in 1 .. L : g[i] = ApplyBlock(g[i - 1], chain[i])
    BY <1>3, <1>5, <2>1 DEF Follows
  <2>3. \A i \in 0 .. L : i # 0 => i \in 1 .. L
    BY <1>1
  <2>4. \A i \in 0 .. L : g[i] = IF i = 0 THEN AtGenesis ELSE ApplyBlock(g[i - 1], chain[i])
    BY <1>5, <2>2, <2>3 DEF Follows
  <2>5. g = [i \in 0 .. L |-> g[i]]
    BY <1>5
  <2> QED BY <2>4, <2>5
<1>7. h = Rec(h)
  BY <1>6
<1> HIDE DEF h
<1>8. h[0] = AtGenesis /\ \A i \in 1 .. L : h[i] = ApplyBlock(h[i - 1], chain[i])
  <2>1. \A i \in 0 .. L : h[i] = Rec(h)[i]
    BY <1>7
  <2>2. \A i \in 0 .. L : h[i] = IF i = 0 THEN AtGenesis ELSE ApplyBlock(h[i - 1], chain[i])
    BY <2>1
  <2>3. 0 \in 0 .. L /\ \A i \in 1 .. L : i \in 0 .. L /\ i # 0
    BY <1>1
  <2> QED BY <2>2, <2>3
<1>9. FollowsIn(h, F, L, State, AtGenesis)
  BY <1>3, <1>8 DEF FollowsIn
<1>10. StaysIn(h, L, State)
  BY <1>a, <1>9, RecursionTyped
<1> QED BY <1>4, <1>8, <1>10 DEF L, StaysIn

\* A longer chain leaves what the blocks before stand for as it was.
LEMMA LedgerOfKept ==
  ASSUME ChainTyped, ChainTyped', Len(chain') >= Len(chain),
         \A i \in 1 .. Len(chain) : chain'[i] = chain[i]
  PROVE  \A k \in 0 .. Len(chain) : LedgerOf(k)' = LedgerOf(k)
<1>1. /\ LedgerOf(0) = AtGenesis
      /\ \A i \in 1 .. Len(chain) : LedgerOf(i) = ApplyBlock(LedgerOf(i - 1), chain[i])
  BY LedgerOfIs
<1>2. (ChainTyped =>
        /\ LedgerOf(0) = AtGenesis
        /\ \A i \in 1 .. Len(chain) : LedgerOf(i) = ApplyBlock(LedgerOf(i - 1), chain[i])
        /\ \A i \in 0 .. Len(chain) : LedgerOf(i) \in State)'
  BY LedgerOfIs, PTL
<1>3. /\ LedgerOf(0)' = AtGenesis
      /\ \A i \in 1 .. Len(chain') : LedgerOf(i)' = ApplyBlock(LedgerOf(i - 1)', chain'[i])
  BY <1>2
<1> DEFINE L == Len(chain)
           g == [i \in 0 .. L |-> LedgerOf(i)]
           h == [i \in 0 .. L |-> LedgerOf(i)']
<1>4. L \in Nat /\ Len(chain') \in Nat
  BY DEF ChainTyped
<1>5. \A i \in 1 .. L : i \in 0 .. L /\ i - 1 \in 0 .. L /\ i \in 1 .. Len(chain') /\ chain'[i] = chain[i]
  BY <1>4
<1>6. g[0] = h[0]
  BY <1>1, <1>3, <1>4
<1>7. ASSUME NEW i \in 1 .. L, g[i - 1] = h[i - 1]
      PROVE  g[i] = h[i]
  <2>1. g[i] = ApplyBlock(g[i - 1], chain[i])
    BY <1>1, <1>5
  <2>2. h[i] = ApplyBlock(h[i - 1], chain[i])
    BY <1>3, <1>5
  <2> QED BY <1>7, <2>1, <2>2
<1>8. Alike(g, h, L)
  <2> HIDE DEF g, h, L
  <2>1. StepAlike(g, h, L)
    BY <1>4, <1>6, <1>7 DEF StepAlike
  <2> QED BY <2>1, RecursionUnique
<1> QED BY <1>8 DEF Alike

-----------------------------------------------------------------------------
(* The ledger: the inductive invariant. *)

\* A node that holds a block is at a transfer of it, and covers its fee.
InStep(n) ==
  /\ step[n] # "idle" => stored[n] \in 1 .. Len(chain)
  /\ step[n] \in {"transfer", "fee"} => index[n] \in 1 .. Len(Block(n).txs)
  /\ step[n] = "fee" => balance[n][From[Current(n)]] >= FeeFor(Amount[Current(n)])

BlocksFull == \A i \in DOMAIN chain : chain[i].txs # <<>>

TrackInv == TypeOK /\ BlocksFull /\ (\A n \in Honest : InStep(n)) /\ Conserved

TypesFollow ==
  /\ ChainTyped /\ Len(chain) \in Nat /\ DOMAIN chain = 1 .. Len(chain)
  /\ \A i \in 1 .. Len(chain) : chain[i] \in BlockType /\ chain[i].txs \in Seq(Transfer)
  /\ \A i \in 1 .. Len(chain) : Len(chain[i].txs) \in Nat \ {0}
  /\ \A n \in Honest : step[n] # "idle" =>
       stored[n] \in 1 .. Len(chain) /\ Block(n) \in BlockType /\ Block(n).txs \in Seq(Transfer)
  /\ \A n \in Honest : step[n] \in {"transfer", "fee"} => Current(n) \in Transfer

LEMMA TrackTypes == TrackInv => TypesFollow
<1> SUFFICES ASSUME TrackInv PROVE TypesFollow
  OBVIOUS
<1>1. ChainTyped
  BY DEF TrackInv, TypeOK, ChainTyped, BlockType
<1>2. Len(chain) \in Nat /\ DOMAIN chain = 1 .. Len(chain)
  BY <1>1 DEF ChainTyped
<1>3. \A i \in 1 .. Len(chain) : chain[i] \in BlockType
  BY <1>1 DEF ChainTyped
<1>4. \A i \in 1 .. Len(chain) : chain[i].txs \in Seq(Transfer)
  BY <1>3 DEF BlockType
<1>5. \A i \in 1 .. Len(chain) : Len(chain[i].txs) \in Nat \ {0}
  <2> SUFFICES ASSUME NEW i \in 1 .. Len(chain) PROVE Len(chain[i].txs) \in Nat \ {0}
    OBVIOUS
  <2> DEFINE txs == chain[i].txs
  <2>1. txs \in Seq(Transfer) /\ txs # <<>>
    BY <1>2, <1>4 DEF TrackInv, BlocksFull
  <2> HIDE DEF txs
  <2>2. Len(txs) \in Nat \ {0}
    BY <2>1
  <2> QED BY <2>2 DEF txs
<1>6. \A n \in Honest : step[n] # "idle" => stored[n] \in 1 .. Len(chain)
  BY DEF TrackInv, InStep
<1>7. \A n \in Honest : step[n] # "idle" => Block(n) \in BlockType /\ Block(n).txs \in Seq(Transfer)
  BY <1>3, <1>4, <1>6 DEF Block
<1>8. ASSUME NEW n \in Honest, step[n] \in {"transfer", "fee"} PROVE Current(n) \in Transfer
  <2>1. index[n] \in 1 .. Len(Block(n).txs)
    BY <1>8 DEF TrackInv, InStep
  <2>2. Block(n).txs \in Seq(Transfer)
    BY <1>7, <1>8
  <2> QED BY <2>1, <2>2 DEF Current
<1> QED BY <1>1, <1>2, <1>3, <1>4, <1>5, <1>6, <1>7, <1>8 DEF TypesFollow

\* A node's step leaves the ledgers and the outcomes of the others as they are.
Others(n) ==
  \A m \in Honest \ {n} :
    /\ stored'[m] = stored[m] /\ balance'[m] = balance[m] /\ step'[m] = step[m]
    /\ index'[m] = index[m] /\ outcome'[m] = outcome[m] /\ applied'[m] = applied[m]
    /\ told'[m] = told[m]

\* A step of one node.
LEMMA TrackLocal ==
  ASSUME TrackInv, NEW n \in Honest, UNCHANGED chain, Others(n), TypeOK', InStep(n)',
         Total(balance'[n], Account) = Total(balance[n], Account)
  PROVE  TrackInv'
<1>1. BlocksFull'
  BY DEF TrackInv, BlocksFull
<1>2. \A m \in Honest : InStep(m)'
  <2> SUFFICES ASSUME NEW m \in Honest \ {n} PROVE InStep(m)'
    OBVIOUS
  <2> QED BY DEF TrackInv, Others, InStep, Block, Current
<1>3. Conserved'
  BY DEF TrackInv, Others, Conserved
<1> QED BY <1>1, <1>2, <1>3 DEF TrackInv

LEMMA WithoutTyped ==
  ASSUME NEW s \in Seq(Transfer), NEW S
  PROVE  Without(s, S) \in Seq(Transfer)
<1> DEFINE L == Len(s)
           X == Seq(Transfer)
           F == [p \in (1 .. L) \X X |-> IF s[p[1]] \in S THEN p[2] ELSE Append(p[2], s[p[1]])]
           Rec(g) == [i \in 0 .. L |-> IF i = 0 THEN <<>>
                                       ELSE IF s[i] \in S THEN g[i - 1] ELSE Append(g[i - 1], s[i])]
           h == CHOOSE g : g = Rec(g)
<1>1. L \in Nat /\ \A i \in 1 .. L : s[i] \in Transfer
  OBVIOUS
<1>2. F \in [(1 .. L) \X X -> X]
  BY <1>1
<1>3. \A i \in 1 .. L : \A x \in X : F[<<i, x>>] = IF s[i] \in S THEN x ELSE Append(x, s[i])
  OBVIOUS
<1>4. Without(s, S) = h[L]
  BY DEF Without
<1>5. <<>> \in X
  OBVIOUS
<1> HIDE DEF F, L, X
<1>6. StepType(F, L, X, <<>>)
  BY <1>1, <1>2, <1>5 DEF StepType
<1>7. PICK g \in [0 .. L -> X] : Follows(g, F, L, <<>>)
  BY <1>6, RecursionExists
<1>8. g = Rec(g)
  <2>1. \A i \in 1 .. L : i - 1 \in 0 .. L
    BY <1>1
  <2>2. \A i \in 1 .. L : g[i] = IF s[i] \in S THEN g[i - 1] ELSE Append(g[i - 1], s[i])
    BY <1>3, <1>7, <2>1 DEF Follows
  <2>3. \A i \in 0 .. L : i # 0 => i \in 1 .. L
    BY <1>1
  <2>4. \A i \in 0 .. L : g[i] = IF i = 0 THEN <<>> ELSE IF s[i] \in S THEN g[i - 1] ELSE Append(g[i - 1], s[i])
    BY <1>7, <2>2, <2>3 DEF Follows
  <2>5. g = [i \in 0 .. L |-> g[i]]
    BY <1>7
  <2> QED BY <2>4, <2>5
<1>9. h = Rec(h)
  BY <1>8
<1> HIDE DEF h
<1>10. \A i \in 0 .. L : h[i] = IF i = 0 THEN <<>> ELSE IF s[i] \in S THEN h[i - 1] ELSE Append(h[i - 1], s[i])
  <2>1. \A i \in 0 .. L : h[i] = Rec(h)[i]
    BY <1>9
  <2> QED BY <2>1
<1>11. 0 \in 0 .. L /\ \A i \in 1 .. L : i \in 0 .. L /\ i # 0
  BY <1>1
<1>12. h[0] = <<>> /\ \A i \in 1 .. L : h[i] = IF s[i] \in S THEN h[i - 1] ELSE Append(h[i - 1], s[i])
  BY <1>10, <1>11
<1>13. FollowsIn(h, F, L, X, <<>>)
  BY <1>3, <1>12 DEF FollowsIn
<1>14. StaysIn(h, L, X)
  BY <1>6, <1>13, RecursionTyped
<1>15. L \in 0 .. L
  BY <1>1
<1> QED BY <1>4, <1>14, <1>15 DEF StaysIn, X

LEMMA SelectedTyped ==
  ASSUME TypeOK, NEW n \in Honest
  PROVE  Selected(n) \in Seq(Transfer)
<1> DEFINE fresh == Without(pool[n], Committed(n))
           k == IF Len(fresh) < MaxBlockTxs THEN Len(fresh) ELSE MaxBlockTxs
<1>1. pool[n] \in Seq(Transfer)
  BY DEF TypeOK
<1>2. fresh \in Seq(Transfer)
  BY <1>1, WithoutTyped
<1>3. Selected(n) = SubSeq(fresh, 1, k)
  BY DEF Selected
<1> HIDE DEF fresh
<1>4. MaxBlockTxs \in Nat
  BY SettlementAssumption
<1>5. k \in 0 .. Len(fresh)
  BY <1>2, <1>4
<1> HIDE DEF k
<1>6. SubSeq(fresh, 1, k) \in Seq(Transfer)
  BY <1>2, <1>5
<1> QED BY <1>3, <1>6

LEMMA StoreKeepsTrack ==
  ASSUME TrackInv, NEW n \in Honest, Store(n)
  PROVE  TrackInv'
<1> DEFINE k == stored[n] + 1
           o == [t \in Transfer |-> "unknown"]
<1>1. /\ step[n] = "idle" /\ stored[n] < Len(chain)
      /\ stored' = [stored EXCEPT ![n] = k] /\ index' = [index EXCEPT ![n] = 1]
      /\ outcome' = [outcome EXCEPT ![n] = o] /\ step' = [step EXCEPT ![n] = "transfer"]
      /\ UNCHANGED <<chain, balance, applied, pool, waiting, told, torn, crashes>>
  BY DEF Store, Goto, clients, faults
<1>2. TypesFollow
  BY TrackTypes
<1>3. stored[n] \in Nat /\ k \in 1 .. Len(chain)
  BY <1>1, <1>2 DEF TrackInv, TypeOK, TypesFollow
<1>4. o \in [Transfer -> Outcome]
  BY DEF Outcome
<1> HIDE DEF k, o
<1>5. Others(n)
  BY <1>1 DEF Others, TrackInv, TypeOK
<1>6. stored'[n] = k /\ index'[n] = 1 /\ step'[n] = "transfer"
  BY <1>1 DEF TrackInv, TypeOK
<1>7. TypeOK'
  BY <1>1, <1>2, <1>3, <1>4 DEF TrackInv, TypeOK, TypesFollow, Step
<1>8. InStep(n)'
  <2>1. Len(chain[k].txs) \in Nat \ {0}
    BY <1>2, <1>3 DEF TypesFollow
  <2>2. 1 \in 1 .. Len(chain[k].txs)
    BY <2>1
  <2> QED BY <1>1, <1>3, <1>6, <2>2 DEF InStep, Block
<1> QED BY <1>1, <1>5, <1>7, <1>8, TrackLocal

\* On to the next transfer, or to the distribution.
LEMMA AdvancesTracked ==
  ASSUME TrackInv, NEW n \in Honest, step[n] \in {"transfer", "fee"}, Advances(n),
         UNCHANGED <<chain, stored>>
  PROVE  /\ index' \in [Honest -> Nat \ {0}] /\ step' \in [Honest -> Step]
         /\ \A m \in Honest \ {n} : index'[m] = index[m] /\ step'[m] = step[m]
         /\ InStep(n)'
         /\ \/ index[n] < Len(Block(n).txs) /\ index'[n] = index[n] + 1 /\ step'[n] = "transfer"
            \/ index[n] = Len(Block(n).txs) /\ index'[n] = index[n] /\ step'[n] = "distribute"
<1>1. TypesFollow
  BY TrackTypes
<1>2. Len(Block(n).txs) \in Nat /\ index[n] \in 1 .. Len(Block(n).txs) /\ stored[n] \in 1 .. Len(chain)
  <2>1. Block(n).txs \in Seq(Transfer)
    BY <1>1 DEF TypesFollow
  <2> QED BY <1>1, <2>1 DEF TrackInv, InStep, TypesFollow
<1>3. Block(n)' = Block(n)
  BY DEF Block
<1>4. index \in [Honest -> Nat \ {0}] /\ step \in [Honest -> Step]
  BY DEF TrackInv, TypeOK
<1>5. CASE index[n] < Len(Block(n).txs)
  <2>1. index' = [index EXCEPT ![n] = index[n] + 1] /\ step' = [step EXCEPT ![n] = "transfer"]
    BY <1>5 DEF Advances, Goto
  <2>2. index'[n] = index[n] + 1 /\ step'[n] = "transfer" /\ stored'[n] = stored[n]
    BY <1>4, <2>1
  <2>3. index[n] + 1 \in 1 .. Len(Block(n).txs)
    BY <1>2, <1>5
  <2>4. InStep(n)'
    BY <1>2, <1>3, <2>2, <2>3 DEF InStep
  <2>5. index' \in [Honest -> Nat \ {0}] /\ step' \in [Honest -> Step]
    BY <1>2, <1>4, <2>1, <2>3 DEF Step
  <2> QED BY <1>4, <1>5, <2>1, <2>2, <2>4, <2>5
<1>6. CASE ~(index[n] < Len(Block(n).txs))
  <2>1. index' = index /\ step' = [step EXCEPT ![n] = "distribute"]
    BY <1>6 DEF Advances, Goto
  <2>2. index'[n] = index[n] /\ step'[n] = "distribute" /\ stored'[n] = stored[n]
    BY <1>4, <2>1
  <2>3. InStep(n)'
    BY <1>2, <2>2 DEF InStep
  <2>4. step' \in [Honest -> Step]
    BY <1>4, <2>1 DEF Step
  <2>5. index[n] = Len(Block(n).txs)
    BY <1>2, <1>6
  <2> QED BY <1>4, <2>1, <2>2, <2>3, <2>4, <2>5
<1> QED BY <1>5, <1>6

LEMMA SkipKeepsTrack ==
  ASSUME TrackInv, NEW n \in Honest, Skip(n)
  PROVE  TrackInv'
<1> DEFINE o == [outcome[n] EXCEPT ![Current(n)] = "skipped"]
<1>1. /\ step[n] = "transfer" /\ Advances(n)
      /\ outcome' = [outcome EXCEPT ![n] = o]
      /\ UNCHANGED <<chain, stored, balance, applied, pool, waiting, told, torn, crashes>>
  BY DEF Skip, clients, faults
<1>2. o \in [Transfer -> Outcome]
  BY DEF TrackInv, TypeOK, Outcome
<1> HIDE DEF o
<1>3. /\ index' \in [Honest -> Nat \ {0}] /\ step' \in [Honest -> Step]
      /\ \A m \in Honest \ {n} : index'[m] = index[m] /\ step'[m] = step[m]
      /\ InStep(n)'
  BY <1>1, AdvancesTracked
<1>4. Others(n)
  BY <1>1, <1>3 DEF Others, TrackInv, TypeOK
<1>5. TypeOK'
  BY <1>1, <1>2, <1>3 DEF TrackInv, TypeOK
<1> QED BY <1>1, <1>3, <1>4, <1>5, TrackLocal

LEMMA PayNetKeepsTrack ==
  ASSUME TrackInv, NEW n \in Honest, PayNet(n)
  PROVE  TrackInv'
<1> DEFINE t == Current(n)
           o == [outcome[n] EXCEPT ![t] = "moved"]
           b == Moved(balance[n], From[t], To[t], Amount[t] - FeeFor(Amount[t]))
<1>1. /\ step[n] = "transfer" /\ Affords(balance[n], t)
      /\ balance' = [balance EXCEPT ![n] = b] /\ outcome' = [outcome EXCEPT ![n] = o]
      /\ step' = [step EXCEPT ![n] = "fee"]
      /\ UNCHANGED <<chain, stored, index, applied, pool, waiting, told, torn, crashes>>
  BY DEF PayNet, Goto, clients, faults
<1>2. t \in Transfer /\ balance[n] \in Balances
  BY <1>1, TrackTypes DEF TypesFollow, TrackInv, TypeOK
<1>3. o \in [Transfer -> Outcome]
  BY DEF TrackInv, TypeOK, Outcome
<1>4. /\ b \in Balances /\ b[From[t]] >= FeeFor(Amount[t])
      /\ Total(b, Account) = Total(balance[n], Account)
  BY <1>1, <1>2, PaidTransfer
<1> HIDE DEF o, b
<1>5. Others(n)
  BY <1>1 DEF Others, TrackInv, TypeOK
<1>6. TypeOK'
  BY <1>1, <1>3, <1>4 DEF TrackInv, TypeOK, Step
<1>7. balance'[n] = b /\ step'[n] = "fee" /\ index'[n] = index[n] /\ stored'[n] = stored[n]
  BY <1>1 DEF TrackInv, TypeOK
<1>8. Block(n)' = Block(n) /\ Current(n)' = t
  BY <1>1 DEF Block, Current
<1>9. InStep(n)'
  <2>1. stored[n] \in 1 .. Len(chain) /\ index[n] \in 1 .. Len(Block(n).txs)
    BY <1>1 DEF TrackInv, InStep
  <2> QED BY <1>1, <1>4, <1>7, <1>8, <2>1 DEF InStep
<1> QED BY <1>1, <1>4, <1>5, <1>6, <1>7, <1>9, TrackLocal

LEMMA PayFeeKeepsTrack ==
  ASSUME TrackInv, NEW n \in Honest, PayFee(n)
  PROVE  TrackInv'
<1> DEFINE t == Current(n)
           fee == FeeFor(Amount[t])
           b == Moved(balance[n], From[t], Accrual, fee)
<1>1. /\ step[n] = "fee" /\ Advances(n)
      /\ balance' = [balance EXCEPT ![n] = b]
      /\ UNCHANGED <<chain, stored, outcome, applied, pool, waiting, told, torn, crashes>>
  BY DEF PayFee, clients, faults
<1>2. t \in Transfer /\ balance[n] \in Balances /\ balance[n][From[t]] >= fee
  BY <1>1, TrackTypes DEF TypesFollow, TrackInv, TypeOK, InStep
<1>3. From[t] \in Account /\ fee \in Nat
  <2>1. From[t] \in Account /\ Amount[t] \in Nat
    BY <1>2, SettlementAssumption, Accounts
  <2>2. FeeFor(Amount[t]) \in 0 .. Amount[t]
    BY <2>1, FeeBound
  <2> QED BY <2>1, <2>2
<1> HIDE DEF fee
<1>4. b \in Balances /\ Total(b, Account) = Total(balance[n], Account)
  BY <1>2, <1>3, Accounts, MoveKeeps
<1> HIDE DEF b
<1>5. /\ index' \in [Honest -> Nat \ {0}] /\ step' \in [Honest -> Step]
      /\ \A m \in Honest \ {n} : index'[m] = index[m] /\ step'[m] = step[m]
      /\ InStep(n)'
  BY <1>1, AdvancesTracked
<1>6. Others(n)
  BY <1>1, <1>5 DEF Others, TrackInv, TypeOK
<1>7. TypeOK'
  BY <1>1, <1>4, <1>5 DEF TrackInv, TypeOK
<1>8. balance'[n] = b
  BY <1>1 DEF TrackInv, TypeOK
<1> QED BY <1>1, <1>4, <1>5, <1>6, <1>7, <1>8, TrackLocal

LEMMA DistributeKeepsTrack ==
  ASSUME TrackInv, NEW n \in Honest, Distribute(n)
  PROVE  TrackInv'
<1> DEFINE b == Distributed(balance[n])
<1>1. /\ step[n] = "distribute" /\ step' = [step EXCEPT ![n] = "publish"]
      /\ balance' = [balance EXCEPT ![n] = b]
      /\ UNCHANGED <<chain, stored, index, outcome, applied, pool, waiting, told, torn, crashes>>
  BY DEF Distribute, Goto, clients, faults
<1>2. b \in Balances /\ Total(b, Account) = Total(balance[n], Account)
  BY DistributedKeeps DEF TrackInv, TypeOK
<1> HIDE DEF b
<1>3. Others(n)
  BY <1>1 DEF Others, TrackInv, TypeOK
<1>4. TypeOK'
  BY <1>1, <1>2 DEF TrackInv, TypeOK, Step
<1>5. balance'[n] = b /\ step'[n] = "publish" /\ stored'[n] = stored[n]
  BY <1>1 DEF TrackInv, TypeOK
<1>6. InStep(n)'
  BY <1>1, <1>5 DEF InStep, TrackInv
<1> QED BY <1>1, <1>2, <1>3, <1>4, <1>5, <1>6, TrackLocal

LEMMA PublishKeepsTrack ==
  ASSUME TrackInv, NEW n \in Honest, Publish(n)
  PROVE  TrackInv'
<1> DEFINE shown == Published(n)
           a == [t \in Transfer |-> IF t \in shown THEN outcome[n][t] ELSE applied[n][t]]
           c == [t \in Transfer |-> IF t \in shown \cap waiting[n] THEN outcome[n][t] ELSE told[n][t]]
           w == waiting[n] \ shown
<1>1. /\ step[n] = "publish" /\ step' = [step EXCEPT ![n] = "advance"]
      /\ applied' = [applied EXCEPT ![n] = a]
      /\ told' = [told EXCEPT ![n] = c]
      /\ waiting' = [waiting EXCEPT ![n] = w]
      /\ UNCHANGED <<chain, stored, balance, index, outcome, pool, torn, crashes>>
  BY DEF Publish, Goto, faults, TrackInv, TypeOK
<1>2. a \in [Transfer -> Outcome] /\ c \in [Transfer -> Outcome] /\ w \in SUBSET Transfer
  BY DEF TrackInv, TypeOK
<1> HIDE DEF a, c, w
<1>3. Others(n)
  BY <1>1 DEF Others, TrackInv, TypeOK
<1>4. TypeOK'
  BY <1>1, <1>2 DEF TrackInv, TypeOK, Step
<1>5. step'[n] = "advance" /\ stored'[n] = stored[n]
  BY <1>1 DEF TrackInv, TypeOK
<1>6. InStep(n)'
  BY <1>1, <1>5 DEF InStep, TrackInv
<1> QED BY <1>1, <1>3, <1>4, <1>6, TrackLocal

LEMMA AdvanceKeepsTrack ==
  ASSUME TrackInv, NEW n \in Honest, Advance(n)
  PROVE  TrackInv'
<1> DEFINE p == Without(pool[n], ToSet(Block(n).txs))
<1>1. /\ step[n] = "advance" /\ step' = [step EXCEPT ![n] = "idle"]
      /\ pool' = [pool EXCEPT ![n] = p]
      /\ UNCHANGED <<chain, stored, balance, index, outcome, applied, waiting, told, torn, crashes>>
  BY DEF Advance, Goto, clients, faults
<1>2. p \in Seq(Transfer)
  BY WithoutTyped DEF TrackInv, TypeOK
<1> HIDE DEF p
<1>3. Others(n)
  BY <1>1 DEF Others, TrackInv, TypeOK
<1>4. TypeOK'
  BY <1>1, <1>2 DEF TrackInv, TypeOK, Step
<1>5. step'[n] = "idle"
  BY <1>1 DEF TrackInv, TypeOK
<1>6. InStep(n)'
  BY <1>5 DEF InStep
<1> QED BY <1>1, <1>3, <1>4, <1>6, TrackLocal

LEMMA RestartKeepsTrack ==
  ASSUME TrackInv, NEW n \in Honest, Restart(n)
  PROVE  TrackInv'
<1> DEFINE o == [t \in Transfer |-> "unknown"]
<1>1. /\ crashes < MaxCrashes /\ crashes' = crashes + 1 /\ (torn' = torn \cup {n} \/ torn' = torn)
      /\ step' = [step EXCEPT ![n] = "idle"] /\ index' = [index EXCEPT ![n] = 1]
      /\ outcome' = [outcome EXCEPT ![n] = o] /\ applied' = [applied EXCEPT ![n] = o]
      /\ pool' = [pool EXCEPT ![n] = <<>>] /\ waiting' = [waiting EXCEPT ![n] = {}]
      /\ UNCHANGED <<chain, stored, balance, told>>
  BY DEF Restart, Goto
<1>2. o \in [Transfer -> Outcome] /\ <<>> \in Seq(Transfer)
  BY DEF Outcome
<1> HIDE DEF o
<1>3. Others(n)
  BY <1>1 DEF Others, TrackInv, TypeOK
<1>4. crashes' \in 0 .. MaxCrashes
  BY <1>1, SettlementAssumption DEF TrackInv, TypeOK
<1>5. TypeOK'
  BY <1>1, <1>2, <1>4 DEF TrackInv, TypeOK, Step
<1>6. step'[n] = "idle"
  BY <1>1 DEF TrackInv, TypeOK
<1>7. InStep(n)'
  BY <1>6 DEF InStep
<1> QED BY <1>1, <1>3, <1>5, <1>7, TrackLocal

LEMMA ClientKeepsTrack ==
  ASSUME TrackInv, NEW n \in Honest, NEW t \in Transfer, Client(n, t)
  PROVE  TrackInv'
<1>1. UNCHANGED <<chain, stored, balance, step, index, outcome, applied, torn, crashes>>
  BY DEF Client, Submit, Wait, GiveUp, memory, faults
<1>2. pool' \in [Honest -> Seq(Transfer)]
  <2>1. CASE Submit(n, t)
    <3>1. PICK peers \in Reach :
             pool' = [m \in Honest |-> IF m \in peers \cup {n} /\ Admits(m, t)
                                       THEN Append(pool[m], t) ELSE pool[m]]
      BY <2>1 DEF Submit
    <3>2. \A m \in Honest : pool[m] \in Seq(Transfer) /\ Append(pool[m], t) \in Seq(Transfer)
      BY DEF TrackInv, TypeOK
    <3> QED BY <3>1, <3>2
  <2>2. CASE Wait(n, t) \/ GiveUp(n, t)
    BY <2>2 DEF Wait, GiveUp, TrackInv, TypeOK
  <2> QED BY <2>1, <2>2 DEF Client
<1>3. waiting' \in [Honest -> SUBSET Transfer] /\ told' \in [Honest -> [Transfer -> Outcome]]
  <2>1. CASE Submit(n, t)
    BY <2>1 DEF Submit, clients, TrackInv, TypeOK
  <2>2. CASE GiveUp(n, t)
    BY <2>2 DEF GiveUp, TrackInv, TypeOK
  <2>3. CASE Wait(n, t)
    <3>1. CASE waiting' = waiting /\ told' = [told EXCEPT ![n][t] = applied[n][t]]
      <4>1. [told[n] EXCEPT ![t] = applied[n][t]] \in [Transfer -> Outcome]
        BY DEF TrackInv, TypeOK
      <4> QED BY <3>1, <4>1 DEF TrackInv, TypeOK
    <3>2. CASE told' = told /\ waiting' = [waiting EXCEPT ![n] = @ \cup {t}]
      BY <3>2 DEF TrackInv, TypeOK
    <3> QED BY <2>3, <3>1, <3>2 DEF Wait
  <2> QED BY <2>1, <2>2, <2>3 DEF Client
<1>4. TypeOK'
  BY <1>1, <1>2, <1>3 DEF TrackInv, TypeOK
<1>5. BlocksFull' /\ Conserved' /\ \A m \in Honest : InStep(m)'
  BY <1>1 DEF TrackInv, BlocksFull, Conserved, InStep, Block, Current
<1> QED BY <1>4, <1>5 DEF TrackInv

\* A longer chain: the blocks nodes hold are where they were.
LEMMA ChainGrows ==
  ASSUME TrackInv, NEW txs \in Seq(Transfer), NEW root \in Balances, Agree(txs, root)
  PROVE  /\ ChainTyped' /\ Len(chain') = Len(chain) + 1 /\ Len(chain') <= MaxHeight
         /\ \A i \in 1 .. Len(chain) : chain'[i] = chain[i]
         /\ chain'[Len(chain) + 1].txs = txs
         /\ UNCHANGED <<stored, balance, step, index, outcome, applied, pool, waiting, told, torn, crashes>>
<1> DEFINE e == [txs |-> txs, root |-> root]
<1>1. /\ Len(chain) < MaxHeight /\ txs # <<>> /\ chain' = Append(chain, e)
      /\ UNCHANGED <<stored, balance, step, index, outcome, applied, pool, waiting, told, torn, crashes>>
  BY DEF Agree, memory, clients, faults
<1>2. e \in BlockType /\ e.txs = txs
  BY DEF BlockType
<1> HIDE DEF e
<1>3. chain \in Seq(BlockType)
  BY TrackTypes DEF TypesFollow, ChainTyped
<1>4. chain' \in Seq(BlockType) /\ Len(chain') = Len(chain) + 1
      /\ (\A i \in 1 .. Len(chain) : chain'[i] = chain[i]) /\ chain'[Len(chain) + 1] = e
  BY <1>1, <1>2, <1>3
<1>5. Len(chain) + 1 <= MaxHeight
  BY <1>1, <1>3, SettlementAssumption
<1> QED BY <1>1, <1>2, <1>4, <1>5 DEF ChainTyped

LEMMA AgreeKeepsTrack ==
  ASSUME TrackInv, NEW txs \in Seq(Transfer), NEW root \in Balances, Agree(txs, root)
  PROVE  TrackInv'
<1> DEFINE L == Len(chain)
<1>1. /\ ChainTyped' /\ Len(chain') = L + 1 /\ Len(chain') <= MaxHeight
      /\ \A i \in 1 .. L : chain'[i] = chain[i]
      /\ chain'[L + 1].txs = txs
      /\ UNCHANGED <<stored, balance, step, index, outcome, applied, pool, waiting, told, torn, crashes>>
  BY ChainGrows
<1>2. txs # <<>>
  BY DEF Agree
<1>3. TypesFollow
  BY TrackTypes
<1> HIDE DEF L
<1>4. L \in Nat /\ DOMAIN chain = 1 .. L /\ Len(chain) = L
  BY <1>3 DEF TypesFollow, L
<1>5. DOMAIN chain' = 1 .. L + 1
  BY <1>1 DEF ChainTyped
<1>6. stored \in [Honest -> 0 .. L] /\ \A m \in Honest : step[m] # "idle" => stored[m] \in 1 .. L
  BY <1>3, <1>4 DEF TrackInv, TypeOK, TypesFollow
<1>7. TypeOK'
  <2>1. chain' \in Seq([txs : Seq(Transfer), root : Balances])
    BY <1>1 DEF ChainTyped, BlockType
  <2>2. stored' \in [Honest -> 0 .. L + 1]
    BY <1>1, <1>4, <1>6
  <2> QED BY <1>1, <2>1, <2>2 DEF TrackInv, TypeOK
<1>8. BlocksFull'
  <2>1. \A i \in 1 .. L + 1 : i \in 1 .. L \/ i = L + 1
    BY <1>4
  <2> QED BY <1>1, <1>2, <1>4, <1>5, <2>1 DEF TrackInv, BlocksFull
<1>9. ASSUME NEW m \in Honest PROVE InStep(m)'
  <2>1. CASE step[m] = "idle"
    BY <1>1, <2>1 DEF InStep
  <2>2. CASE step[m] # "idle"
    <3>1. stored'[m] \in 1 .. L + 1 /\ chain'[stored'[m]] = chain[stored[m]]
      BY <1>1, <1>4, <1>6, <2>2
    <3> QED BY <1>1, <3>1 DEF TrackInv, InStep, Block, Current
  <2> QED BY <2>1, <2>2
<1>10. Conserved'
  BY <1>1 DEF TrackInv, Conserved
<1> QED BY <1>7, <1>8, <1>9, <1>10 DEF TrackInv

\* Whoever proposes, a block is a sequence of transfers on a ledger's root.
LEMMA Proposed ==
  ASSUME TypeOK, ProposeAny \/ \E n \in Honest : Propose(n)
  PROVE  \E txs \in Seq(Transfer), root \in Balances : Agree(txs, root)
<1>1. CASE ProposeAny
  <2>1. PICK m \in Honest, txs \in BoundedSeq(Transfer, MaxBlockTxs) : Agree(txs, balance[m])
    BY <1>1 DEF ProposeAny
  <2>2. PICK k \in 0 .. MaxBlockTxs : txs \in [1 .. k -> Transfer]
    BY <2>1 DEF BoundedSeq, SeqOf
  <2>3. k \in Nat
    BY SettlementAssumption
  <2>4. txs \in Seq(Transfer)
    BY <2>2, <2>3
  <2> QED BY <2>1, <2>4 DEF TypeOK
<1>2. ASSUME NEW n \in Honest, Propose(n)
      PROVE  \E txs \in Seq(Transfer), root \in Balances : Agree(txs, root)
  BY <1>2, SelectedTyped DEF Propose, TypeOK
<1> QED BY <1>1, <1>2

LEMMA TrackStep == TrackInv /\ [Next]_vars => TrackInv'
<1> SUFFICES ASSUME TrackInv, [Next]_vars PROVE TrackInv'
  OBVIOUS
<1>1. CASE UNCHANGED vars
  BY <1>1 DEF vars, memory, clients, faults, TrackInv, TypeOK, BlocksFull, InStep, Conserved, Block, Current
<1>2. CASE ProposeAny \/ \E n \in Honest : Propose(n)
  <2>1. TypeOK
    BY DEF TrackInv
  <2>2. PICK txs \in Seq(Transfer), root \in Balances : Agree(txs, root)
    BY <1>2, <2>1, Proposed
  <2> QED BY <2>2, AgreeKeepsTrack
<1>3. ASSUME NEW n \in Honest, Commit(n)
      PROVE  TrackInv'
  BY <1>3, StoreKeepsTrack, SkipKeepsTrack, PayNetKeepsTrack, PayFeeKeepsTrack, DistributeKeepsTrack,
     PublishKeepsTrack, AdvanceKeepsTrack DEF Commit
<1>4. ASSUME NEW n \in Honest, Restart(n)
      PROVE  TrackInv'
  BY <1>4, RestartKeepsTrack
<1>5. ASSUME NEW n \in Honest, NEW t \in Transfer, Client(n, t)
      PROVE  TrackInv'
  BY <1>5, ClientKeepsTrack
<1> QED BY <1>1, <1>2, <1>3, <1>4, <1>5 DEF Next

LEMMA TrackStarts == Init => TrackInv
<1> SUFFICES ASSUME Init PROVE TrackInv
  OBVIOUS
<1>1. /\ chain = <<>> /\ stored = [n \in Honest |-> 0] /\ step = [n \in Honest |-> "idle"]
      /\ balance = [n \in Honest |-> Genesis]
  BY DEF Init
<1>2. TypeOK
  <2>1. chain \in Seq([txs : Seq(Transfer), root : Balances]) /\ Len(chain) = 0
    BY <1>1
  <2>2. <<>> \in Seq(Transfer)
    OBVIOUS
  <2> QED BY <2>1, <2>2, SettlementAssumption DEF Init, TypeOK, Step, Outcome
<1>3. BlocksFull /\ (\A n \in Honest : InStep(n)) /\ Conserved
  BY <1>1 DEF BlocksFull, InStep, Conserved
<1> QED BY <1>2, <1>3 DEF TrackInv

\* The variables keep their types, and no balance goes below zero.
THEOREM LedgerTypes == Spec => []TypeOK
<1>1. TrackInv => TypeOK
  BY DEF TrackInv
<1> QED BY <1>1, TrackStarts, TrackStep, PTL DEF Spec

-----------------------------------------------------------------------------
(* The ledger is the fold of the chain. *)

\* The outcomes o of the first i transfers are those of the fold.
Agrees(o, txs, at, i) == \A j \in 1 .. i : o[txs[j]] = at[i].outcome[txs[j]]

\* A node with balances b and outcomes o, at step s and transfer i of a block,
\* between the ledgers before and after the block.
Replays(b, o, s, i, txs, at, after) ==
  /\ s = "transfer" => b = at[i - 1].balance /\ Agrees(o, txs, at, i - 1)
  /\ s = "fee" =>
       /\ Moved(b, From[txs[i]], Accrual, FeeFor(Amount[txs[i]])) = at[i].balance
       /\ Agrees(o, txs, at, i)
  /\ s = "distribute" => b = at[Len(txs)].balance /\ Agrees(o, txs, at, Len(txs))
  /\ s \in {"publish", "advance", "idle"} => b = after.balance
  /\ s = "publish" => \A t \in ToSet(txs) : o[t] = after.outcome[t]

\* The outcomes a are those of the ledger, and of transfers in S.
Tells(a, S, out) == \A t \in Transfer : a[t] # "unknown" => t \in S /\ a[t] = out[t]

\* The fold along the block a node holds.
Along(n) == AfterTransfers(LedgerOf(stored[n] - 1), Block(n).txs)

Following(n) ==
  Replays(balance[n], outcome[n], step[n], index[n], Block(n).txs, Along(n), LedgerOf(stored[n]))

Telling(n) ==
  /\ Tells(told[n], InBlocks(stored[n]), LedgerOf(stored[n]).outcome)
  /\ Tells(applied[n], InBlocks(stored[n]), LedgerOf(stored[n]).outcome)

FollowInv == TrackInv /\ NonceSpentOnce /\ \A n \in Honest \ torn : Following(n) /\ Telling(n)

LEMMA LedgerOfSame ==
  ASSUME UNCHANGED chain, NEW k
  PROVE  LedgerOf(k)' = LedgerOf(k)
BY DEF LedgerOf

\* The fold along a block, from the ledger before to the ledger after.
BlockFolds(n) ==
  LET txs == Block(n).txs
      at == Along(n)
      after == LedgerOf(stored[n])
  IN /\ txs \in Seq(Transfer) /\ Len(txs) \in Nat
     /\ at[0] = LedgerOf(stored[n] - 1)
     /\ \A i \in 1 .. Len(txs) : at[i] = ApplyTransfer(at[i - 1], txs[i])
     /\ \A i \in 0 .. Len(txs) : at[i] \in State
     /\ after.balance = Distributed(at[Len(txs)].balance)
     /\ after.outcome = at[Len(txs)].outcome

LEMMA BlockIs ==
  ASSUME TrackInv, NEW n \in Honest, step[n] # "idle"
  PROVE  BlockFolds(n)
<1> DEFINE txs == Block(n).txs
           before == LedgerOf(stored[n] - 1)
           after == LedgerOf(stored[n])
<1>1. TypesFollow
  BY TrackTypes
<1>2. /\ txs \in Seq(Transfer) /\ stored[n] \in 1 .. Len(chain) /\ Len(chain) \in Nat
      /\ chain[stored[n]] = Block(n)
  BY <1>1 DEF TypesFollow, Block
<1>3. stored[n] - 1 \in 0 .. Len(chain)
  BY <1>2
<1>4. before \in State /\ after = ApplyBlock(before, Block(n))
  BY <1>1, <1>2, <1>3, LedgerOfIs DEF TypesFollow
<1>5. Along(n) = AfterTransfers(before, txs)
  BY DEF Along
<1>6. after = [balance |-> Distributed(Along(n)[Len(txs)].balance), outcome |-> Along(n)[Len(txs)].outcome]
  BY <1>4, <1>5 DEF ApplyBlock
<1>7. Len(txs) \in Nat
  BY <1>2
<1> HIDE DEF txs, before, after
<1>8. /\ AfterTransfers(before, txs)[0] = before
      /\ \A i \in 1 .. Len(txs) :
           AfterTransfers(before, txs)[i] = ApplyTransfer(AfterTransfers(before, txs)[i - 1], txs[i])
      /\ \A i \in 0 .. Len(txs) : AfterTransfers(before, txs)[i] \in State
  BY <1>2, <1>4, AfterTransfersIs
<1>9. after.balance = Distributed(Along(n)[Len(txs)].balance) /\ after.outcome = Along(n)[Len(txs)].outcome
  BY <1>6
<1> QED BY <1>2, <1>5, <1>7, <1>8, <1>9 DEF BlockFolds, txs, before, after

Marked(o, t, v) == [o EXCEPT ![t] = v]

\* What a transfer does to the ledger, paid for or skipped.
LEMMA TransferIs ==
  ASSUME NEW s, NEW t
  PROVE  /\ Affords(s.balance, t) =>
              /\ ApplyTransfer(s, t).outcome = Marked(s.outcome, t, "moved")
              /\ ApplyTransfer(s, t).balance =
                   Moved(Moved(s.balance, From[t], To[t], Amount[t] - FeeFor(Amount[t])),
                         From[t], Accrual, FeeFor(Amount[t]))
         /\ ~Affords(s.balance, t) =>
              /\ ApplyTransfer(s, t).outcome = Marked(s.outcome, t, "skipped")
              /\ ApplyTransfer(s, t).balance = s.balance
<1>1. CASE Affords(s.balance, t)
  BY <1>1 DEF ApplyTransfer, Marked
<1>2. CASE ~Affords(s.balance, t)
  BY <1>2 DEF ApplyTransfer, Marked
<1> QED BY <1>1, <1>2

AllFold == \A n \in Honest : step[n] # "idle" => BlockFolds(n)

LEMMA BlocksFold == TrackInv => AllFold
BY BlockIs DEF AllFold

\* A block does not touch the outcomes of other transfers.
LEMMA OutcomeKept ==
  ASSUME TrackInv, NonceSpentOnce, NEW k \in 1 .. Len(chain), NEW t \in InBlocks(k - 1), t \in Transfer
  PROVE  LedgerOf(k).outcome[t] = LedgerOf(k - 1).outcome[t]
<1> DEFINE txs == chain[k].txs
           before == LedgerOf(k - 1)
           at == AfterTransfers(before, txs)
           L == Len(txs)
           g == [i \in 0 .. L |-> at[i].outcome[t]]
           h == [i \in 0 .. L |-> before.outcome[t]]
<1>1. TypesFollow
  BY TrackTypes
<1>2. Len(chain) \in Nat /\ DOMAIN chain = 1 .. Len(chain) /\ txs \in Seq(Transfer) /\ ChainTyped
  BY <1>1 DEF TypesFollow
<1>3. k - 1 \in 0 .. Len(chain)
  BY <1>2
<1>4. before \in State /\ LedgerOf(k) = ApplyBlock(before, chain[k])
  BY <1>2, <1>3, LedgerOfIs
<1>5. LedgerOf(k).outcome = at[L].outcome
  BY <1>4 DEF ApplyBlock
<1>6. L \in Nat /\ DOMAIN txs = 1 .. L
  BY <1>2
<1>7. \A q \in DOMAIN txs : txs[q] # t
  <2>1. PICK i \in 1 .. k - 1 : t \in ToSet(chain[i].txs)
    BY DEF InBlocks
  <2>2. PICK p \in DOMAIN chain[i].txs : t = chain[i].txs[p]
    BY <2>1 DEF ToSet
  <2>3. i \in DOMAIN chain /\ k \in DOMAIN chain /\ i # k
    BY <1>2
  <2> SUFFICES ASSUME NEW q \in DOMAIN txs, txs[q] = t PROVE FALSE
    OBVIOUS
  <2>4. NonceOf(chain[i].txs[p]) = NonceOf(chain[k].txs[q])
    BY <2>2
  <2> QED BY <2>3, <2>4 DEF NonceSpentOnce
<1> HIDE DEF txs, before, L
<1>8. /\ at[0] = before
      /\ \A i \in 1 .. L : at[i] = ApplyTransfer(at[i - 1], txs[i])
      /\ \A i \in 0 .. L : at[i] \in State
  BY <1>2, <1>4, AfterTransfersIs DEF L
<1> HIDE DEF at
<1>9. ASSUME NEW i \in 1 .. L PROVE at[i].outcome[t] = at[i - 1].outcome[t]
  <2>1. i - 1 \in 0 .. L /\ txs[i] # t
    BY <1>6, <1>7
  <2>2. PICK o : o = at[i - 1].outcome
    OBVIOUS
  <2>3. o \in [Transfer -> Outcome]
    BY <1>8, <2>1, <2>2 DEF State
  <2>4. at[i].outcome = Marked(o, txs[i], "moved") \/ at[i].outcome = Marked(o, txs[i], "skipped")
    <3>1. at[i] = ApplyTransfer(at[i - 1], txs[i])
      BY <1>8
    <3>2. CASE Affords(at[i - 1].balance, txs[i])
      BY <2>2, <3>1, <3>2, TransferIs
    <3>3. CASE ~Affords(at[i - 1].balance, txs[i])
      BY <2>2, <3>1, <3>3, TransferIs
    <3> QED BY <3>2, <3>3
  <2> QED BY <2>1, <2>2, <2>3, <2>4 DEF Marked
<1>10. StepAlike(g, h, L)
  <2>1. \A i \in 1 .. L : i \in 0 .. L /\ i - 1 \in 0 .. L
    BY <1>6
  <2>2. g[0] = h[0]
    BY <1>6, <1>8
  <2> QED BY <1>6, <1>9, <2>1, <2>2 DEF StepAlike
<1>11. Alike(g, h, L)
  <2> HIDE DEF g, h
  <2> QED BY <1>10, RecursionUnique
<1>12. L \in 0 .. L
  BY <1>6
<1> QED BY <1>5, <1>11, <1>12 DEF Alike, before

\* One outcome more.
LEMMA AgreesNext ==
  ASSUME NEW o \in [Transfer -> Outcome], NEW txs, NEW at, NEW i \in Nat \ {0}, txs[i] \in Transfer, NEW v,
         at[i - 1].outcome \in [Transfer -> Outcome], \A j \in 1 .. i : txs[j] \in Transfer,
         at[i].outcome = Marked(at[i - 1].outcome, txs[i], v), Agrees(o, txs, at, i - 1)
  PROVE  Agrees(Marked(o, txs[i], v), txs, at, i)
<1> DEFINE t == txs[i]
           p == Marked(o, t, v)
<1> SUFFICES ASSUME NEW j \in 1 .. i PROVE p[txs[j]] = at[i].outcome[txs[j]]
  BY DEF Agrees
<1>1. CASE txs[j] = t
  BY <1>1 DEF Marked
<1>2. CASE txs[j] # t
  <2>1. j \in 1 .. i - 1
    BY <1>2
  <2>2. o[txs[j]] = at[i - 1].outcome[txs[j]]
    BY <2>1 DEF Agrees
  <2> QED BY <1>2, <2>2 DEF Marked
<1> QED BY <1>1, <1>2

LEMMA FollowLocal ==
  ASSUME FollowInv, TrackInv', NEW n \in Honest, UNCHANGED chain, Others(n),
         torn' = torn \/ torn' = torn \cup {n},
         n \notin torn' => Following(n)' /\ Telling(n)'
  PROVE  FollowInv'
<1>1. NonceSpentOnce'
  BY DEF FollowInv, NonceSpentOnce, NonceOf
<1>2. ASSUME NEW m \in Honest \ torn', m # n PROVE Following(m)' /\ Telling(m)'
  <2>1. Following(m) /\ Telling(m)
    BY <1>2 DEF FollowInv
  <2>2. /\ stored'[m] = stored[m] /\ balance'[m] = balance[m] /\ step'[m] = step[m]
        /\ index'[m] = index[m] /\ outcome'[m] = outcome[m] /\ applied'[m] = applied[m]
        /\ told'[m] = told[m]
    BY <1>2 DEF Others
  <2>3. /\ LedgerOf(stored[m])' = LedgerOf(stored[m]) /\ LedgerOf(stored[m] - 1)' = LedgerOf(stored[m] - 1)
        /\ InBlocks(stored[m])' = InBlocks(stored[m]) /\ Block(m)' = Block(m)
    <3>1. \A k : LedgerOf(k)' = LedgerOf(k) /\ InBlocks(k)' = InBlocks(k)
      BY LedgerOfSame DEF InBlocks
    <3> QED BY <2>2, <3>1 DEF Block, LedgerOf, InBlocks
  <2>4. Along(m)' = Along(m)
    BY <2>3 DEF Along
  <2> QED BY <2>1, <2>2, <2>3, <2>4 DEF Following, Telling
<1> QED BY <1>1, <1>2 DEF FollowInv

\* What a node's step leaves of the chain is what the fold needs of it.
LEMMA FoldSame ==
  ASSUME TypeOK, NEW n \in Honest, UNCHANGED <<chain, stored>>
  PROVE  /\ Block(n)' = Block(n) /\ Along(n)' = Along(n)
         /\ LedgerOf(stored[n])' = LedgerOf(stored[n]) /\ InBlocks(stored[n])' = InBlocks(stored[n])
<1>1. \A k : LedgerOf(k)' = LedgerOf(k) /\ InBlocks(k)' = InBlocks(k)
  BY LedgerOfSame DEF InBlocks
<1> QED BY <1>1 DEF Block, Along, LedgerOf, InBlocks

\* After a transfer, at the next one or at the distribution.
LEMMA AdvancedFollows ==
  ASSUME FollowInv, NEW n \in Honest, step[n] \in {"transfer", "fee"}, Advances(n),
         UNCHANGED <<chain, stored>>,
         balance'[n] = Along(n)[index[n]].balance,
         Agrees(outcome'[n], Block(n).txs, Along(n), index[n])
  PROVE  Following(n)'
<1>1. TrackInv
  BY DEF FollowInv
<1>2. /\ Block(n)' = Block(n) /\ Along(n)' = Along(n)
      /\ LedgerOf(stored[n])' = LedgerOf(stored[n])
  BY <1>1, FoldSame DEF TrackInv
<1>3. /\ \/ index[n] < Len(Block(n).txs) /\ index'[n] = index[n] + 1 /\ step'[n] = "transfer"
         \/ index[n] = Len(Block(n).txs) /\ index'[n] = index[n] /\ step'[n] = "distribute"
  BY <1>1, AdvancesTracked
<1>4. index[n] \in Nat /\ (index[n] + 1) - 1 = index[n]
  BY <1>1 DEF TrackInv, TypeOK
<1>5. CASE index'[n] = index[n] + 1 /\ step'[n] = "transfer"
  BY <1>2, <1>4, <1>5 DEF Following, Replays
<1>6. CASE index[n] = Len(Block(n).txs) /\ step'[n] = "distribute"
  BY <1>2, <1>6 DEF Following, Replays
<1> QED BY <1>3, <1>5, <1>6

\* The transfer a node is at, in the fold.
LEMMA AtTransfer ==
  ASSUME FollowInv, NEW n \in Honest, step[n] \in {"transfer", "fee"}
  PROVE  LET i == index[n]
             at == Along(n)
             txs == Block(n).txs
         IN /\ i \in Nat \ {0} /\ i \in 1 .. Len(txs) /\ Current(n) = txs[i]
            /\ \A j \in 1 .. i : txs[j] \in Transfer
            /\ at[i] = ApplyTransfer(at[i - 1], Current(n))
            /\ at[i - 1].outcome \in [Transfer -> Outcome]
<1> DEFINE i == index[n]
           at == Along(n)
           txs == Block(n).txs
<1>1. BlockFolds(n)
  BY BlockIs DEF FollowInv
<1>2. txs \in Seq(Transfer) /\ Len(txs) \in Nat
  BY <1>1 DEF BlockFolds
<1>3. i \in 1 .. Len(txs)
  BY DEF FollowInv, TrackInv, InStep
<1>4. /\ \A k \in 1 .. Len(txs) : at[k] = ApplyTransfer(at[k - 1], txs[k])
      /\ \A k \in 0 .. Len(txs) : at[k] \in State
  BY <1>1 DEF BlockFolds
<1>5. Current(n) = txs[i]
  BY DEF Current
<1> HIDE DEF i, at, txs
<1>6. i \in Nat \ {0} /\ i - 1 \in 0 .. Len(txs)
  BY <1>2, <1>3
<1>7. \A j \in 1 .. i : txs[j] \in Transfer
  BY <1>2, <1>3
<1>8. at[i - 1].outcome \in [Transfer -> Outcome]
  BY <1>4, <1>6 DEF State
<1> QED BY <1>3, <1>4, <1>5, <1>6, <1>7, <1>8 DEF i, at, txs

LEMMA SkipFollows ==
  ASSUME FollowInv, NEW n \in Honest, Skip(n)
  PROVE  FollowInv'
<1> DEFINE t == Current(n)
           i == index[n]
           at == Along(n)
           txs == Block(n).txs
           o == Marked(outcome[n], t, "skipped")
<1>1. /\ step[n] = "transfer" /\ ~Affords(balance[n], t) /\ Advances(n)
      /\ outcome' = [outcome EXCEPT ![n] = o]
      /\ UNCHANGED <<chain, stored, balance, applied, pool, waiting, told, torn, crashes>>
  BY DEF Skip, clients, faults, Marked
<1>2. TrackInv /\ TrackInv'
  BY SkipKeepsTrack DEF FollowInv
<1>3. /\ i \in Nat \ {0} /\ t = txs[i] /\ (\A j \in 1 .. i : txs[j] \in Transfer)
      /\ at[i] = ApplyTransfer(at[i - 1], t) /\ at[i - 1].outcome \in [Transfer -> Outcome]
  BY <1>1, AtTransfer
<1>4. outcome'[n] = o /\ outcome[n] \in [Transfer -> Outcome]
  BY <1>1, <1>2 DEF TrackInv, TypeOK
<1>5. ASSUME n \notin torn' PROVE Following(n)' /\ Telling(n)'
  <2>1. Following(n) /\ Telling(n)
    BY <1>1, <1>5 DEF FollowInv
  <2>2. balance[n] = at[i - 1].balance /\ Agrees(outcome[n], txs, at, i - 1)
    BY <1>1, <2>1 DEF Following, Replays
  <2>3. at[i].outcome = Marked(at[i - 1].outcome, t, "skipped") /\ at[i].balance = at[i - 1].balance
    BY <1>1, <1>3, <2>2, TransferIs
  <2> HIDE DEF i, at, txs, t
  <2>4. Agrees(o, txs, at, i)
    <3>1. \A j \in 1 .. i : txs[j] \in Transfer
      BY <1>3
    <3>2. txs[i] \in Transfer
      BY <1>3
    <3> QED BY <1>3, <1>4, <2>2, <2>3, <3>1, <3>2, AgreesNext
  <2>5. Following(n)'
    BY <1>1, <1>4, <2>2, <2>3, <2>4, AdvancedFollows DEF i, at, txs
  <2>6. Telling(n)'
    BY <1>1, <1>2, <2>1, FoldSame DEF Telling, TrackInv
  <2> QED BY <2>5, <2>6
<1>6. Others(n)
  <2>1. \A m \in Honest \ {n} : index'[m] = index[m] /\ step'[m] = step[m]
    BY <1>1, <1>2, AdvancesTracked
  <2> QED BY <1>1, <1>2, <2>1 DEF Others, TrackInv, TypeOK
<1> QED BY <1>1, <1>2, <1>5, <1>6, FollowLocal

LEMMA PayNetFollows ==
  ASSUME FollowInv, NEW n \in Honest, PayNet(n)
  PROVE  FollowInv'
<1> DEFINE t == Current(n)
           i == index[n]
           at == Along(n)
           txs == Block(n).txs
           o == Marked(outcome[n], t, "moved")
           b == Moved(balance[n], From[t], To[t], Amount[t] - FeeFor(Amount[t]))
<1>1. /\ step[n] = "transfer" /\ Affords(balance[n], t)
      /\ balance' = [balance EXCEPT ![n] = b] /\ outcome' = [outcome EXCEPT ![n] = o]
      /\ step' = [step EXCEPT ![n] = "fee"]
      /\ UNCHANGED <<chain, stored, index, applied, pool, waiting, told, torn, crashes>>
  BY DEF PayNet, Goto, clients, faults, Marked
<1>2. TrackInv /\ TrackInv'
  BY PayNetKeepsTrack DEF FollowInv
<1>3. /\ i \in Nat \ {0} /\ t = txs[i] /\ (\A j \in 1 .. i : txs[j] \in Transfer)
      /\ at[i] = ApplyTransfer(at[i - 1], t) /\ at[i - 1].outcome \in [Transfer -> Outcome]
  BY <1>1, AtTransfer
<1>4. /\ outcome'[n] = o /\ outcome[n] \in [Transfer -> Outcome]
      /\ balance'[n] = b /\ step'[n] = "fee" /\ index'[n] = i
  BY <1>1, <1>2 DEF TrackInv, TypeOK
<1>5. ASSUME n \notin torn' PROVE Following(n)' /\ Telling(n)'
  <2>1. Following(n) /\ Telling(n)
    BY <1>1, <1>5 DEF FollowInv
  <2>2. balance[n] = at[i - 1].balance /\ Agrees(outcome[n], txs, at, i - 1)
    BY <1>1, <2>1 DEF Following, Replays
  <2>3. /\ at[i].outcome = Marked(at[i - 1].outcome, t, "moved")
        /\ at[i].balance = Moved(b, From[t], Accrual, FeeFor(Amount[t]))
    BY <1>1, <1>3, <2>2, TransferIs
  <2>4. Agrees(o, txs, at, i)
    <3> HIDE DEF i, at, txs, t
    <3>1. \A j \in 1 .. i : txs[j] \in Transfer
      BY <1>3
    <3>2. txs[i] \in Transfer
      BY <1>3
    <3> QED BY <1>3, <1>4, <2>2, <2>3, <3>1, <3>2, AgreesNext
  <2>5. Following(n)'
    <3>1. Block(n)' = Block(n) /\ Along(n)' = Along(n)
      BY <1>1, <1>2, FoldSame DEF TrackInv
    <3> HIDE DEF o, b
    <3> QED BY <1>3, <1>4, <2>3, <2>4, <3>1 DEF Following, Replays
  <2>6. Telling(n)'
    BY <1>1, <1>2, <2>1, FoldSame DEF Telling, TrackInv
  <2> QED BY <2>5, <2>6
<1>6. Others(n)
  BY <1>1, <1>2 DEF Others, TrackInv, TypeOK
<1> QED BY <1>1, <1>2, <1>5, <1>6, FollowLocal

LEMMA PayFeeFollows ==
  ASSUME FollowInv, NEW n \in Honest, PayFee(n)
  PROVE  FollowInv'
<1> DEFINE t == Current(n)
           b == Moved(balance[n], From[t], Accrual, FeeFor(Amount[t]))
<1>1. /\ step[n] = "fee" /\ Advances(n)
      /\ balance' = [balance EXCEPT ![n] = b]
      /\ UNCHANGED <<chain, stored, outcome, applied, pool, waiting, told, torn, crashes>>
  BY DEF PayFee, clients, faults
<1>2. TrackInv /\ TrackInv'
  BY PayFeeKeepsTrack DEF FollowInv
<1>3. t = Block(n).txs[index[n]]
  BY DEF Current
<1>4. balance'[n] = b
  BY <1>1, <1>2 DEF TrackInv, TypeOK
<1>5. ASSUME n \notin torn' PROVE Following(n)' /\ Telling(n)'
  <2>1. Following(n) /\ Telling(n)
    BY <1>1, <1>5 DEF FollowInv
  <2>2. b = Along(n)[index[n]].balance /\ Agrees(outcome[n], Block(n).txs, Along(n), index[n])
    BY <1>1, <1>3, <2>1 DEF Following, Replays
  <2> HIDE DEF b
  <2>3. Following(n)'
    BY <1>1, <1>4, <2>2, AdvancedFollows
  <2>4. Telling(n)'
    BY <1>1, <1>2, <2>1, FoldSame DEF Telling, TrackInv
  <2> QED BY <2>3, <2>4
<1>6. Others(n)
  <2>1. \A m \in Honest \ {n} : index'[m] = index[m] /\ step'[m] = step[m]
    BY <1>1, <1>2, AdvancesTracked
  <2> QED BY <1>1, <1>2, <2>1 DEF Others, TrackInv, TypeOK
<1> QED BY <1>1, <1>2, <1>5, <1>6, FollowLocal

LEMMA DistributeFollows ==
  ASSUME FollowInv, NEW n \in Honest, Distribute(n)
  PROVE  FollowInv'
<1> DEFINE b == Distributed(balance[n])
           txs == Block(n).txs
           after == LedgerOf(stored[n])
<1>1. /\ step[n] = "distribute" /\ step' = [step EXCEPT ![n] = "publish"]
      /\ balance' = [balance EXCEPT ![n] = b]
      /\ UNCHANGED <<chain, stored, index, outcome, applied, pool, waiting, told, torn, crashes>>
  BY DEF Distribute, Goto, clients, faults
<1>2. TrackInv /\ TrackInv'
  BY DistributeKeepsTrack DEF FollowInv
<1>3. BlockFolds(n)
  BY <1>1, <1>2, BlockIs
<1>4. balance'[n] = b /\ step'[n] = "publish" /\ outcome'[n] = outcome[n]
  BY <1>1, <1>2 DEF TrackInv, TypeOK
<1>5. ASSUME n \notin torn' PROVE Following(n)' /\ Telling(n)'
  <2>1. Following(n) /\ Telling(n)
    BY <1>1, <1>5 DEF FollowInv
  <2>2. balance[n] = Along(n)[Len(txs)].balance /\ Agrees(outcome[n], txs, Along(n), Len(txs))
    BY <1>1, <2>1 DEF Following, Replays
  <2>3. /\ txs \in Seq(Transfer) /\ after.balance = Distributed(Along(n)[Len(txs)].balance)
        /\ after.outcome = Along(n)[Len(txs)].outcome
    BY <1>3 DEF BlockFolds
  <2>4. b = after.balance
    BY <2>2, <2>3
  <2>5. \A u \in ToSet(txs) : outcome[n][u] = after.outcome[u]
    <3> HIDE DEF txs, after
    <3>1. DOMAIN txs = 1 .. Len(txs)
      BY <2>3
    <3> QED BY <2>2, <2>3, <3>1 DEF Agrees, ToSet
  <2>6. Following(n)'
    <3>1. Block(n)' = Block(n) /\ LedgerOf(stored[n])' = after
      BY <1>1, <1>2, FoldSame DEF TrackInv
    <3> HIDE DEF b, after
    <3> QED BY <1>4, <2>4, <2>5, <3>1 DEF Following, Replays
  <2>7. Telling(n)'
    BY <1>1, <1>2, <2>1, FoldSame DEF Telling, TrackInv
  <2> QED BY <2>6, <2>7
<1>6. Others(n)
  BY <1>1, <1>2 DEF Others, TrackInv, TypeOK
<1> QED BY <1>1, <1>2, <1>5, <1>6, FollowLocal

LEMMA PublishFollows ==
  ASSUME FollowInv, NEW n \in Honest, Publish(n)
  PROVE  FollowInv'
<1> DEFINE shown == Published(n)
           a == [t \in Transfer |-> IF t \in shown THEN outcome[n][t] ELSE applied[n][t]]
           c == [t \in Transfer |-> IF t \in shown \cap waiting[n] THEN outcome[n][t] ELSE told[n][t]]
           S == InBlocks(stored[n])
           after == LedgerOf(stored[n])
<1>1. TrackInv /\ TrackInv'
  BY PublishKeepsTrack DEF FollowInv
<1>2. /\ step[n] = "publish" /\ step' = [step EXCEPT ![n] = "advance"]
      /\ applied' = [applied EXCEPT ![n] = a] /\ told' = [told EXCEPT ![n] = c]
      /\ UNCHANGED <<chain, stored, balance, index, outcome, pool, torn, crashes>>
  BY <1>1 DEF Publish, Goto, faults, TrackInv, TypeOK
<1>3. shown \subseteq ToSet(Block(n).txs)
  BY DEF Published, With
<1>4. ToSet(Block(n).txs) \subseteq S
  <2>1. stored[n] \in 1 .. Len(chain)
    BY <1>1, <1>2, TrackTypes DEF TypesFollow
  <2>2. stored[n] \in 1 .. stored[n]
    BY <1>1, <2>1, TrackTypes DEF TypesFollow
  <2> QED BY <2>2 DEF InBlocks, Block
<1>5. /\ applied'[n] = a /\ told'[n] = c /\ step'[n] = "advance" /\ balance'[n] = balance[n]
  BY <1>1, <1>2 DEF TrackInv, TypeOK
<1>6. ASSUME n \notin torn' PROVE Following(n)' /\ Telling(n)'
  <2>1. Following(n) /\ Telling(n)
    BY <1>2, <1>6 DEF FollowInv
  <2>2. balance[n] = after.balance /\ \A u \in ToSet(Block(n).txs) : outcome[n][u] = after.outcome[u]
    BY <1>2, <2>1 DEF Following, Replays
  <2>3. Tells(told[n], S, after.outcome) /\ Tells(applied[n], S, after.outcome)
    BY <2>1 DEF Telling
  <2> HIDE DEF S, after, shown
  <2>4. Tells(c, S, after.outcome) /\ Tells(a, S, after.outcome)
    BY <1>3, <1>4, <2>2, <2>3 DEF Tells
  <2>5. LedgerOf(stored[n])' = after /\ InBlocks(stored[n])' = S
    BY <1>1, <1>2, FoldSame DEF TrackInv, S, after
  <2> HIDE DEF a, c
  <2>6. Following(n)'
    BY <1>5, <2>2, <2>5 DEF Following, Replays
  <2>7. Telling(n)'
    BY <1>5, <2>4, <2>5 DEF Telling
  <2> QED BY <2>6, <2>7
<1> HIDE DEF a, c
<1>7. Others(n)
  BY <1>1, <1>2 DEF Others, TrackInv, TypeOK
<1> QED BY <1>1, <1>2, <1>6, <1>7, FollowLocal

LEMMA AdvanceFollows ==
  ASSUME FollowInv, NEW n \in Honest, Advance(n)
  PROVE  FollowInv'
<1>1. /\ step[n] = "advance" /\ step' = [step EXCEPT ![n] = "idle"]
      /\ UNCHANGED <<chain, stored, balance, index, outcome, applied, waiting, told, torn, crashes>>
  BY DEF Advance, Goto, clients, faults
<1>2. TrackInv /\ TrackInv'
  BY AdvanceKeepsTrack DEF FollowInv
<1>3. step'[n] = "idle"
  BY <1>1, <1>2 DEF TrackInv, TypeOK
<1>4. ASSUME n \notin torn' PROVE Following(n)' /\ Telling(n)'
  <2>1. Following(n) /\ Telling(n)
    BY <1>1, <1>4 DEF FollowInv
  <2>2. LedgerOf(stored[n])' = LedgerOf(stored[n]) /\ InBlocks(stored[n])' = InBlocks(stored[n])
    BY <1>1, <1>2, FoldSame DEF TrackInv
  <2>3. balance[n] = LedgerOf(stored[n]).balance
    BY <1>1, <2>1 DEF Following, Replays
  <2>4. Following(n)'
    BY <1>1, <1>3, <2>2, <2>3 DEF Following, Replays
  <2>5. Telling(n)'
    BY <1>1, <2>1, <2>2 DEF Telling
  <2> QED BY <2>4, <2>5
<1>5. Others(n)
  BY <1>1, <1>2 DEF Others, TrackInv, TypeOK
<1> QED BY <1>1, <1>2, <1>4, <1>5, FollowLocal

LEMMA StoreFollows ==
  ASSUME FollowInv, NEW n \in Honest, Store(n)
  PROVE  FollowInv'
<1> DEFINE k == stored[n]
<1>1. /\ step[n] = "idle" /\ stored[n] < Len(chain)
      /\ stored' = [stored EXCEPT ![n] = k + 1] /\ index' = [index EXCEPT ![n] = 1]
      /\ outcome' = [outcome EXCEPT ![n] = [t \in Transfer |-> "unknown"]]
      /\ step' = [step EXCEPT ![n] = "transfer"]
      /\ UNCHANGED <<chain, balance, applied, pool, waiting, told, torn, crashes>>
  BY DEF Store, Goto, clients, faults
<1>2. TrackInv /\ TrackInv'
  BY StoreKeepsTrack DEF FollowInv
<1>3. k \in Nat /\ Len(chain) \in Nat /\ k + 1 \in 1 .. Len(chain) /\ (k + 1) - 1 = k
  <2>1. k \in Nat /\ Len(chain) \in Nat /\ k < Len(chain)
    BY <1>1, <1>2, TrackTypes DEF TrackInv, TypeOK, TypesFollow
  <2> HIDE DEF k
  <2> QED BY <2>1
<1>4. stored'[n] = k + 1 /\ index'[n] = 1 /\ step'[n] = "transfer"
  BY <1>1, <1>2 DEF TrackInv, TypeOK
<1>5. \A j : LedgerOf(j)' = LedgerOf(j) /\ InBlocks(j)' = InBlocks(j)
  BY <1>1, LedgerOfSame DEF InBlocks
<1>6. ASSUME n \notin torn' PROVE Following(n)' /\ Telling(n)'
  <2>1. Following(n) /\ Telling(n)
    BY <1>1, <1>6 DEF FollowInv
  <2>2. balance[n] = LedgerOf(k).balance
    BY <1>1, <2>1 DEF Following, Replays
  <2>3. Following(n)'
    <3>1. BlockFolds(n)'
      <4>1. (TrackInv => AllFold)'
        BY BlocksFold, PTL
      <4> QED BY <1>2, <1>4, <4>1 DEF AllFold
    <3>2. Along(n)'[0] = LedgerOf(k)
      <4>1. Along(n)'[0] = LedgerOf(stored[n] - 1)'
        BY <3>1 DEF BlockFolds
      <4>2. LedgerOf(stored[n] - 1)' = LedgerOf(k)
        BY <1>1, <1>3, <1>4 DEF LedgerOf
      <4> QED BY <4>1, <4>2
    <3>3. 1 - 1 = 0 /\ 1 .. 0 = {}
      OBVIOUS
    <3> QED BY <1>1, <1>4, <2>2, <3>2, <3>3 DEF Following, Replays, Agrees
  <2>4. Telling(n)'
    <3>1. InBlocks(k) \subseteq InBlocks(k + 1)
      BY <1>3 DEF InBlocks
    <3>2. \A t \in InBlocks(k) \cap Transfer : LedgerOf(k + 1).outcome[t] = LedgerOf(k).outcome[t]
      <4> SUFFICES ASSUME NEW t \in InBlocks(k), t \in Transfer
                   PROVE  LedgerOf(k + 1).outcome[t] = LedgerOf(k).outcome[t]
        OBVIOUS
      <4> DEFINE h == k + 1
      <4>1. h \in 1 .. Len(chain) /\ h - 1 = k
        BY <1>3
      <4> HIDE DEF h
      <4>2. LedgerOf(h).outcome[t] = LedgerOf(h - 1).outcome[t]
        BY <4>1, OutcomeKept DEF FollowInv
      <4> QED BY <4>1, <4>2 DEF h
    <3>3. /\ Tells(told[n], InBlocks(k + 1), LedgerOf(k + 1).outcome)
          /\ Tells(applied[n], InBlocks(k + 1), LedgerOf(k + 1).outcome)
      BY <2>1, <3>1, <3>2 DEF Telling, Tells
    <3>4. LedgerOf(stored[n])' = LedgerOf(k + 1) /\ InBlocks(stored[n])' = InBlocks(k + 1)
      BY <1>1, <1>4 DEF LedgerOf, InBlocks
    <3> QED BY <1>1, <3>3, <3>4 DEF Telling
  <2> QED BY <2>3, <2>4
<1>7. Others(n)
  BY <1>1, <1>2 DEF Others, TrackInv, TypeOK
<1> QED BY <1>1, <1>2, <1>6, <1>7, FollowLocal

LEMMA RestartFollows ==
  ASSUME FollowInv, NEW n \in Honest, Restart(n)
  PROVE  FollowInv'
<1> DEFINE o == [t \in Transfer |-> "unknown"]
<1>1. /\ torn' = IF step[n] \in {"transfer", "fee", "distribute"} THEN torn \cup {n} ELSE torn
      /\ step' = [step EXCEPT ![n] = "idle"] /\ index' = [index EXCEPT ![n] = 1]
      /\ outcome' = [outcome EXCEPT ![n] = o] /\ applied' = [applied EXCEPT ![n] = o]
      /\ UNCHANGED <<chain, stored, balance, told>>
  BY DEF Restart, Goto
<1>2. TrackInv /\ TrackInv'
  BY RestartKeepsTrack DEF FollowInv
<1>3. step'[n] = "idle" /\ applied'[n] = o /\ step[n] \in Step
  BY <1>1, <1>2 DEF TrackInv, TypeOK
<1>4. ASSUME n \notin torn' PROVE Following(n)' /\ Telling(n)'
  <2>1. n \notin torn /\ step[n] \in {"publish", "advance", "idle"}
    BY <1>1, <1>3, <1>4 DEF Step
  <2>2. Following(n) /\ Telling(n)
    BY <2>1 DEF FollowInv
  <2>3. LedgerOf(stored[n])' = LedgerOf(stored[n]) /\ InBlocks(stored[n])' = InBlocks(stored[n])
    BY <1>1, <1>2, FoldSame DEF TrackInv
  <2>4. balance[n] = LedgerOf(stored[n]).balance
    BY <2>1, <2>2 DEF Following, Replays
  <2>5. Following(n)'
    BY <1>1, <1>3, <2>3, <2>4 DEF Following, Replays
  <2>6. Telling(n)'
    BY <1>1, <1>3, <2>2, <2>3 DEF Telling, Tells
  <2> QED BY <2>5, <2>6
<1>5. Others(n)
  BY <1>1, <1>2 DEF Others, TrackInv, TypeOK
<1>6. torn' = torn \/ torn' = torn \cup {n}
  BY <1>1
<1> QED BY <1>1, <1>2, <1>4, <1>5, <1>6, FollowLocal

LEMMA ClientFollows ==
  ASSUME FollowInv, NEW n \in Honest, NEW t \in Transfer, Client(n, t)
  PROVE  FollowInv'
<1>1. UNCHANGED <<chain, stored, balance, step, index, outcome, applied, torn, crashes>>
  BY DEF Client, Submit, Wait, GiveUp, memory, faults
<1>2. TrackInv /\ TrackInv'
  BY ClientKeepsTrack DEF FollowInv
<1>3. told' = told \/ told' = [told EXCEPT ![n][t] = applied[n][t]]
  BY DEF Client, Submit, Wait, GiveUp, clients
<1>4. Others(n)
  BY <1>1, <1>2, <1>3 DEF Others, TrackInv, TypeOK
<1>5. ASSUME n \notin torn' PROVE Following(n)' /\ Telling(n)'
  <2>1. Following(n) /\ Telling(n)
    BY <1>1, <1>5 DEF FollowInv
  <2>2. /\ Block(n)' = Block(n) /\ Along(n)' = Along(n)
        /\ LedgerOf(stored[n])' = LedgerOf(stored[n]) /\ InBlocks(stored[n])' = InBlocks(stored[n])
    BY <1>1, <1>2, FoldSame DEF TrackInv
  <2>3. Following(n)'
    BY <1>1, <2>1, <2>2 DEF Following
  <2>4. Tells(told'[n], InBlocks(stored[n]), LedgerOf(stored[n]).outcome)
    BY <1>2, <1>3, <2>1 DEF Telling, Tells, TrackInv, TypeOK
  <2> QED BY <1>1, <2>1, <2>2, <2>3, <2>4 DEF Telling
<1> QED BY <1>1, <1>2, <1>4, <1>5, FollowLocal

LEMMA AgreeFollows ==
  ASSUME FollowInv, NEW txs \in Seq(Transfer), NEW root \in Balances, Agree(txs, root), NonceSpentOnce'
  PROVE  FollowInv'
<1> DEFINE L == Len(chain)
<1>1. TrackInv /\ TrackInv'
  BY AgreeKeepsTrack DEF FollowInv
<1>2. /\ ChainTyped /\ L \in Nat
      /\ \A m \in Honest : step[m] # "idle" => stored[m] \in 1 .. L
  BY <1>1, TrackTypes DEF TypesFollow
<1>3. /\ ChainTyped' /\ Len(chain') = L + 1 /\ (\A i \in 1 .. L : chain'[i] = chain[i])
      /\ UNCHANGED <<stored, balance, step, index, outcome, applied, pool, waiting, told, torn, crashes>>
  BY <1>1, ChainGrows
<1>4. \A k \in 0 .. L : LedgerOf(k)' = LedgerOf(k)
  BY <1>2, <1>3, LedgerOfKept
<1>5. \A k \in 0 .. L : InBlocks(k)' = InBlocks(k)
  BY <1>2, <1>3 DEF InBlocks
<1>6. \A m \in Honest : stored[m] \in 0 .. L
  BY <1>1 DEF TrackInv, TypeOK
<1>7. ASSUME NEW m \in Honest \ torn' PROVE Following(m)' /\ Telling(m)'
  <2> PICK k : k = stored[m]
    OBVIOUS
  <2>1. Following(m) /\ Telling(m) /\ k \in 0 .. L
    BY <1>3, <1>6, <1>7 DEF FollowInv
  <2>2. LedgerOf(stored[m])' = LedgerOf(k) /\ InBlocks(stored[m])' = InBlocks(k)
    <3>1. LedgerOf(k)' = LedgerOf(k) /\ InBlocks(k)' = InBlocks(k)
      BY <1>4, <1>5, <2>1
    <3> QED BY <1>3, <3>1 DEF LedgerOf, InBlocks
  <2>3. Telling(m)'
    BY <1>3, <2>1, <2>2 DEF Telling
  <2>4. CASE step[m] = "idle"
    BY <1>3, <2>1, <2>2, <2>3, <2>4 DEF Following, Replays
  <2>5. CASE step[m] # "idle"
    <3>1. k \in 1 .. L /\ k - 1 \in 0 .. L
      BY <1>2, <2>5
    <3>2. Block(m)' = Block(m)
      BY <1>3, <3>1 DEF Block
    <3>3. LedgerOf(stored[m] - 1)' = LedgerOf(stored[m] - 1)
      <4> PICK j : j = k - 1
        OBVIOUS
      <4>1. LedgerOf(j)' = LedgerOf(j)
        BY <1>4, <3>1
      <4> QED BY <1>3, <4>1 DEF LedgerOf
    <3>4. Along(m)' = Along(m)
      BY <3>2, <3>3 DEF Along
    <3> QED BY <1>3, <2>1, <2>2, <2>3, <3>2, <3>4 DEF Following
  <2> QED BY <2>3, <2>4, <2>5
<1> QED BY <1>1, <1>7 DEF FollowInv

LEMMA FollowStep == FollowInv /\ [Next]_vars => FollowInv'
<1> SUFFICES ASSUME FollowInv, [Next]_vars PROVE FollowInv'
  OBVIOUS
<1>1. CASE UNCHANGED vars
  <2>1. UNCHANGED <<chain, stored, balance, step, index, outcome, applied, told, torn>> /\ TrackInv'
    BY <1>1, TrackStep DEF vars, memory, clients, faults, FollowInv
  <2>2. NonceSpentOnce'
    BY <2>1 DEF FollowInv, NonceSpentOnce, NonceOf
  <2>3. ASSUME NEW m \in Honest \ torn' PROVE Following(m)' /\ Telling(m)'
    <3>1. Following(m) /\ Telling(m)
      BY <2>1, <2>3 DEF FollowInv
    <3>2. /\ Block(m)' = Block(m) /\ Along(m)' = Along(m)
          /\ LedgerOf(stored[m])' = LedgerOf(stored[m]) /\ InBlocks(stored[m])' = InBlocks(stored[m])
      BY <2>1, FoldSame DEF FollowInv, TrackInv
    <3> QED BY <2>1, <3>1, <3>2 DEF Following, Telling
  <2> QED BY <2>1, <2>2, <2>3 DEF FollowInv
<1>2. CASE ProposeAny \/ \E n \in Honest : Propose(n)
  <2>1. TypeOK /\ ChainOfBlocks
    BY DEF FollowInv, TrackInv, TypeOK, ChainOfBlocks
  <2>2. PICK txs \in Seq(Transfer), root \in Balances : Agree(txs, root)
    BY <1>2, <2>1, Proposed
  <2>3. NonceSpentOnce'
    BY <2>1, NonceStep DEF FollowInv
  <2> QED BY <2>2, <2>3, AgreeFollows
<1>3. ASSUME NEW n \in Honest, Commit(n)
      PROVE  FollowInv'
  BY <1>3, StoreFollows, SkipFollows, PayNetFollows, PayFeeFollows, DistributeFollows, PublishFollows,
     AdvanceFollows DEF Commit
<1>4. ASSUME NEW n \in Honest, Restart(n)
      PROVE  FollowInv'
  BY <1>4, RestartFollows
<1>5. ASSUME NEW n \in Honest, NEW t \in Transfer, Client(n, t)
      PROVE  FollowInv'
  BY <1>5, ClientFollows
<1> QED BY <1>1, <1>2, <1>3, <1>4, <1>5 DEF Next

LEMMA FollowStarts == Init => FollowInv
<1> SUFFICES ASSUME Init PROVE FollowInv
  OBVIOUS
<1>1. TrackInv
  BY TrackStarts
<1>2. DOMAIN chain = {}
  BY DEF Init
<1>3. NonceSpentOnce
  BY <1>2 DEF NonceSpentOnce
<1>4. ASSUME NEW n \in Honest PROVE Following(n) /\ Telling(n)
  <2>1. /\ stored[n] = 0 /\ step[n] = "idle" /\ balance[n] = Genesis
        /\ told[n] = [t \in Transfer |-> "unknown"] /\ applied[n] = [t \in Transfer |-> "unknown"]
    BY DEF Init
  <2>2. LedgerOf(0) = AtGenesis
    BY <1>1, TrackTypes, LedgerOfIs DEF TypesFollow
  <2>3. Following(n)
    BY <2>1, <2>2 DEF Following, Replays, AtGenesis
  <2>4. Telling(n)
    BY <2>1 DEF Telling, Tells
  <2> QED BY <2>3, <2>4
<1> QED BY <1>1, <1>3, <1>4 DEF FollowInv

LEMMA FollowAlways == Spec => []FollowInv
BY FollowStarts, FollowStep, PTL DEF Spec

\* No coin is made or lost in any state, and between blocks the ledger of a node not
\* torn by a restart is the fold of its chain (LedgerTrue).
THEOREM LedgerIsTrue == Spec => []LedgerTrue
<1>1. FollowInv => LedgerTrue
  <2> SUFFICES ASSUME FollowInv PROVE LedgerTrue
    OBVIOUS
  <2>1. Conserved
    BY DEF FollowInv, TrackInv
  <2>2. LedgerIsChain
    BY DEF FollowInv, LedgerIsChain, Following, Replays
  <2> QED BY <2>1, <2>2 DEF LedgerTrue
<1> QED BY <1>1, FollowAlways, PTL

\* What WaitForSettlement returned is the outcome the chain gives the transfer, at a
\* node not torn by a restart (ToldTruth).
THEOREM CallersToldTrue == Spec => []ToldTruth
<1>1. FollowInv => ToldTruth
  BY DEF FollowInv, ToldTruth, Telling, Tells
<1> QED BY <1>1, FollowAlways, PTL

-----------------------------------------------------------------------------
(* Wallets: the inductive invariant. *)

WalletTypes ==
  /\ signed \subseteq Intent
  /\ aired \subseteq Transaction
  /\ blocks \in Seq(Transaction)
  /\ coins \in [Payer -> Nat]
  /\ mempool \in [Peer -> SUBSET Transaction]
  /\ mempoolNonces \in [Peer -> SUBSET (Payer \X Nat)]
  /\ kept \in [Peer -> Nat] /\ height \in [Peer -> Nat] /\ began \in [Peer -> Nat]
  /\ known \in [Peer -> SUBSET Transaction]
  /\ handed \in [Peer -> SUBSET signed]
  /\ client \in [Peer -> {Nothing} \cup Caller]

\* Nonces are handed out one above the other, so there is a largest.
NoncesBounded == \E m \in Nat : \A e \in signed : e.nonce <= m

\* Whatever came, only what its signature says was taken in.
TakenVerified ==
  /\ \A i \in DOMAIN blocks : VerifiedFor(blocks[i])
  /\ \A n \in Peer : \A tx \in mempool[n] : VerifiedFor(tx)

\* The chain has a transaction once, and a nonce of its transfers once.
ChainOnce ==
  \A i, j \in DOMAIN blocks : i # j =>
    /\ KeyOf(blocks[i]) # KeyOf(blocks[j])
    /\ Checked(blocks[i]) /\ Checked(blocks[j]) => SlotOf(blocks[i]) # SlotOf(blocks[j])

HeightsOrdered ==
  \A n \in Peer :
    /\ began[n] <= height[n] /\ height[n] <= kept[n] /\ kept[n] <= Len(blocks)
    /\ kept[n] <= height[n] + 1

\* A process knows the outcome of every block that came since it started.
OutcomesKnown ==
  \A n \in Peer :
    /\ \A tx \in known[n] : \E i \in 1 .. kept[n] : blocks[i] = tx
    /\ \A i \in began[n] + 1 .. kept[n] : blocks[i] \in known[n]

\* A nonce is held by a transfer of the mempool.
NoncesHeld ==
  \A n \in Peer : \A p \in mempoolNonces[n] : \E tx \in mempool[n] : Checked(tx) /\ SlotOf(tx) = p

\* A caller whose transfer was applied finds it in the history, once it has read as
\* far as where it stands.
CallerFollows ==
  \A n \in Peer :
    client[n] # Nothing /\ client[n].at \in {"locate", "located"} /\ Checked(client[n].tx) =>
    LET c == client[n]
    IN /\ \E i \in 1 .. kept[n] : blocks[i] = c.tx
       /\ \A k \in DOMAIN History(n) : History(n)[k] = c.tx /\ k < c.start => c.found # 0
       /\ c.found # 0 => c.found \in DOMAIN History(n) /\ History(n)[c.found] = c.tx
       /\ c.at = "located" => c.found # 0

CallerStarts ==
  \A n \in Peer :
    client[n] # Nothing /\ client[n].at = "wait" => client[n].start = 1 /\ client[n].found = 0

WalletInv ==
  /\ WalletTypes /\ NoncesBounded /\ TakenVerified /\ ChainOnce /\ HeightsOrdered
  /\ OutcomesKnown /\ NoncesHeld /\ HashKnown /\ CallerFollows /\ CallerStarts

-----------------------------------------------------------------------------
(* Numbers. *)

\* A bounded set of numbers has a largest, and what comes after it lies above all.
LEMMA AfterAll ==
  ASSUME NEW S, S \subseteq Nat, NEW m \in Nat, \A x \in S : x <= m
  PROVE  NonceAfter(S) \in Nat /\ \A x \in S : x < NonceAfter(S)
<1>1. CASE S = {}
  BY <1>1 DEF NonceAfter
<1>2. CASE S # {}
  <2> DEFINE T == {m - x : x \in S}
  <2>1. T \subseteq Nat /\ T # {}
    <3>1. \A x \in S : m - x \in Nat
      OBVIOUS
    <3>2. T # {}
      BY <1>2
    <3> QED BY <3>1, <3>2
  <2>2. PICK least \in T : \A y \in T : least <= y
    <3> HIDE DEF T
    <3> QED BY <2>1, SmallestExists
  <2>3. PICK x \in S : least = m - x
    OBVIOUS
  <2>4. \A y \in S : x >= y
    <3> SUFFICES ASSUME NEW y \in S PROVE x >= y
      OBVIOUS
    <3>1. m - y \in T
      OBVIOUS
    <3>2. m - x <= m - y
      BY <2>2, <2>3, <3>1
    <3> QED BY <3>2
  <2>5. Max(S) \in S /\ \A y \in S : Max(S) >= y
    BY <2>4 DEF Max
  <2>6. NonceAfter(S) = Max(S) + 1
    BY <1>2 DEF NonceAfter
  <2>7. PICK top : top = Max(S)
    OBVIOUS
  <2>8. top \in Nat /\ (\A y \in S : y \in Nat /\ top >= y)
    BY <2>5, <2>7
  <2> HIDE DEF T
  <2> QED BY <2>6, <2>7, <2>8
<1> QED BY <1>1, <1>2

\* A whole number of units is the value it was taken from.
LEMMA WholeUnits ==
  ASSUME NEW v \in Nat, NEW d \in Nat \ {0}, v % d = 0
  PROVE  v \div d \in Nat /\ (v \div d) * d = v
BY Z3

-----------------------------------------------------------------------------
(* Transactions. *)

\* What is derived from an envelope says what the envelope says.
LEMMA DerivedSays ==
  ASSUME NEW e \in Intent, Derived(e) # Nothing
  PROVE  /\ Derived(e) \in Transaction
         /\ Derived(e).by = e /\ Derived(e).from = e.from /\ Derived(e).nonce = e.nonce
         /\ Derived(e).to = Recipient(e) /\ Derived(e).amount * Scale = e.value
         /\ e.form = "raw" => e.chain = Here
<1>1. /\ Sender(e) # Nothing /\ e.value % Scale = 0
      /\ Derived(e) = [by |-> e, from |-> Sender(e), to |-> Recipient(e),
                       amount |-> e.value \div Scale, nonce |-> e.nonce]
  BY DEF Derived
<1>2. Sender(e) = e.from /\ (e.form = "raw" => e.chain = Here)
  BY <1>1 DEF Sender
<1>3. e.value \div Scale \in Nat /\ (e.value \div Scale) * Scale = e.value
  BY <1>1, WholeUnits, WalletAssumption DEF Intent
<1>4. Recipient(e) \in Named \cup Bonds /\ e.from \in Payer /\ e.nonce \in Nat
  BY DEF Recipient, Intent, Named, Bonds
<1> QED BY <1>1, <1>2, <1>3, <1>4 DEF Transaction

\* What passes verification says what its signature says.
LEMMA VerifiedSays ==
  ASSUME signed \subseteq Intent, NEW tx \in Transaction, VerifiedFor(tx)
  PROVE  /\ tx.by \in signed /\ tx = Derived(tx.by)
         /\ tx.from = tx.by.from /\ tx.nonce = tx.by.nonce
         /\ tx.to = Recipient(tx.by) /\ tx.amount * Scale = tx.by.value
         /\ tx.by.form = "raw" => tx.by.chain = Here
<1>1. tx.by \in signed /\ tx = Derived(tx.by) /\ tx # Nothing
  BY WalletAssumption DEF VerifiedFor
<1> QED BY <1>1, DerivedSays

\* Of the same intent only one transaction passes.
LEMMA VerifiedOnce ==
  ASSUME NEW tx, NEW u, VerifiedFor(tx), VerifiedFor(u), KeyOf(tx) = KeyOf(u)
  PROVE  tx = u
BY DEF VerifiedFor, KeyOf

LEMMA DerivedVerified ==
  ASSUME signed \subseteq Intent, NEW e \in signed, Derived(e) # Nothing
  PROVE  VerifiedFor(Derived(e))
BY DerivedSays DEF VerifiedFor

\* However it is altered, a transaction is one.
LEMMA RelayedIs ==
  ASSUME aired \subseteq Transaction
  PROVE  Relayed \subseteq Transaction
<1> SUFFICES ASSUME NEW tx \in aired, NEW u \in Altered(tx) PROVE u \in Transaction
  BY DEF Relayed
<1>1. tx \in Transaction
  OBVIOUS
<1>2. CASE \E a \in Payer : u = [tx EXCEPT !.to = a]
  BY <1>1, <1>2 DEF Transaction, Named
<1>3. CASE u = [tx EXCEPT !.amount = @ + 1]
  BY <1>1, <1>3 DEF Transaction
<1> QED BY <1>2, <1>3 DEF Altered

-----------------------------------------------------------------------------
(* The history. *)

LEMMA AmongFinite ==
  ASSUME NEW s, NEW i \in Nat
  PROVE  IsFiniteSet(TransfersAmong(s, i)) /\ Cardinality(TransfersAmong(s, i)) \in Nat
<1>1. IsFiniteSet(1 .. i)
  BY FS_Interval
<1>2. TransfersAmong(s, i) \in SUBSET (1 .. i)
  BY DEF TransfersAmong
<1>3. IsFiniteSet(TransfersAmong(s, i))
  BY <1>1, <1>2, FS_Subset
<1> QED BY <1>3, FS_CardinalityType

\* One more block is one more transfer, if it carries one.
LEMMA AmongNext ==
  ASSUME NEW s, NEW i \in Nat
  PROVE  Cardinality(TransfersAmong(s, i + 1)) =
           IF Checked(s[i + 1]) THEN Cardinality(TransfersAmong(s, i)) + 1
           ELSE Cardinality(TransfersAmong(s, i))
<1>1. CASE Checked(s[i + 1])
  <2>1. TransfersAmong(s, i + 1) = TransfersAmong(s, i) \cup {i + 1}
    BY <1>1 DEF TransfersAmong
  <2>2. i + 1 \notin TransfersAmong(s, i)
    BY DEF TransfersAmong
  <2> QED BY <1>1, <2>1, <2>2, AmongFinite, FS_AddElement
<1>2. CASE ~Checked(s[i + 1])
  <2>1. TransfersAmong(s, i + 1) = TransfersAmong(s, i)
    BY <1>2 DEF TransfersAmong
  <2> QED BY <1>2, <2>1
<1> QED BY <1>1, <1>2

\* A later transfer has a higher number.
LEMMA AmongRises ==
  ASSUME NEW s, NEW i \in Nat, NEW j \in Nat, i < j, Checked(s[j])
  PROVE  Cardinality(TransfersAmong(s, i)) < Cardinality(TransfersAmong(s, j))
<1>1. TransfersAmong(s, i) \in SUBSET TransfersAmong(s, j)
  BY DEF TransfersAmong
<1>2. j \in TransfersAmong(s, j) /\ j \notin TransfersAmong(s, i)
  BY DEF TransfersAmong
<1>3. IsFiniteSet(TransfersAmong(s, j))
  BY AmongFinite
<1>4. /\ Cardinality(TransfersAmong(s, i)) <= Cardinality(TransfersAmong(s, j))
      /\ Cardinality(TransfersAmong(s, i)) # Cardinality(TransfersAmong(s, j))
  BY <1>1, <1>2, <1>3, FS_Subset
<1> QED BY <1>4, AmongFinite

\* Every number up to the count is that of a transfer.
LEMMA NthExists ==
  ASSUME NEW s, NEW i \in Nat, NEW k \in 1 .. Cardinality(TransfersAmong(s, i))
  PROVE  \E j \in TransfersAmong(s, i) : Cardinality(TransfersAmong(s, j)) = k
<1> DEFINE T == {l \in Nat : Cardinality(TransfersAmong(s, l)) >= k}
<1>1. i \in T
  BY AmongFinite
<1>2. PICK j \in T : \A l \in T : j <= l
  <2>1. T \subseteq Nat /\ T # {}
    BY <1>1
  <2> HIDE DEF T
  <2> QED BY <2>1, SmallestExists
<1>3. j \in Nat /\ j <= i /\ Cardinality(TransfersAmong(s, j)) >= k /\ k \in Nat /\ k >= 1
  BY <1>1, <1>2, AmongFinite
<1>4. j # 0
  <2>1. TransfersAmong(s, 0) = {}
    BY DEF TransfersAmong
  <2> QED BY <2>1, <1>3, FS_EmptySet
<1>5. j - 1 \in Nat /\ j - 1 \notin T /\ (j - 1) + 1 = j
  BY <1>2, <1>3, <1>4
<1>6. Cardinality(TransfersAmong(s, j - 1)) \in Nat /\ Cardinality(TransfersAmong(s, j)) \in Nat
  BY <1>5, <1>3, AmongFinite
<1>7. Cardinality(TransfersAmong(s, j - 1)) < k
  BY <1>5, <1>6, <1>3
<1>8. Cardinality(TransfersAmong(s, j)) =
        IF Checked(s[j]) THEN Cardinality(TransfersAmong(s, j - 1)) + 1
        ELSE Cardinality(TransfersAmong(s, j - 1))
  <2> DEFINE l == j - 1
  <2>1. l \in Nat /\ l + 1 = j
    BY <1>5
  <2> HIDE DEF l
  <2>2. Cardinality(TransfersAmong(s, l + 1)) =
          IF Checked(s[l + 1]) THEN Cardinality(TransfersAmong(s, l)) + 1
          ELSE Cardinality(TransfersAmong(s, l))
    BY <2>1, AmongNext
  <2> QED BY <2>1, <2>2 DEF l
<1>9. Checked(s[j]) /\ Cardinality(TransfersAmong(s, j)) = k
  BY <1>3, <1>6, <1>7, <1>8
<1>10. j \in TransfersAmong(s, i)
  BY <1>3, <1>4, <1>9 DEF TransfersAmong
<1> QED BY <1>9, <1>10

\* A number is that of one transfer.
LEMMA NthIs ==
  ASSUME NEW s, NEW i \in Nat, NEW j \in TransfersAmong(s, i)
  PROVE  /\ Cardinality(TransfersAmong(s, j)) \in 1 .. Cardinality(TransfersAmong(s, i))
         /\ NthTransfer(s, i, Cardinality(TransfersAmong(s, j))) = j
<1> DEFINE number(l) == Cardinality(TransfersAmong(s, l))
<1>1. j \in 1 .. i /\ Checked(s[j]) /\ j \in Nat
  BY DEF TransfersAmong
<1>2. \A l \in TransfersAmong(s, i) : l \in Nat /\ Checked(s[l])
  BY DEF TransfersAmong
<1>3. number(j) \in Nat /\ number(i) \in Nat
  BY <1>1, AmongFinite
<1>4. number(j) <= number(i)
  <2>1. TransfersAmong(s, j) \in SUBSET TransfersAmong(s, i)
    BY <1>1 DEF TransfersAmong
  <2> QED BY <2>1, AmongFinite, FS_Subset
<1>5. number(j) # 0
  <2>1. j \in TransfersAmong(s, j)
    BY <1>1 DEF TransfersAmong
  <2> QED BY <1>1, <2>1, AmongFinite, FS_EmptySet
<1>6. ASSUME NEW l \in TransfersAmong(s, i), number(l) = number(j)
      PROVE  l = j
  <2>1. ~(l < j)
    <3>1. l < j => number(l) < number(j)
      BY <1>1, <1>2, AmongRises
    <3>2. number(l) \in Nat
      BY <1>2, AmongFinite
    <3> QED BY <3>1, <3>2, <1>3, <1>6
  <2>2. ~(j < l)
    <3>1. j < l => number(j) < number(l)
      BY <1>1, <1>2, AmongRises
    <3> QED BY <3>1, <1>3, <1>6
  <2> QED BY <2>1, <2>2, <1>1, <1>2
<1>7. NthTransfer(s, i, number(j)) = j
  <2> HIDE DEF number
  <2>1. number(j) = number(j) /\ \A l \in TransfersAmong(s, i) : number(l) = number(j) => l = j
    BY <1>6
  <2>2. (CHOOSE l \in TransfersAmong(s, i) : number(l) = number(j)) = j
    BY <2>1
  <2> QED BY <2>2 DEF NthTransfer, number
<1> QED BY <1>3, <1>4, <1>5, <1>7

\* A transfer of a stored block is in the history at its number.
LEMMA HistoryHas ==
  ASSUME NEW s, NEW i \in Nat, NEW j \in 1 .. i, Checked(s[j])
  PROVE  \E k \in DOMAIN TransfersIn(s, i) : TransfersIn(s, i)[k] = s[j]
<1>1. j \in TransfersAmong(s, i)
  BY DEF TransfersAmong
<1> DEFINE k == Cardinality(TransfersAmong(s, j))
<1>2. k \in 1 .. Cardinality(TransfersAmong(s, i)) /\ NthTransfer(s, i, k) = j
  BY <1>1, NthIs
<1> HIDE DEF k
<1> QED BY <1>2 DEF TransfersIn

\* What the history has is a transfer of a stored block.
LEMMA HistoryIs ==
  ASSUME NEW s, NEW i \in Nat, NEW k \in DOMAIN TransfersIn(s, i)
  PROVE  \E j \in TransfersAmong(s, i) :
           Cardinality(TransfersAmong(s, j)) = k /\ TransfersIn(s, i)[k] = s[j]
<1>1. k \in 1 .. Cardinality(TransfersAmong(s, i))
  BY DEF TransfersIn
<1>2. PICK j \in TransfersAmong(s, i) : Cardinality(TransfersAmong(s, j)) = k
  BY <1>1, NthExists
<1>3. NthTransfer(s, i, k) = j
  BY <1>2, NthIs
<1> QED BY <1>1, <1>2, <1>3 DEF TransfersIn

\* What comes later moves nothing in it.
LEMMA HistoryGrows ==
  ASSUME NEW s, NEW t, NEW i \in Nat, NEW h \in Nat, i <= h, \A j \in 1 .. i : s[j] = t[j],
         NEW k \in DOMAIN TransfersIn(s, i)
  PROVE  k \in DOMAIN TransfersIn(t, h) /\ TransfersIn(t, h)[k] = TransfersIn(s, i)[k]
<1>1. PICK j \in TransfersAmong(s, i) :
        Cardinality(TransfersAmong(s, j)) = k /\ TransfersIn(s, i)[k] = s[j]
  BY HistoryIs
<1>2. j \in 1 .. i /\ Checked(s[j]) /\ t[j] = s[j]
  BY DEF TransfersAmong
<1>3. TransfersAmong(s, j) = TransfersAmong(t, j)
  BY <1>2 DEF TransfersAmong
<1>4. j \in TransfersAmong(t, h)
  BY <1>2 DEF TransfersAmong
<1>5. k \in 1 .. Cardinality(TransfersAmong(t, h)) /\ NthTransfer(t, h, k) = j
  BY <1>1, <1>3, <1>4, NthIs
<1> QED BY <1>1, <1>2, <1>5 DEF TransfersIn

-----------------------------------------------------------------------------
(* The invariant, from the start. *)

LEMMA WalletStarts == WalletInit => WalletInv
<1> SUFFICES ASSUME WalletInit PROVE WalletInv
  OBVIOUS
<1> USE DEF WalletInit
<1>1. WalletTypes
  BY WalletAssumption DEF WalletTypes
<1>2. NoncesBounded
  <2>1. \A e \in signed : e.nonce <= 0
    OBVIOUS
  <2> QED BY <2>1 DEF NoncesBounded
<1>3. TakenVerified /\ ChainOnce
  BY DEF TakenVerified, ChainOnce
<1>4. HeightsOrdered /\ OutcomesKnown
  BY DEF HeightsOrdered, OutcomesKnown
<1>5. NoncesHeld /\ HashKnown
  BY DEF NoncesHeld, HashKnown
<1>6. CallerFollows /\ CallerStarts
  BY DEF CallerFollows, CallerStarts
<1> QED BY <1>1, <1>2, <1>3, <1>4, <1>5, <1>6 DEF WalletInv

-----------------------------------------------------------------------------
(* What follows from it. *)

LEMMA BlocksSay ==
  ASSUME WalletTypes, TakenVerified
  PROVE  /\ \A i \in DOMAIN blocks : blocks[i] \in Transaction /\ VerifiedFor(blocks[i])
         /\ \A n \in Peer : \A tx \in mempool[n] : tx \in Transaction /\ VerifiedFor(tx)
BY DEF WalletTypes, TakenVerified

\* The nonce a wallet gets is a number above every nonce that is committed or pending.
LEMMA NonceAbove ==
  ASSUME WalletInv, NEW n \in Peer, NEW a \in Payer
  PROVE  /\ NextNonce(n, a, TRUE) \in Nat
         /\ \A tx \in Advanced(n) \cup mempool[n] :
              Checked(tx) /\ tx.from = a => tx.nonce < NextNonce(n, a, TRUE)
<1> DEFINE taken == Advanced(n) \cup mempool[n]
           S == Nonces(taken, a)
<1>1. PICK m \in Nat : \A e \in signed : e.nonce <= m
  BY DEF WalletInv, NoncesBounded
<1>2. \A tx \in taken : tx \in Transaction /\ VerifiedFor(tx)
  <2>1. \A i \in 1 .. height[n] : i \in DOMAIN blocks
    BY DEF WalletInv, HeightsOrdered, WalletTypes
  <2> QED BY <2>1, BlocksSay DEF WalletInv, Advanced
<1>3. \A tx \in taken : tx.nonce \in Nat /\ tx.nonce <= m
  <2> SUFFICES ASSUME NEW tx \in taken PROVE tx.nonce \in Nat /\ tx.nonce <= m
    OBVIOUS
  <2>1. tx.by \in signed /\ tx.nonce = tx.by.nonce
    BY <1>2, VerifiedSays DEF WalletInv, WalletTypes
  <2> QED BY <1>1, <1>2, <2>1 DEF Transaction
<1>4. S \subseteq Nat /\ \A x \in S : x <= m
  BY <1>3 DEF Nonces
<1>5. NextNonce(n, a, TRUE) = NonceAfter(S)
  BY DEF NextNonce
<1>6. NonceAfter(S) \in Nat /\ \A x \in S : x < NonceAfter(S)
  <2> HIDE DEF S
  <2> QED BY <1>4, AfterAll
<1>7. \A tx \in taken : Checked(tx) /\ tx.from = a => tx.nonce \in S
  BY DEF Nonces
<1> HIDE DEF S
<1> QED BY <1>5, <1>6, <1>7

\* So the node takes it.
LEMMA UsableFollows == WalletInv => NonceUsable
<1> SUFFICES ASSUME WalletInv, NEW n \in Peer, NEW a \in Payer,
                    <<a, NextNonce(n, a, TRUE)>> \in SpentSlots(n) \cup mempoolNonces[n]
             PROVE  FALSE
  BY DEF NonceUsable
<1> DEFINE next == NextNonce(n, a, TRUE)
<1>1. PICK tx \in Advanced(n) \cup mempool[n] : Checked(tx) /\ SlotOf(tx) = <<a, next>>
  <2>1. CASE <<a, next>> \in SpentSlots(n)
    BY <2>1 DEF SpentSlots
  <2>2. CASE <<a, next>> \in mempoolNonces[n]
    BY <2>2 DEF WalletInv, NoncesHeld
  <2> QED BY <2>1, <2>2
<1>2. tx.from = a /\ tx.nonce = next
  BY <1>1 DEF SlotOf
<1>3. next \in Nat /\ tx.nonce < next
  BY <1>1, <1>2, NonceAbove
<1> HIDE DEF next
<1> QED BY <1>2, <1>3

\* A hash is in one place of the index.
LEMMA OnePlace ==
  ASSUME WalletInv, NEW n \in Peer, NEW e, NEW i \in Indexed(n, e)
  PROVE  Max(Indexed(n, e)) = i /\ i \in 1 .. kept[n] /\ i \in DOMAIN blocks
<1>1. height[n] \in Nat /\ kept[n] \in Nat /\ Len(blocks) \in Nat /\ DOMAIN blocks = 1 .. Len(blocks)
      /\ height[n] <= kept[n] /\ kept[n] <= Len(blocks)
  BY DEF WalletInv, WalletTypes, HeightsOrdered
<1>2. \A j \in Indexed(n, e) : j \in DOMAIN blocks /\ blocks[j].by = e /\ j \in 1 .. kept[n]
  BY <1>1 DEF Indexed
<1>3. \A j \in Indexed(n, e) : j = i
  BY <1>2 DEF WalletInv, ChainOnce, KeyOf
<1>4. Indexed(n, e) = {i}
  BY <1>3
<1>5. Max({i}) = i
  BY <1>1, <1>2 DEF Max
<1> QED BY <1>2, <1>4, <1>5

LEMMA ReceiptFollows == WalletInv => ReceiptTruth
<1> SUFFICES ASSUME WalletInv, NEW n \in Peer, NEW e \in signed, Receipt(n, e) # Nothing
             PROVE  /\ Receipt(n, e).status = 1 => blocks[Receipt(n, e).at] \in moved
                    /\ Receipt(n, e).status = 0 /\ Receipt(n, e).at > began[n]
                         => blocks[Receipt(n, e).at] \notin moved
  BY DEF ReceiptTruth
<1>1. Indexed(n, e) # {}
  BY DEF Receipt
<1>2. PICK i \in Indexed(n, e) : TRUE
  BY <1>1
<1>3. Max(Indexed(n, e)) = i /\ i \in 1 .. kept[n]
  BY <1>2, OnePlace
<1>4. Receipt(n, e) =
        [at |-> i, status |-> IF blocks[i] \in known[n] /\ blocks[i] \in moved THEN 1 ELSE 0]
  BY <1>1, <1>3 DEF Receipt
<1>5. i > began[n] => blocks[i] \in known[n]
  <2>1. kept[n] \in Nat /\ began[n] \in Nat
    BY DEF WalletInv, WalletTypes
  <2>2. i > began[n] => i \in began[n] + 1 .. kept[n]
    BY <1>3, <2>1
  <2> QED BY <2>2 DEF WalletInv, OutcomesKnown
<1> QED BY <1>4, <1>5

LEMMA LocatedFollows == WalletInv => LocatedRight
BY DEF WalletInv, CallerFollows, LocatedRight

\* The chain does what was signed.
LEMMA SignedFollows == WalletInv => AsSigned
<1> SUFFICES ASSUME WalletInv, NEW i \in DOMAIN blocks
             PROVE  /\ blocks[i].by \in signed /\ (blocks[i].by.form = "raw" => blocks[i].by.chain = Here)
                    /\ blocks[i].from = blocks[i].by.from /\ blocks[i].amount * Scale = blocks[i].by.value
                    /\ blocks[i].to = Recipient(blocks[i].by)
                    /\ \A j \in 1 .. i - 1 :
                         Checked(blocks[i]) /\ Checked(blocks[j]) => SlotOf(blocks[i]) # SlotOf(blocks[j])
  BY DEF AsSigned
<1>1. blocks[i] \in Transaction /\ VerifiedFor(blocks[i])
  BY BlocksSay DEF WalletInv
<1>2. /\ blocks[i].by \in signed /\ (blocks[i].by.form = "raw" => blocks[i].by.chain = Here)
      /\ blocks[i].from = blocks[i].by.from /\ blocks[i].amount * Scale = blocks[i].by.value
      /\ blocks[i].to = Recipient(blocks[i].by)
  BY <1>1, VerifiedSays DEF WalletInv, WalletTypes
<1>3. \A j \in 1 .. i - 1 : j \in DOMAIN blocks /\ i # j
  BY DEF WalletInv, WalletTypes
<1>4. \A j \in 1 .. i - 1 :
        Checked(blocks[i]) /\ Checked(blocks[j]) => SlotOf(blocks[i]) # SlotOf(blocks[j])
  BY <1>3 DEF WalletInv, ChainOnce
<1> QED BY <1>2, <1>4

LEMMA ToldFollows == WalletInv => WalletTold
BY UsableFollows, ReceiptFollows, LocatedFollows DEF WalletTold, WalletInv

\* A transfer is in the history once.
LEMMA HistoryOnce ==
  ASSUME WalletInv, NEW h \in Nat, h <= Len(blocks),
         NEW k \in DOMAIN TransfersIn(blocks, h), NEW l \in DOMAIN TransfersIn(blocks, h),
         SlotOf(TransfersIn(blocks, h)[k]) = SlotOf(TransfersIn(blocks, h)[l])
  PROVE  k = l
<1>1. PICK i \in TransfersAmong(blocks, h) :
        Cardinality(TransfersAmong(blocks, i)) = k /\ TransfersIn(blocks, h)[k] = blocks[i]
  BY HistoryIs
<1>2. PICK j \in TransfersAmong(blocks, h) :
        Cardinality(TransfersAmong(blocks, j)) = l /\ TransfersIn(blocks, h)[l] = blocks[j]
  BY HistoryIs
<1>3. i \in 1 .. h /\ j \in 1 .. h /\ Checked(blocks[i]) /\ Checked(blocks[j])
  BY DEF TransfersAmong
<1>4. i \in DOMAIN blocks /\ j \in DOMAIN blocks
  BY <1>3 DEF WalletInv, WalletTypes
<1>5. i = j
  BY <1>1, <1>2, <1>3, <1>4 DEF WalletInv, ChainOnce
<1> QED BY <1>1, <1>2, <1>5

-----------------------------------------------------------------------------
(* The steps. *)

\* Signing takes the nonce above all of the payer's.
LEMMA SignKeeps ==
  ASSUME WalletInv, NEW n \in Peer, NEW intent \in Intents, Sign(n, intent)
  PROVE  WalletInv'
<1> DEFINE next == NextNonce(n, intent.from, TRUE)
           e == [intent EXCEPT !.nonce = next]
<1>1. intent \in Intent
  BY WalletAssumption
<1>2. next \in Nat
  BY <1>1, NonceAbove DEF Intent
<1>3. e \in Intent /\ e.nonce = next
  <2> HIDE DEF next
  <2> QED BY <1>1, <1>2 DEF Intent
<1>4. signed' = signed \cup {e}
  BY DEF Sign
<1>5. UNCHANGED <<aired, blocks, moved, coins, mempool, mempoolNonces, kept, height, began, known,
                  handed, client, starts>>
  BY DEF Sign, nodeVars
<1> HIDE DEF next, e
<1>6. WalletTypes'
  BY <1>3, <1>4, <1>5 DEF WalletInv, WalletTypes
<1>7. NoncesBounded'
  <2>1. PICK m \in Nat : \A f \in signed : f.nonce <= m
    BY DEF WalletInv, NoncesBounded
  <2>2. \A f \in signed : f.nonce \in Nat
    BY DEF WalletInv, WalletTypes, Intent
  <2>3. PICK k \in Nat : k >= m /\ k >= next
    BY <1>2
  <2>4. \A f \in signed' : f.nonce <= k
    BY <1>2, <1>3, <1>4, <2>1, <2>2, <2>3
  <2> QED BY <2>4 DEF NoncesBounded
<1>8. TakenVerified'
  BY <1>4, <1>5 DEF WalletInv, TakenVerified, VerifiedFor
<1>9. ChainOnce' /\ HeightsOrdered'
  BY <1>5 DEF WalletInv, ChainOnce, HeightsOrdered
<1>10. OutcomesKnown' /\ NoncesHeld'
  BY <1>5 DEF WalletInv, OutcomesKnown, NoncesHeld
<1>11. HashKnown'
  BY <1>5 DEF WalletInv, HashKnown, Found, Indexed
<1>12. CallerFollows' /\ CallerStarts'
  BY <1>5 DEF WalletInv, CallerFollows, CallerStarts, History
<1> QED BY <1>6, <1>7, <1>8, <1>9, <1>10, <1>11, <1>12 DEF WalletInv

\* What a node does with a transaction that was sent or heard.
LEMMA AdmitKeeps ==
  ASSUME WalletInv, NEW n \in Peer, NEW tx \in Transaction, Admissible(n, tx), Admit(n, tx),
         UNCHANGED <<signed, blocks, coins, kept, height, began, known>>
  PROVE  /\ aired' \subseteq Transaction
         /\ mempool' \in [Peer -> SUBSET Transaction]
         /\ mempoolNonces' \in [Peer -> SUBSET (Payer \X Nat)]
         /\ NoncesBounded' /\ TakenVerified' /\ ChainOnce' /\ HeightsOrdered' /\ OutcomesKnown'
         /\ NoncesHeld'
         /\ \A m \in Peer : \A e : Found(m, e) => Found(m, e)'
         /\ tx.by.form = "raw" => Found(n, tx.by)'
<1>1. VerifiedFor(tx)
  BY DEF Admissible
<1>2. NoncesBounded' /\ ChainOnce' /\ HeightsOrdered' /\ OutcomesKnown'
  BY DEF WalletInv, NoncesBounded, ChainOnce, HeightsOrdered, OutcomesKnown
<1>3. CASE Already(n, tx)
  <2>1. UNCHANGED <<aired, mempool, mempoolNonces>>
    BY <1>3 DEF Admit
  <2>2. TakenVerified' /\ NoncesHeld'
    BY <2>1 DEF WalletInv, TakenVerified, NoncesHeld, VerifiedFor
  <2>3. \A m \in Peer : \A e : Found(m, e) => Found(m, e)'
    BY <2>1 DEF Found, Indexed
  <2>4. tx.by.form = "raw" => Found(n, tx.by)
    <3>1. PICK t \in Advanced(n) \cup mempool[n] : t.by = tx.by
      BY <1>3 DEF Already, KeyOf
    <3>2. CASE t \in Advanced(n)
      BY <3>1, <3>2 DEF Advanced, Found, Indexed
    <3>3. CASE t \in mempool[n]
      BY <3>1, <3>3 DEF Found
    <3> QED BY <3>1, <3>2, <3>3
  <2> QED BY <1>2, <2>1, <2>2, <2>3, <2>4 DEF WalletInv, WalletTypes
<1>4. CASE ~Already(n, tx)
  <2> DEFINE used == IF Checked(tx) THEN {SlotOf(tx)} ELSE {}
  <2>1. /\ mempool' = [mempool EXCEPT ![n] = @ \cup {tx}]
        /\ mempoolNonces' = [mempoolNonces EXCEPT ![n] = @ \cup used]
        /\ aired' = aired \cup {tx}
    BY <1>4 DEF Admit
  <2>2. used \subseteq Payer \X Nat
    BY DEF SlotOf, Transaction
  <2>3. \A p \in used : Checked(tx) /\ SlotOf(tx) = p
    OBVIOUS
  <2> HIDE DEF used
  <2>4. /\ aired' \subseteq Transaction
        /\ mempool' \in [Peer -> SUBSET Transaction]
        /\ mempoolNonces' \in [Peer -> SUBSET (Payer \X Nat)]
    BY <2>1, <2>2 DEF WalletInv, WalletTypes
  <2>5. \A m \in Peer : /\ mempool'[m] = IF m = n THEN mempool[m] \cup {tx} ELSE mempool[m]
                        /\ mempoolNonces'[m] = IF m = n THEN mempoolNonces[m] \cup used ELSE mempoolNonces[m]
    BY <2>1 DEF WalletInv, WalletTypes
  <2>6. TakenVerified'
    <3>1. \A i \in DOMAIN blocks' : VerifiedFor(blocks'[i])
      BY DEF WalletInv, TakenVerified, VerifiedFor
    <3>2. \A m \in Peer : \A t \in mempool'[m] : VerifiedFor(t)
      BY <1>1, <2>5 DEF WalletInv, TakenVerified, VerifiedFor
    <3> QED BY <3>1, <3>2 DEF TakenVerified, VerifiedFor
  <2>7. NoncesHeld'
    <3> SUFFICES ASSUME NEW m \in Peer, NEW p \in mempoolNonces'[m]
                 PROVE  \E t \in mempool'[m] : Checked(t) /\ SlotOf(t) = p
      BY DEF NoncesHeld
    <3>1. CASE p \in mempoolNonces[m]
      BY <2>5, <3>1 DEF WalletInv, NoncesHeld
    <3>2. CASE m = n /\ p \in used
      BY <2>3, <2>5, <3>2
    <3> QED BY <2>5, <3>1, <3>2
  <2>8. \A m \in Peer : \A e : Found(m, e) => Found(m, e)'
    BY <2>5 DEF Found, Indexed
  <2>9. tx.by.form = "raw" => Found(n, tx.by)'
    BY <2>5 DEF Found
  <2> QED BY <1>2, <2>4, <2>6, <2>7, <2>8, <2>9
<1> QED BY <1>3, <1>4

LEMMA SendKeeps ==
  ASSUME WalletInv, NEW n \in Peer, NEW e \in signed, SendRawTransaction(n, e)
  PROVE  WalletInv'
<1> DEFINE tx == Derived(e)
<1>1. e.form = "raw" /\ tx # Nothing /\ Admissible(n, tx) /\ Admit(n, tx)
  BY DEF SendRawTransaction
<1>2. tx \in Transaction /\ tx.by = e
  BY <1>1, DerivedSays DEF WalletInv, WalletTypes
<1>3. handed' = [handed EXCEPT ![n] = @ \cup {e}]
  BY DEF SendRawTransaction
<1>4. UNCHANGED <<signed, blocks, moved, coins, kept, height, began, known, client, starts>>
  BY DEF SendRawTransaction
<1> HIDE DEF tx
<1>5. /\ aired' \subseteq Transaction
      /\ mempool' \in [Peer -> SUBSET Transaction]
      /\ mempoolNonces' \in [Peer -> SUBSET (Payer \X Nat)]
      /\ NoncesBounded' /\ TakenVerified' /\ ChainOnce' /\ HeightsOrdered' /\ OutcomesKnown'
      /\ NoncesHeld'
      /\ \A m \in Peer : \A f : Found(m, f) => Found(m, f)'
      /\ tx.by.form = "raw" => Found(n, tx.by)'
  BY <1>1, <1>2, <1>4, AdmitKeeps
<1>6. WalletTypes'
  BY <1>3, <1>4, <1>5 DEF WalletInv, WalletTypes
<1>7. HashKnown'
  <2> SUFFICES ASSUME NEW m \in Peer, NEW f \in handed'[m] PROVE Found(m, f)'
    BY DEF HashKnown
  <2>1. f \in handed[m] \/ (m = n /\ f = e)
    BY <1>3 DEF WalletInv, WalletTypes
  <2>2. CASE f \in handed[m]
    BY <1>5, <2>2 DEF WalletInv, HashKnown
  <2>3. CASE m = n /\ f = e
    BY <1>1, <1>2, <1>5, <2>3
  <2> QED BY <2>1, <2>2, <2>3
<1>8. CallerFollows' /\ CallerStarts'
  BY <1>4 DEF WalletInv, CallerFollows, CallerStarts, History
<1> QED BY <1>5, <1>6, <1>7, <1>8 DEF WalletInv

LEMMA HearKeeps ==
  ASSUME WalletInv, NEW n \in Peer, NEW tx \in Relayed, HearTransaction(n, tx)
  PROVE  WalletInv'
<1>1. tx \in Transaction /\ Admissible(n, tx) /\ Admit(n, tx)
  BY RelayedIs DEF HearTransaction, WalletInv, WalletTypes
<1>2. UNCHANGED <<signed, blocks, moved, coins, kept, height, began, known, handed, client, starts>>
  BY DEF HearTransaction
<1>3. /\ aired' \subseteq Transaction
      /\ mempool' \in [Peer -> SUBSET Transaction]
      /\ mempoolNonces' \in [Peer -> SUBSET (Payer \X Nat)]
      /\ NoncesBounded' /\ TakenVerified' /\ ChainOnce' /\ HeightsOrdered' /\ OutcomesKnown'
      /\ NoncesHeld'
      /\ \A m \in Peer : \A f : Found(m, f) => Found(m, f)'
  BY <1>1, <1>2, AdmitKeeps
<1>4. WalletTypes'
  BY <1>2, <1>3 DEF WalletInv, WalletTypes
<1>5. HashKnown'
  BY <1>2, <1>3 DEF WalletInv, HashKnown
<1>6. CallerFollows' /\ CallerStarts'
  BY <1>2 DEF WalletInv, CallerFollows, CallerStarts, History
<1> QED BY <1>3, <1>4, <1>5, <1>6 DEF WalletInv

LEMMA SettleKeeps ==
  ASSUME WalletInv, NEW n \in Peer, NEW e \in signed, Settle(n, e)
  PROVE  WalletInv'
<1> DEFINE tx == Derived(e)
           c == [tx |-> tx, at |-> "wait", start |-> 1, found |-> 0]
<1>1. tx # Nothing /\ Admissible(n, tx) /\ Admit(n, tx)
  BY DEF Settle
<1>2. tx \in Transaction
  BY <1>1, DerivedSays DEF WalletInv, WalletTypes
<1>3. client' = [client EXCEPT ![n] = c]
  BY DEF Settle
<1>4. UNCHANGED <<signed, blocks, moved, coins, kept, height, began, known, handed, starts>>
  BY DEF Settle
<1>5. c \in Caller /\ c.at = "wait" /\ c.start = 1 /\ c.found = 0
  BY <1>2 DEF Caller
<1> HIDE DEF tx, c
<1>6. /\ aired' \subseteq Transaction
      /\ mempool' \in [Peer -> SUBSET Transaction]
      /\ mempoolNonces' \in [Peer -> SUBSET (Payer \X Nat)]
      /\ NoncesBounded' /\ TakenVerified' /\ ChainOnce' /\ HeightsOrdered' /\ OutcomesKnown'
      /\ NoncesHeld'
      /\ \A m \in Peer : \A f : Found(m, f) => Found(m, f)'
  BY <1>1, <1>2, <1>4, AdmitKeeps
<1>7. WalletTypes'
  BY <1>3, <1>4, <1>5, <1>6 DEF WalletInv, WalletTypes
<1>8. HashKnown'
  BY <1>4, <1>6 DEF WalletInv, HashKnown
<1>9. \A m \in Peer : client'[m] = IF m = n THEN c ELSE client[m]
  BY <1>3 DEF WalletInv, WalletTypes
<1>10. CallerFollows'
  BY <1>4, <1>5, <1>9 DEF WalletInv, CallerFollows, History
<1>11. CallerStarts'
  BY <1>5, <1>9 DEF WalletInv, CallerStarts
<1> QED BY <1>6, <1>7, <1>8, <1>10, <1>11 DEF WalletInv

LEMMA CommitKeeps ==
  ASSUME WalletInv, NEW tx \in Relayed, CommitTransaction(tx)
  PROVE  WalletInv'
<1>1. tx \in Transaction /\ VerifiedFor(tx)
  BY RelayedIs DEF CommitTransaction, WalletInv, WalletTypes
<1>2. blocks' = Append(blocks, tx)
  BY DEF CommitTransaction
<1>3. UNCHANGED <<signed, aired, mempool, mempoolNonces, kept, height, began, known, handed,
                  client, starts>>
  BY DEF CommitTransaction, nodeVars
<1>4. /\ blocks' \in Seq(Transaction) /\ Len(blocks') = Len(blocks) + 1 /\ Len(blocks) \in Nat
      /\ DOMAIN blocks = 1 .. Len(blocks) /\ DOMAIN blocks' = 1 .. Len(blocks) + 1
      /\ \A i \in DOMAIN blocks : blocks'[i] = blocks[i]
      /\ blocks'[Len(blocks) + 1] = tx
  BY <1>1, <1>2 DEF WalletInv, WalletTypes
<1>5. coins' \in [Payer -> Nat]
  <2>1. coins \in [Payer -> Nat] /\ tx.from \in Payer /\ tx.amount \in Nat
    BY <1>1 DEF WalletInv, WalletTypes, Transaction
  <2>2. CASE coins[tx.from] < tx.amount
    BY <2>1, <2>2 DEF CommitTransaction
  <2>3. CASE ~(coins[tx.from] < tx.amount)
    <3> DEFINE taken == [coins EXCEPT ![tx.from] = @ - tx.amount]
    <3>1. taken \in [Payer -> Nat]
      BY <2>1, <2>3
    <3>2. coins' = IF IsAccount(tx.to) THEN [taken EXCEPT ![tx.to] = @ + tx.amount] ELSE taken
      BY <2>3 DEF CommitTransaction
    <3> HIDE DEF taken
    <3> QED BY <2>1, <3>1, <3>2 DEF IsAccount
  <2> QED BY <2>2, <2>3
<1>6. WalletTypes'
  BY <1>3, <1>4, <1>5 DEF WalletInv, WalletTypes
<1>7. NoncesBounded' /\ NoncesHeld'
  BY <1>3 DEF WalletInv, NoncesBounded, NoncesHeld
<1>8. TakenVerified'
  <2>1. \A i \in DOMAIN blocks' : VerifiedFor(blocks'[i])
    BY <1>1, <1>4 DEF WalletInv, TakenVerified
  <2>2. \A i \in DOMAIN blocks' : VerifiedFor(blocks[i])' <=> VerifiedFor(blocks'[i])
    BY <1>3 DEF VerifiedFor
  <2> QED BY <1>3, <2>1, <2>2 DEF WalletInv, TakenVerified, VerifiedFor
<1>9. ChainOnce'
  <2>1. \A i \in DOMAIN blocks :
          /\ KeyOf(blocks[i]) # KeyOf(tx)
          /\ Checked(tx) /\ Checked(blocks[i]) => SlotOf(blocks[i]) # SlotOf(tx)
    BY DEF CommitTransaction
  <2>2. \A i \in DOMAIN blocks' : i \in DOMAIN blocks \/ i = Len(blocks) + 1
    BY <1>4
  <2> SUFFICES ASSUME NEW i \in DOMAIN blocks', NEW j \in DOMAIN blocks', i # j
               PROVE  /\ KeyOf(blocks'[i]) # KeyOf(blocks'[j])
                      /\ Checked(blocks'[i]) /\ Checked(blocks'[j])
                           => SlotOf(blocks'[i]) # SlotOf(blocks'[j])
    BY DEF ChainOnce
  <2>3. CASE i \in DOMAIN blocks /\ j \in DOMAIN blocks
    BY <1>4, <2>3 DEF WalletInv, ChainOnce
  <2>4. CASE i \in DOMAIN blocks /\ j = Len(blocks) + 1
    BY <1>4, <2>1, <2>4
  <2>5. CASE i = Len(blocks) + 1 /\ j \in DOMAIN blocks
    BY <1>4, <2>1, <2>5
  <2> QED BY <2>2, <2>3, <2>4, <2>5
<1>10. HeightsOrdered'
  <2>1. \A n \in Peer : kept[n] \in Nat
    BY DEF WalletInv, WalletTypes
  <2> QED BY <1>3, <1>4, <2>1 DEF WalletInv, HeightsOrdered
<1>11. \A n \in Peer : \A i \in 1 .. kept[n] : i \in DOMAIN blocks /\ blocks'[i] = blocks[i]
  <2>1. \A n \in Peer : kept[n] \in Nat /\ kept[n] <= Len(blocks)
    BY DEF WalletInv, WalletTypes, HeightsOrdered
  <2>2. \A n \in Peer : \A i \in 1 .. kept[n] : i \in DOMAIN blocks
    BY <1>4, <2>1
  <2> QED BY <1>4, <2>2
<1>12. OutcomesKnown'
  <2>1. \A n \in Peer : \A i \in began[n] + 1 .. kept[n] : i \in 1 .. kept[n]
    BY DEF WalletInv, WalletTypes
  <2> QED BY <1>3, <1>11, <2>1 DEF WalletInv, OutcomesKnown
<1>13. HashKnown'
  <2>1. \A n \in Peer : \A i \in 1 .. height[n] : i \in 1 .. kept[n]
    BY DEF WalletInv, WalletTypes, HeightsOrdered
  <2>2. \A n \in Peer : \A e : Found(n, e) => Found(n, e)'
    BY <1>3, <1>11, <2>1 DEF Found, Indexed
  <2> QED BY <1>3, <2>2 DEF WalletInv, HashKnown
<1>14. \A n \in Peer : History(n)' = History(n)
  <2> SUFFICES ASSUME NEW n \in Peer PROVE TransfersIn(blocks', kept[n]) = TransfersIn(blocks, kept[n])
    BY <1>3 DEF History
  <2> DEFINE s == blocks
             t == blocks'
             h == kept[n]
  <2>1. h \in Nat /\ h <= h /\ (\A i \in 1 .. h : s[i] = t[i] /\ t[i] = s[i])
    BY <1>11 DEF WalletInv, WalletTypes
  <2> HIDE DEF s, t, h
  <2>2. \A k \in DOMAIN TransfersIn(s, h) :
          k \in DOMAIN TransfersIn(t, h) /\ TransfersIn(t, h)[k] = TransfersIn(s, h)[k]
    BY <2>1, HistoryGrows
  <2>3. \A k \in DOMAIN TransfersIn(t, h) : k \in DOMAIN TransfersIn(s, h)
    BY <2>1, HistoryGrows
  <2>4. TransfersIn(t, h) = TransfersIn(s, h)
    <3>1. DOMAIN TransfersIn(s, h) = DOMAIN TransfersIn(t, h)
      BY <2>2, <2>3
    <3>2. /\ TransfersIn(s, h) = [k \in DOMAIN TransfersIn(s, h) |-> TransfersIn(s, h)[k]]
          /\ TransfersIn(t, h) = [k \in DOMAIN TransfersIn(t, h) |-> TransfersIn(t, h)[k]]
      BY DEF TransfersIn
    <3> QED BY <2>2, <3>1, <3>2
  <2> QED BY <2>4 DEF s, t, h
<1>15. CallerFollows'
  BY <1>3, <1>11, <1>14 DEF WalletInv, CallerFollows
<1>16. CallerStarts'
  BY <1>3 DEF WalletInv, CallerStarts
<1> QED BY <1>6, <1>7, <1>8, <1>9, <1>10, <1>12, <1>13, <1>15, <1>16 DEF WalletInv

\* A block on disk is one more in the history, after the others.
LEMMA StoreKeeps ==
  ASSUME WalletInv, NEW n \in Peer, StoreBlock(n)
  PROVE  WalletInv'
<1> DEFINE h == kept[n]
           tx == blocks[h + 1]
<1>1. h = height[n] /\ h < Len(blocks)
  BY DEF StoreBlock
<1>2. kept' = [kept EXCEPT ![n] = h + 1] /\ known' = [known EXCEPT ![n] = @ \cup {tx}]
  BY DEF StoreBlock
<1>3. UNCHANGED <<signed, aired, blocks, moved, coins, mempool, mempoolNonces, height, began,
                  handed, client, starts>>
  BY DEF StoreBlock
<1>4. h \in Nat /\ h + 1 \in DOMAIN blocks /\ tx \in Transaction /\ Len(blocks) \in Nat
  BY <1>1 DEF WalletInv, WalletTypes
<1> HIDE DEF tx
<1>5. \A m \in Peer : /\ kept'[m] = IF m = n THEN h + 1 ELSE kept[m]
                      /\ known'[m] = IF m = n THEN known[m] \cup {tx} ELSE known[m]
  BY <1>2 DEF WalletInv, WalletTypes
<1>6. WalletTypes'
  <2>1. kept' \in [Peer -> Nat] /\ known' \in [Peer -> SUBSET Transaction]
    BY <1>2, <1>4 DEF WalletInv, WalletTypes
  <2> QED BY <1>3, <2>1 DEF WalletInv, WalletTypes
<1>7. NoncesBounded' /\ ChainOnce' /\ NoncesHeld'
  BY <1>3 DEF WalletInv, NoncesBounded, ChainOnce, NoncesHeld
<1>8. TakenVerified'
  BY <1>3 DEF WalletInv, TakenVerified, VerifiedFor
<1>9. HeightsOrdered'
  <2>1. \A m \in Peer : kept[m] \in Nat /\ height[m] \in Nat /\ began[m] \in Nat
    BY DEF WalletInv, WalletTypes
  <2>2. \A m \in Peer :
          /\ began[m] <= height[m] /\ height[m] <= kept[m] /\ kept[m] <= Len(blocks)
          /\ kept[m] <= height[m] + 1
    BY DEF WalletInv, HeightsOrdered
  <2> SUFFICES ASSUME NEW m \in Peer
               PROVE  /\ began[m] <= height[m] /\ height[m] <= kept'[m] /\ kept'[m] <= Len(blocks)
                      /\ kept'[m] <= height[m] + 1
    BY <1>3 DEF HeightsOrdered
  <2>3. CASE m # n
    BY <1>5, <2>2, <2>3
  <2>4. CASE m = n
    <3>1. kept'[m] = h + 1 /\ h = height[m]
      BY <1>1, <1>5, <2>4
    <3> HIDE DEF h
    <3> QED BY <1>1, <1>4, <2>1, <2>2, <3>1
  <2> QED BY <2>3, <2>4
<1>10. OutcomesKnown'
  <2> SUFFICES ASSUME NEW m \in Peer
               PROVE  /\ \A t \in known'[m] : \E i \in 1 .. kept'[m] : blocks[i] = t
                      /\ \A i \in began[m] + 1 .. kept'[m] : blocks[i] \in known'[m]
    BY <1>3 DEF OutcomesKnown
  <2>1. /\ \A t \in known[m] : \E i \in 1 .. kept[m] : blocks[i] = t
        /\ \A i \in began[m] + 1 .. kept[m] : blocks[i] \in known[m]
    BY DEF WalletInv, OutcomesKnown
  <2>2. CASE m # n
    BY <1>5, <2>1, <2>2
  <2>3. CASE m = n
    <3>1. /\ kept[m] = h /\ kept'[m] = h + 1 /\ known'[m] = known[m] \cup {tx}
          /\ began[m] \in Nat /\ blocks[h + 1] = tx
      BY <1>5, <2>3 DEF WalletInv, WalletTypes, tx
    <3> HIDE DEF h
    <3>2. \A t \in known'[m] : \E i \in 1 .. kept'[m] : blocks[i] = t
      <4> SUFFICES ASSUME NEW t \in known'[m] PROVE \E i \in 1 .. h + 1 : blocks[i] = t
        BY <3>1
      <4>1. CASE t \in known[m]
        <5>1. PICK i \in 1 .. h : blocks[i] = t
          BY <2>1, <3>1, <4>1
        <5> QED BY <1>4, <5>1
      <4>2. CASE t = tx
        <5>1. h + 1 \in 1 .. h + 1
          BY <1>4
        <5> QED BY <3>1, <4>2, <5>1
      <4> QED BY <3>1, <4>1, <4>2
    <3>3. \A i \in began[m] + 1 .. kept'[m] : blocks[i] \in known'[m]
      <4> SUFFICES ASSUME NEW i \in began[m] + 1 .. h + 1 PROVE blocks[i] \in known'[m]
        BY <3>1
      <4>1. i = h + 1 \/ i \in began[m] + 1 .. h
        BY <1>4, <3>1
      <4> QED BY <2>1, <3>1, <4>1
    <3> QED BY <3>2, <3>3
  <2> QED BY <2>2, <2>3
<1>11. HashKnown'
  BY <1>3 DEF WalletInv, HashKnown, Found, Indexed
<1>12. CallerStarts'
  BY <1>3 DEF WalletInv, CallerStarts
<1>13. CallerFollows'
  <2> SUFFICES ASSUME NEW m \in Peer, client[m] # Nothing, client[m].at \in {"locate", "located"},
                      Checked(client[m].tx)
               PROVE  /\ \E i \in 1 .. kept'[m] : blocks[i] = client[m].tx
                      /\ \A k \in DOMAIN TransfersIn(blocks, kept'[m]) :
                           /\ TransfersIn(blocks, kept'[m])[k] = client[m].tx
                           /\ k < client[m].start
                           => client[m].found # 0
                      /\ client[m].found # 0 =>
                           /\ client[m].found \in DOMAIN TransfersIn(blocks, kept'[m])
                           /\ TransfersIn(blocks, kept'[m])[client[m].found] = client[m].tx
                      /\ client[m].at = "located" => client[m].found # 0
    BY <1>3 DEF CallerFollows, History
  <2> DEFINE c == client[m]
             g == kept[m]
  <2>1. /\ \E i \in 1 .. g : blocks[i] = c.tx
        /\ \A k \in DOMAIN TransfersIn(blocks, g) :
             TransfersIn(blocks, g)[k] = c.tx /\ k < c.start => c.found # 0
        /\ c.found # 0 => c.found \in DOMAIN TransfersIn(blocks, g) /\ TransfersIn(blocks, g)[c.found] = c.tx
        /\ c.at = "located" => c.found # 0
    BY DEF WalletInv, CallerFollows, History
  <2>2. CASE m # n
    BY <1>5, <2>1, <2>2
  <2>3. CASE m = n
    <3>1. g = h /\ kept'[m] = h + 1 /\ Checked(c.tx)
      BY <1>5, <2>3
    <3> HIDE DEF c, g, h
    <3>2. \A k \in DOMAIN TransfersIn(blocks, h) :
            /\ k \in DOMAIN TransfersIn(blocks, h + 1)
            /\ TransfersIn(blocks, h + 1)[k] = TransfersIn(blocks, h)[k]
      <4>1. h + 1 \in Nat /\ h <= h + 1
        BY <1>4
      <4> QED BY <1>4, <4>1, HistoryGrows
    <3>3. \E i \in 1 .. h + 1 : blocks[i] = c.tx
      <4>1. PICK i \in 1 .. h : blocks[i] = c.tx
        BY <2>1, <3>1
      <4> QED BY <1>4, <4>1
    <3>4. ASSUME NEW k \in DOMAIN TransfersIn(blocks, h + 1), TransfersIn(blocks, h + 1)[k] = c.tx,
                 k < c.start
          PROVE  c.found # 0
      <4>1. PICK i \in 1 .. h : blocks[i] = c.tx
        BY <2>1, <3>1
      <4>2. PICK l \in DOMAIN TransfersIn(blocks, h) : TransfersIn(blocks, h)[l] = blocks[i]
        BY <1>4, <3>1, <4>1, HistoryHas
      <4>3. l \in DOMAIN TransfersIn(blocks, h + 1) /\ TransfersIn(blocks, h + 1)[l] = c.tx
        BY <3>2, <4>1, <4>2
      <4>4. h + 1 \in Nat /\ h + 1 <= Len(blocks)
        BY <1>1, <1>4 DEF h
      <4>5. k = l
        BY <3>4, <4>3, <4>4, HistoryOnce
      <4> QED BY <2>1, <3>1, <3>4, <4>1, <4>2, <4>5
    <3>5. c.found # 0 => c.found \in DOMAIN TransfersIn(blocks, h + 1)
                         /\ TransfersIn(blocks, h + 1)[c.found] = c.tx
      BY <2>1, <3>1, <3>2
    <3>6. /\ \E i \in 1 .. kept'[m] : blocks[i] = c.tx
          /\ \A k \in DOMAIN TransfersIn(blocks, kept'[m]) :
               TransfersIn(blocks, kept'[m])[k] = c.tx /\ k < c.start => c.found # 0
          /\ c.found # 0 => c.found \in DOMAIN TransfersIn(blocks, kept'[m])
                            /\ TransfersIn(blocks, kept'[m])[c.found] = c.tx
          /\ c.at = "located" => c.found # 0
      BY <2>1, <3>1, <3>3, <3>4, <3>5
    <3> QED BY <3>6 DEF c
  <2> QED BY <2>2, <2>3
<1> QED BY <1>6, <1>7, <1>8, <1>9, <1>10, <1>11, <1>12, <1>13 DEF WalletInv

\* The mempool keeps what the block has not.
LEMMA AdvanceKeeps ==
  ASSUME WalletInv, NEW n \in Peer, AdvanceBlock(n)
  PROVE  WalletInv'
<1> DEFINE h == kept[n]
           tx == blocks[h]
           used == IF Checked(tx) THEN {SlotOf(tx)} ELSE {}
<1>1. h > height[n]
  BY DEF AdvanceBlock
<1>2. /\ height' = [height EXCEPT ![n] = @ + 1]
      /\ mempool' = [mempool EXCEPT ![n] = {t \in @ : KeyOf(t) # KeyOf(tx)}]
      /\ mempoolNonces' = [mempoolNonces EXCEPT ![n] = @ \ used]
  BY DEF AdvanceBlock
<1>3. UNCHANGED <<signed, aired, blocks, moved, coins, kept, began, known, handed, client, starts>>
  BY DEF AdvanceBlock
<1>4. /\ h \in Nat /\ height[n] \in Nat /\ began[n] \in Nat /\ Len(blocks) \in Nat
      /\ DOMAIN blocks = 1 .. Len(blocks)
      /\ began[n] <= height[n] /\ h <= height[n] + 1 /\ h <= Len(blocks)
  BY DEF WalletInv, WalletTypes, HeightsOrdered
<1>5. h = height[n] + 1 /\ h \in DOMAIN blocks
  <2> HIDE DEF h
  <2> QED BY <1>1, <1>4
<1>6. VerifiedFor(tx)
  BY <1>5 DEF WalletInv, TakenVerified
<1>7. \A p \in used : Checked(tx) /\ SlotOf(tx) = p
  OBVIOUS
<1>8. Checked(tx) => SlotOf(tx) \in used
  OBVIOUS
<1>9. tx = blocks[h]
  OBVIOUS
<1> HIDE DEF used, tx
<1>10. \A m \in Peer :
         /\ height'[m] = IF m = n THEN h ELSE height[m]
         /\ mempool'[m] = IF m = n THEN {t \in mempool[m] : KeyOf(t) # KeyOf(tx)} ELSE mempool[m]
         /\ mempoolNonces'[m] = IF m = n THEN mempoolNonces[m] \ used ELSE mempoolNonces[m]
  BY <1>2, <1>5 DEF WalletInv, WalletTypes
<1>11. WalletTypes'
  <2>1. height' \in [Peer -> Nat]
    BY <1>2, <1>4 DEF WalletInv, WalletTypes
  <2>2. mempool' \in [Peer -> SUBSET Transaction]
    BY <1>2 DEF WalletInv, WalletTypes
  <2>3. mempoolNonces' \in [Peer -> SUBSET (Payer \X Nat)]
    BY <1>2 DEF WalletInv, WalletTypes
  <2> QED BY <1>3, <2>1, <2>2, <2>3 DEF WalletInv, WalletTypes
<1>12. NoncesBounded' /\ ChainOnce' /\ OutcomesKnown'
  BY <1>3 DEF WalletInv, NoncesBounded, ChainOnce, OutcomesKnown
<1>13. TakenVerified'
  <2>1. \A m \in Peer : mempool'[m] \subseteq mempool[m]
    BY <1>10
  <2> QED BY <1>3, <2>1 DEF WalletInv, TakenVerified, VerifiedFor
<1>14. HeightsOrdered'
  <2> SUFFICES ASSUME NEW m \in Peer
               PROVE  /\ began[m] <= height'[m] /\ height'[m] <= kept[m] /\ kept[m] <= Len(blocks)
                      /\ kept[m] <= height'[m] + 1
    BY <1>3 DEF HeightsOrdered
  <2>1. CASE m # n
    BY <1>10, <2>1 DEF WalletInv, HeightsOrdered
  <2>2. CASE m = n
    <3>1. height'[m] = h /\ kept[m] = h /\ began[m] <= height[n]
      BY <1>4, <1>10, <2>2
    <3>2. began[m] \in Nat
      BY <1>4, <2>2
    <3> HIDE DEF h
    <3> QED BY <1>4, <1>5, <3>1, <3>2
  <2> QED BY <2>1, <2>2
<1>15. NoncesHeld'
  <2> SUFFICES ASSUME NEW m \in Peer, NEW p \in mempoolNonces'[m]
               PROVE  \E t \in mempool'[m] : Checked(t) /\ SlotOf(t) = p
    BY DEF NoncesHeld
  <2>1. p \in mempoolNonces[m] /\ (m = n => p \notin used)
    BY <1>10
  <2>2. PICK t \in mempool[m] : Checked(t) /\ SlotOf(t) = p
    BY <2>1 DEF WalletInv, NoncesHeld
  <2>3. m = n => KeyOf(t) # KeyOf(tx)
    <3> SUFFICES ASSUME m = n, KeyOf(t) = KeyOf(tx) PROVE FALSE
      OBVIOUS
    <3>1. VerifiedFor(t)
      BY <2>2 DEF WalletInv, TakenVerified
    <3>2. t = tx
      BY <1>6, <3>1, VerifiedOnce
    <3> QED BY <1>8, <2>1, <2>2, <3>2
  <2> QED BY <1>10, <2>2, <2>3
<1>16. HashKnown'
  <2> SUFFICES ASSUME NEW m \in Peer, NEW e \in handed[m] PROVE Found(m, e)'
    BY <1>3 DEF HashKnown
  <2>1. e.form = "raw" /\ (Indexed(m, e) # {} \/ \E t \in mempool[m] : t.by = e)
    BY DEF WalletInv, HashKnown, Found
  <2>2. CASE Indexed(m, e) # {}
    <3>1. PICK i \in 1 .. height[m] : blocks[i].by = e
      BY <2>2 DEF Indexed
    <3>2. i \in 1 .. height'[m]
      <4>1. CASE m # n
        BY <1>10, <4>1
      <4>2. CASE m = n
        <5>1. height'[m] = h /\ height[m] = height[n]
          BY <1>10, <4>2
        <5> HIDE DEF h
        <5> QED BY <1>4, <1>5, <5>1
      <4> QED BY <4>1, <4>2
    <3> QED BY <1>3, <2>1, <3>1, <3>2 DEF Found, Indexed
  <2>3. CASE \E t \in mempool[m] : t.by = e
    <3>1. PICK t \in mempool[m] : t.by = e
      BY <2>3
    <3>2. CASE t \in mempool'[m]
      BY <2>1, <3>1, <3>2 DEF Found
    <3>3. CASE t \notin mempool'[m]
      <4>1. m = n /\ tx.by = e
        BY <1>10, <3>1, <3>3 DEF KeyOf
      <4>2. h \in 1 .. h
        <5> HIDE DEF h
        <5> QED BY <1>4, <1>5
      <4>3. h \in 1 .. height'[m] /\ blocks'[h].by = e
        BY <1>3, <1>9, <1>10, <4>1, <4>2
      <4> HIDE DEF h
      <4> QED BY <2>1, <4>3 DEF Found, Indexed
    <3> QED BY <3>2, <3>3
  <2> QED BY <2>1, <2>2, <2>3
<1>17. CallerFollows' /\ CallerStarts'
  BY <1>3 DEF WalletInv, CallerFollows, CallerStarts, History
<1> QED BY <1>11, <1>12, <1>13, <1>14, <1>15, <1>16, <1>17 DEF WalletInv

\* What a restart forgets is what is promised for as long as a process runs.
LEMMA RestartKeeps ==
  ASSUME WalletInv, NEW n \in Peer, RestartNode(n)
  PROVE  WalletInv'
<1>1. /\ mempool' = [mempool EXCEPT ![n] = {}] /\ mempoolNonces' = [mempoolNonces EXCEPT ![n] = {}]
      /\ known' = [known EXCEPT ![n] = {}] /\ handed' = [handed EXCEPT ![n] = {}]
      /\ client' = [client EXCEPT ![n] = Nothing]
      /\ height' = [height EXCEPT ![n] = kept[n]]
      /\ began' = [began EXCEPT ![n] = kept[n]]
  BY DEF RestartNode
<1>2. UNCHANGED <<signed, aired, blocks, moved, coins, kept>>
  BY DEF RestartNode
<1>3. \A m \in Peer :
        /\ mempool'[m] = IF m = n THEN {} ELSE mempool[m]
        /\ mempoolNonces'[m] = IF m = n THEN {} ELSE mempoolNonces[m]
        /\ known'[m] = IF m = n THEN {} ELSE known[m]
        /\ handed'[m] = IF m = n THEN {} ELSE handed[m]
        /\ client'[m] = IF m = n THEN Nothing ELSE client[m]
        /\ height'[m] = IF m = n THEN kept[m] ELSE height[m]
        /\ began'[m] = IF m = n THEN kept[m] ELSE began[m]
  BY <1>1 DEF WalletInv, WalletTypes
<1>4. \A m \in Peer : kept[m] \in Nat /\ Len(blocks) \in Nat
  BY DEF WalletInv, WalletTypes
<1>5. WalletTypes'
  BY <1>1, <1>2 DEF WalletInv, WalletTypes
<1>6. NoncesBounded' /\ ChainOnce'
  BY <1>2 DEF WalletInv, NoncesBounded, ChainOnce
<1>7. TakenVerified'
  BY <1>2, <1>3 DEF WalletInv, TakenVerified, VerifiedFor
<1>8. HeightsOrdered'
  <2> SUFFICES ASSUME NEW m \in Peer
               PROVE  /\ began'[m] <= height'[m] /\ height'[m] <= kept[m] /\ kept[m] <= Len(blocks)
                      /\ kept[m] <= height'[m] + 1
    BY <1>2 DEF HeightsOrdered
  <2>1. CASE m # n
    BY <1>3, <2>1 DEF WalletInv, HeightsOrdered
  <2>2. CASE m = n
    <3>1. kept[m] <= Len(blocks)
      BY DEF WalletInv, HeightsOrdered
    <3> QED BY <1>3, <1>4, <2>2, <3>1
  <2> QED BY <2>1, <2>2
<1>9. OutcomesKnown'
  <2> SUFFICES ASSUME NEW m \in Peer
               PROVE  /\ \A t \in known'[m] : \E i \in 1 .. kept[m] : blocks[i] = t
                      /\ \A i \in began'[m] + 1 .. kept[m] : blocks[i] \in known'[m]
    BY <1>2 DEF OutcomesKnown
  <2>1. CASE m # n
    BY <1>3, <2>1 DEF WalletInv, OutcomesKnown
  <2>2. CASE m = n
    BY <1>3, <1>4, <2>2
  <2> QED BY <2>1, <2>2
<1>10. NoncesHeld'
  BY <1>3 DEF WalletInv, NoncesHeld
<1>11. HashKnown'
  <2> SUFFICES ASSUME NEW m \in Peer, NEW e \in handed'[m] PROVE Found(m, e)'
    BY DEF HashKnown
  <2>1. m # n /\ e \in handed[m] /\ height'[m] = height[m] /\ mempool'[m] = mempool[m]
    BY <1>3
  <2> QED BY <1>2, <2>1 DEF WalletInv, HashKnown, Found, Indexed
<1>12. CallerFollows' /\ CallerStarts'
  BY <1>2, <1>3 DEF WalletInv, CallerFollows, CallerStarts, History
<1> QED BY <1>5, <1>6, <1>7, <1>8, <1>9, <1>10, <1>11, <1>12 DEF WalletInv

\* What a caller does concerns no one else.
LEMMA CallerKeeps ==
  ASSUME WalletInv,
         UNCHANGED <<signed, aired, blocks, moved, coins, mempool, mempoolNonces, kept, height,
                     began, known, handed, starts>>,
         client' \in [Peer -> {Nothing} \cup Caller], CallerFollows', CallerStarts'
  PROVE  WalletInv'
<1>1. WalletTypes'
  BY DEF WalletInv, WalletTypes
<1>2. NoncesBounded' /\ TakenVerified' /\ ChainOnce'
  BY DEF WalletInv, NoncesBounded, TakenVerified, ChainOnce, VerifiedFor
<1>3. HeightsOrdered' /\ OutcomesKnown' /\ NoncesHeld'
  BY DEF WalletInv, HeightsOrdered, OutcomesKnown, NoncesHeld
<1>4. HashKnown'
  BY DEF WalletInv, HashKnown, Found, Indexed
<1> QED BY <1>1, <1>2, <1>3, <1>4 DEF WalletInv

LEMMA OutcomeKeeps ==
  ASSUME WalletInv, NEW n \in Peer, SettleOutcome(n)
  PROVE  WalletInv'
<1> DEFINE next == IF client[n].tx \in moved THEN "locate" ELSE "refused"
           c == [client[n] EXCEPT !.at = next]
<1>1. client[n] # Nothing /\ client[n].at = "wait" /\ client[n].tx \in known[n]
  BY DEF SettleOutcome
<1>2. client' = [client EXCEPT ![n] = c]
  BY DEF SettleOutcome
<1>3. UNCHANGED <<signed, aired, blocks, moved, coins, mempool, mempoolNonces, kept, height, began,
                  known, handed, starts>>
  BY DEF SettleOutcome
<1>4. client[n] \in Caller /\ client[n].start = 1 /\ client[n].found = 0
  BY <1>1 DEF WalletInv, WalletTypes, CallerStarts
<1>5. next \in {"locate", "refused"}
  OBVIOUS
<1> HIDE DEF next
<1>6. c \in Caller /\ c.tx = client[n].tx /\ c.at = next /\ c.start = 1 /\ c.found = 0
  BY <1>4, <1>5 DEF Caller
<1> HIDE DEF c
<1>7. \A m \in Peer : client'[m] = IF m = n THEN c ELSE client[m]
  BY <1>2 DEF WalletInv, WalletTypes
<1>8. client' \in [Peer -> {Nothing} \cup Caller]
  BY <1>2, <1>6 DEF WalletInv, WalletTypes
<1>9. CallerFollows'
  <2>1. \E i \in 1 .. kept[n] : blocks[i] = c.tx
    BY <1>1, <1>6 DEF WalletInv, OutcomesKnown
  <2>2. \A k \in DOMAIN TransfersIn(blocks, kept[n]) : ~(k < c.start)
    BY <1>6 DEF TransfersIn
  <2>3. c.at # "located" /\ c.found = 0
    BY <1>5, <1>6
  <2> QED BY <1>3, <1>7, <2>1, <2>2, <2>3 DEF WalletInv, CallerFollows, History
<1>10. CallerStarts'
  BY <1>5, <1>6, <1>7 DEF WalletInv, CallerStarts
<1> QED BY <1>3, <1>8, <1>9, <1>10, CallerKeeps

LEMMA EndsKeeps ==
  ASSUME WalletInv, NEW n \in Peer, SettleEnds(n)
  PROVE  WalletInv'
<1>1. client' = [client EXCEPT ![n] = Nothing]
  BY DEF SettleEnds
<1>2. UNCHANGED <<signed, aired, blocks, moved, coins, mempool, mempoolNonces, kept, height, began,
                  known, handed, starts>>
  BY DEF SettleEnds
<1>3. \A m \in Peer : client'[m] = IF m = n THEN Nothing ELSE client[m]
  BY <1>1 DEF WalletInv, WalletTypes
<1>4. client' \in [Peer -> {Nothing} \cup Caller]
  BY <1>1 DEF WalletInv, WalletTypes
<1>5. CallerFollows' /\ CallerStarts'
  BY <1>2, <1>3 DEF WalletInv, CallerFollows, CallerStarts, History
<1> QED BY <1>2, <1>4, <1>5, CallerKeeps

\* A page finds the transfer if it is there: nothing else in the history has its
\* sender and nonce.
LEMMA PageKeeps ==
  ASSUME WalletInv, NEW n \in Peer, SettlePage(n)
  PROVE  WalletInv'
<1> DEFINE c == client[n]
           T == TransfersIn(blocks, kept[n])
           match == c.start <= Len(T) /\ [T[c.start] EXCEPT !.by = c.tx.by] = c.tx
           found == IF match THEN c.start ELSE c.found
           at == IF c.start >= Len(T) THEN "located" ELSE "locate"
           d == [tx |-> c.tx, found |-> found, start |-> c.start + 1, at |-> at]
<1>1. c # Nothing /\ c.at = "locate"
  BY DEF SettlePage
<1>2. client' = [client EXCEPT ![n] = d]
  BY DEF SettlePage, History
<1>3. UNCHANGED <<signed, aired, blocks, moved, coins, mempool, mempoolNonces, kept, height, began,
                  known, handed, starts>>
  BY DEF SettlePage
<1>4. c \in Caller
  BY <1>1 DEF WalletInv, WalletTypes
<1>5. /\ kept[n] \in Nat /\ kept[n] <= Len(blocks)
      /\ \A j \in 1 .. kept[n] : j \in DOMAIN blocks /\ blocks[j] \in Transaction
  BY DEF WalletInv, WalletTypes, HeightsOrdered
<1>6. \A k \in DOMAIN T : \E j \in 1 .. kept[n] : T[k] = blocks[j] /\ Checked(blocks[j])
  <2> SUFFICES ASSUME NEW k \in DOMAIN T
               PROVE  \E j \in 1 .. kept[n] : T[k] = blocks[j] /\ Checked(blocks[j])
    OBVIOUS
  <2>1. PICK j \in TransfersAmong(blocks, kept[n]) : T[k] = blocks[j]
    BY <1>5, HistoryIs
  <2> QED BY <2>1 DEF TransfersAmong
<1>7. T \in Seq(Transaction) /\ Len(T) \in Nat /\ DOMAIN T = 1 .. Len(T)
  <2> DEFINE count == Cardinality(TransfersAmong(blocks, kept[n]))
  <2>1. count \in Nat /\ DOMAIN T = 1 .. count
    BY <1>5, AmongFinite DEF TransfersIn
  <2>2. T = [k \in 1 .. count |-> T[k]]
    BY DEF TransfersIn
  <2>3. \A k \in 1 .. count : T[k] \in Transaction
    BY <1>5, <1>6, <2>1
  <2> HIDE DEF count, T
  <2>4. T \in Seq(Transaction)
    BY <2>1, <2>2, <2>3
  <2> QED BY <2>4
<1>8. /\ d.tx = c.tx /\ d.start = c.start + 1
      /\ d.found = IF match THEN c.start ELSE c.found
      /\ d.at = IF c.start >= Len(T) THEN "located" ELSE "locate"
      /\ d \in Caller
  <2>1. c.start \in Nat \ {0} /\ c.found \in Nat
    BY <1>4 DEF Caller
  <2>2. found \in Nat /\ found = IF match THEN c.start ELSE c.found
    BY <2>1
  <2>3. at \in {"locate", "located"} /\ at = IF c.start >= Len(T) THEN "located" ELSE "locate"
    OBVIOUS
  <2> HIDE DEF c, T, match, found, at
  <2>4. /\ d.tx = c.tx /\ d.start = c.start + 1 /\ d.found = found /\ d.at = at
        /\ d \in Caller
    BY <1>4, <2>1, <2>2, <2>3 DEF Caller
  <2> QED BY <2>2, <2>3, <2>4
<1> HIDE DEF d, found, at
<1>9. \A m \in Peer : client'[m] = IF m = n THEN d ELSE client[m]
  BY <1>2 DEF WalletInv, WalletTypes
<1>10. client' \in [Peer -> {Nothing} \cup Caller]
  BY <1>2, <1>8 DEF WalletInv, WalletTypes
<1>11. ASSUME Checked(c.tx)
       PROVE  /\ \E i \in 1 .. kept[n] : blocks[i] = d.tx
              /\ \A k \in DOMAIN T : T[k] = d.tx /\ k < d.start => d.found # 0
              /\ d.found # 0 => d.found \in DOMAIN T /\ T[d.found] = d.tx
              /\ d.at = "located" => d.found # 0
  <2>1. /\ \E i \in 1 .. kept[n] : blocks[i] = c.tx
        /\ \A k \in DOMAIN T : T[k] = c.tx /\ k < c.start => c.found # 0
        /\ c.found # 0 => c.found \in DOMAIN T /\ T[c.found] = c.tx
    BY <1>1, <1>11 DEF WalletInv, CallerFollows, History
  <2>2. PICK l \in DOMAIN T : T[l] = c.tx
    <3>1. PICK i \in 1 .. kept[n] : blocks[i] = c.tx
      BY <2>1
    <3> QED BY <1>5, <1>11, <3>1, HistoryHas
  <2>3. /\ c.start \in Nat \ {0} /\ c.found \in Nat /\ c.tx \in Transaction
    BY <1>4 DEF Caller
  <2>4. match => c.start \in DOMAIN T /\ T[c.start] = c.tx
    <3> SUFFICES ASSUME match PROVE c.start \in DOMAIN T /\ T[c.start] = c.tx
      OBVIOUS
    <3>1. c.start \in DOMAIN T /\ [T[c.start] EXCEPT !.by = c.tx.by] = c.tx
      <4> HIDE DEF T, c
      <4> QED BY <1>7, <2>3
    <3>2. T[c.start] \in Transaction
      BY <1>5, <1>6, <3>1
    <3>3. SlotOf(T[c.start]) = SlotOf(c.tx)
      <4>1. T[c.start].from = c.tx.from /\ T[c.start].nonce = c.tx.nonce
        <5> HIDE DEF T, c, match
        <5> QED BY <2>3, <3>1, <3>2 DEF Transaction
      <4> QED BY <4>1 DEF SlotOf
    <3>4. c.start = l
      <4>1. SlotOf(T[c.start]) = SlotOf(T[l])
        BY <2>2, <3>3
      <4> QED BY <1>5, <2>2, <3>1, <4>1, HistoryOnce
    <3> QED BY <2>2, <3>1, <3>4
  <2>5. c.start = l => match
    <3> SUFFICES ASSUME c.start = l PROVE c.start <= Len(T) /\ [T[c.start] EXCEPT !.by = c.tx.by] = c.tx
      OBVIOUS
    <3>1. T[c.start] = c.tx /\ c.start <= Len(T)
      BY <1>7, <2>2
    <3> HIDE DEF T, c
    <3> QED BY <2>3, <3>1 DEF Transaction
  <2>6. \A k \in DOMAIN T : T[k] = c.tx => k = l
    BY <1>5, <2>2, HistoryOnce
  <2> HIDE DEF match, T, c
  <2>7. l < c.start + 1 => d.found # 0
    <3>1. l \in Nat
      BY <1>7, <2>2
    <3>2. CASE l < c.start
      BY <1>8, <2>1, <2>2, <2>3, <3>2
    <3>3. CASE l = c.start
      BY <1>8, <2>3, <2>5, <3>3
    <3> QED BY <2>3, <3>1, <3>2, <3>3
  <2>8. d.found # 0 => d.found \in DOMAIN T /\ T[d.found] = d.tx
    BY <1>8, <2>1, <2>4
  <2>9. d.at = "located" => l < c.start + 1
    <3>1. d.at = "located" => c.start >= Len(T)
      BY <1>8
    <3> QED BY <1>7, <2>2, <2>3, <3>1
  <2> QED BY <1>8, <2>1, <2>6, <2>7, <2>8, <2>9
<1>12. CallerFollows'
  <2> SUFFICES ASSUME NEW m \in Peer, client'[m] # Nothing, client'[m].at \in {"locate", "located"},
                      Checked(client'[m].tx)
               PROVE  /\ \E i \in 1 .. kept[m] : blocks[i] = client'[m].tx
                      /\ \A k \in DOMAIN TransfersIn(blocks, kept[m]) :
                           /\ TransfersIn(blocks, kept[m])[k] = client'[m].tx
                           /\ k < client'[m].start
                           => client'[m].found # 0
                      /\ client'[m].found # 0 =>
                           /\ client'[m].found \in DOMAIN TransfersIn(blocks, kept[m])
                           /\ TransfersIn(blocks, kept[m])[client'[m].found] = client'[m].tx
                      /\ client'[m].at = "located" => client'[m].found # 0
    BY <1>3 DEF CallerFollows, History
  <2>1. CASE m # n
    BY <1>9, <2>1 DEF WalletInv, CallerFollows, History
  <2>2. CASE m = n
    <3>1. client'[m] = d /\ Checked(c.tx)
      BY <1>8, <1>9, <2>2
    <3> QED BY <1>11, <2>2, <3>1
  <2> QED BY <2>1, <2>2
<1>13. CallerStarts'
  <2>1. d.at # "wait"
    BY <1>8
  <2> QED BY <1>9, <2>1 DEF WalletInv, CallerStarts
<1> QED BY <1>3, <1>10, <1>12, <1>13, CallerKeeps

LEMMA WalletStep == WalletInv /\ [WalletNext]_walletVars => WalletInv'
<1> SUFFICES ASSUME WalletInv, [WalletNext]_walletVars PROVE WalletInv'
  OBVIOUS
<1>1. ASSUME NEW n \in Peer, NEW intent \in Intents, Sign(n, intent) PROVE WalletInv'
  BY <1>1, SignKeeps
<1>2. ASSUME NEW n \in Peer, NEW e \in signed, SendRawTransaction(n, e) PROVE WalletInv'
  BY <1>2, SendKeeps
<1>3. ASSUME NEW n \in Peer, NEW e \in signed, Settle(n, e) PROVE WalletInv'
  BY <1>3, SettleKeeps
<1>4. ASSUME NEW n \in Peer, NEW tx \in Relayed, HearTransaction(n, tx) PROVE WalletInv'
  BY <1>4, HearKeeps
<1>5. ASSUME NEW n \in Peer, StoreBlock(n) PROVE WalletInv'
  BY <1>5, StoreKeeps
<1>6. ASSUME NEW n \in Peer, AdvanceBlock(n) PROVE WalletInv'
  BY <1>6, AdvanceKeeps
<1>7. ASSUME NEW n \in Peer, RestartNode(n) PROVE WalletInv'
  BY <1>7, RestartKeeps
<1>8. ASSUME NEW n \in Peer, SettleOutcome(n) \/ SettleEnds(n) \/ SettlePage(n) PROVE WalletInv'
  BY <1>8, OutcomeKeeps, EndsKeeps, PageKeeps
<1>9. ASSUME NEW tx \in Relayed, CommitTransaction(tx) PROVE WalletInv'
  BY <1>9, CommitKeeps
<1>10. CASE UNCHANGED walletVars
  <2>1. UNCHANGED <<signed, aired, blocks, moved, coins, mempool, mempoolNonces, kept, height, began,
                    known, handed, client, starts>>
    BY <1>10 DEF walletVars, nodeVars
  <2>2. client' \in [Peer -> {Nothing} \cup Caller] /\ CallerFollows' /\ CallerStarts'
    BY <2>1 DEF WalletInv, WalletTypes, CallerFollows, CallerStarts, History
  <2> QED BY <2>1, <2>2, CallerKeeps
<1> QED BY <1>1, <1>2, <1>3, <1>4, <1>5, <1>6, <1>7, <1>8, <1>9, <1>10 DEF WalletNext

LEMMA WalletAlways == WalletSpec => []WalletInv
BY WalletStarts, WalletStep, PTL DEF WalletSpec

\* What a wallet is told is so (WalletTold): a receipt says success only of what
\* moved, a hash that was handed out is found, the next nonce is one the node takes,
\* and a settled transfer is located where the history has it, however transactions
\* are relayed, altered, proposed and stored, and whenever nodes restart.
THEOREM ToldTrue == WalletSpec => []WalletTold
BY WalletAlways, ToldFollows, PTL

\* The chain does what its payers signed, for this chain, and once (AsSigned).
THEOREM DoneAsSigned == WalletSpec => []AsSigned
BY WalletAlways, SignedFollows, PTL

-----------------------------------------------------------------------------
(* Signatures. *)

\* What Sign puts in V is what recoveryID reads from it, in both envelopes and for every
\* chain; and a V that recoveryID takes is the one Sign would put there.
THEOREM SignedVReadBack ==
  ASSUME NEW typed \in BOOLEAN, NEW chainID \in Nat, NEW tx, tx.typed = typed
  PROVE  /\ \A p \in {0, 1} :
              tx.v = SignedV(typed, p, chainID) /\ (typed => tx.chain = chainID) =>
                RecoveryID(tx) = [ok |-> TRUE, parity |-> p, chain |-> chainID]
         /\ tx.v \in Nat /\ RecoveryID(tx).ok =>
              SignedV(typed, RecoveryID(tx).parity, RecoveryID(tx).chain) = tx.v
<1> DEFINE v == tx.v
           w == v - FirstBoundV
           q == w \div 2
           r == w % 2
<1>0. FirstBoundV \in Nat
  BY SignaturesAssumption
<1>1. ASSUME NEW p \in {0, 1}, v = SignedV(typed, p, chainID), typed => tx.chain = chainID
      PROVE  RecoveryID(tx) = [ok |-> TRUE, parity |-> p, chain |-> chainID]
  <2>1. CASE typed
    <3>1. v = p /\ v <= 1 /\ tx.typed
      BY <1>1, <2>1 DEF SignedV
    <3> QED BY <1>1, <2>1, <3>1 DEF RecoveryID
  <2>2. CASE ~typed
    <3>1. v = p + chainID * 2 + FirstBoundV
      BY <1>1, <2>2 DEF SignedV
    <3>2. v >= FirstBoundV /\ w = 2 * chainID + p /\ w \in Nat
      BY <1>0, <3>1
    <3>3. q = chainID
      BY <3>2, QuotientUnique
    <3>4. r = p
      <4> HIDE DEF w
      <4>1. r \in 0 .. 1 /\ w = 2 * q + r
        BY <3>2, DivisionParts
      <4> HIDE DEF q, r
      <4> QED BY <3>2, <3>3, <4>1
    <3> QED BY <2>2, <3>2, <3>3, <3>4 DEF RecoveryID
  <2> QED BY <2>1, <2>2
<1>2. ASSUME v \in Nat, RecoveryID(tx).ok
      PROVE  SignedV(typed, RecoveryID(tx).parity, RecoveryID(tx).chain) = v
  <2>1. CASE typed /\ v <= 1
    BY <2>1 DEF RecoveryID, SignedV
  <2>2. CASE ~typed /\ v >= FirstBoundV
    <3>1. RecoveryID(tx) = [ok |-> TRUE, parity |-> r, chain |-> q]
      BY <2>2 DEF RecoveryID
    <3>2. SignedV(typed, r, q) = r + q * 2 + FirstBoundV
      BY <2>2 DEF SignedV
    <3>3. w \in Nat /\ v = w + FirstBoundV
      BY <1>0, <1>2, <2>2
    <3> HIDE DEF w
    <3>4. r \in 0 .. 1 /\ w = 2 * q + r /\ q \in Nat
      BY <3>3, DivisionParts
    <3> HIDE DEF q, r, v
    <3>5. r + q * 2 + FirstBoundV = v
      BY <1>0, <3>3, <3>4
    <3> QED BY <3>1, <3>2, <3>5
  <2>3. CASE ~(typed /\ v <= 1) /\ ~(~typed /\ v >= FirstBoundV)
    <3>1. RecoveryID(tx) = Malformed
      BY <2>3 DEF RecoveryID
    <3> QED BY <1>2, <3>1 DEF Malformed
  <2> QED BY <2>1, <2>2, <2>3
<1> QED BY <1>1, <1>2

\* An authorization has one key in the mempool, whichever of its twins arrives: for every
\* odd order of the curve.
THEOREM OneKey == OneKeyPerSignature
<1> SUFFICES ASSUME NEW a \in Signature, NEW b \in Signature, Recovers(a), Recovers(b), SameKey(a, b)
             PROVE  CanonicalSignature(a) = CanonicalSignature(b)
  BY DEF OneKeyPerSignature
<1> DEFINE half == Order \div 2
           r == Order % 2
<1>1. Order \in Nat /\ r = 1
  BY SignaturesAssumption
<1>2. Order = 2 * half + r /\ half \in Nat
  BY <1>1, DivisionParts
<1>3. /\ a.s \in Nat /\ b.s \in Nat /\ a.s <= half /\ b.s <= half
      /\ a.v \in {0, 1, 27, 28} /\ b.v \in {0, 1, 27, 28}
      /\ a = [v |-> a.v, s |-> a.s] /\ b = [v |-> b.v, s |-> b.s]
  <2>1. /\ a.s \in 1 .. Order - 1 /\ b.s \in 1 .. Order - 1
        /\ a = [v |-> a.v, s |-> a.s] /\ b = [v |-> b.v, s |-> b.s]
    BY DEF Signature
  <2>2. a.v \in {0, 1, 27, 28} /\ b.v \in {0, 1, 27, 28} /\ ~(a.s > half) /\ ~(b.s > half)
    BY DEF Recovers, IsHighS
  <2> HIDE DEF half
  <2> QED BY <1>1, <1>2, <2>1, <2>2
<1> HIDE DEF half, r
<1>4. a.s # Order - b.s
  BY <1>1, <1>2, <1>3
<1>5. Parity(a) = Parity(b) /\ a.s = b.s
  BY <1>4 DEF SameKey
<1>6. (0 % 2 = 0) /\ (1 % 2 = 1)
  OBVIOUS
<1>7. ASSUME NEW x \in {a, b} PROVE CanonicalSignature(x) = [v |-> Parity(x) + 27, s |-> x.s]
  <2>1. x.v \in {0, 1, 27, 28} /\ x = [v |-> x.v, s |-> x.s]
    BY <1>3
  <2>2. CASE x.v = 0
    BY <2>1, <2>2, <1>6 DEF CanonicalSignature, Parity
  <2>3. CASE x.v = 1
    BY <2>1, <2>3, <1>6 DEF CanonicalSignature, Parity
  <2>4. CASE x.v = 27
    BY <2>1, <2>4, <1>6 DEF CanonicalSignature, Parity
  <2>5. CASE x.v = 28
    BY <2>1, <2>5, <1>6 DEF CanonicalSignature, Parity
  <2> QED BY <2>1, <2>2, <2>3, <2>4, <2>5
<1> QED BY <1>5, <1>7
=============================================================================
