------------------------------- MODULE Wallet -------------------------------
(***************************************************************************)
(* A wallet and the nodes it talks to: Ethereum's JSON-RPC (internal/      *)
(* ethrpc, internal/node/ethrpc_wiring.go), the envelope turned into a     *)
(* transaction (internal/token/evm.go), the indexes it is answered from    *)
(* (consensus/evmindex.go, nonces.go), and the other way to send a         *)
(* transfer, signed without an envelope and located in the history         *)
(* (internal/node/transfer_settlement.go). A block carries one             *)
(* transaction; that nodes agree on it is module Voting, what a crash does *)
(* to the ledger is module Settlement.                                     *)
(***************************************************************************)
EXTENDS Integers, Sequences, FiniteSets, FiniteSetsExt

CONSTANTS
  Peer,          \* nodes
  Payer,         \* accounts, which are addresses
  BondAddress, Creation, \* what an envelope may name instead: a reserved address, none
  Here,          \* the id of this chain
  Intents,       \* what payers may sign, but for the nonce
  Coins0,        \* opening balances
  Scale,         \* ERC-20 units of a native unit
  MaxSigned, MaxLength, MaxStarts, PoolSize, \* bounds; the last is maxMempoolTxs
  Nothing

BondOf(a) == <<"bond", a>>

Named == Payer \cup {BondAddress, Creation}
Bonds == {BondOf(a) : a \in Payer}

\* What is signed: an envelope if its form is "raw"; otherwise it names no chain.
Intent ==
  [from : Payer, form : {"raw", "plain"}, chain : Nat, to : Named,
   value : Nat, data : BOOLEAN, nonce : Nat]
Transaction ==
  [by : Intent, from : Payer, to : Named \cup Bonds, amount : Nat, nonce : Nat]

\* A caller of SettleSignedTransfer, with its page and the last match.
Caller ==
  [tx : Transaction, at : {"wait", "refused", "locate", "located"}, start : Nat \ {0}, found : Nat]

ASSUME WalletAssumption ==
  /\ Coins0 \in [Payer -> Nat] /\ {Scale, PoolSize} \subseteq Nat \ {0}
  /\ Intents \subseteq Intent
  /\ Nothing \notin Transaction \cup Caller

VARIABLES
  signed,        \* what payers signed: an intent, its signer and nonce
  aired,         \* transactions that were gossiped
  blocks,         \* the committed transactions, in order
  moved,         \* those that moved coins
  coins,         \* the ledger after them
  mempool,          \* per node: mempool
  mempoolNonces,    \* mempoolNonces
  kept,        \* blocks stored and applied
  height,        \* blocks advanceHeight is done with
  began,         \* blocks stored when the process started
  known,         \* transactions with an outcome in appliedTxs
  handed,        \* hashes returned to wallets by this process
  client,        \* one caller of SettleSignedTransfer, or Nothing
  starts         \* restarts so far

nodeVars == <<mempool, mempoolNonces, kept, height, began, known, handed, client>>
walletVars == <<signed, aired, blocks, moved, coins, nodeVars, starts>>

WalletInit ==
  /\ signed = {} /\ aired = {}
  /\ blocks = <<>> /\ moved = {} /\ coins = Coins0
  /\ mempool = [n \in Peer |-> {}] /\ mempoolNonces = [n \in Peer |-> {}]
  /\ kept = [n \in Peer |-> 0] /\ height = [n \in Peer |-> 0]
  /\ began = [n \in Peer |-> 0]
  /\ known = [n \in Peer |-> {}] /\ handed = [n \in Peer |-> {}]
  /\ client = [n \in Peer |-> Nothing]
  /\ starts = 0

-----------------------------------------------------------------------------
(* Transactions. *)

IsAccount(to) == to \in Payer

\* evmRecipientAndAmount.
Recipient(e) == IF e.to = BondAddress THEN BondOf(e.from) ELSE e.to

\* Sender: recovered for this chain only.
Sender(e) == IF e.form = "raw" /\ e.chain # Here THEN Nothing ELSE e.from

\* NewTransactionFromEVM: no creation, no calldata, whole native units.
Derived(e) ==
  IF Sender(e) = Nothing \/ e.to = Creation \/ e.data \/ e.value % Scale # 0 THEN Nothing
  ELSE [by |-> e, from |-> Sender(e), to |-> Recipient(e), amount |-> e.value \div Scale, nonce |-> e.nonce]

\* VerifyForChain: every field is what the signature says.
VerifiedFor(tx) == tx.by \in signed /\ tx = Derived(tx.by)

\* What a faulty peer makes of a transaction it relays or proposes.
Altered(tx) == {[tx EXCEPT !.to = a] : a \in Payer} \cup {[tx EXCEPT !.amount = @ + 1]}
Relayed == aired \cup UNION {Altered(tx) : tx \in aired}

\* mempoolKey.
KeyOf(tx) == tx.by

\* nonceKey: only transfers use a nonce up.
Checked(tx) == IsAccount(tx.to)
SlotOf(tx) == <<tx.from, tx.nonce>>

Advanced(n) == {blocks[i] : i \in 1 .. height[n]}
SpentSlots(n) == {SlotOf(tx) : tx \in {t \in Advanced(n) : Checked(t)}}

NonceAfter(S) == IF S = {} THEN 0 ELSE Max(S) + 1
Nonces(txs, a) == {tx.nonce : tx \in {t \in txs : Checked(t) /\ t.from = a}}

\* Fault for the mutation runs: the mempool is left out of the count.
NextCommitted(n, a, pending) == NonceAfter(Nonces(Advanced(n), a))

\* NextNonce: past everything committed, and pending if asked.
NextNonce(n, a, pending) ==
  NonceAfter(Nonces(Advanced(n) \cup IF pending THEN mempool[n] ELSE {}, a))

-----------------------------------------------------------------------------
(* Sending. *)

\* getTransactionCount, and the wallet signs with the answer.
Sign(n, intent) ==
  /\ Cardinality(signed) < MaxSigned
  /\ signed' = signed \cup {[intent EXCEPT !.nonce = NextNonce(n, intent.from, TRUE)]}
  /\ UNCHANGED <<aired, blocks, moved, coins, nodeVars, starts>>

\* submit: known already, refused, or admitted and gossiped.
Already(n, tx) == KeyOf(tx) \in {KeyOf(t) : t \in Advanced(n) \cup mempool[n]}
NonceTaken(n, tx) == Checked(tx) /\ SlotOf(tx) \in SpentSlots(n) \cup mempoolNonces[n]
Admissible(n, tx) ==
  VerifiedFor(tx) /\ (~Already(n, tx) => Cardinality(mempool[n]) < PoolSize /\ ~NonceTaken(n, tx))

Admit(n, tx) ==
  IF Already(n, tx) THEN UNCHANGED <<aired, mempool, mempoolNonces>>
  ELSE /\ mempool' = [mempool EXCEPT ![n] = @ \cup {tx}]
       /\ mempoolNonces' = [mempoolNonces EXCEPT ![n] = @ \cup IF Checked(tx) THEN {SlotOf(tx)} ELSE {}]
       /\ aired' = aired \cup {tx}

\* eth_sendRawTransaction: the hash is the answer once the engine took it.
SendRawTransaction(n, e) ==
  LET tx == Derived(e)
  IN /\ e.form = "raw" /\ tx # Nothing
     /\ Admissible(n, tx)
     /\ Admit(n, tx)
     /\ handed' = [handed EXCEPT ![n] = @ \cup {e}]
     /\ UNCHANGED <<signed, blocks, moved, coins, kept, height, began, known, client, starts>>

\* A gossiped transaction, as it was sent or altered on the way.
HearTransaction(n, tx) ==
  /\ tx \in Relayed /\ ~Already(n, tx)
  /\ Admissible(n, tx)
  /\ Admit(n, tx)
  /\ UNCHANGED <<signed, blocks, moved, coins, kept, height, began, known, handed, client, starts>>

-----------------------------------------------------------------------------
(* Blocks. *)

\* A leader proposes from its mempool, or anything if it is faulty: what honest
\* validators pass is verified, new, and at an unspent nonce. An unaffordable
\* transfer is committed and skipped.
CommitTransaction(tx) ==
  /\ Len(blocks) < MaxLength
  /\ tx \in Relayed /\ VerifiedFor(tx)
  /\ \A i \in DOMAIN blocks :
       KeyOf(blocks[i]) # KeyOf(tx) /\ (Checked(tx) /\ Checked(blocks[i]) => SlotOf(blocks[i]) # SlotOf(tx))
  /\ blocks' = Append(blocks, tx)
  /\ IF coins[tx.from] < tx.amount THEN UNCHANGED <<moved, coins>>
     ELSE /\ moved' = moved \cup {tx}
          /\ coins' = LET taken == [coins EXCEPT ![tx.from] = @ - tx.amount]
                      IN IF IsAccount(tx.to) THEN [taken EXCEPT ![tx.to] = @ + tx.amount] ELSE taken
  /\ UNCHANGED <<signed, aired, nodeVars, starts>>

\* commitAndApply: the block is on disk, its outcome published.
StoreBlock(n) ==
  /\ kept[n] = height[n] /\ height[n] < Len(blocks)
  /\ kept' = [kept EXCEPT ![n] = @ + 1]
  /\ known' = [known EXCEPT ![n] = @ \cup {blocks[kept[n] + 1]}]
  /\ UNCHANGED <<signed, aired, blocks, moved, coins, mempool, mempoolNonces, height, began, handed, client, starts>>

\* advanceHeight: the indexes, the nonces, and the mempool without the block.
AdvanceBlock(n) ==
  LET tx == blocks[kept[n]]
  IN /\ kept[n] > height[n]
     /\ height' = [height EXCEPT ![n] = @ + 1]
     /\ mempool' = [mempool EXCEPT ![n] = {t \in @ : KeyOf(t) # KeyOf(tx)}]
     /\ mempoolNonces' = [mempoolNonces EXCEPT ![n] = @ \ IF Checked(tx) THEN {SlotOf(tx)} ELSE {}]
     /\ UNCHANGED <<signed, aired, blocks, moved, coins, kept, began, known, handed, client, starts>>

\* Start rebuilds the indexes from the chain; mempool and outcomes are gone.
RestartNode(n) ==
  /\ starts < MaxStarts
  /\ starts' = starts + 1
  /\ mempool' = [mempool EXCEPT ![n] = {}] /\ mempoolNonces' = [mempoolNonces EXCEPT ![n] = {}]
  /\ known' = [known EXCEPT ![n] = {}] /\ handed' = [handed EXCEPT ![n] = {}]
  /\ client' = [client EXCEPT ![n] = Nothing]
  /\ height' = [height EXCEPT ![n] = kept[n]]
  /\ began' = [began EXCEPT ![n] = kept[n]]
  /\ UNCHANGED <<signed, aired, blocks, moved, coins, kept>>

-----------------------------------------------------------------------------
(* Answers. *)

\* EVMTransaction: in the index, with its place.
Indexed(n, e) == {i \in 1 .. height[n] : blocks[i].by = e}

\* TransactionByHash: committed first, then the mempool.
Found(n, e) == e.form = "raw" /\ (Indexed(n, e) # {} \/ \E tx \in mempool[n] : tx.by = e)

\* eth_getTransactionReceipt: of a committed transaction, a success only if this
\* process saw it move coins.
Receipt(n, e) ==
  IF e.form = "plain" \/ Indexed(n, e) = {} THEN Nothing
  ELSE LET i == Max(Indexed(n, e))
       IN [at |-> i, status |-> IF blocks[i] \in known[n] /\ blocks[i] \in moved THEN 1 ELSE 0]

\* CommittedTransfers: what the blocks on disk carry but for reserved operations.
TransfersAmong(s, i) == {j \in 1 .. i : Checked(s[j])}
NthTransfer(s, i, k) ==
  CHOOSE j \in TransfersAmong(s, i) : Cardinality(TransfersAmong(s, j)) = k
TransfersIn(s, i) ==
  [k \in 1 .. Cardinality(TransfersAmong(s, i)) |-> s[NthTransfer(s, i, k)]]
History(n) == TransfersIn(blocks, kept[n])

-----------------------------------------------------------------------------
(* SettleSignedTransfer. *)

Settle(n, e) ==
  LET tx == Derived(e)
  IN /\ client[n] = Nothing
     /\ e.form = "plain" /\ tx # Nothing /\ tx.to # tx.from
     /\ Admissible(n, tx)
     /\ Admit(n, tx)
     /\ client' = [client EXCEPT ![n] = [tx |-> tx, at |-> "wait", start |-> 1, found |-> 0]]
     /\ UNCHANGED <<signed, blocks, moved, coins, kept, height, began, known, handed, starts>>

\* WaitForSettlement answers, and an applied transfer is looked up.
SettleOutcome(n) ==
  /\ client[n] # Nothing /\ client[n].at = "wait"
  /\ client[n].tx \in known[n]
  /\ client' = [client EXCEPT ![n].at = IF client[n].tx \in moved THEN "locate" ELSE "refused"]
  /\ UNCHANGED <<signed, aired, blocks, moved, coins, mempool, mempoolNonces, kept, height, began, known, handed, starts>>

\* The wait ends without an outcome, or the caller has its answer.
SettleEnds(n) ==
  /\ client[n] # Nothing /\ client[n].at # "locate"
  /\ client' = [client EXCEPT ![n] = Nothing]
  /\ UNCHANGED <<signed, aired, blocks, moved, coins, mempool, mempoolNonces, kept, height, began, known, handed, starts>>

\* locate, a page of one at a time, while blocks go on being stored.
SettlePage(n) ==
  LET c == client[n]
      h == History(n)
      match == c.start <= Len(h) /\ [h[c.start] EXCEPT !.by = c.tx.by] = c.tx
  IN /\ c # Nothing /\ c.at = "locate"
     /\ client' = [client EXCEPT ![n] =
          [tx |-> c.tx,
           found |-> IF match THEN c.start ELSE c.found,
           start |-> c.start + 1,
           at |-> IF c.start >= Len(h) THEN "located" ELSE "locate"]]
     /\ UNCHANGED <<signed, aired, blocks, moved, coins, mempool, mempoolNonces, kept, height, began, known, handed, starts>>

WalletNext ==
  \/ \E n \in Peer :
       \/ \E intent \in Intents : Sign(n, intent)
       \/ \E e \in signed : SendRawTransaction(n, e) \/ Settle(n, e)
       \/ \E tx \in Relayed : HearTransaction(n, tx)
       \/ StoreBlock(n)
       \/ AdvanceBlock(n)
       \/ RestartNode(n)
       \/ SettleOutcome(n)
       \/ SettleEnds(n)
       \/ SettlePage(n)
  \/ \E tx \in Relayed : CommitTransaction(tx)

WalletSpec == WalletInit /\ [][WalletNext]_walletVars

-----------------------------------------------------------------------------
(* Properties. *)

\* A success is never shown for a transfer that moved nothing, nor a failure, by
\* a process that was running when the block came, for one that did.
ReceiptTruth ==
  \A n \in Peer, e \in signed :
    LET r == Receipt(n, e)
    IN r # Nothing =>
         /\ r.status = 1 => blocks[r.at] \in moved
         /\ r.status = 0 /\ r.at > began[n] => blocks[r.at] \notin moved

\* A hash that was handed out is found for as long as the process runs: no other
\* transaction of its sender takes its place.
HashKnown == \A n \in Peer : \A e \in handed[n] : Found(n, e)

\* The pending count is a nonce this node takes.
NonceUsable ==
  \A n \in Peer, a \in Payer : <<a, NextNonce(n, a, TRUE)>> \notin SpentSlots(n) \cup mempoolNonces[n]

\* A settled transfer is located where the history has it, at whatever pace it
\* grows.
LocatedRight ==
  \A n \in Peer : client[n] # Nothing /\ client[n].at = "located" /\ Checked(client[n].tx) =>
    client[n].found \in DOMAIN History(n) /\ History(n)[client[n].found] = client[n].tx

\* What a wallet is told, together.
WalletTold == ReceiptTruth /\ HashKnown /\ NonceUsable /\ LocatedRight

\* Whatever peers and leaders make of it, the chain does what a payer signed, for
\* this chain, and only once for a nonce of a transfer.
AsSigned ==
  \A i \in DOMAIN blocks :
    /\ blocks[i].by \in signed /\ (blocks[i].by.form = "raw" => blocks[i].by.chain = Here)
    /\ blocks[i].from = blocks[i].by.from /\ blocks[i].amount * Scale = blocks[i].by.value
    /\ blocks[i].to = Recipient(blocks[i].by)
    /\ \A j \in 1 .. i - 1 : Checked(blocks[i]) /\ Checked(blocks[j]) => SlotOf(blocks[i]) # SlotOf(blocks[j])
=============================================================================
