----------------------------- MODULE Signatures -----------------------------
(***************************************************************************)
(* What tells two authorizations apart: the V of a signed transaction      *)
(* (internal/evmtx), and the signatures that come without an envelope      *)
(* (internal/ethsig, mempoolKey of the engine).                            *)
(***************************************************************************)
EXTENDS Integers

CONSTANTS
  FirstBoundV,   \* 35: V of a signature that commits to chain 0
  Order          \* of the curve, odd

ASSUME SignaturesAssumption == FirstBoundV \in Nat /\ Order \in Nat /\ Order % 2 = 1

Malformed == [ok |-> FALSE]

-----------------------------------------------------------------------------
(* Transactions. *)

\* recoveryID: the parity and the chain, which V carries in the legacy form; V
\* below FirstBoundV commits to no chain.
RecoveryID(tx) ==
  CASE tx.typed /\ tx.v <= 1 -> [ok |-> TRUE, parity |-> tx.v, chain |-> tx.chain]
    [] ~tx.typed /\ tx.v >= FirstBoundV ->
         [ok |-> TRUE, parity |-> (tx.v - FirstBoundV) % 2, chain |-> (tx.v - FirstBoundV) \div 2]
    [] OTHER -> Malformed

\* Sign fills V.
SignedV(typed, parity, chain) == IF typed THEN parity ELSE parity + chain * 2 + FirstBoundV

-----------------------------------------------------------------------------
(* Signatures without an envelope. *)

Signature == [v : 0 .. 34, s : 1 .. Order - 1]

IsHighS(s) == s > Order \div 2

\* RecoverAddress: of the codes the library takes, in either convention, four.
Recovers(sig) == sig.v \in {0, 1, 27, 28} /\ ~IsHighS(sig.s)

Parity(sig) == IF sig.v >= 27 THEN (sig.v - 27) % 2 ELSE sig.v % 2

\* What the library recovers the same key from: the code in either convention,
\* and the mirrored point.
SameKey(a, b) ==
  \/ Parity(a) = Parity(b) /\ a.s = b.s
  \/ Parity(a) # Parity(b) /\ a.s = Order - b.s

\* CanonicalSignature, which mempoolKey tells transactions apart by.
CanonicalSignature(sig) == IF sig.v \in {0, 1} THEN [sig EXCEPT !.v = @ + 27] ELSE sig

-----------------------------------------------------------------------------
(* Property. *)

\* An authorization has one identity: of the signatures that recover one key of
\* one digest, all that are accepted make the same key of the mempool.
OneKeyPerSignature ==
  \A a, b \in Signature :
    Recovers(a) /\ Recovers(b) /\ SameKey(a, b) => CanonicalSignature(a) = CanonicalSignature(b)
=============================================================================
