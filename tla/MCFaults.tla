------------------------------ MODULE MCFaults ------------------------------
(***************************************************************************)
(* What must never happen with a faulty validator in the set or a faulty   *)
(* peer on the network: in a height of the chain (Voting), at the bridge   *)
(* (Bridge), with the transactions of wallets (Wallet) and the bytes they  *)
(* come in (Envelope). The four share no state: a behaviour is one of one  *)
(* of them, while the others stay as they were set up.                     *)
(***************************************************************************)
EXTENDS MCVoting, Wallet, Envelope

CONSTANTS l1, b1, alice, mallory, ann, bob

VARIABLE part   \* the part that takes steps

-----------------------------------------------------------------------------
(* The bridge: v3 attests to anything, v3 may leave the set.               *)

VARIABLES
  eth, chain, root, stored, phase, escrow, locked, unlocked, recorded,
  released, tally, vset, pool, next, cursor, paid, torn, interrupts

mirror == <<eth, chain, root, stored, phase, escrow, locked, unlocked, recorded,
            released, tally, vset, pool, next, cursor, paid, torn, interrupts>>

Three == {v1, v2, v3}
ThreeOrPair == {Three, {v1, v2}}
PowerOf(V) == [n \in V |-> IF n = v1 THEN 3 ELSE 2]
QuorumsOfSets == [V \in ThreeOrPair |-> QuorumsOf(PowerOf(V))]
Everyone == {Three}

Mirror == INSTANCE Bridge WITH
  crashes <- interrupts,
  Validator <- Three, Faulty <- {v3}, ValidatorSets <- ThreeOrPair, Quorum <- QuorumsOfSets,
  Threshold <- 2, Lock <- {l1}, Burn <- {b1}, Amount <- l1 :> 2 @@ b1 :> 1,
  Account <- {alice, mallory}, Owner <- b1 :> alice, Supply <- 3, GenesisEscrow <- 1,
  Confirmations <- 1, ReorgDepth <- 1, Reach <- Everyone, MaxPool <- 1, MaxEth <- 2,
  MaxHeight <- 3, MaxLeaves <- 1, MaxCrashes <- 1

\* Escrow leaves only for a burn that Ethereum has finalised, to the account it names.
NoFalseRelease == part = "bridge" => Mirror!NoFalseRelease

\* The escrow covers the wrapped coins, the totals account for the escrow, a burn is
\* paid out once, and no two nodes keep other books at a height (Solvent, Backed,
\* PaidOnce and SameBooks).
Solvent ==
  part = "bridge" => Mirror!Solvent /\ Mirror!Backed /\ Mirror!PaidOnce /\ Mirror!SameBooks

\* A reduction: a node that has begun a block finishes it, unless it is
\* interrupted.
Applying(n) == phase[n] # "idle"
BlocksRunThrough == \A n \in Mirror!Honest : Applying(n) => phase'[n] # phase[n]

\* Another: of two nodes, one may be behind the chain, the one that may restart.
OneBehind == part = "bridge" /\ stored[v1] < Len(chain) => stored'[v1] = Len(chain)

\* A cursor that was not saved matters to a node that will restart: to one, and
\* only until it has.
CursorsMatter ==
  Cardinality({n \in Mirror!Honest : cursor[n] # next[n]}) + interrupts <= 1

-----------------------------------------------------------------------------
(* Wallets: ann can afford one native unit. Her two payments of it, one     *)
(* without an envelope, a bond, and an envelope for another chain.          *)

Wish(form, id, to, value) ==
  [from |-> ann, form |-> form, chain |-> id, to |-> to, value |-> value, data |-> FALSE,
   nonce |-> 0]
Wishes ==
  {Wish("raw", 1, bob, 2), Wish("raw", 1, BondAddress, 2), Wish("raw", 2, bob, 2),
   Wish("plain", 1, bob, 4)}
Purses == ann :> 2 @@ bob :> 0

-----------------------------------------------------------------------------

FaultsInit ==
  /\ Init /\ Mirror!Init /\ WalletInit /\ EnvelopeInit
  /\ part \in {"voting", "bridge", "wallet", "envelope"}

StepOfVoting == part = "voting" /\ Next /\ UNCHANGED <<mirror, walletVars, wire, part>>
StepOfBridge == part = "bridge" /\ Mirror!Next /\ UNCHANGED <<vars, walletVars, wire, part>>
StepOfWallet == part = "wallet" /\ WalletNext /\ UNCHANGED <<vars, mirror, wire, part>>
StepOfEnvelope == part = "envelope" /\ EnvelopeNext /\ UNCHANGED <<vars, mirror, walletVars, part>>

FaultsNext ==
  \/ StepOfVoting
  \/ StepOfBridge
  \/ StepOfWallet
  \/ StepOfEnvelope

FaultsSpec == FaultsInit /\ [][FaultsNext]_<<vars, mirror, walletVars, wire, part>>

\* Of the validators of the bridge, v2 is the one that may restart; of the nodes of
\* the wallets, which are alike, the one that settles for a client is.
Reduced ==
  /\ RunThrough /\ BlocksRunThrough /\ OneBehind
  /\ interrupts' # interrupts => Mirror!Restart(v2)
  /\ starts' # starts => RestartNode(1)
  /\ client'[2] = Nothing

\* What is signed has one identity, in the behaviours that read it (OneIdentity),
\* and is what the chain does, once (AsSigned).
SignaturesHold ==
  /\ part = "envelope" => OneIdentity
  /\ part = "wallet" => AsSigned
=============================================================================
