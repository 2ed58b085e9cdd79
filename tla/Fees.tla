-------------------------------- MODULE Fees --------------------------------
(***************************************************************************)
(* The arithmetic of the protocol fee (internal/consensus/fees.go): what a *)
(* transfer is charged, what the maintainer takes out of the fees a block  *)
(* accrued, and how the validators of the set share the rest. Amounts are  *)
(* unsigned integers of a machine word; the divisor of a basis point is a  *)
(* parameter so that small instances have rounding in them.                *)
(***************************************************************************)
EXTENDS Integers

CONSTANTS
  BasisPointDivisor,  \* basis points in a whole (10000)
  FeeBasisPoints,     \* what a transfer is charged
  MaintainerBPS       \* what the maintainer takes of the fees

ASSUME FeesAssumption ==
  /\ BasisPointDivisor \in Nat \ {0}
  /\ FeeBasisPoints \in 0 .. BasisPointDivisor
  /\ MaintainerBPS \in 0 .. BasisPointDivisor

\* bps of an amount, dividing before multiplying so that no product outgrows
\* the amount: whole divisors first, then what is left of the division.
PartOf(amount, bps) ==
  (amount \div BasisPointDivisor) * bps
  + ((amount % BasisPointDivisor) * bps) \div BasisPointDivisor

FeeFor(amount) == PartOf(amount, FeeBasisPoints)
MaintainerShare(accrued) == PartOf(accrued, MaintainerBPS)

\* A validator's share of what is left, rounded down; the dust stays accrued.
ValidatorShare(accrued, power, total) == (power * accrued) \div total
=============================================================================
