-------------------------------- MODULE Sums --------------------------------
(***************************************************************************)
(* Sums over a set: of coins over accounts, of powers over validators, of  *)
(* units over jobs. SumProofs says what may be relied on.                  *)
(***************************************************************************)
EXTENDS FiniteSetsExt

\* The sum of f[a] for all a in S.
Total(f, S) == MapThenSumSet(LAMBDA a : f[a], S)
=============================================================================
