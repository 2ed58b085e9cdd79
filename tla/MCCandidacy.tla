---------------------------- MODULE MCCandidacy ----------------------------
EXTENDS Candidacy, TLC

CONSTANTS fay, cal

\* A founder with a coin to spare, and a candidate who lacks one for the bond.
Purses == fay :> 1 @@ cal :> 1
=============================================================================
