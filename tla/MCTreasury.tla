----------------------------- MODULE MCTreasury -----------------------------
EXTENDS Treasury, TLC

CONSTANTS fay, gpu, buyer

\* The founder fay and the provider gpu are validators; buyer pays them.
Opened == [a \in Purse |-> CASE a = Pool -> 6 [] a = buyer -> 5 [] OTHER -> 0]
Powered == [h \in Holder |-> IF h = buyer THEN 0 ELSE 1]

Signed ==
  {Deal("grant", fay, fay, 2, 0), Deal("grant", fay, fay, 2, 1),
   Deal("bond", fay, fay, 2, 2), Deal("slash", gpu, fay, 0, 3),
   Deal("add", fay, gpu, 0, 4), Deal("rotate", fay, buyer, 0, 5),
   Deal("pay", buyer, gpu, 3, 0), Deal("pay", buyer, fay, 2, 1), Deal("pay", gpu, fay, 2, 0),
   Deal("odd", gpu, gpu, 1, 1)}
=============================================================================
