--------------------------- MODULE MCDepositWatch ---------------------------
(* DepositWatch with two payments and an entry with a forged value.         *)
EXTENDS DepositWatch, TLC

CONSTANTS p1, p2
MCAmount == p1 :> 1 @@ p2 :> 2
MCForged == {<<p1, 9>>}
=============================================================================
