----------------------------- MODULE MCCtfMain ------------------------------
(***************************************************************************)
(* CtfMain with the numbers of the program: nothing is scaled down.        *)
(***************************************************************************)
EXTENDS CtfMain

MCStartX == [p \in Players |-> IF p = "player1" THEN 50 ELSE 500]
MCStartY == [p \in Players |-> 240]
MCFlagStartX == [p \in Players |-> IF p = "player1" THEN 200 ELSE 50]
MCFlagStartY == [p \in Players |-> IF p = "player1" THEN 240 ELSE 50]
=============================================================================
