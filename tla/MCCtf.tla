-------------------------------- MODULE MCCtf --------------------------------
(***************************************************************************)
(* Ctf on an 8 x 4 board with squares of edge 2: small enough to enumerate,*)
(* large enough for both clamps, for a player parked at x = W, and for the *)
(* squares to meet from every side.                                        *)
(***************************************************************************)
EXTENDS Ctf

MCStartX == [p \in Players |-> IF p = "player1" THEN 0 ELSE 4]
MCStartY == [p \in Players |-> 1]
MCFlagStartX == [p \in Players |-> IF p = "player1" THEN 4 ELSE 1]
MCFlagStartY == [p \in Players |-> IF p = "player1" THEN 0 ELSE 3]
=============================================================================
