------------------------------ MODULE MCKeypad ------------------------------
(* Keypad with two columns; see the configurations for rows and slots.       *)
EXTENDS Keypad

MCEvents == [key : Keys, down : BOOLEAN]
=============================================================================
