------------------------------ MODULE CtfMain -------------------------------
(***************************************************************************)
(* The game loop of src/src/main: it polls two push buttons, moves player1 *)
(* and, when player1 stands on its flag, ends the game.                    *)
(* The loop is only one caller of ctf.c: it never moves player2.           *)
(***************************************************************************)
EXTENDS Ctf

CONSTANT Dist    \* what the loop passes to moveRight and moveLeft (5)

\* player1 does not start on its flag.
ASSUME LoopAssumption ==
    /\ Dist \in Dists /\ "player1" \in Carriers
    /\ ~SquaresTouch(StartX["player1"], StartY["player1"], Size,
                     FlagStartX["player1"], FlagStartY["player1"], FlagDim)

VARIABLES
    right, left,  \* the levels of GPIO 21 and GPIO 26
    pc            \* the place in the loop

loopVars == <<vars, right, left, pc>>

MainInit ==
    /\ Init
    /\ right \in BOOLEAN /\ left \in BOOLEAN
    /\ pc = "poll21"

\* Somebody presses or releases a button, between any two steps of the loop.
Press ==
    /\ \/ right' = ~right /\ UNCHANGED left
       \/ left' = ~left /\ UNCHANGED right
    /\ UNCHANGED <<vars, pc>>

\* if(gpio_get(21)) moveRight(player1, 5)
Poll21 ==
    /\ pc = "poll21"
    /\ \/ right /\ moveRight("player1", Dist) /\ pc' = "check"
       \/ ~right /\ pc' = "poll26" /\ UNCHANGED vars
    /\ UNCHANGED <<right, left>>

\* else if(gpio_get(26)) moveLeft(player1, 5)
Poll26 ==
    /\ pc = "poll26"
    /\ pc' = "check"
    /\ \/ left /\ moveLeft("player1", Dist)
       \/ ~left /\ UNCHANGED vars
    /\ UNCHANGED <<right, left>>

\* Mutant: the test wants the player to hold the flag already.
Check_Never ==
    /\ pc = "check"
    /\ \/ touchingFlag("player1") /\ has["player1"] /\ pc' = "end"
       \/ ~(touchingFlag("player1") /\ has["player1"]) /\ pc' = "poll21"
    /\ UNCHANGED <<vars, right, left>>

\* if(touchingFlag(player1, flag2) && !player1->hasFlag) hasFlag(player1, 1)
Check ==
    /\ pc = "check"
    /\ \/ PickUp("player1") /\ pc' = "end"
       \/ /\ ~(touchingFlag("player1") /\ ~has["player1"])
          /\ pc' = "poll21"
          /\ UNCHANGED vars
    /\ UNCHANGED <<right, left>>

\* showEnd(player1): it does not return.
End ==
    /\ pc = "end"
    /\ showEnd("player1")
    /\ pc' = "spin"
    /\ UNCHANGED <<right, left>>

Loop == Poll21 \/ Poll26 \/ Check \/ End

MainNext == Press \/ Loop

\* The loop is the only thread and never blocks for good: weak fairness.
MainSpec == MainInit /\ [][MainNext]_loopVars /\ WF_loopVars(Loop)

-----------------------------------------------------------------------------
(* Properties.                                                               *)

\* The loop pass in which player1 first touches its flag is the last one: no
\* further button press moves anything.
NoStepAfterTouch ==
    [][touchingFlag("player1") => UNCHANGED <<px, py>>]_loopVars

\* Who holds the right button wins, whatever happens on the left one before
\* or meanwhile, since GPIO 21 is looked at first.
HoldingRightWins == <>[]right => <>(winner = "player1")
=============================================================================
