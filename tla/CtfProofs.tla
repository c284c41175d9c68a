------------------------------ MODULE CtfProofs ------------------------------
(***************************************************************************)
(* Ctf for every board, square size, set of distances and start position   *)
(* that satisfy the assumptions of Ctf, and the game loop of CtfMain.      *)
(***************************************************************************)
EXTENDS CtfMain, TLAPS

\* What a move leaves behind is a conjunction that the moves preserve together:
\* a carried flag is only known to follow while the two records of it agree.
IInv == TypeOK /\ NoTouch /\ FlagStateAgrees /\ CarriedFlagFollows

\* The clamps of the four move functions end on the board.
LEMMA ClampsLemma ==
    ASSUME TypeOK, NEW p \in Players, NEW d \in Dists
    PROVE  /\ RightX(p, d) \in 0..W /\ LeftX(p, d) \in 0..W
           /\ UpY(p, d) \in 0..H /\ DownY(p, d) \in 0..H
BY SizesAssumption DEF TypeOK, RightX, LeftX, UpY, DownY

\* What the body of a move does to a board that satisfies the invariant.
LEMMA StepLemma ==
    ASSUME IInv, NEW p \in Players, NEW x \in 0..W, NEW y \in 0..H,
           Step(p, x, y), UNCHANGED winner
    PROVE  IInv'
<1> USE DEF IInv
<1>1. CASE touchingPlayer(x, y, Other(p)) /\ ret' = 1 /\ UNCHANGED <<players, flags, placed>>
  BY <1>1 DEF players, flags, TypeOK, NoTouch, FlagStateAgrees, CarriedFlagFollows,
     touchingPlayer, touchingFlag
<1>2. CASE /\ ~touchingPlayer(x, y, Other(p)) /\ ret' = 0
           /\ px' = [px EXCEPT ![p] = x] /\ py' = [py EXCEPT ![p] = y]
           /\ placed' = placed \ {p} /\ UNCHANGED has
           /\ IF has[p] THEN moveFlagTo(p, x + Grip, y + Grip) ELSE UNCHANGED flags
  <2>1. TypeOK'
    <3>1. /\ px' \in [Players -> 0..W] /\ py' \in [Players -> 0..H]
          /\ has' \in [Players -> BOOLEAN] /\ ret' \in {0, 1}
          /\ winner' \in Players \union {None} /\ placed' \subseteq Players
      BY <1>2 DEF TypeOK
    <3>2. /\ x + Grip \in 0..(W + Grip) /\ y + Grip \in 0..(H + Grip)
      BY SizesAssumption
    <3>3. /\ fx' \in [Players -> 0..(W + Grip)] /\ fy' \in [Players -> 0..(H + Grip)]
          /\ fstate' \in [Players -> FlagStates]
      BY <1>2, <3>2 DEF TypeOK, moveFlagTo, flags, FlagStates
    <3> QED BY <3>1, <3>3 DEF TypeOK
  <2>2. NoTouch'
    BY <1>2, SizesAssumption
       DEF TypeOK, NoTouch, touchingPlayer, SquaresTouch, Other, Players
  <2>3. FlagStateAgrees'
    BY <1>2 DEF TypeOK, FlagStateAgrees, moveFlagTo, flags, FlagStates
  <2>4. CarriedFlagFollows'
    <3> SUFFICES ASSUME NEW q \in Players \ placed', has'[q]
                 PROVE  /\ touchingFlag(q)'
                        /\ fstate'[q] = "WITH" => /\ fx'[q] = px'[q] + Grip
                                                  /\ fy'[q] = py'[q] + Grip
      BY DEF CarriedFlagFollows
    <3>1. CASE q = p
      <4>1. px'[q] = x /\ py'[q] = y
        BY <1>2, <3>1 DEF TypeOK
      <4>2. fx'[q] = x + Grip /\ fy'[q] = y + Grip
        BY <1>2, <3>1 DEF TypeOK, moveFlagTo
      <4> QED BY <4>1, <4>2, SizesAssumption DEF touchingFlag, SquaresTouch
    <3>2. CASE q # p
      <4>1. /\ px'[q] = px[q] /\ py'[q] = py[q] /\ has[q] /\ q \notin placed
        BY <1>2, <3>2 DEF TypeOK
      <4>2. /\ fx'[q] = fx[q] /\ fy'[q] = fy[q] /\ fstate'[q] = fstate[q]
        BY <1>2, <3>2 DEF TypeOK, moveFlagTo, flags
      <4> QED BY <4>1, <4>2 DEF CarriedFlagFollows, touchingFlag
    <3> QED BY <3>1, <3>2
  <2> QED BY <2>1, <2>2, <2>3, <2>4
<1> QED BY <1>1, <1>2 DEF Step

\* The records of a flag change, the players stay where they are.
LEMMA HasFlagLemma ==
    ASSUME IInv, NEW p \in Players, NEW held \in BOOLEAN, hasFlag(p, held),
           held => touchingFlag(p), UNCHANGED winner
    PROVE  IInv'
<1> USE DEF IInv, hasFlag
<1>1. TypeOK'
  BY DEF TypeOK, FlagStates
<1>2. NoTouch'
  BY DEF NoTouch, touchingPlayer
<1>3. FlagStateAgrees'
  BY DEF TypeOK, FlagStateAgrees
<1>4. CarriedFlagFollows'
  BY DEF TypeOK, CarriedFlagFollows, touchingFlag
<1> QED BY <1>1, <1>2, <1>3, <1>4

LEMMA InitLemma == Init => IInv
<1> SUFFICES ASSUME Init PROVE IInv
  OBVIOUS
<1> USE DEF Init
<1>1. TypeOK
  BY SizesAssumption, StartAssumption DEF TypeOK, FlagStates
<1>2. NoTouch
  BY StartAssumption DEF NoTouch, touchingPlayer
<1>3. FlagStateAgrees /\ CarriedFlagFollows
  BY DEF FlagStateAgrees, CarriedFlagFollows
<1> QED BY <1>1, <1>2, <1>3 DEF IInv

LEMMA NextLemma == IInv /\ [Next]_vars => IInv'
<1> SUFFICES ASSUME IInv, [Next]_vars PROVE IInv'
  OBVIOUS
<1>1. ASSUME NEW p \in Players, NEW d \in Dists,
             moveRight(p, d) \/ moveLeft(p, d) \/ moveUp(p, d) \/ moveDown(p, d)
      PROVE  IInv'
  <2>1. px[p] \in 0..W /\ py[p] \in 0..H
    BY DEF IInv, TypeOK
  <2> QED BY <1>1, <2>1, ClampsLemma, StepLemma
          DEF IInv, moveRight, moveLeft, moveUp, moveDown
<1>2. ASSUME NEW p \in Carriers, PickUp(p) PROVE IInv'
  BY <1>2, HasFlagLemma, CallersAssumption DEF PickUp
<1>3. ASSUME NEW p \in Carriers, Lose(p) PROVE IInv'
  BY <1>3, HasFlagLemma, CallersAssumption DEF Lose
<1>4. ASSUME NEW p \in Carriers, ResetFlag(p) PROVE IInv'
  <2> USE <1>4, CallersAssumption DEF IInv, ResetFlag, moveFlagTo, players
  <2>1. TypeOK'
    <3>1. p \in Players /\ FlagStartX[p] \in 0..(W + Grip) /\ FlagStartY[p] \in 0..(H + Grip)
      BY StartAssumption, SizesAssumption
    <3>2. /\ fx' \in [Players -> 0..(W + Grip)] /\ fy' \in [Players -> 0..(H + Grip)]
          /\ fstate' \in [Players -> FlagStates]
      BY <3>1 DEF TypeOK, FlagStates
    <3> QED BY <3>2 DEF TypeOK
  <2>2. NoTouch'
    BY DEF NoTouch, touchingPlayer
  <2>3. FlagStateAgrees'
    BY DEF TypeOK, FlagStateAgrees, FlagStates
  <2>4. CarriedFlagFollows'
    BY DEF TypeOK, CarriedFlagFollows, touchingFlag
  <2> QED BY <2>1, <2>2, <2>3, <2>4
<1>5. ASSUME NEW p \in Players, showEnd(p) PROVE IInv'
  BY <1>5 DEF showEnd, players, flags, IInv, TypeOK, NoTouch, FlagStateAgrees,
     CarriedFlagFollows, touchingPlayer, touchingFlag
<1>6. CASE UNCHANGED vars
  BY <1>6 DEF vars, players, flags, IInv, TypeOK, NoTouch, FlagStateAgrees,
     CarriedFlagFollows, touchingPlayer, touchingFlag
<1>7. ASSUME NEW p \in Players, ResetPlayer(p) PROVE IInv'
  <2> USE <1>7, StartAssumption DEF IInv, ResetPlayer, moveTo, flags
  <2>1. TypeOK' /\ FlagStateAgrees'
    BY DEF TypeOK, FlagStateAgrees
  <2>2. NoTouch'
    BY DEF NoTouch
  <2>3. CarriedFlagFollows'
    BY DEF TypeOK, CarriedFlagFollows, touchingFlag
  <2> QED BY <2>1, <2>2, <2>3
<1> QED BY <1>1, <1>2, <1>3, <1>4, <1>5, <1>6, <1>7 DEF Next, NextWalk, Move

LEMMA InvLemma == Spec => []IInv
BY InitLemma, NextLemma, PTL DEF Spec

\* Coordinates and records stay in their ranges in every game (initCTF and the
\* operations of ctf.c).
THEOREM BoardTheorem == Spec => []TypeOK
BY InvLemma, PTL DEF IInv

\* Squares touch only where moveTo has put one of them (the collision test of
\* the move functions of ctf.c).
THEOREM NoTouchTheorem == Spec => []NoTouch
BY InvLemma, PTL DEF IInv

\* A carried flag follows its carrier, and is fetched after a reset (moveFlagTo
\* and hasFlag of ctf.c).
THEOREM FlagTheorem == Spec => []CarriedFlagFollows
BY InvLemma, PTL DEF IInv

-----------------------------------------------------------------------------
(* Nobody walks through anybody.                                             *)

\* A move that changes a position leaves the squares apart.
LEMMA StepApartLemma ==
    ASSUME TypeOK, NEW p \in Players, NEW x \in 0..W, NEW y \in 0..H, Step(p, x, y)
    PROVE  UNCHANGED <<px, py>> \/ ~touchingPlayer(px["player1"], py["player1"], "player2")'
BY SizesAssumption DEF Step, players, TypeOK, touchingPlayer, SquaresTouch, Other, Players

\* No step of the game, the jump of the right clamp included, carries one player
\* past the other.
LEMMA PassLemma ==
    ASSUME IInv, IInv', Next \/ UNCHANGED vars, \A r \in Players : ~ResetPlayer(r),
           NEW p \in Players, NEW q \in Players
    PROVE  /\ LeftOf(p, q) /\ SameRows(p, q) /\ SameRows(p, q)' => LeftOf(p, q)'
           /\ Above(p, q) /\ SameColumns(p, q) /\ SameColumns(p, q)' => Above(p, q)'
<1>1. CASE UNCHANGED <<px, py>>
  BY <1>1 DEF LeftOf, Above, SameRows, SameColumns
<1>2. ASSUME NEW r \in Players, NEW d \in Dists,
             moveRight(r, d) \/ moveLeft(r, d) \/ moveUp(r, d) \/ moveDown(r, d)
      PROVE  /\ LeftOf(p, q) /\ SameRows(p, q) /\ SameRows(p, q)' => LeftOf(p, q)'
             /\ Above(p, q) /\ SameColumns(p, q) /\ SameColumns(p, q)' => Above(p, q)'
  <2>1. /\ px \in [Players -> 0..W] /\ py \in [Players -> 0..H]
        /\ px' \in [Players -> 0..W] /\ py' \in [Players -> 0..H]
    BY DEF IInv, TypeOK
  <2>2. UNCHANGED <<px, py>> \/ ~touchingPlayer(px["player1"], py["player1"], "player2")'
    BY <1>2, <2>1, StepApartLemma, ClampsLemma DEF IInv, TypeOK, moveRight, moveLeft, moveUp, moveDown
  <2>3. d \in 1..Size /\ Size \in Nat \ {0} /\ W \in Nat /\ H \in Nat
    BY SizesAssumption
  <2>4. p # q => (p = "player1" /\ q = "player2") \/ (p = "player2" /\ q = "player1")
    BY DEF Players
  <2>5. p = q => ~LeftOf(p, q) /\ ~Above(p, q)
    BY <2>1, <2>3 DEF LeftOf, Above
  <2>6. SameRows(p, q)' /\ p # q /\ ~UNCHANGED <<px, py>> => LeftOf(p, q)' \/ LeftOf(q, p)'
    BY <2>1, <2>2, <2>3, <2>4
       DEF SameRows, LeftOf, Above, touchingPlayer, SquaresTouch
  <2>7. SameColumns(p, q)' /\ p # q /\ ~UNCHANGED <<px, py>> => Above(p, q)' \/ Above(q, p)'
    BY <2>1, <2>2, <2>3, <2>4
       DEF SameColumns, LeftOf, Above, touchingPlayer, SquaresTouch
  <2>8. \/ px' = [px EXCEPT ![r] = RightX(r, d)] /\ py' = py
        \/ px' = [px EXCEPT ![r] = LeftX(r, d)] /\ py' = py
        \/ px' = px /\ py' = [py EXCEPT ![r] = UpY(r, d)]
        \/ px' = px /\ py' = [py EXCEPT ![r] = DownY(r, d)]
        \/ px' = px /\ py' = py
    BY <1>2, <2>1 DEF moveRight, moveLeft, moveUp, moveDown, Step, players
  <2>9. LeftOf(p, q) => ~LeftOf(q, p)'
    BY <2>1, <2>3, <2>5, <2>8 DEF LeftOf, RightX, LeftX
  <2>10. Above(p, q) => ~Above(q, p)'
    BY <2>1, <2>3, <2>5, <2>8 DEF Above, UpY, DownY
  <2> QED BY <1>1, <2>5, <2>6, <2>7, <2>9, <2>10
<1>3. Next => \/ UNCHANGED <<px, py>>
                  \/ \E r \in Players, d \in Dists :
                        moveRight(r, d) \/ moveLeft(r, d) \/ moveUp(r, d) \/ moveDown(r, d)
  BY DEF Next, NextWalk, Move, PickUp, Lose, ResetFlag, showEnd, hasFlag, players
<1> QED BY <1>1, <1>2, <1>3 DEF vars, players

\* The clamp at the right border makes a step longer than the distance asked
\* for, yet no step carries a player to the far side of the other (moveRight,
\* moveLeft, moveUp, moveDown of ctf.c).
THEOREM PassTheorem == Spec => NoPassThrough
<1>1. IInv /\ IInv' /\ [Next]_vars =>
        [(\A p \in Players : ~ResetPlayer(p)) => \A p, q \in Players :
            /\ LeftOf(p, q) /\ SameRows(p, q) /\ SameRows(p, q)' => LeftOf(p, q)'
            /\ Above(p, q) /\ SameColumns(p, q) /\ SameColumns(p, q)' => Above(p, q)']_vars
  BY PassLemma
<1> QED BY <1>1, InvLemma, PTL DEF Spec, NoPassThrough

-----------------------------------------------------------------------------
(* The game loop.                                                            *)

\* Each statement of the loop is an operation of ctf.c or leaves the game alone, by
\* definition; so what holds of every game without resets holds of the loop.
LEMMA LoopLemma == MainSpec => WalkSpec
<1>1. MainInit => Init
  BY DEF MainInit
<1>2. [MainNext]_loopVars => [NextWalk]_vars
  <2> SUFFICES ASSUME [MainNext]_loopVars PROVE [NextWalk]_vars
    OBVIOUS
  <2>1. Dist \in Dists /\ "player1" \in Carriers /\ "player1" \in Players
    BY LoopAssumption DEF Players
  <2>2. CASE Press \/ UNCHANGED loopVars
    BY <2>2 DEF Press, loopVars
  <2>3. CASE Poll21 \/ Poll26
    BY <2>1, <2>3 DEF Poll21, Poll26, NextWalk, Move
  <2>4. CASE Check \/ End
    BY <2>1, <2>4 DEF Check, End, NextWalk
  <2> QED BY <2>2, <2>3, <2>4 DEF MainNext, Loop
<1> QED BY <1>1, <1>2, PTL DEF MainSpec, WalkSpec

\* While the loop polls the buttons player1 is not on its flag, for the loop has
\* looked since the last step; and it carries the flag only at the end.
LoopInv ==
    /\ TypeOK
    /\ pc \in {"poll21", "poll26"} => ~touchingFlag("player1")
    /\ pc \in {"poll21", "poll26", "check"} => ~has["player1"]

LEMMA LoopTypeLemma == MainSpec => []TypeOK
<1>1. [NextWalk]_vars => [Next]_vars
  BY DEF Next
<1>2. WalkSpec => Spec
  BY <1>1, PTL DEF WalkSpec, Spec
<1> QED BY <1>2, LoopLemma, BoardTheorem, PTL

LEMMA LoopInvLemma ==
    ASSUME TypeOK', LoopInv, [MainNext]_loopVars
    PROVE  LoopInv' /\ [touchingFlag("player1") => UNCHANGED <<px, py>>]_loopVars
<1>1. "player1" \in Players
  BY DEF Players
<1>2. CASE Press \/ UNCHANGED loopVars
  BY <1>2 DEF Press, loopVars, LoopInv, vars, players, flags, touchingFlag
<1>3. CASE Poll21 \/ Poll26
  <2>1. has' = has
    BY <1>3 DEF Poll21, Poll26, moveRight, moveLeft, Step, vars, players
  <2>2. pc' = "check" \/ (pc' = "poll26" /\ pc = "poll21" /\ UNCHANGED vars)
    BY <1>3 DEF Poll21, Poll26
  <2>3. UNCHANGED vars => (touchingFlag("player1")' <=> touchingFlag("player1"))
    BY DEF vars, players, flags, touchingFlag
  <2>4. pc \in {"poll21", "poll26"}
    BY <1>3 DEF Poll21, Poll26
  <2> QED BY <2>1, <2>2, <2>3, <2>4 DEF LoopInv
<1>4. CASE Check
  <2>1. CASE PickUp("player1") /\ pc' = "end"
    BY <2>1, <1>4 DEF LoopInv, PickUp, hasFlag
  <2>2. CASE ~(touchingFlag("player1") /\ ~has["player1"]) /\ pc' = "poll21" /\ UNCHANGED vars
    BY <2>2, <1>4 DEF Check, LoopInv, vars, players, flags, touchingFlag
  <2> QED BY <1>4, <2>1, <2>2 DEF Check
<1>5. CASE End
  BY <1>5 DEF End, showEnd, LoopInv, players
<1> QED BY <1>2, <1>3, <1>4, <1>5 DEF MainNext, Loop

\* The pass in which player1 first touches its flag is the last one (src/main).
THEOREM LastStepTheorem == MainSpec => NoStepAfterTouch
<1>1. MainInit /\ TypeOK => LoopInv
  BY LoopAssumption DEF MainInit, Init, LoopInv, touchingFlag, Players
<1>2. TypeOK' /\ LoopInv /\ [MainNext]_loopVars
        => LoopInv' /\ [touchingFlag("player1") => UNCHANGED <<px, py>>]_loopVars
  BY LoopInvLemma
<1> QED BY <1>1, <1>2, LoopTypeLemma, PTL DEF MainSpec, NoStepAfterTouch
=============================================================================
