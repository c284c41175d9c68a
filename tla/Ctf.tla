--------------------------------- MODULE Ctf ---------------------------------
(***************************************************************************)
(* The capture-the-flag game of src/src/ctf.c: two players, the flag each  *)
(* of them is after, and the operations the file offers to a game loop.    *)
(* Pixels are left out: ctf.c only writes the frame buffer, and no         *)
(* decision of this file reads it back.                                    *)
(***************************************************************************)
EXTENDS Integers

CONSTANTS
    W, H,        \* the limits of x and y (640 and 480)
    Size,        \* the edge of a player's square (50)
    FlagDim,     \* the edge of a flag's hit box (30)
    Grip,        \* where a carried flag sits in its carrier's square (20)
    Dists,       \* the distances a caller passes to the move functions
    StartX, StartY,          \* where initCTF puts each player
    FlagStartX, FlagStartY,  \* where initCTF puts the flag each player is after
    Carriers,    \* the players the game loop lets pick up their flag
    None         \* no winner yet

Players == {"player1", "player2"}
Other(p) == IF p = "player1" THEN "player2" ELSE "player1"

\* touchingPlayer and touchingFlag: closed squares with a common point.
SquaresTouch(ax, ay, aDim, bx, by, bDim) ==
    /\ ax <= bx + bDim
    /\ ax + aDim >= bx
    /\ ay <= by + bDim
    /\ ay + aDim >= by

ASSUME SizesAssumption ==
    /\ W \in Nat /\ H \in Nat
    /\ Size \in Nat \ {0} /\ FlagDim \in Nat
    /\ Size <= W /\ Grip \in 0..Size
    /\ Dists \subseteq 1..Size

ASSUME StartAssumption ==
    /\ StartX \in [Players -> 0..W] /\ StartY \in [Players -> 0..H]
    /\ FlagStartX \in [Players -> 0..W] /\ FlagStartY \in [Players -> 0..H]
    /\ ~SquaresTouch(StartX["player1"], StartY["player1"], Size,
                     StartX["player2"], StartY["player2"], Size)

ASSUME CallersAssumption == Carriers \subseteq Players /\ None \notin Players

VARIABLES
    px, py,   \* Player.x, Player.y
    has,      \* Player.hasFlag
    fx, fy,   \* Flag.x, Flag.y of the flag player p is after (player1: flag2)
    fstate,   \* its Flag.state
    ret,      \* what the last move function returned: 1 if it was blocked
    winner,   \* the player showEnd was called for; the program then spins
    placed    \* history: the players moveTo placed that took no free step since

players == <<px, py, has>>
flags == <<fx, fy, fstate>>
vars == <<players, flags, ret, winner, placed>>

FlagStates == {"TOUCHED", "WITH", "ALONE"}

touchingPlayer(x, y, q) == SquaresTouch(x, y, Size, px[q], py[q], Size)

touchingFlag(p) == SquaresTouch(px[p], py[p], Size, fx[p], fy[p], FlagDim)

Init ==
    /\ px = StartX /\ py = StartY
    /\ has = [p \in Players |-> FALSE]
    /\ fx = FlagStartX /\ fy = FlagStartY
    /\ fstate = [p \in Players |-> "ALONE"]
    /\ ret = 0
    /\ winner = None
    /\ placed = {}

-----------------------------------------------------------------------------
(* The operations. winner = None: after showEnd nothing runs any more.       *)

moveFlagTo(p, x, y) ==
    /\ fx' = [fx EXCEPT ![p] = x]
    /\ fy' = [fy EXCEPT ![p] = y]
    /\ fstate' = [fstate EXCEPT ![p] = IF @ = "TOUCHED" THEN "WITH" ELSE @]

\* Mutant: the collision test looks at where the player is, not where it goes.
Step_TestOldPlace(p, x, y) ==
    \/ /\ touchingPlayer(px[p], py[p], Other(p))
       /\ ret' = 1
       /\ UNCHANGED <<players, flags, placed>>
    \/ /\ ~touchingPlayer(px[p], py[p], Other(p))
       /\ ret' = 0
       /\ px' = [px EXCEPT ![p] = x]
       /\ py' = [py EXCEPT ![p] = y]
       /\ IF has[p] THEN moveFlagTo(p, x + Grip, y + Grip) ELSE UNCHANGED flags
       /\ placed' = placed \ {p}
       /\ UNCHANGED has

\* Mutant: the flag follows only once it is in state WITH, which needs a move.
Step_FlagLeftBehind(p, x, y) ==
    \/ /\ touchingPlayer(x, y, Other(p))
       /\ ret' = 1
       /\ UNCHANGED <<players, flags, placed>>
    \/ /\ ~touchingPlayer(x, y, Other(p))
       /\ ret' = 0
       /\ px' = [px EXCEPT ![p] = x]
       /\ py' = [py EXCEPT ![p] = y]
       /\ IF fstate[p] = "WITH" THEN moveFlagTo(p, x + Grip, y + Grip) ELSE UNCHANGED flags
       /\ placed' = placed \ {p}
       /\ UNCHANGED has

\* The body the four move functions share: nothing happens (return 1) if the
\* square at the destination would touch the other player; else a carried flag
\* goes along.
Step(p, x, y) ==
    \/ /\ touchingPlayer(x, y, Other(p))
       /\ ret' = 1
       /\ UNCHANGED <<players, flags, placed>>
    \/ /\ ~touchingPlayer(x, y, Other(p))
       /\ ret' = 0
       /\ px' = [px EXCEPT ![p] = x]
       /\ py' = [py EXCEPT ![p] = y]
       /\ IF has[p] THEN moveFlagTo(p, x + Grip, y + Grip) ELSE UNCHANGED flags
       /\ placed' = placed \ {p}
       /\ UNCHANGED has

\* Mutant: a player that cannot go the whole way wraps to the left edge.
RightX_Wrap(p, d) == IF px[p] + d + Size > W THEN 0 ELSE px[p] + d

\* The clamp of moveRight compares the right edge with W but parks the left
\* edge there.
RightX(p, d) == IF px[p] + d + Size > W THEN W ELSE px[p] + d
LeftX(p, d)  == IF px[p] - d < 0 THEN 0 ELSE px[p] - d
UpY(p, d)    == IF py[p] - d < 0 THEN 0 ELSE py[p] - d
DownY(p, d)  == IF py[p] + d > H THEN H ELSE py[p] + d

moveRight(p, d) == winner = None /\ Step(p, RightX(p, d), py[p]) /\ UNCHANGED winner
moveLeft(p, d)  == winner = None /\ Step(p, LeftX(p, d), py[p])  /\ UNCHANGED winner
moveUp(p, d)    == winner = None /\ Step(p, px[p], UpY(p, d))    /\ UNCHANGED winner
moveDown(p, d)  == winner = None /\ Step(p, px[p], DownY(p, d))  /\ UNCHANGED winner

\* moveTo does not test for a collision, and leaves the flag where it is.
moveTo(p, x, y) ==
    /\ winner = None
    /\ px' = [px EXCEPT ![p] = x]
    /\ py' = [py EXCEPT ![p] = y]
    /\ placed' = placed \union {p}
    /\ UNCHANGED <<has, flags, ret, winner>>

hasFlag(p, held) ==
    /\ has' = [has EXCEPT ![p] = held]
    /\ fstate' = [fstate EXCEPT ![p] = IF held THEN "TOUCHED" ELSE "ALONE"]
    /\ UNCHANGED <<px, py, fx, fy, ret, placed>>

showEnd(p) ==
    /\ winner = None
    /\ winner' = p
    /\ UNCHANGED <<players, flags, ret, placed>>

-----------------------------------------------------------------------------
(* The callers ctf.h allows: hasFlag(p, 1) when the player touches its flag  *)
(* and does not hold it, hasFlag(p, 0) when it loses it, moveFlagTo to reset *)
(* a flag nobody holds.                                                      *)

Move == \E p \in Players, d \in Dists :
    moveRight(p, d) \/ moveLeft(p, d) \/ moveUp(p, d) \/ moveDown(p, d)

PickUp(p) ==
    /\ winner = None
    /\ touchingFlag(p) /\ ~has[p]
    /\ hasFlag(p, TRUE)
    /\ UNCHANGED winner

Lose(p) ==
    /\ winner = None
    /\ has[p]
    /\ hasFlag(p, FALSE)
    /\ UNCHANGED winner

ResetFlag(p) ==
    /\ winner = None
    /\ ~has[p]
    /\ moveFlagTo(p, FlagStartX[p], FlagStartY[p])
    /\ UNCHANGED <<players, ret, winner, placed>>

ResetPlayer(p) == moveTo(p, StartX[p], StartY[p])

\* A game without moveTo, and one that also resets players with it.
NextWalk ==
    \/ Move
    \/ \E p \in Carriers : PickUp(p) \/ Lose(p) \/ ResetFlag(p)
    \/ \E p \in Players : showEnd(p)

Next == NextWalk \/ \E p \in Players : ResetPlayer(p)

WalkSpec == Init /\ [][NextWalk]_vars
Spec == Init /\ [][Next]_vars

-----------------------------------------------------------------------------
(* Properties.                                                               *)

\* Every coordinate stays in the range ctf.h states for moveTo (x from 0 to
\* 640, y from 0 to 480); a carried flag may stick out by Grip.
TypeOK ==
    /\ px \in [Players -> 0..W] /\ py \in [Players -> 0..H]
    /\ has \in [Players -> BOOLEAN]
    /\ fx \in [Players -> 0..(W + Grip)] /\ fy \in [Players -> 0..(H + Grip)]
    /\ fstate \in [Players -> FlagStates]
    /\ ret \in {0, 1}
    /\ winner \in Players \union {None}
    /\ placed \subseteq Players

\* However the move functions are interleaved for the two players, resets with
\* moveTo included, their squares touch only while a player stands where a reset
\* put it: the test against the clamped destination suffices, and a walk ends
\* every touch a reset left behind.
NoTouch == placed = {} => ~touchingPlayer(px["player1"], py["player1"], "player2")

\* The two records of "p carries its flag" (Player.hasFlag and Flag.state)
\* agree after every operation. The proof of CarriedFlagFollows needs it.
FlagStateAgrees == \A p \in Players : has[p] <=> fstate[p] \in {"TOUCHED", "WITH"}

\* The flag follows its carrier through free and blocked moves: it always
\* touches the carrier, and sits at the grip point once it has been moved.
\* A reset with moveTo leaves it behind; the next free step fetches it.
CarriedFlagFollows ==
    \A p \in Players \ placed : has[p] =>
        /\ touchingFlag(p)
        /\ fstate[p] = "WITH" => fx[p] = px[p] + Grip /\ fy[p] = py[p] + Grip

LeftOf(p, q) == px[p] + Size < px[q]
Above(p, q) == py[p] + Size < py[q]
SameRows(p, q) == ~Above(p, q) /\ ~Above(q, p)
SameColumns(p, q) == ~LeftOf(p, q) /\ ~LeftOf(q, p)

\* No player walks through the other: while the two stay level, the one on
\* the left (or above) stays there, although a clamped step is longer than d,
\* and wherever resets have put the players before.
NoPassThrough ==
    [][(\A p \in Players : ~ResetPlayer(p)) => \A p, q \in Players :
        /\ LeftOf(p, q) /\ SameRows(p, q) /\ SameRows(p, q)' => LeftOf(p, q)'
        /\ Above(p, q) /\ SameColumns(p, q) /\ SameColumns(p, q)' => Above(p, q)']_vars
=============================================================================
