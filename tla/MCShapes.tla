------------------------------ MODULE MCShapes ------------------------------
(***************************************************************************)
(* The drawing functions on a screen of 20 x 20: every line between two    *)
(* points of a 6 x 6 corner, pixels up to two beyond every border in every *)
(* colour of four bits, circles and boxes of every size that fits a corner *)
(* of 12 x 12, and every text of up to four characters in two sizes.       *)
(***************************************************************************)
EXTENDS Text

MCMenu ==
    [kind : {"pixel"}, x : -2..(Width + 1), y : {-1, 0, 7, Height}, c : 0..15]
    \union [kind : {"line"}, x : 0..5, y : 0..5, x1 : 0..5, y1 : 0..5, c : {5}]
    \union {s \in [kind : {"circle", "disc"}, x : {6}, y : {5, 6}, r : 0..5, c : {5}] : s.y >= s.r}
    \union [kind : {"rect"}, x : {1}, y : {2}, w : 1..5, h : 1..5, c : {5}]
    \union {s \in [kind : {"box", "filled_box"}, x : {1, 2}, y : {1}, w : 1..9, h : 1..9,
                   r : 0..4, c : {5}] : 2 * s.r < s.w /\ 2 * s.r < s.h}

\* Two of the glyphs, the second as wide and as high as they get.
MCFont == [c \in {"r", "W"} |-> IF c = "r" THEN {<<0, 3>>, <<0, 4>>, <<1, 3>>, <<2, 2>>}
                                ELSE {<<0, 0>>, <<1, 7>>, <<2, 5>>, <<3, 7>>, <<4, 0>>}]

MCSettings ==
    [kind : {"text"}, x : {1, 9, 17}, y : {0, 2}, size : {1}, wrap : BOOLEAN, c : {5}, bg : {5, 3}, str : {<<>>}]
    \union [kind : {"text"}, x : {0, 7, 19}, y : {0, 3}, size : {2}, wrap : BOOLEAN, c : {5}, bg : {3},
            str : {<<>>}]
=============================================================================
