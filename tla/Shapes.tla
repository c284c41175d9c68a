------------------------------- MODULE Shapes -------------------------------
(***************************************************************************)
(* The drawing functions of src/src/vga_graphics.c over the frame buffer.  *)
(* A shape is a record of the function and its arguments; its pixels are a *)
(* set, as all of them get one colour. The loops with running errors are   *)
(* recursive functions of the iteration.                                   *)
(***************************************************************************)
EXTENDS FrameBuffer, FiniteSetsExt

CONSTANTS
    Menu,      \* the shapes to draw
    Ground     \* the colour of the screen before

Inks == Colours \ {Ground}

\* Shapes are on the screen and can be told from the ground; a pixel may be
\* anywhere, in a colour of four bits. The corners of a box do not meet.
ASSUME MenuAssumption ==
    /\ Ground \in Colours
    /\ Menu \subseteq
          [kind : {"pixel"}, x : Int, y : Int, c : 0..15]
          \union [kind : {"line"}, x : Columns, y : Rows, x1 : Columns, y1 : Rows, c : Inks]
          \union [kind : {"circle", "disc"}, x : Columns, y : Rows, r : Nat, c : Inks]
          \union [kind : {"rect"}, x : Columns, y : Rows, w : Nat \ {0}, h : Nat \ {0}, c : Inks]
          \union [kind : {"box", "filled_box"}, x : Columns, y : Rows, w : Nat \ {0}, h : Nat \ {0},
                  r : Nat, c : Inks]
    /\ \A s \in Menu :
          /\ s.kind \in {"circle", "disc"} =>
                {s.x - s.r, s.x + s.r} \subseteq Columns /\ {s.y - s.r, s.y + s.r} \subseteq Rows
          /\ s.kind \in {"rect", "box", "filled_box"} =>
                s.x + s.w - 1 \in Columns /\ s.y + s.h - 1 \in Rows
          /\ s.kind \in {"box", "filled_box"} => 2 * s.r < s.w /\ 2 * s.r < s.h

VARIABLES
    vga,       \* vga_data_array
    drawn      \* history: the shape drawn on it

vars == <<vga, drawn>>

Abs(n) == IF n < 0 THEN -n ELSE n

drawVLine(x, y, h) == {<<x, i>> : i \in y..(y + h - 1)}
drawHLine(x, y, w) == {<<i, y>> : i \in x..(x + w - 1)}
fillRect(x, y, w, h) == (x..(x + w - 1)) \X (y..(y + h - 1))

drawRect(x, y, w, h) ==
    UNION {drawHLine(x, y, w), drawHLine(x, y + h - 1, w),
           drawVLine(x, y, h), drawVLine(x + w - 1, y, h)}

\* Mutant: the running error starts at 0.
LineRows_NoHalf(x0, y0, x1, y1) ==
    LET dx == x1 - x0
        walk[i \in 0..dx] ==
            IF i = 0 THEN [y |-> y0, err |-> 0]
            ELSE LET e == walk[i - 1].err - Abs(y1 - y0)
                 IN  IF e < 0 THEN [y |-> walk[i - 1].y + (IF y0 < y1 THEN 1 ELSE -1), err |-> e + dx]
                              ELSE [walk[i - 1] EXCEPT !.err = e]
    IN  [i \in 0..dx |-> walk[i].y]

\* The loop of drawLine: the row in each of the columns from x0 to x1.
LineRows(x0, y0, x1, y1) ==
    LET dx == x1 - x0
        walk[i \in 0..dx] ==
            IF i = 0 THEN [y |-> y0, err |-> dx \div 2]
            ELSE LET e == walk[i - 1].err - Abs(y1 - y0)
                 IN  IF e < 0 THEN [y |-> walk[i - 1].y + (IF y0 < y1 THEN 1 ELSE -1), err |-> e + dx]
                              ELSE [walk[i - 1] EXCEPT !.err = e]
    IN  [i \in 0..dx |-> walk[i].y]

Along(x0, y0, x1, y1) ==
    LET row == LineRows(x0, y0, x1, y1) IN {<<x0 + i, row[i]>> : i \in DOMAIN row}

Flipped(S) == {<<q[2], q[1]>> : q \in S}

\* From left to right; a steep line with the axes exchanged.
drawLine(x0, y0, x1, y1) ==
    LET ordered(a, b, c, d) == IF a > c THEN Along(c, d, a, b) ELSE Along(a, b, c, d)
    IN  IF Abs(y1 - y0) > Abs(x1 - x0) THEN Flipped(ordered(y0, x0, y1, x1))
                                       ELSE ordered(x0, y0, x1, y1)

\* Mutant: ddF_x is added before it grows.
Arc_Early(r) ==
    LET walk[i \in 0..r] ==
            IF i = 0 THEN [x |-> 0, y |-> r, f |-> 1 - r]
            ELSE LET s == walk[i - 1]
                     y == IF s.f >= 0 THEN s.y - 1 ELSE s.y
                 IN  IF s.x >= s.y THEN s
                     ELSE [x |-> s.x + 1, y |-> y,
                           f |-> s.f + (IF s.f >= 0 THEN -2 * y ELSE 0) + 1 + 2 * s.x]
    IN  {<<walk[i].x, walk[i].y>> : i \in 1..r}

\* The loop of the circle functions: an eighth of the circle from the top to
\* the diagonal, the top left out. ddF_x is 1 + 2x and ddF_y is -2y.
Arc(r) ==
    LET walk[i \in 0..r] ==
            IF i = 0 THEN [x |-> 0, y |-> r, f |-> 1 - r]
            ELSE LET s == walk[i - 1]
                     y == IF s.f >= 0 THEN s.y - 1 ELSE s.y
                 IN  IF s.x >= s.y THEN s
                     ELSE [x |-> s.x + 1, y |-> y,
                           f |-> s.f + (IF s.f >= 0 THEN -2 * y ELSE 0) + 1 + 2 * (s.x + 1)]
    IN  {<<walk[i].x, walk[i].y>> : i \in 1..r}

BothWays(S) == S \union Flipped(S)

\* One quadrant (sx and sy are its signs), and the four with the axes' points.
drawCircleHelper(x0, y0, r, sx, sy) ==
    {<<x0 + sx * q[1], y0 + sy * q[2]>> : q \in BothWays(Arc(r))}

drawCircle(x0, y0, r) ==
    {<<x0, y0 + r>>, <<x0, y0 - r>>, <<x0 + r, y0>>, <<x0 - r, y0>>}
    \union UNION {drawCircleHelper(x0, y0, r, sx, sy) : sx, sy \in {-1, 1}}

\* Mutant: the vertical lines are one pixel short.
fillCircleHelper_Short(x0, y0, r, sx, delta) ==
    UNION {drawVLine(x0 + sx * q[1], y0 - q[2], 2 * q[2] + delta) : q \in BothWays(Arc(r))}

\* The right (sx = 1) or left half, stretched downwards by delta.
fillCircleHelper(x0, y0, r, sx, delta) ==
    UNION {drawVLine(x0 + sx * q[1], y0 - q[2], 2 * q[2] + 1 + delta) : q \in BothWays(Arc(r))}

fillCircle(x0, y0, r) ==
    drawVLine(x0, y0 - r, 2 * r + 1)
    \union fillCircleHelper(x0, y0, r, 1, 0) \union fillCircleHelper(x0, y0, r, -1, 0)

drawRoundRect(x, y, w, h, r) ==
    UNION {drawHLine(x + r, y, w - 2 * r), drawHLine(x + r, y + h - 1, w - 2 * r),
           drawVLine(x, y + r, h - 2 * r), drawVLine(x + w - 1, y + r, h - 2 * r),
           drawCircleHelper(x + r, y + r, r, -1, -1),
           drawCircleHelper(x + w - r - 1, y + r, r, 1, -1),
           drawCircleHelper(x + w - r - 1, y + h - r - 1, r, 1, 1),
           drawCircleHelper(x + r, y + h - r - 1, r, -1, 1)}

fillRoundRect(x, y, w, h, r) ==
    UNION {fillRect(x + r, y, w - 2 * r, h),
           fillCircleHelper(x + w - r - 1, y + r, r, 1, h - 2 * r - 1),
           fillCircleHelper(x + r, y + r, r, -1, h - 2 * r - 1)}

Pixels(s) ==
    CASE s.kind = "pixel" -> {<<s.x, s.y>>}
      [] s.kind = "line" -> drawLine(s.x, s.y, s.x1, s.y1)
      [] s.kind = "rect" -> drawRect(s.x, s.y, s.w, s.h)
      [] s.kind = "circle" -> drawCircle(s.x, s.y, s.r)
      [] s.kind = "disc" -> fillCircle(s.x, s.y, s.r)
      [] s.kind = "box" -> drawRoundRect(s.x, s.y, s.w, s.h, s.r)
      [] s.kind = "filled_box" -> fillRoundRect(s.x, s.y, s.w, s.h, s.r)

\* drawPixel for every pixel of S, in whatever order: paint[<<T, b>>] has T left
\* to do on the buffer b.
Paint(buf, S, c) ==
    LET paint[w \in (SUBSET S) \X [Array -> Byte]] ==
            IF w[1] = {} THEN w[2]
            ELSE LET q == CHOOSE q \in w[1] : TRUE
                 IN  paint[<<w[1] \ {q}, drawPixel(w[2], q[1], q[2], c)>>]
    IN  paint[<<S, buf>>]

Nothing == [kind |-> "nothing"]

Init ==
    /\ vga = [k \in Array |-> [even |-> Ground, odd |-> Ground]]
    /\ drawn = Nothing

\* One shape goes onto an empty screen.
Draw(s) ==
    /\ drawn = Nothing
    /\ drawn' = s
    /\ vga' = Paint(vga, Pixels(s), s.c)

Next == \E s \in Menu : Draw(s)

Spec == Init /\ [][Next]_vars

-----------------------------------------------------------------------------
(* Properties. What the screen shows is compared with geometry, not with the *)
(* loops.                                                                    *)

Screen == Columns \X Rows
Inked == {q \in Screen : Shown(vga, q[1], q[2]) # Ground}

\* A pixel off the screen goes to the border; no other pixel changes, except
\* that a colour above 7, as the flag sprite has, sets the low bit of the pixel
\* right of an even one (vga_graphics.c:154).
PixelAlone ==
    LET at == <<Clamp(drawn.x, Width - 1), Clamp(drawn.y, Height - 1)>>
        spilt(q) == /\ drawn.c > 7 /\ at[1] % 2 = 0 /\ Ground % 2 = 0
                    /\ q = <<at[1] + 1, at[2]>>
    IN  drawn.kind = "pixel" => \A q \in Screen :
            Shown(vga, q[1], q[2]) = IF q = at THEN drawn.c % 8
                                     ELSE IF spilt(q) THEN Ground + 1 ELSE Ground

\* A line has both its ends, one pixel in each step of its longer direction,
\* and none that is more than half a pixel off (vga_graphics.c:188).
LineIsStraight ==
    LET dx == drawn.x1 - drawn.x
        dy == drawn.y1 - drawn.y
        longer == Max({Abs(dx), Abs(dy)})
    IN  drawn.kind = "line" =>
            /\ {<<drawn.x, drawn.y>>, <<drawn.x1, drawn.y1>>} \subseteq Inked
            /\ Cardinality(Inked) = longer + 1
            /\ \A q \in Inked : 2 * Abs(dx * (q[2] - drawn.y) - dy * (q[1] - drawn.x)) <= longer

\* A circle has a pixel in each of its rows and columns, and none that is more
\* than about half a pixel off (vga_graphics.c:259).
CircleIsRound ==
    LET dx(q) == q[1] - drawn.x
        dy(q) == q[2] - drawn.y
    IN  drawn.kind = "circle" =>
            /\ \A q \in Inked : Abs(dx(q) * dx(q) + dy(q) * dy(q) - drawn.r * drawn.r) <= drawn.r
            /\ {dx(q) : q \in Inked} = (-drawn.r)..drawn.r
            /\ {dy(q) : q \in Inked} = (-drawn.r)..drawn.r

Hull(O) == UNION {LET ys == {q[2] : q \in {o \in O : o[1] = x}}
                  IN  {<<x, y>> : y \in Min(ys)..Max(ys)} : x \in {q[1] : q \in O}}

Outline(s) == Pixels([s EXCEPT !.kind = IF @ = "disc" THEN "circle" ELSE "box"])

\* The filled shapes are the outlined ones with what lies between their lines:
\* the two families of loops meet without a gap (vga_graphics.c:240, 339-417).
FillMeetsOutline ==
    /\ drawn.kind \in {"disc", "filled_box"} => Inked = Hull(Outline(drawn))
    /\ drawn.kind = "box" => Hull(Inked) = Pixels([drawn EXCEPT !.kind = "filled_box"])
    /\ drawn.kind = "rect" => Hull(Inked) = fillRect(drawn.x, drawn.y, drawn.w, drawn.h)
=============================================================================
