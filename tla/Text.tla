-------------------------------- MODULE Text --------------------------------
(***************************************************************************)
(* The text functions of src/src/vga_graphics.c: drawChar and tft_write,   *)
(* the loop of writeString around it, and the cursor, size, colours and    *)
(* wrap flag that setCursor, setTextSize, setTextColor2 and setTextWrap    *)
(* set before, as showEnd of ctf.c does. Dots are painted in the code's    *)
(* order: beyond the border they fall on each other, and the last stays.   *)
(***************************************************************************)
EXTENDS Shapes, Sequences

CONSTANTS
    Font,          \* of each printable character, the dots <<column, row>> of 5 x 8
    LF, CR, Tab,   \* the other characters
    Settings,      \* where and how to write
    MaxText        \* bound: the characters of a text

ASSUME TextAssumption ==
    /\ {LF, CR, Tab} \intersect DOMAIN Font = {}
    /\ LF # CR /\ LF # Tab /\ CR # Tab
    /\ \A c \in DOMAIN Font : Font[c] \subseteq (0..4) \X (0..7)
    /\ Settings \subseteq [kind : {"text"}, x : Nat, y : Nat, size : Nat \ {0}, wrap : BOOLEAN,
                           c : Colours, bg : Colours, str : {<<>>}]
    /\ MaxText \in Nat

VARIABLES
    cursor_x, cursor_y      \* drawn has the settings, and the text so far

cursor == <<cursor_x, cursor_y>>

tabspace == 4

\* Six columns, the last one empty, of eight dots, each a square of size pixels.
\* With the two colours the same the background stays. paint[k, b] goes on with
\* dot k on the buffer b.
drawChar(buf, x, y, c, color, bg, size) ==
    LET ink(k) == <<k \div 8, k % 8>> \in Font[c]
        dot(k) == fillRect(x + (k \div 8) * size, y + (k % 8) * size, size, size)
        painted[k \in 0..48] ==      \* the first k dots
            IF k = 0 THEN buf
            ELSE IF ink(k - 1) THEN Paint(painted[k - 1], dot(k - 1), color)
            ELSE IF bg # color THEN Paint(painted[k - 1], dot(k - 1), bg)
            ELSE painted[k - 1]
    IN  IF x >= Width \/ y >= Height \/ x + 6 * size - 1 < 0 \/ y + 8 * size - 1 < 0
        THEN buf ELSE painted[48]

\* Mutant: the wrap comes when the cursor has left the screen.
LineIsFull_Late(x, t) == t.wrap /\ x > Width

\* A line is left as soon as the next character would not fit.
LineIsFull(x, t) == t.wrap /\ x > Width - 6 * t.size

tft_write(c) ==
    LET t == drawn
        x == cursor_x + 6 * t.size
    IN  CASE c = LF -> cursor_x' = 0 /\ cursor_y' = cursor_y + 8 * t.size /\ UNCHANGED vga
          [] c = CR -> UNCHANGED <<cursor, vga>>
          [] c = Tab -> /\ cursor_x' = cursor_x + IF cursor_x + tabspace < Width THEN tabspace ELSE 0
                        /\ UNCHANGED <<cursor_y, vga>>
          [] OTHER -> /\ vga' = drawChar(vga, cursor_x, cursor_y, c, t.c, t.bg, t.size)
                      /\ cursor_x' = IF LineIsFull(x, t) THEN 0 ELSE x
                      /\ cursor_y' = cursor_y + IF LineIsFull(x, t) THEN 8 * t.size ELSE 0

SetText(t) ==
    /\ drawn = Nothing
    /\ drawn' = t /\ cursor_x' = t.x /\ cursor_y' = t.y
    /\ UNCHANGED vga

\* writeString: one character after the other.
WriteNext(c) ==
    /\ drawn.kind = "text" /\ Len(drawn.str) < MaxText
    /\ tft_write(c)
    /\ drawn' = [drawn EXCEPT !.str = Append(@, c)]

TextInit == Init /\ cursor_x = 0 /\ cursor_y = 0

TextNext ==
    \/ Next /\ UNCHANGED cursor
    \/ \E t \in Settings : SetText(t)
    \/ \E c \in DOMAIN Font \union {LF, CR, Tab} : WriteNext(c)

TextSpec == TextInit /\ [][TextNext]_<<vars, cursor>>

-----------------------------------------------------------------------------
(* Where the characters of a text should be: in cells of 6 x 8 dots, as many *)
(* to a line as fit and one at least, from the first column but for the      *)
(* first line.                                                               *)

Printed(t) == {k \in DOMAIN t.str : t.str[k] \in DOMAIN Font}

\* The line feed before k, the column after it, and the characters between them.
Feed(t, k) == Max({0} \union {q \in 1..(k - 1) : t.str[q] = LF})
Start(t, k) == IF Feed(t, k) = 0 THEN t.x ELSE 0
Before(t, k) == Cardinality({q \in Printed(t) : q > Feed(t, k) /\ q < k})

\* The characters that a line holds from column x on.
Room(t, x) == Max({1, (Width - x) \div (6 * t.size)})

\* The characters after the first line that the text would need from here.
Over(t, k) == Before(t, k) - Room(t, Start(t, k))

Column(t, k) == IF t.wrap /\ Over(t, k) >= 0
                THEN 6 * t.size * (Over(t, k) % Room(t, 0))
                ELSE Start(t, k) + 6 * t.size * Before(t, k)

\* A line that is just full is left at once: a line feed then leaves an empty one.
EndsLine(t, k) ==
    \/ t.str[k] = LF
    \/ k \in Printed(t) /\ t.wrap /\ Over(t, k) + 1 >= 0 /\ (Over(t, k) + 1) % Room(t, 0) = 0

Row(t, k) == t.y + 8 * t.size * Cardinality({q \in 1..(k - 1) : EndsLine(t, q)})

Place(t) == [k \in Printed(t) |-> <<Column(t, k), Row(t, k)>>]

Fits(t) ==
    /\ \A k \in DOMAIN t.str : t.str[k] # Tab
    /\ \A k \in Printed(t) : /\ Column(t, k) + 6 * t.size <= Width
                              /\ Row(t, k) + 8 * t.size <= Height

\* A text that fits shows every character whole, in its cell, and nothing else;
\* with the wrap on, only the bottom of the screen is a limit, unless it begins
\* where not even one has room. Tabs move by pixels and are left out (vga_graphics.c:450, 525).
TextIsWhole ==
    LET t == drawn
        place == Place(t)
        dot(k, q) == <<(q[1] - place[k][1]) \div t.size, (q[2] - place[k][2]) \div t.size>>
        cell(q) == {k \in DOMAIN place : dot(k, q) \in (0..5) \X (0..7)}
        should(q) == IF \E k \in cell(q) : dot(k, q) \in Font[t.str[k]] THEN t.c
                     ELSE IF cell(q) # {} /\ t.bg # t.c THEN t.bg ELSE Ground
    IN  drawn.kind = "text" /\ Fits(t) => \A q \in Screen : Shown(vga, q[1], q[2]) = should(q)
=============================================================================
