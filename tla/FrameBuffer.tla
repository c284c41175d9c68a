----------------------------- MODULE FrameBuffer -----------------------------
(***************************************************************************)
(* vga_data_array of src/src/vga_graphics.c, two pixels to a byte, and     *)
(* drawPixel. A byte is what the screen shows of it, two colours of three  *)
(* bits: even for bits 0 to 2, odd for bits 3 to 5.                        *)
(***************************************************************************)
EXTENDS Integers

CONSTANTS Width, Height     \* 640 and 480

ASSUME ScreenAssumption ==
    /\ Width \in Nat \ {0} /\ Width % 2 = 0
    /\ Height \in Nat \ {0}

Colours == 0..7
Byte == [even : Colours, odd : Colours]
Columns == 0..(Width - 1)
Rows == 0..(Height - 1)

\* The array has as many rows as the screen, of half as many bytes as columns.
Array == 0..((Width \div 2) * Height - 1)

Clamp(v, max) == IF v > max THEN max ELSE IF v < 0 THEN 0 ELSE v

\* Mutant: a column past the right border runs into the next row.
Pixel_NoClamp(x, y) == Width * Clamp(y, Height - 1) + x

Pixel(x, y) == Width * Clamp(y, Height - 1) + Clamp(x, Width - 1)

\* The colour is not masked: an odd pixel shows its low three bits; those of an
\* even pixel come with bit 3, which is or-ed into the odd half.
drawPixel(buf, x, y, c) ==
    LET p == Pixel(x, y) IN
    IF p % 2 = 1
    THEN [buf EXCEPT ![p \div 2].odd = c % 8]
    ELSE [buf EXCEPT ![p \div 2] =
            [even |-> c % 8,
             odd |-> IF c \div 8 = 1 /\ @.odd % 2 = 0 THEN @.odd + 1 ELSE @.odd]]

Shown(buf, x, y) ==
    LET p == Pixel(x, y) IN IF p % 2 = 1 THEN buf[p \div 2].odd ELSE buf[p \div 2].even
=============================================================================
