---------------------------- MODULE DrawingProofs ----------------------------
(***************************************************************************)
(* drawPixel for screens of every size and coordinates of every value, and *)
(* what pixels, lines, circles, boxes, their fillings and texts leave on   *)
(* the screen.                                                             *)
(***************************************************************************)
EXTENDS Text, FiniteSetTheorems, WellFoundedInduction, TLAPS

LEMMA ClampLemma ==
    ASSUME NEW v \in Int, NEW n \in Nat \ {0}
    PROVE  Clamp(v, n - 1) \in 0..(n - 1)
BY DEF Clamp

\* The rows follow each other: a pixel lies before all of the next row.
LEMMA RowLemma ==
    ASSUME NEW w \in Nat \ {0}, NEW x \in 0..(w - 1), NEW y \in Nat, NEW v \in Nat, y < v
    PROVE  w * y + x < w * v
<1>1. w * v = w * y + w * (v - y)
  OBVIOUS
<1>2. w * (v - y) >= w
  <2>1. v - y - 1 \in Nat
    OBVIOUS
  <2>2. w * (v - y - 1) \in Nat
    BY <2>1
  <2>3. w * (v - y) = w * (v - y - 1) + w
    OBVIOUS
  <2> QED
    BY <2>2, <2>3
<1>3. w * y \in Nat
  OBVIOUS
<1> QED
  BY <1>1, <1>2, <1>3

LEMMA HalfLemma ==
    ASSUME NEW p \in Nat, NEW n \in Nat, p < 2 * n
    PROVE  p \div 2 \in 0..(n - 1)
OBVIOUS

\* Two places of the screen are two pixels of the array.
LEMMA PlaceLemma ==
    ASSUME NEW a \in 0..(Width - 1), NEW b \in 0..(Height - 1),
           NEW u \in 0..(Width - 1), NEW v \in 0..(Height - 1), <<u, v>> # <<a, b>>
    PROVE  Width * b + a # Width * v + u
<1>1. CASE b < v
  <2>1. Width * b + a < Width * v
    BY <1>1, RowLemma, ScreenAssumption
  <2>2. Width * v \in Nat /\ Width * b \in Nat
    BY ScreenAssumption
  <2> QED
    BY <2>1, <2>2
<1>2. CASE v < b
  <2>1. Width * v + u < Width * b
    BY <1>2, RowLemma, ScreenAssumption
  <2>2. Width * v \in Nat /\ Width * b \in Nat
    BY ScreenAssumption
  <2> QED
    BY <2>1, <2>2
<1>3. CASE b = v
  <2>1. Width * v \in Nat
    BY ScreenAssumption
  <2>2. a # u
    BY <1>3
  <2> QED
    BY <1>3, <2>1, <2>2
<1> QED
  BY <1>1, <1>2, <1>3

\* drawPixel never writes outside vga_data_array, whatever the coordinates.
THEOREM PixelInArray ==
    ASSUME NEW x \in Int, NEW y \in Int
    PROVE  /\ Pixel(x, y) \in Nat
           /\ Pixel(x, y) \div 2 \in Array
<1> DEFINE a == Clamp(x, Width - 1)
           b == Clamp(y, Height - 1)
           half == Width \div 2
<1>1. a \in 0..(Width - 1) /\ b \in 0..(Height - 1)
  BY ClampLemma, ScreenAssumption
<1>2. half \in Nat /\ Width = 2 * half
  BY ScreenAssumption
<1> HIDE DEF a, b, half
<1>3. Width * b \in Nat /\ half * b \in Nat /\ Width * b = 2 * (half * b)
  BY <1>1, <1>2, ScreenAssumption
<1>4. Width * b + a < Width * Height
  BY <1>1, RowLemma, ScreenAssumption
<1>5. Width * Height = 2 * (half * Height) /\ half * Height \in Nat
  BY <1>2, ScreenAssumption
<1>6. Pixel(x, y) = Width * b + a
  BY DEF Pixel, a, b
<1>7. Array = 0..(half * Height - 1)
  BY DEF Array, half
<1>8. Pixel(x, y) \in Nat /\ Pixel(x, y) < 2 * (half * Height)
  BY <1>1, <1>3, <1>4, <1>5, <1>6
<1> QED
  BY <1>5, <1>7, <1>8, HalfLemma

\* The array stays an array of bytes, and shows the low bits of the colour at
\* the pixel drawn.
THEOREM PixelIsDrawn ==
    ASSUME NEW buf \in [Array -> Byte], NEW x \in Int, NEW y \in Int, NEW c \in 0..15
    PROVE  /\ drawPixel(buf, x, y, c) \in [Array -> Byte]
           /\ Shown(drawPixel(buf, x, y, c), x, y) = c % 8
<1> DEFINE p == Pixel(x, y)
<1>1. p \in Nat /\ p \div 2 \in Array
  BY PixelInArray
<1>2. c % 8 \in Colours
  BY DEF Colours
<1>3. buf[p \div 2] \in Byte
  BY <1>1
<1> HIDE DEF p
<1>4. CASE p % 2 = 1
  <2>1. drawPixel(buf, x, y, c) = [buf EXCEPT ![p \div 2].odd = c % 8]
    BY <1>4 DEF drawPixel, p
  <2>2. Shown(drawPixel(buf, x, y, c), x, y) = drawPixel(buf, x, y, c)[p \div 2].odd
    BY <1>4 DEF Shown, p
  <2> QED
    BY <1>1, <1>2, <1>3, <2>1, <2>2 DEF Byte
<1>5. CASE p % 2 # 1
  <2> DEFINE o == buf[p \div 2].odd
             new == [even |-> c % 8, odd |-> IF c \div 8 = 1 /\ o % 2 = 0 THEN o + 1 ELSE o]
  <2>1. drawPixel(buf, x, y, c) = [buf EXCEPT ![p \div 2] = new]
    BY <1>5, <1>1 DEF drawPixel, p
  <2>2. Shown(drawPixel(buf, x, y, c), x, y) = drawPixel(buf, x, y, c)[p \div 2].even
    BY <1>5 DEF Shown, p
  <2>3. new \in Byte
    BY <1>2, <1>3 DEF Byte, Colours
  <2> HIDE DEF new
  <2>4. new.even = c % 8
    BY DEF new
  <2> QED
    BY <1>1, <2>1, <2>2, <2>3, <2>4
<1> QED
  BY <1>4, <1>5

\* A colour of three bits changes no other pixel.
THEOREM OthersStay ==
    ASSUME NEW buf \in [Array -> Byte], NEW x \in Int, NEW y \in Int, NEW c \in Colours,
           NEW u \in Columns, NEW v \in Rows,
           <<u, v>> # <<Clamp(x, Width - 1), Clamp(y, Height - 1)>>
    PROVE  Shown(drawPixel(buf, x, y, c), u, v) = Shown(buf, u, v)
<1> DEFINE a == Clamp(x, Width - 1)
           b == Clamp(y, Height - 1)
           p == Pixel(x, y)
           q == Pixel(u, v)
<1>1. a \in 0..(Width - 1) /\ b \in 0..(Height - 1)
  BY ClampLemma, ScreenAssumption
<1>2. q = Width * v + u /\ p = Width * b + a
  BY ScreenAssumption DEF Pixel, Clamp, Columns, Rows
<1>3. /\ p \in Nat /\ p \div 2 \in Array
      /\ q \in Nat /\ q \div 2 \in Array
  <2>1. u \in Int /\ v \in Int
    BY ScreenAssumption DEF Columns, Rows
  <2> QED
    BY PixelInArray, <2>1
<1>4. p # q
  BY <1>1, <1>2, PlaceLemma DEF Columns, Rows
<1> HIDE DEF a, b, p, q
<1>5. c % 8 = c /\ c \div 8 = 0
  BY DEF Colours
<1>6. buf[p \div 2] \in Byte
  BY <1>3
<1>7. CASE p \div 2 # q \div 2
  <2>1. drawPixel(buf, x, y, c)[q \div 2] = buf[q \div 2]
    BY <1>3, <1>7 DEF drawPixel, p
  <2> QED
    BY <2>1 DEF Shown, q
<1>8. CASE p \div 2 = q \div 2
  <2>1. CASE p % 2 = 1
    <3>1. q % 2 # 1
      BY <1>3, <1>4, <1>8, <2>1
    <3>2. drawPixel(buf, x, y, c)[q \div 2].even = buf[q \div 2].even
      BY <1>3, <1>6, <1>8, <2>1 DEF drawPixel, p, Byte
    <3> QED
      BY <3>1, <3>2 DEF Shown, q
  <2>2. CASE p % 2 # 1
    <3>1. q % 2 = 1
      BY <1>3, <1>4, <1>8, <2>2
    <3>2. drawPixel(buf, x, y, c)[q \div 2].odd = buf[q \div 2].odd
      BY <1>3, <1>5, <1>6, <1>8, <2>2 DEF drawPixel, p, Byte
    <3> QED
      BY <3>1, <3>2 DEF Shown, q
  <2> QED
    BY <2>1, <2>2
<1> QED
  BY <1>7, <1>8

-----------------------------------------------------------------------------
(* Paint, for a set of pixels of the screen and a colour of three bits.      *)

Buffers == [Array -> Byte]

LEMMA OnScreenLemma ==
    ASSUME NEW x \in Columns, NEW y \in Rows
    PROVE  /\ x \in Int /\ y \in Int /\ Clamp(x, Width - 1) = x /\ Clamp(y, Height - 1) = y
           /\ Pixel(x, y) = Width * y + x
           /\ Pixel(x, y) \in Nat /\ Pixel(x, y) \div 2 \in Array
<1>1. x \in 0..(Width - 1) /\ y \in 0..(Height - 1) /\ Width \in Nat /\ Height \in Nat
  BY ScreenAssumption DEF Columns, Rows
<1>2. x \in Int /\ y \in Int
  BY <1>1
<1>3. Clamp(x, Width - 1) = x /\ Clamp(y, Height - 1) = y
  BY <1>1 DEF Clamp
<1> QED BY <1>2, <1>3, PixelInArray DEF Pixel

LEMMA DistinctLemma ==
    ASSUME NEW x \in Columns, NEW y \in Rows, NEW u \in Columns, NEW v \in Rows,
           Pixel(x, y) = Pixel(u, v)
    PROVE  x = u /\ y = v
BY OnScreenLemma, PlaceLemma DEF Columns, Rows

\* What drawPixel does to the two halves of each byte.
LEMMA ByteLemma ==
    ASSUME NEW b \in Buffers, NEW x \in Int, NEW y \in Int, NEW c \in 0..15
    PROVE  LET p == Pixel(x, y)
               new == drawPixel(b, x, y, c)
           IN  \A k \in Array :
                 /\ new[k].even = IF 2 * k = p THEN c % 8 ELSE b[k].even
                 /\ new[k].odd = IF 2 * k + 1 = p THEN c % 8
                                 ELSE IF 2 * k = p /\ c > 7 /\ b[k].odd % 2 = 0 THEN b[k].odd + 1
                                 ELSE b[k].odd
<1> DEFINE p == Pixel(x, y)
           h == p \div 2
           new == drawPixel(b, x, y, c)
<1>1. p \in Nat /\ h \in Array
  BY PixelInArray
<1>2. c \div 8 = 1 <=> c > 7
  OBVIOUS
<1>3. \A k \in Array : k \in Nat /\ b[k] \in Byte
  BY DEF Array, Buffers
<1> SUFFICES ASSUME NEW k \in Array
             PROVE  /\ new[k].even = IF 2 * k = p THEN c % 8 ELSE b[k].even
                    /\ new[k].odd = IF 2 * k + 1 = p THEN c % 8
                                    ELSE IF 2 * k = p /\ c > 7 /\ b[k].odd % 2 = 0 THEN b[k].odd + 1
                                    ELSE b[k].odd
  OBVIOUS
<1>4. CASE p % 2 = 1
  <2>1. p = 2 * h + 1
    BY <1>1, <1>4
  <2>2. new = [b EXCEPT ![h].odd = c % 8]
    BY <1>4 DEF drawPixel
  <2> HIDE DEF p, h, new
  <2>3. 2 * k # p /\ (2 * k + 1 = p <=> k = h)
    BY <1>1, <1>3, <2>1
  <2>4. CASE k = h
    BY <1>1, <1>3, <2>2, <2>3, <2>4 DEF Buffers, Byte
  <2>5. CASE k # h
    BY <1>1, <1>3, <2>2, <2>3, <2>5 DEF Buffers
  <2> QED BY <2>4, <2>5
<1>5. CASE p % 2 # 1
  <2> DEFINE o == IF c > 7 /\ b[h].odd % 2 = 0 THEN b[h].odd + 1 ELSE b[h].odd
  <2>1. p = 2 * h
    BY <1>1, <1>5
  <2>2. o = IF c \div 8 = 1 /\ b[h].odd % 2 = 0 THEN b[h].odd + 1 ELSE b[h].odd
    BY <1>2
  <2> HIDE DEF o
  <2>3. new = [b EXCEPT ![h] = [even |-> c % 8, odd |-> o]]
    BY <1>1, <1>5, <2>2 DEF drawPixel, Buffers
  <2> HIDE DEF p, h, new
  <2>4. 2 * k + 1 # p /\ (2 * k = p <=> k = h)
    BY <1>1, <1>3, <2>1
  <2>5. CASE k = h
    <3>1. new[k].even = c % 8 /\ new[k].odd = o
      BY <1>1, <2>3, <2>5 DEF Buffers
    <3> QED BY <2>4, <2>5, <3>1 DEF o
  <2>6. CASE k # h
    <3>1. new[k] = b[k]
      BY <2>3, <2>6 DEF Buffers
    <3> QED BY <2>4, <2>6, <3>1
  <2> QED BY <2>5, <2>6
<1> QED BY <1>4, <1>5

\* A colour of three bits changes one half.
LEMMA HalvesLemma ==
    ASSUME NEW b \in Buffers, NEW x \in Columns, NEW y \in Rows, NEW c \in Colours
    PROVE  LET p == Pixel(x, y)
               new == drawPixel(b, x, y, c)
           IN  /\ new \in Buffers
               /\ \A k \in Array : /\ new[k].even = IF 2 * k = p THEN c ELSE b[k].even
                                   /\ new[k].odd = IF 2 * k + 1 = p THEN c ELSE b[k].odd
<1>1. x \in Int /\ y \in Int
  BY OnScreenLemma
<1>2. c % 8 = c /\ ~(c > 7) /\ c \in 0..15
  BY DEF Colours
<1>3. drawPixel(b, x, y, c) \in Buffers
  BY <1>1, <1>2, PixelIsDrawn DEF Buffers
<1> QED BY <1>1, <1>2, <1>3, ByteLemma

\* The screen after one pixel of it was drawn.
LEMMA DrawLemma ==
    ASSUME NEW b \in Buffers, NEW x \in Columns, NEW y \in Rows, NEW c \in Colours
    PROVE  /\ drawPixel(b, x, y, c) \in Buffers
           /\ \A u \in Columns, v \in Rows :
                Shown(drawPixel(b, x, y, c), u, v)
                    = IF u = x /\ v = y THEN c ELSE Shown(b, u, v)
<1>1. drawPixel(b, x, y, c) \in Buffers
  BY HalvesLemma
<1>2. x \in Int /\ y \in Int /\ c \in 0..15 /\ c % 8 = c
  BY OnScreenLemma DEF Colours
<1>3. ASSUME NEW u \in Columns, NEW v \in Rows
      PROVE  Shown(drawPixel(b, x, y, c), u, v) = IF u = x /\ v = y THEN c ELSE Shown(b, u, v)
  <2>1. CASE u = x /\ v = y
    BY <1>2, <2>1, PixelIsDrawn DEF Buffers
  <2>2. CASE ~(u = x /\ v = y)
    <3>1. <<u, v>> # <<Clamp(x, Width - 1), Clamp(y, Height - 1)>>
      BY <2>2, OnScreenLemma
    <3>2. Shown(drawPixel(b, x, y, c), u, v) = Shown(b, u, v)
      BY <1>2, <3>1, OthersStay DEF Buffers
    <3> QED BY <2>2, <3>2
  <2> QED BY <2>1, <2>2
<1> QED BY <1>1, <1>3

\* Induction on a finite set, an element at a time.
LEMMA SetInduction ==
    ASSUME NEW S, IsFiniteSet(S), NEW Q,
           \A T \in SUBSET S : (\A x \in T : T \ {x} \in Q) => T \in Q
    PROVE  S \in Q
<1> DEFINE Bad == {T \in SUBSET S : T \notin Q}
<1> SUFFICES ASSUME S \notin Q PROVE FALSE
  OBVIOUS
<1>1. Bad \subseteq FiniteSubsetsOf(S) /\ Bad # {}
  BY FS_Subset DEF FiniteSubsetsOf
<1>2. PICK T \in Bad : \A U \in Bad : ~ (<<U, T>> \in StrictSubsetOrdering(S))
  <2> HIDE DEF Bad
  <2> QED BY <1>1, FS_StrictSubsetOrderingWellFounded, WFMin
<1>3. ASSUME NEW x \in T PROVE T \ {x} \in Q
  <2>1. T \ {x} \in SUBSET S /\ T \ {x} \subseteq T /\ T \ {x} # T /\ T \in SUBSET S
    BY <1>3
  <2>2. <<T \ {x}, T>> \in StrictSubsetOrdering(S)
    BY <2>1 DEF StrictSubsetOrdering
  <2> QED BY <1>2, <2>1, <2>2
<1> QED BY <1>3

\* The body of the recursion of Paint.
PaintBody(g, w, c) ==
    IF w[1] = {} THEN w[2]
    ELSE LET q == CHOOSE q \in w[1] : TRUE
         IN  g[<<w[1] \ {q}, drawPixel(w[2], q[1], q[2], c)>>]

Paints(g, S, c) == g = [w \in (SUBSET S) \X [Array -> Byte] |-> PaintBody(g, w, c)]

\* The buffer b with the pixels of T in the colour c, at once.
Numbers(T) == {Pixel(q[1], q[2]) : q \in T}
Coloured(b, T, c) == [k \in Array |-> [even |-> IF 2 * k \in Numbers(T) THEN c ELSE b[k].even,
                                       odd |-> IF 2 * k + 1 \in Numbers(T) THEN c ELSE b[k].odd]]

LEMMA ColouredLemma ==
    ASSUME NEW b \in Buffers, NEW T \in SUBSET Screen, NEW q \in T, NEW c \in Colours
    PROVE  Coloured(b, T, c) = Coloured(drawPixel(b, q[1], q[2], c), T \ {q}, c)
<1> DEFINE p == Pixel(q[1], q[2])
           new == drawPixel(b, q[1], q[2], c)
<1>1. q[1] \in Columns /\ q[2] \in Rows /\ q = <<q[1], q[2]>>
  BY DEF Screen
<1>2. new \in Buffers /\ \A k \in Array : /\ new[k].even = IF 2 * k = p THEN c ELSE b[k].even
                                          /\ new[k].odd = IF 2 * k + 1 = p THEN c ELSE b[k].odd
  BY <1>1, HalvesLemma
<1>3. Numbers(T \ {q}) = Numbers(T) \ {p} /\ p \in Numbers(T)
  <2>1. ASSUME NEW r \in T, Pixel(r[1], r[2]) = p PROVE r = q
    <3>1. r[1] \in Columns /\ r[2] \in Rows /\ r = <<r[1], r[2]>>
      BY DEF Screen
    <3> QED BY <1>1, <2>1, <3>1, DistinctLemma
  <2> HIDE DEF p
  <2>2. p \in Numbers(T)
    BY DEF Numbers, p
  <2>3. ASSUME NEW n PROVE n \in Numbers(T \ {q}) <=> n \in Numbers(T) /\ n # p
    BY <2>1 DEF Numbers, p
  <2> QED BY <2>2, <2>3
<1> HIDE DEF p, new
<1>4. ASSUME NEW k \in Array
      PROVE  /\ (IF 2 * k \in Numbers(T) THEN c ELSE b[k].even)
                    = IF 2 * k \in Numbers(T \ {q}) THEN c ELSE new[k].even
             /\ (IF 2 * k + 1 \in Numbers(T) THEN c ELSE b[k].odd)
                    = IF 2 * k + 1 \in Numbers(T \ {q}) THEN c ELSE new[k].odd
  <2>1. CASE 2 * k = p
    <3>1. 2 * k \in Numbers(T) /\ new[k].even = c
      BY <1>2, <1>3, <2>1
    <3>2. 2 * k + 1 # p
      BY <2>1 DEF Array
    <3>3. new[k].odd = b[k].odd /\ (2 * k + 1 \in Numbers(T) <=> 2 * k + 1 \in Numbers(T \ {q}))
      BY <1>2, <1>3, <3>2
    <3> QED BY <3>1, <3>3
  <2>2. CASE 2 * k + 1 = p
    <3>1. 2 * k + 1 \in Numbers(T) /\ new[k].odd = c
      BY <1>2, <1>3, <2>2
    <3>2. 2 * k # p
      BY <2>2 DEF Array
    <3>3. new[k].even = b[k].even /\ (2 * k \in Numbers(T) <=> 2 * k \in Numbers(T \ {q}))
      BY <1>2, <1>3, <3>2
    <3> QED BY <3>1, <3>3
  <2>3. CASE 2 * k # p /\ 2 * k + 1 # p
    BY <1>2, <1>3, <2>3
  <2> QED BY <2>1, <2>2, <2>3
<1> QED BY <1>4 DEF Coloured, new

LEMMA ColouredType ==
    ASSUME NEW b \in Buffers, NEW T \in SUBSET Screen, NEW c \in Colours
    PROVE  Coloured(b, T, c) \in Buffers
<1>1. ASSUME NEW k \in Array
      PROVE  [even |-> IF 2 * k \in Numbers(T) THEN c ELSE b[k].even,
              odd |-> IF 2 * k + 1 \in Numbers(T) THEN c ELSE b[k].odd] \in Byte
  BY DEF Buffers, Byte
<1> QED BY <1>1 DEF Coloured, Buffers

\* There is a function that recurs as Paint does ...
LEMMA PaintsExists ==
    ASSUME NEW S \in SUBSET Screen, NEW c \in Colours
    PROVE  \E g : Paints(g, S, c)
<1> DEFINE D == (SUBSET S) \X [Array -> Byte]
           g == [w \in D |-> Coloured(w[2], w[1], c)]
<1>1. ASSUME NEW w \in D PROVE Coloured(w[2], w[1], c) = PaintBody(g, w, c)
  <2>1. w[1] \in SUBSET Screen /\ w[1] \in SUBSET S /\ w[2] \in Buffers
    BY DEF Buffers
  <2>2. CASE w[1] = {}
    <3>1. \A k \in Array : w[2][k] \in Byte
      BY <2>1 DEF Buffers
    <3>2. Coloured(w[2], {}, c) = [k \in Array |-> [even |-> w[2][k].even, odd |-> w[2][k].odd]]
      BY DEF Coloured, Numbers
    <3>3. \A k \in Array : w[2][k] = [even |-> w[2][k].even, odd |-> w[2][k].odd]
      BY <3>1 DEF Byte
    <3>4. Coloured(w[2], {}, c) = w[2]
      BY <2>1, <3>2, <3>3 DEF Buffers
    <3> QED BY <2>2, <3>4 DEF PaintBody
  <2>3. CASE w[1] # {}
    <3> DEFINE q == CHOOSE q \in w[1] : TRUE
               v == <<w[1] \ {q}, drawPixel(w[2], q[1], q[2], c)>>
    <3>1. q \in w[1]
      BY <2>3
    <3>2. PaintBody(g, w, c) = g[v]
      BY <2>3 DEF PaintBody
    <3> HIDE DEF q
    <3>3. Coloured(w[2], w[1], c) = Coloured(v[2], v[1], c)
      BY <2>1, <3>1, ColouredLemma
    <3>4. v \in D
      <4>1. q[1] \in Columns /\ q[2] \in Rows
        BY <2>1, <3>1 DEF Screen
      <4>2. drawPixel(w[2], q[1], q[2], c) \in Buffers
        BY <2>1, <4>1, HalvesLemma
      <4> QED BY <2>1, <4>2 DEF Buffers
    <3> HIDE DEF v, D
    <3>5. g[v] = Coloured(v[2], v[1], c)
      BY <3>4
    <3> QED BY <3>2, <3>3, <3>5
  <2> QED BY <2>2, <2>3
<1>2. Paints(g, S, c)
  <2> DEFINE h == g
  <2>1. h = [w \in D |-> Coloured(w[2], w[1], c)] /\ \A w \in D : Coloured(w[2], w[1], c) = PaintBody(h, w, c)
    BY <1>1
  <2> HIDE DEF h
  <2>2. Paints(h, S, c)
    BY <2>1 DEF Paints
  <2> QED BY <2>2 DEF h
<1> QED BY <1>2

\* g paints a pixel of T onto b and goes on with the rest.
PaintsOne(g, T, b, c) ==
    \E q \in T : g[<<T, b>>] = g[<<T \ {q}, drawPixel(b, q[1], q[2], c)>>]

LEMMA PaintsStep ==
    ASSUME NEW S, NEW g, NEW c, Paints(g, S, c)
    PROVE  \A T \in SUBSET S, b \in Buffers :
               /\ T = {} => g[<<T, b>>] = b
               /\ T # {} => PaintsOne(g, T, b, c)
<1> TAKE T \in SUBSET S, b \in Buffers
<1> DEFINE w == <<T, b>>
<1>1. w \in (SUBSET S) \X [Array -> Byte] /\ w[1] = T /\ w[2] = b
  BY DEF Buffers
<1> HIDE DEF w
<1>2. g[w] = PaintBody(g, w, c)
  BY <1>1 DEF Paints
<1>3. CASE T # {}
  <2> DEFINE q == CHOOSE q \in w[1] : TRUE
  <2>1. q \in T
    BY <1>1, <1>3
  <2>2. g[w] = g[<<w[1] \ {q}, drawPixel(w[2], q[1], q[2], c)>>]
    BY <1>1, <1>2, <1>3 DEF PaintBody
  <2> HIDE DEF q
  <2>3. g[<<T, b>>] = g[<<T \ {q}, drawPixel(b, q[1], q[2], c)>>]
    BY <1>1, <2>2 DEF w
  <2> QED BY <1>3, <2>1, <2>3 DEF PaintsOne
<1>4. CASE T = {}
  BY <1>1, <1>2, <1>4 DEF PaintBody, w
<1> QED BY <1>3, <1>4

\* ... and what such a function does to the screen: new is old with the pixels of
\* S in colour c.
Painted(new, old, S, c) ==
    \A u \in Columns, v \in Rows :
        Shown(new, u, v) = IF <<u, v>> \in S THEN c ELSE Shown(old, u, v)

LEMMA PaintLemma ==
    ASSUME NEW buf \in Buffers, NEW S \in SUBSET Screen, NEW c \in Colours, IsFiniteSet(S)
    PROVE  Paint(buf, S, c) \in Buffers /\ Painted(Paint(buf, S, c), buf, S, c)
<1> DEFINE paint[w \in (SUBSET S) \X [Array -> Byte]] ==
               IF w[1] = {} THEN w[2]
               ELSE LET q == CHOOSE q \in w[1] : TRUE
                    IN  paint[<<w[1] \ {q}, drawPixel(w[2], q[1], q[2], c)>>]
<1>1. Paint(buf, S, c) = paint[<<S, buf>>]
  BY DEF Paint
<1>2. paint = CHOOSE g : Paints(g, S, c)
  BY DEF Paints, PaintBody
<1> HIDE DEF paint
<1>3. Paints(paint, S, c)
  BY <1>2, PaintsExists
<1>6. PICK g : Paint(buf, S, c) = g[<<S, buf>>] /\ Paints(g, S, c)
  BY <1>1, <1>3
<1>7. \A T \in SUBSET S, b \in Buffers :
          /\ T = {} => g[<<T, b>>] = b
          /\ T # {} => PaintsOne(g, T, b, c)
  BY <1>6, PaintsStep
<1> DEFINE Right(T, b) ==
               /\ g[<<T, b>>] \in Buffers
               /\ \A u \in Columns, v \in Rows :
                    Shown(g[<<T, b>>], u, v) = IF <<u, v>> \in T THEN c ELSE Shown(b, u, v)
           Q == {T \in SUBSET S : \A b \in Buffers : Right(T, b)}
<1>4. ASSUME NEW T \in SUBSET S, \A x \in T : T \ {x} \in Q PROVE T \in Q
  <2> SUFFICES ASSUME NEW b \in Buffers PROVE Right(T, b)
    OBVIOUS
  <2>1. CASE T = {}
    <3>1. g[<<T, b>>] = b
      BY <1>7, <2>1
    <3> QED BY <2>1, <3>1
  <2>2. CASE T # {}
    <3>1. PICK q \in T : g[<<T, b>>] = g[<<T \ {q}, drawPixel(b, q[1], q[2], c)>>]
      BY <1>7, <2>2 DEF PaintsOne
    <3> DEFINE a == drawPixel(b, q[1], q[2], c)
    <3>2. q[1] \in Columns /\ q[2] \in Rows /\ q = <<q[1], q[2]>>
      BY DEF Screen
    <3>3. /\ a \in Buffers
          /\ \A u \in Columns, v \in Rows :
                Shown(a, u, v) = IF u = q[1] /\ v = q[2] THEN c ELSE Shown(b, u, v)
      BY <3>2, DrawLemma
    <3> HIDE DEF a
    <3>4. Right(T \ {q}, a)
      BY <1>4, <3>3
    <3> HIDE DEF Q
    <3>5. g[<<T, b>>] = g[<<T \ {q}, a>>]
      BY <3>1 DEF a
    <3>6. ASSUME NEW u \in Columns, NEW v \in Rows
          PROVE  Shown(g[<<T, b>>], u, v) = IF <<u, v>> \in T THEN c ELSE Shown(b, u, v)
      <4>1. Shown(g[<<T, b>>], u, v) = IF <<u, v>> \in T \ {q} THEN c ELSE Shown(a, u, v)
        BY <3>4, <3>5
      <4>2. <<u, v>> = q <=> u = q[1] /\ v = q[2]
        BY <3>2
      <4> QED BY <3>3, <4>1, <4>2
    <3>7. g[<<T, b>>] \in Buffers
      BY <3>4, <3>5
    <3> QED BY <3>6, <3>7
  <2> QED BY <2>1, <2>2
<1>5. S \in Q
  <2> HIDE DEF Q
  <2> QED BY <1>4, SetInduction
<1>8. Right(S, buf)
  BY <1>5
<1> QED BY <1>6, <1>8 DEF Painted

-----------------------------------------------------------------------------
(* What the specification draws.                                             *)

PixelShapes == [kind : {"pixel"}, x : Int, y : Int, c : 0..15]
LineShapes == [kind : {"line"}, x : Columns, y : Rows, x1 : Columns, y1 : Rows, c : Inks]
CircleShapes == [kind : {"circle", "disc"}, x : Columns, y : Rows, r : Nat, c : Inks]
RectShapes == [kind : {"rect"}, x : Columns, y : Rows, w : Nat \ {0}, h : Nat \ {0}, c : Inks]
BoxShapes == [kind : {"box", "filled_box"}, x : Columns, y : Rows, w : Nat \ {0}, h : Nat \ {0},
              r : Nat, c : Inks]

\* MenuAssumption by kinds.
LEMMA MenuLemma ==
    /\ Ground \in Colours
    /\ \A s \in Menu :
        /\ s.kind \in {"pixel", "line", "rect", "circle", "disc", "box", "filled_box"}
        /\ s.kind = "pixel" => s \in PixelShapes /\ s.x \in Int /\ s.y \in Int /\ s.c \in 0..15
        /\ s.kind # "pixel" => s.x \in Columns /\ s.y \in Rows /\ s.c \in Colours \ {Ground}
        /\ s.kind = "line" => s.x1 \in Columns /\ s.y1 \in Rows
        /\ s.kind \in {"circle", "disc"} =>
              /\ s \in CircleShapes /\ s.r \in Nat
              /\ {s.x - s.r, s.x + s.r} \subseteq Columns /\ {s.y - s.r, s.y + s.r} \subseteq Rows
        /\ s.kind \in {"rect", "box", "filled_box"} =>
              /\ s.w \in Nat \ {0} /\ s.x + s.w - 1 \in Columns
              /\ s.h \in Nat \ {0} /\ s.y + s.h - 1 \in Rows
        /\ s.kind \in {"box", "filled_box"} =>
              s \in BoxShapes /\ s.r \in Nat /\ 2 * s.r < s.w /\ 2 * s.r < s.h
<1>1. ASSUME NEW s \in Menu
      PROVE  s \in PixelShapes \/ s \in LineShapes \/ s \in CircleShapes
             \/ s \in RectShapes \/ s \in BoxShapes
  BY MenuAssumption DEF PixelShapes, LineShapes, CircleShapes, RectShapes, BoxShapes
<1>2. \A s \in PixelShapes : s.kind = "pixel" /\ s.x \in Int /\ s.y \in Int /\ s.c \in 0..15
  BY DEF PixelShapes
<1>3. \A s \in LineShapes : s.kind = "line" /\ s.x \in Columns /\ s.y \in Rows
                            /\ s.x1 \in Columns /\ s.y1 \in Rows /\ s.c \in Inks
  BY DEF LineShapes
<1>4. \A s \in CircleShapes : s.kind \in {"circle", "disc"} /\ s.x \in Columns /\ s.y \in Rows
                              /\ s.r \in Nat /\ s.c \in Inks
  BY DEF CircleShapes
<1>5. \A s \in RectShapes : s.kind = "rect" /\ s.x \in Columns /\ s.y \in Rows
                            /\ s.w \in Nat \ {0} /\ s.h \in Nat \ {0} /\ s.c \in Inks
  BY DEF RectShapes
<1>6. \A s \in BoxShapes : s.kind \in {"box", "filled_box"} /\ s.x \in Columns /\ s.y \in Rows
                           /\ s.w \in Nat \ {0} /\ s.h \in Nat \ {0} /\ s.r \in Nat /\ s.c \in Inks
  BY DEF BoxShapes
<1>7. Inks = Colours \ {Ground}
  BY DEF Inks
<1> QED BY <1>1, <1>2, <1>3, <1>4, <1>5, <1>6, <1>7, MenuAssumption

Blank == [k \in Array |-> [even |-> Ground, odd |-> Ground]]

Texts == [kind : {"text"}, x : Nat, y : Nat, size : Nat \ {0}, wrap : BOOLEAN,
          c : Colours, bg : Colours, str : Seq(DOMAIN Font \union {LF, CR, Tab})]

\* Nothing, one shape on an empty screen, or a text.
DrawnInv ==
    \/ drawn = Nothing /\ vga = Blank
    \/ drawn \in Menu /\ vga = Paint(Blank, Pixels(drawn), drawn.c)
    \/ drawn \in Texts

LEMMA DrawnLemma == TextSpec => []DrawnInv
<1>1. TextInit => DrawnInv
  BY DEF TextInit, Init, DrawnInv, Blank
<1>2. DrawnInv /\ [TextNext]_<<vars, cursor>> => DrawnInv'
  <2> SUFFICES ASSUME DrawnInv, [TextNext]_<<vars, cursor>> PROVE DrawnInv'
    OBVIOUS
  <2>0. Nothing.kind = "nothing" /\ \A t \in Texts : t.kind = "text"
    BY DEF Nothing, Texts
  <2>1. ASSUME NEW s \in Menu, Draw(s) PROVE DrawnInv'
    <3>1. drawn = Nothing /\ drawn' = s /\ vga' = Paint(vga, Pixels(s), s.c)
      BY <2>1 DEF Draw
    <3>2. Nothing \notin Menu /\ Nothing \notin Texts
      BY <2>0, MenuLemma
    <3>3. vga = Blank
      BY <3>1, <3>2 DEF DrawnInv
    <3> QED BY <3>1, <3>3 DEF DrawnInv
  <2>2. ASSUME NEW t \in Settings, SetText(t) PROVE DrawnInv'
    <3>1. t \in Texts
      <4>1. t \in [kind : {"text"}, x : Nat, y : Nat, size : Nat \ {0}, wrap : BOOLEAN,
                   c : Colours, bg : Colours, str : {<<>>}]
        BY TextAssumption
      <4> DEFINE Str == Seq(DOMAIN Font \union {LF, CR, Tab})
      <4>2. <<>> \in Str
        OBVIOUS
      <4> HIDE DEF Str
      <4>3. t \in [kind : {"text"}, x : Nat, y : Nat, size : Nat \ {0}, wrap : BOOLEAN,
                   c : Colours, bg : Colours, str : Str]
        BY <4>1, <4>2
      <4> QED BY <4>3 DEF Texts, Str
    <3> QED BY <2>2, <3>1 DEF SetText, DrawnInv
  <2>3. ASSUME NEW c \in DOMAIN Font \union {LF, CR, Tab}, WriteNext(c) PROVE DrawnInv'
    <3>1. drawn.kind = "text" /\ drawn' = [drawn EXCEPT !.str = Append(@, c)]
      BY <2>3 DEF WriteNext
    <3>2. drawn \in Texts
      BY <2>0, <3>1, MenuLemma DEF DrawnInv
    <3>3. Append(drawn.str, c) \in Seq(DOMAIN Font \union {LF, CR, Tab})
      BY <3>2 DEF Texts
    <3>4. drawn' \in Texts
      BY <3>1, <3>2, <3>3 DEF Texts
    <3> QED BY <3>4 DEF DrawnInv
  <2>4. CASE UNCHANGED <<vars, cursor>>
    BY <2>4 DEF DrawnInv, vars
  <2> QED BY <2>1, <2>2, <2>3, <2>4 DEF TextNext, Next
<1> QED BY <1>1, <1>2, PTL DEF TextSpec

LEMMA BlankLemma ==
    /\ Blank \in Buffers
    /\ \A u \in Columns, v \in Rows : Shown(Blank, u, v) = Ground
<1>1. Blank \in Buffers
  BY MenuLemma DEF Blank, Buffers, Byte
<1>2. ASSUME NEW u \in Columns, NEW v \in Rows PROVE Shown(Blank, u, v) = Ground
  <2>1. Pixel(u, v) \div 2 \in Array
    BY OnScreenLemma
  <2> QED BY <2>1 DEF Shown, Blank
<1> QED BY <1>1, <1>2

\* A set of one pixel, wherever it is and in every colour, is one drawPixel.
LEMMA OnePixelLemma ==
    ASSUME NEW buf \in Buffers, NEW x \in Int, NEW y \in Int, NEW c \in 0..15
    PROVE  Paint(buf, {<<x, y>>}, c) = drawPixel(buf, x, y, c)
<1> DEFINE S == {<<x, y>>}
           D == (SUBSET S) \X [Array -> Byte]
           h == [w \in D |-> IF w[1] = {} THEN w[2] ELSE drawPixel(w[2], x, y, c)]
           paint[w \in (SUBSET S) \X [Array -> Byte]] ==
               IF w[1] = {} THEN w[2]
               ELSE LET q == CHOOSE q \in w[1] : TRUE
                    IN  paint[<<w[1] \ {q}, drawPixel(w[2], q[1], q[2], c)>>]
<1>1. Paint(buf, S, c) = paint[<<S, buf>>]
  BY DEF Paint
<1>2. paint = CHOOSE g : Paints(g, S, c)
  BY DEF Paints, PaintBody
<1>3. ASSUME NEW w \in D
      PROVE  (IF w[1] = {} THEN w[2] ELSE drawPixel(w[2], x, y, c)) = PaintBody(h, w, c)
  <2>1. w[1] \in SUBSET S /\ w[2] \in Buffers
    BY DEF Buffers
  <2>2. CASE w[1] # {}
    <3> DEFINE q == CHOOSE q \in w[1] : TRUE
               v == <<w[1] \ {q}, drawPixel(w[2], q[1], q[2], c)>>
    <3>1. q \in w[1]
      BY <2>2
    <3>2. PaintBody(h, w, c) = h[v]
      BY <2>2 DEF PaintBody
    <3> HIDE DEF q
    <3>3. q = <<x, y>> /\ w[1] \ {q} = {}
      BY <2>1, <3>1
    <3>4. drawPixel(w[2], x, y, c) \in Buffers
      BY <2>1, PixelIsDrawn DEF Buffers
    <3>5. v[1] = {} /\ v[2] = drawPixel(w[2], x, y, c) /\ v \in D
      BY <3>3, <3>4 DEF Buffers
    <3> HIDE DEF v, D
    <3>6. h[v] = v[2]
      BY <3>5
    <3> QED BY <2>2, <3>2, <3>5, <3>6
  <2> QED BY <2>2 DEF PaintBody
<1>4. Paints(h, S, c)
  <2> DEFINE f == h
  <2>1. /\ f = [w \in D |-> IF w[1] = {} THEN w[2] ELSE drawPixel(w[2], x, y, c)]
        /\ \A w \in D : (IF w[1] = {} THEN w[2] ELSE drawPixel(w[2], x, y, c)) = PaintBody(f, w, c)
    BY <1>3
  <2> HIDE DEF f
  <2>2. Paints(f, S, c)
    BY <2>1 DEF Paints
  <2> QED BY <2>2 DEF f
<1> HIDE DEF paint, h
<1>5. PICK g : Paint(buf, S, c) = g[<<S, buf>>] /\ Paints(g, S, c)
  BY <1>1, <1>2, <1>4
<1>6. \A T \in SUBSET S, b \in Buffers : /\ T = {} => g[<<T, b>>] = b
                                         /\ T # {} => PaintsOne(g, T, b, c)
  BY <1>5, PaintsStep
<1>7. PaintsOne(g, S, buf, c)
  BY <1>6
<1>8. PICK q \in S : g[<<S, buf>>] = g[<<S \ {q}, drawPixel(buf, q[1], q[2], c)>>]
  BY <1>7 DEF PaintsOne
<1>9. q = <<x, y>> /\ S \ {q} = {}
  OBVIOUS
<1>10. drawPixel(buf, x, y, c) \in Buffers
  BY PixelIsDrawn DEF Buffers
<1>11. g[<<{}, drawPixel(buf, x, y, c)>>] = drawPixel(buf, x, y, c)
  BY <1>6, <1>10
<1>12. g[<<S, buf>>] = g[<<{}, drawPixel(buf, x, y, c)>>]
  BY <1>8, <1>9
<1> QED BY <1>5, <1>11, <1>12

LEMMA PixelAloneLemma == DrawnInv => PixelAlone
<1> SUFFICES ASSUME DrawnInv, drawn.kind = "pixel"
             PROVE  LET at == <<Clamp(drawn.x, Width - 1), Clamp(drawn.y, Height - 1)>>
                        spilt(q) == /\ drawn.c > 7 /\ at[1] % 2 = 0 /\ Ground % 2 = 0
                                    /\ q = <<at[1] + 1, at[2]>>
                    IN  \A q \in Screen :
                          Shown(vga, q[1], q[2]) = IF q = at THEN drawn.c % 8
                                                   ELSE IF spilt(q) THEN Ground + 1 ELSE Ground
  BY DEF PixelAlone
<1>1. drawn \in Menu /\ vga = Paint(Blank, Pixels(drawn), drawn.c)
  BY DEF DrawnInv, Nothing, Texts
<1> DEFINE x == drawn.x
           y == drawn.y
           c == drawn.c
           a == Clamp(x, Width - 1)
           b == Clamp(y, Height - 1)
           p == Pixel(x, y)
<1>2. x \in Int /\ y \in Int /\ c \in 0..15 /\ Ground \in Colours
  BY <1>1, MenuLemma
<1>3. Pixels(drawn) = {<<x, y>>}
  BY DEF Pixels
<1>4. vga = drawPixel(Blank, x, y, c)
  BY <1>1, <1>2, <1>3, BlankLemma, OnePixelLemma
<1>5. a \in 0..(Width - 1) /\ b \in 0..(Height - 1) /\ p = Width * b + a
  BY <1>2, ClampLemma, ScreenAssumption DEF Pixel
<1>6. \A k \in Array :
        /\ vga[k].even = IF 2 * k = p THEN c % 8 ELSE Ground
        /\ vga[k].odd = IF 2 * k + 1 = p THEN c % 8
                        ELSE IF 2 * k = p /\ c > 7 /\ Ground % 2 = 0 THEN Ground + 1
                        ELSE Ground
  <2>1. \A k \in Array : Blank[k].even = Ground /\ Blank[k].odd = Ground
    BY DEF Blank
  <2> HIDE DEF x, y, c
  <2>2. \A k \in Array :
          /\ drawPixel(Blank, x, y, c)[k].even = IF 2 * k = p THEN c % 8 ELSE Blank[k].even
          /\ drawPixel(Blank, x, y, c)[k].odd
                = IF 2 * k + 1 = p THEN c % 8
                  ELSE IF 2 * k = p /\ c > 7 /\ Blank[k].odd % 2 = 0 THEN Blank[k].odd + 1
                  ELSE Blank[k].odd
    BY <1>2, BlankLemma, ByteLemma
  <2> HIDE DEF p
  <2> QED BY <1>4, <2>1, <2>2
<1> DEFINE half == Width \div 2
<1>7. half \in Nat /\ Width = 2 * half
  BY ScreenAssumption
<1> HIDE DEF x, y, c, a, b, p, half
<1>8. ASSUME NEW q \in Screen
      PROVE  Shown(vga, q[1], q[2])
                 = IF q = <<a, b>> THEN c % 8
                   ELSE IF c > 7 /\ a % 2 = 0 /\ Ground % 2 = 0 /\ q = <<a + 1, b>> THEN Ground + 1
                   ELSE Ground
  <2> DEFINE u == q[1]
             v == q[2]
             n == Pixel(u, v)
             k == n \div 2
  <2>1. u \in Columns /\ v \in Rows /\ q = <<u, v>>
    BY DEF Screen
  <2>2. n = Width * v + u /\ n \in Nat /\ k \in Array /\ u \in 0..(Width - 1) /\ v \in 0..(Height - 1)
        /\ k \in Nat
    BY <2>1, OnScreenLemma DEF Columns, Rows
  <2> HIDE DEF u, v, n
  <2>3. n = p <=> q = <<a, b>>
    BY <1>5, <2>1, <2>2, PlaceLemma
  <2>4. /\ half * b \in Nat /\ p = 2 * (half * b) + a
        /\ half * v \in Nat /\ n = 2 * (half * v) + u
    BY <1>5, <1>7, <2>2, ScreenAssumption
  <2>5. CASE n % 2 = 1
    <3>1. Shown(vga, u, v) = vga[k].odd /\ n = 2 * k + 1
      BY <2>2, <2>5 DEF Shown, n
    <3>2. 2 * k = p <=> a % 2 = 0 /\ q = <<a + 1, b>>
      <4>1. 2 * k = p <=> n = p + 1
        <5>1. p \in Int
          BY <1>5, <2>4
        <5> HIDE DEF k
        <5> QED BY <2>2, <3>1, <5>1
      <4>2. ASSUME n = p + 1 PROVE a % 2 = 0 /\ q = <<a + 1, b>>
        <5>1. a % 2 = 0
          BY <1>5, <2>4, <2>5, <4>2
        <5>2. a + 1 \in 0..(Width - 1)
          BY <1>5, <1>7, <5>1
        <5>3. n = Width * b + (a + 1)
          BY <1>5, <1>7, <2>4, <4>2
        <5>4. <<u, v>> = <<a + 1, b>>
          BY <1>5, <2>2, <5>2, <5>3, PlaceLemma
        <5> QED BY <2>1, <5>1, <5>4
      <4>3. ASSUME q = <<a + 1, b>> PROVE n = p + 1
        <5>1. u = a + 1 /\ v = b
          BY <2>1, <4>3
        <5> QED BY <1>5, <2>4, <5>1
      <4> QED BY <4>1, <4>2, <4>3
    <3> QED BY <1>6, <2>1, <2>2, <2>3, <3>1, <3>2
  <2>6. CASE n % 2 # 1
    <3>1. Shown(vga, u, v) = vga[k].even /\ n = 2 * k
      BY <2>2, <2>6 DEF Shown, n
    <3>2. ~(a % 2 = 0 /\ q = <<a + 1, b>>)
      <4> SUFFICES ASSUME a % 2 = 0, u = a + 1 PROVE FALSE
        BY <2>1
      <4> QED BY <1>5, <2>2, <2>4, <2>6
    <3> QED BY <1>6, <2>1, <2>2, <2>3, <3>1, <3>2
  <2> QED BY <2>5, <2>6, <2>1 DEF u, v
<1> QED BY <1>8 DEF a, b, c, x, y

\* drawPixel draws where it is told, or at the border, and changes no other
\* pixel but the one to the right, and that only in a colour above 7.
THEOREM PixelTheorem == TextSpec => []PixelAlone
BY PixelAloneLemma, DrawnLemma, PTL

-----------------------------------------------------------------------------
(* Lines.                                                                    *)

LEMMA NatSetInduction ==
    ASSUME NEW S, 0 \in S, \A n \in Nat : n \in S => n + 1 \in S
    PROVE  Nat \subseteq S
<1> DEFINE T == Nat \ S
<1> SUFFICES ASSUME T # {} PROVE FALSE
  OBVIOUS
<1>1. PICK x \in T : \A y \in T : ~ (<<y, x>> \in OpToRel(<, Nat))
  <2>1. T \subseteq Nat OBVIOUS
  <2>. HIDE DEF T
  <2> QED BY <2>1, NatLessThanWellFounded, WFMin
<1>2. \A y \in T : ~(y < x)
  <2>1. \A y \in T : y \in Nat /\ x \in Nat OBVIOUS
  <2>. HIDE DEF T
  <2> QED BY <1>1, <2>1, Zenon DEF OpToRel
<1> QED BY <1>2

\* h takes n steps from base.
Walks(h, n, V, base, step) ==
    h \in [0..n -> V] /\ h[0] = base /\ \A i \in 0..(n - 1) : h[i + 1] = step[h[i]]

LEMMA WalkLemma ==
    ASSUME NEW V, NEW base \in V, NEW step \in [V -> V]
    PROVE  \A n \in Nat : \E h : Walks(h, n, V, base, step)
<1> DEFINE Q == {n \in Nat : \E h : Walks(h, n, V, base, step)}
<1>1. 0 \in Q
  <2>1. Walks([i \in 0..0 |-> base], 0, V, base, step)
    BY DEF Walks
  <2> QED BY <2>1
<1>2. ASSUME NEW n \in Nat, n \in Q PROVE n + 1 \in Q
  <2>1. PICK h : Walks(h, n, V, base, step)
    BY <1>2
  <2> DEFINE k == [i \in 0..(n + 1) |-> IF i = n + 1 THEN step[h[n]] ELSE h[i]]
  <2>2. h \in [0..n -> V] /\ h[0] = base /\ \A i \in 0..(n - 1) : h[i + 1] = step[h[i]]
    BY <2>1 DEF Walks
  <2>3. \A i \in 0..(n + 1) : k[i] \in V
    BY <2>2
  <2>4. k \in [0..(n + 1) -> V] /\ k[0] = base
    BY <2>2, <2>3
  <2>5. ASSUME NEW i \in 0..n PROVE k[i + 1] = step[k[i]]
    <3>1. CASE i = n
      BY <3>1
    <3>2. CASE i # n
      <4>1. i \in 0..(n - 1) /\ i + 1 \in 0..(n + 1) /\ i + 1 # n + 1
        BY <3>2
      <4> QED BY <4>1, <2>2
    <3> QED BY <3>1, <3>2
  <2>6. Walks(k, n + 1, V, base, step)
    <3>1. (n + 1) - 1 = n
      OBVIOUS
    <3> HIDE DEF k
    <3> QED BY <2>4, <2>5, <3>1 DEF Walks
  <2> QED BY <2>6
<1>3. Nat \subseteq Q
  <2> HIDE DEF Q
  <2> QED BY <1>1, <1>2, NatSetInduction
<1> QED BY <1>3

\* One turn of the loop of drawLine.
Turned(s, dx, dy, up) ==
    LET e == s.err - dy
    IN  IF e < 0 THEN [y |-> s.y + (IF up THEN 1 ELSE -1), err |-> e + dx]
                 ELSE [s EXCEPT !.err = e]

Moved(y, k, up) == IF up THEN y + k ELSE y - k

\* g is the running state of the loop, and row what it draws.
LineWalk(g, row, y, n, d, up) ==
    /\ row = [i \in 0..n |-> g[i].y]
    /\ g[0] = [y |-> y, err |-> n \div 2]
    /\ \A i \in 1..n : g[i] = Turned(g[i - 1], n, d, up)

LEMMA WalkedLemma ==
    ASSUME NEW x0 \in Int, NEW y0 \in Int, NEW x1 \in Int, NEW y1 \in Int,
           x0 <= x1, Abs(y1 - y0) <= x1 - x0
    PROVE  \E g : LineWalk(g, LineRows(x0, y0, x1, y1), y0, x1 - x0, Abs(y1 - y0), y0 < y1)
<1> DEFINE dx == x1 - x0
           dy == Abs(y1 - y0)
           up == y0 < y1
           V == [y : Int, err : Int]
           base == [y |-> y0, err |-> dx \div 2]
           step == [s \in V |-> Turned(s, dx, dy, up)]
           Body(g) == [i \in 0..dx |->
                          IF i = 0 THEN base ELSE Turned(g[i - 1], dx, dy, up)]
           walk[i \in 0..dx] ==
               IF i = 0 THEN [y |-> y0, err |-> dx \div 2]
               ELSE LET e == walk[i - 1].err - Abs(y1 - y0)
                    IN  IF e < 0 THEN [y |-> walk[i - 1].y + (IF y0 < y1 THEN 1 ELSE -1), err |-> e + dx]
                                 ELSE [walk[i - 1] EXCEPT !.err = e]
<1>1. dx \in Nat /\ dy \in Int /\ base \in V
  BY DEF Abs
<1>2. LineRows(x0, y0, x1, y1) = [i \in 0..dx |-> walk[i].y]
  BY DEF LineRows
<1>3. walk = CHOOSE g : g = Body(g)
  BY DEF Turned
<1> HIDE DEF walk
<1>4. step \in [V -> V]
  <2>1. ASSUME NEW s \in V PROVE Turned(s, dx, dy, up) \in V
    BY <1>1 DEF Turned
  <2> QED BY <2>1
<1>5. PICK h : Walks(h, dx, V, base, step)
  <2> HIDE DEF step, V, base, dx
  <2> QED BY <1>1, <1>4, WalkLemma
<1>6. h = Body(h)
  <2>1. h \in [0..dx -> V] /\ h[0] = base /\ \A i \in 0..(dx - 1) : h[i + 1] = step[h[i]]
    BY <1>5 DEF Walks
  <2>2. ASSUME NEW i \in 0..dx, i # 0 PROVE h[i] = Turned(h[i - 1], dx, dy, up)
    <3>1. i - 1 \in 0..(dx - 1) /\ i - 1 \in 0..dx /\ (i - 1) + 1 = i
      BY <1>1, <2>2
    <3>2. h[i] = step[h[i - 1]] /\ h[i - 1] \in V
      <4> HIDE DEF dx, step
      <4> QED BY <2>1, <3>1
    <3> QED BY <3>2
  <2> HIDE DEF dx, dy, up, V, base, step
  <2> QED BY <2>1, <2>2
<1>7. walk = Body(walk)
  <2> HIDE DEF Body
  <2> QED BY <1>3, <1>6
<1>8. walk[0] = base /\ \A i \in 1..dx : walk[i] = Turned(walk[i - 1], dx, dy, up)
  <2> HIDE DEF dy, up, base, dx
  <2>1. 0 \in 0..dx /\ \A i \in 1..dx : i \in 0..dx /\ i # 0
    BY <1>1
  <2> QED BY <1>7, <2>1
<1>9. LineWalk(walk, LineRows(x0, y0, x1, y1), y0, dx, dy, up)
  BY <1>2, <1>8 DEF LineWalk
<1> QED BY <1>9

\* The state after i turns, k of them up or down.
After(s, i, k, y, n, d, h, up) ==
    /\ s = [y |-> Moved(y, k, up), err |-> h - i * d + k * n]
    /\ 0 <= h - i * d + k * n
    /\ n > 0 => h - i * d + k * n < n

LEMMA TurnLemma ==
    ASSUME NEW n \in Nat, NEW d \in Nat, d <= n, NEW y \in Int, NEW h \in Int, NEW up,
           NEW i \in Nat, NEW k \in 0..i, NEW s, 0 < n, After(s, i, k, y, n, d, h, up)
    PROVE  \E m \in 0..(i + 1) : After(Turned(s, n, d, up), i + 1, m, y, n, d, h, up)
<1> DEFINE e == h - i * d + k * n
<1>1. /\ (i + 1) * d = i * d + d /\ (k + 1) * n = k * n + n
      /\ i * d \in Int /\ k * n \in Int
  OBVIOUS
<1>2. h - (i + 1) * d + k * n = e - d /\ h - (i + 1) * d + (k + 1) * n = e - d + n /\ e \in Int
  BY <1>1
<1>0. s = [y |-> Moved(y, k, up), err |-> e] /\ 0 <= e /\ e < n
  BY DEF After
<1>3. s.err = e /\ s.y = Moved(y, k, up) /\ s = [y |-> s.y, err |-> s.err]
  BY <1>0
<1>4. 0 <= e /\ e < n
  BY <1>0
<1> HIDE DEF e
<1>5. CASE e - d < 0
  <2>1. Turned(s, n, d, up) = [y |-> Moved(y, k, up) + (IF up THEN 1 ELSE -1), err |-> e - d + n]
    BY <1>3, <1>5 DEF Turned
  <2>2. Moved(y, k, up) + (IF up THEN 1 ELSE -1) = Moved(y, k + 1, up)
    BY DEF Moved
  <2>3. 0 <= e - d + n /\ e - d + n < n /\ k + 1 \in 0..(i + 1)
    BY <1>2, <1>4, <1>5
  <2>4. /\ Turned(s, n, d, up) = [y |-> Moved(y, k + 1, up), err |-> h - (i + 1) * d + (k + 1) * n]
        /\ 0 <= h - (i + 1) * d + (k + 1) * n
        /\ h - (i + 1) * d + (k + 1) * n < n
    BY <1>2, <2>1, <2>2, <2>3
  <2>5. After(Turned(s, n, d, up), i + 1, k + 1, y, n, d, h, up)
    BY <2>4 DEF After
  <2> QED BY <2>3, <2>5
<1>6. CASE ~(e - d < 0)
  <2>1. Turned(s, n, d, up) = [y |-> Moved(y, k, up), err |-> e - d]
    BY <1>3, <1>6 DEF Turned
  <2>2. 0 <= e - d /\ e - d < n /\ k \in 0..(i + 1)
    BY <1>2, <1>4, <1>6
  <2>3. /\ Turned(s, n, d, up) = [y |-> Moved(y, k, up), err |-> h - (i + 1) * d + k * n]
        /\ 0 <= h - (i + 1) * d + k * n
        /\ h - (i + 1) * d + k * n < n
    BY <1>2, <2>1, <2>2
  <2>4. After(Turned(s, n, d, up), i + 1, k, y, n, d, h, up)
    BY <2>3 DEF After
  <2> QED BY <2>2, <2>4
<1> QED BY <1>5, <1>6

\* After i turns of k up or down, i * dy and k * dx differ by at most half of dx.
LEMMA HalfwayLemma ==
    ASSUME NEW n \in Nat, NEW d \in Nat, d <= n, NEW i \in 0..n, NEW k \in 0..i,
           0 <= (n \div 2) - i * d + k * n, n > 0 => (n \div 2) - i * d + k * n < n
    PROVE  /\ 2 * (k * n - i * d) <= n /\ 2 * (i * d - k * n) <= n
           /\ k <= d
           /\ i = 0 => k = 0
           /\ i = n => k = d
<1> DEFINE a == i * d
           b == k * n
           h == n \div 2
<1>1. a \in Nat /\ b \in Nat /\ 2 * h <= n /\ n <= 2 * h + 1 /\ h \in Nat
  OBVIOUS
<1>2. 0 <= h - a + b /\ (n > 0 => h - a + b < n)
  OBVIOUS
<1>3. n = 0 => a = 0 /\ b = 0 /\ k = 0 /\ d = 0
  OBVIOUS
<1>4. a <= n * d
  <2>1. n - i \in Nat /\ (n - i) * d \in Nat /\ n * d = i * d + (n - i) * d
    OBVIOUS
  <2> QED BY <2>1
<1>5. k * n = b /\ d * n = n * d /\ n * d \in Nat
  OBVIOUS
<1>6. k > d => b >= n * d + n
  <2> SUFFICES ASSUME k > d PROVE b >= n * d + n
    OBVIOUS
  <2>1. k - d - 1 \in Nat /\ (k - d - 1) * n \in Nat /\ k * n = d * n + n + (k - d - 1) * n
    OBVIOUS
  <2> QED BY <2>1
<1>7. k < d => b + n <= n * d
  <2> SUFFICES ASSUME k < d PROVE b + n <= n * d
    OBVIOUS
  <2>1. d - k - 1 \in Nat /\ (d - k - 1) * n \in Nat /\ d * n = k * n + n + (d - k - 1) * n
    OBVIOUS
  <2> QED BY <2>1
<1>8. i = n => a = n * d
  OBVIOUS
<1>9. 2 * (k * n - i * d) = 2 * b - 2 * a /\ 2 * (i * d - k * n) = 2 * a - 2 * b
  OBVIOUS
<1> HIDE DEF a, b, h
<1>10. 2 * b - 2 * a <= n /\ 2 * a - 2 * b <= n
  BY <1>1, <1>2, <1>3
<1>11. k <= d
  BY <1>1, <1>2, <1>3, <1>4, <1>5, <1>6, <1>10
<1>12. i = n => k = d
  BY <1>1, <1>3, <1>5, <1>7, <1>8, <1>10, <1>11
<1> QED BY <1>9, <1>10, <1>11, <1>12

LEMMA RowsLemma ==
    ASSUME NEW x0 \in Int, NEW y0 \in Int, NEW x1 \in Int, NEW y1 \in Int,
           x0 <= x1, Abs(y1 - y0) <= x1 - x0
    PROVE  LET n == x1 - x0
               d == Abs(y1 - y0)
               row == LineRows(x0, y0, x1, y1)
           IN  /\ DOMAIN row = 0..n
               /\ \A i \in 0..n : \E k \in 0..d :
                    /\ row[i] = Moved(y0, k, y0 < y1)
                    /\ 2 * (k * n - i * d) <= n /\ 2 * (i * d - k * n) <= n
                    /\ i = 0 => k = 0
                    /\ i = n => k = d
<1> DEFINE n == x1 - x0
           d == Abs(y1 - y0)
           up == y0 < y1
           h == n \div 2
           row == LineRows(x0, y0, x1, y1)
<1>1. n \in Nat /\ d \in Nat /\ d <= n /\ h \in Int
  BY DEF Abs
<1>a. PICK g : LineWalk(g, row, y0, n, d, up)
  BY WalkedLemma
<1>2. /\ row = [i \in 0..n |-> g[i].y]
      /\ g[0] = [y |-> y0, err |-> h]
      /\ \A i \in 1..n : g[i] = Turned(g[i - 1], n, d, up)
  BY <1>a DEF LineWalk
<1> HIDE DEF n, d, up, row
<1> DEFINE Q == {i \in Nat : i <= n => \E k \in 0..i : After(g[i], i, k, y0, n, d, h, up)}
<1>3. 0 \in Q
  <2>1. 0 * d = 0 /\ 0 * n = 0
    BY <1>1
  <2>2. Moved(y0, 0, up) = y0
    BY DEF Moved
  <2>3. 0 <= h /\ (n > 0 => h < n)
    BY <1>1
  <2>4. h - 0 * d + 0 * n = h
    BY <1>1, <2>1
  <2> HIDE DEF h
  <2>5. After(g[0], 0, 0, y0, n, d, h, up)
    BY <1>2, <2>2, <2>3, <2>4 DEF After
  <2> QED BY <2>5
<1>4. ASSUME NEW i \in Nat, i \in Q PROVE i + 1 \in Q
  <2> SUFFICES ASSUME i + 1 <= n PROVE \E k \in 0..(i + 1) : After(g[i + 1], i + 1, k, y0, n, d, h, up)
    OBVIOUS
  <2>1. PICK k \in 0..i : After(g[i], i, k, y0, n, d, h, up)
    BY <1>1, <1>4
  <2>2. n > 0 /\ i + 1 \in 1..n /\ (i + 1) - 1 = i
    BY <1>1
  <2>3. g[i + 1] = Turned(g[i], n, d, up)
    BY <1>2, <2>2
  <2> HIDE DEF h
  <2>4. \E m \in 0..(i + 1) : After(Turned(g[i], n, d, up), i + 1, m, y0, n, d, h, up)
    BY <1>1, <2>1, <2>2, TurnLemma
  <2> QED BY <2>3, <2>4
<1>5. Nat \subseteq Q
  <2> HIDE DEF Q
  <2> QED BY <1>3, <1>4, NatSetInduction
<1>6. ASSUME NEW i \in 0..n
      PROVE  \E k \in 0..d : /\ row[i] = Moved(y0, k, up)
                             /\ 2 * (k * n - i * d) <= n /\ 2 * (i * d - k * n) <= n
                             /\ i = 0 => k = 0
                             /\ i = n => k = d
  <2>1. i \in Nat /\ i <= n
    BY <1>1
  <2>2. PICK k \in 0..i : After(g[i], i, k, y0, n, d, h, up)
    BY <1>5, <2>1
  <2>3. row[i] = Moved(y0, k, up)
    BY <1>2, <2>2 DEF After
  <2>4. /\ 2 * (k * n - i * d) <= n /\ 2 * (i * d - k * n) <= n
        /\ k <= d
        /\ i = 0 => k = 0
        /\ i = n => k = d
    BY <1>1, <2>2, HalfwayLemma DEF After
  <2>5. k \in 0..d
    BY <1>1, <2>1, <2>4
  <2> QED BY <2>3, <2>4, <2>5
<1>7. DOMAIN row = 0..n
  BY <1>2
<1> QED BY <1>6, <1>7 DEF n, d, up, row

\* L is a line from one point to the other, of n + 1 pixels, each at most half
\* a pixel off, and none outside the rectangle between the two.
Straight(L, x0, y0, x1, y1, n) ==
    /\ <<x0, y0>> \in L /\ <<x1, y1>> \in L
    /\ IsFiniteSet(L) /\ Cardinality(L) = n + 1
    /\ \A q \in L :
        /\ q \in Int \X Int
        /\ (x0 <= q[1] /\ q[1] <= x1) \/ (x1 <= q[1] /\ q[1] <= x0)
        /\ (y0 <= q[2] /\ q[2] <= y1) \/ (y1 <= q[2] /\ q[2] <= y0)
        /\ 2 * ((x1 - x0) * (q[2] - y0) - (y1 - y0) * (q[1] - x0)) <= n
        /\ 2 * ((y1 - y0) * (q[1] - x0) - (x1 - x0) * (q[2] - y0)) <= n

LEMMA AlongLemma ==
    ASSUME NEW x0 \in Int, NEW y0 \in Int, NEW x1 \in Int, NEW y1 \in Int,
           x0 <= x1, Abs(y1 - y0) <= x1 - x0
    PROVE  Straight(Along(x0, y0, x1, y1), x0, y0, x1, y1, x1 - x0)
<1> DEFINE n == x1 - x0
           d == Abs(y1 - y0)
           row == LineRows(x0, y0, x1, y1)
           L == Along(x0, y0, x1, y1)
<1>1. n \in Nat /\ d \in Nat
  BY DEF Abs
<1>2. /\ DOMAIN row = 0..n
      /\ \A i \in 0..n : \E k \in 0..d :
           /\ row[i] = Moved(y0, k, y0 < y1)
           /\ 2 * (k * n - i * d) <= n /\ 2 * (i * d - k * n) <= n
           /\ i = 0 => k = 0
           /\ i = n => k = d
  BY RowsLemma
<1> HIDE DEF row
<1>3. L = {<<x0 + i, row[i]>> : i \in 0..n}
  BY <1>2 DEF Along, row
<1> HIDE DEF L
<1>4. ASSUME NEW i \in 0..n
      PROVE  /\ row[i] \in Int
             /\ (y0 <= row[i] /\ row[i] <= y1) \/ (y1 <= row[i] /\ row[i] <= y0)
             /\ 2 * (n * (row[i] - y0) - (y1 - y0) * i) <= n
             /\ 2 * ((y1 - y0) * i - n * (row[i] - y0)) <= n
             /\ i = 0 => row[i] = y0
             /\ i = n => row[i] = y1
  <2>1. PICK k \in 0..d : /\ row[i] = Moved(y0, k, y0 < y1)
                          /\ 2 * (k * n - i * d) <= n /\ 2 * (i * d - k * n) <= n
                          /\ i = 0 => k = 0
                          /\ i = n => k = d
    BY <1>2
  <2>2. k \in Nat /\ k <= d /\ i \in Nat
    BY <1>1
  <2>3. k * n \in Int /\ i * d \in Int /\ n * k = k * n /\ d * i = i * d
    BY <1>1, <2>2
  <2>4. CASE y0 < y1
    <3>1. d = y1 - y0 /\ row[i] = y0 + k
      BY <2>1, <2>4 DEF Abs, Moved
    <3> HIDE DEF n, d
    <3>2. row[i] - y0 = k /\ n * (row[i] - y0) = k * n /\ (y1 - y0) * i = i * d
      BY <1>1, <2>2, <2>3, <3>1
    <3>3. row[i] \in Int /\ y0 <= row[i] /\ row[i] <= y1 /\ (k = d => row[i] = y1)
      BY <2>2, <3>1
    <3> QED BY <2>1, <3>2, <3>3, <3>1
  <2>5. CASE ~(y0 < y1)
    <3>1. d = y0 - y1 /\ row[i] = y0 - k
      BY <2>1, <2>5 DEF Abs, Moved
    <3> HIDE DEF n, d
    <3>2. row[i] - y0 = -k /\ y1 - y0 = -d
      BY <2>2, <3>1
    <3>3. n * (row[i] - y0) = -(k * n) /\ (y1 - y0) * i = -(i * d)
      <4>1. n * (-k) = -(k * n) /\ (-d) * i = -(i * d)
        BY <1>1, <2>2
      <4> QED BY <3>2, <4>1
    <3>4. row[i] \in Int /\ y1 <= row[i] /\ row[i] <= y0 /\ (k = d => row[i] = y1)
      BY <2>2, <3>1
    <3>5. /\ 2 * (n * (row[i] - y0) - (y1 - y0) * i) <= n
          /\ 2 * ((y1 - y0) * i - n * (row[i] - y0)) <= n
      BY <2>1, <2>3, <3>3, <1>1
    <3> QED BY <2>1, <3>4, <3>5, <3>1
  <2> QED BY <2>4, <2>5
<1>5. <<x0, y0>> \in L /\ <<x1, y1>> \in L
  <2>1. 0 \in 0..n /\ n \in 0..n /\ x0 + 0 = x0 /\ x0 + n = x1
    BY <1>1
  <2>2. row[0] = y0 /\ row[n] = y1
    BY <1>4, <2>1
  <2>3. <<x0 + 0, row[0]>> \in L /\ <<x0 + n, row[n]>> \in L
    <3> HIDE DEF n
    <3> QED BY <1>3, <2>1
  <2> QED BY <2>1, <2>2, <2>3
<1>6. IsFiniteSet(L) /\ Cardinality(L) = n + 1
  <2> DEFINE f == [i \in 0..n |-> <<x0 + i, row[i]>>]
  <2>1. f \in Bijection(0..n, L)
    <3>1. \A i \in 0..n, j \in 0..n : f[i] = f[j] => i = j
      <4> SUFFICES ASSUME NEW i \in 0..n, NEW j \in 0..n, <<x0 + i, row[i]>> = <<x0 + j, row[j]>>
                   PROVE  i = j
        OBVIOUS
      <4>1. x0 + i = x0 + j
        OBVIOUS
      <4> QED BY <4>1, <1>1
    <3>2. f \in [0..n -> L] /\ \A q \in L : \E i \in 0..n : f[i] = q
      BY <1>3
    <3> HIDE DEF f, n
    <3>3. f \in Injection(0..n, L)
      BY <3>1, <3>2 DEF Injection, IsInjective
    <3>4. f \in Surjection(0..n, L)
      BY <3>2 DEF Surjection
    <3> QED BY <3>3, <3>4 DEF Bijection
  <2>2. ExistsBijection(0..n, L)
    BY <2>1 DEF ExistsBijection
  <2>3. IsFiniteSet(0..n) /\ Cardinality(0..n) = n + 1
    BY <1>1, FS_Interval
  <2> HIDE DEF n
  <2> QED BY <2>2, <2>3, FS_Bijection
<1>7. ASSUME NEW q \in L
      PROVE  /\ q \in Int \X Int
             /\ x0 <= q[1] /\ q[1] <= x1
             /\ (y0 <= q[2] /\ q[2] <= y1) \/ (y1 <= q[2] /\ q[2] <= y0)
             /\ 2 * ((x1 - x0) * (q[2] - y0) - (y1 - y0) * (q[1] - x0)) <= n
             /\ 2 * ((y1 - y0) * (q[1] - x0) - (x1 - x0) * (q[2] - y0)) <= n
  <2>1. PICK i \in 0..n : q = <<x0 + i, row[i]>>
    BY <1>3
  <2>2. q[1] = x0 + i /\ q[2] = row[i] /\ q[1] - x0 = i /\ x0 <= q[1] /\ q[1] <= x1
    BY <2>1
  <2> QED BY <1>4, <2>1, <2>2
<1>8. \A q \in L :
        /\ q \in Int \X Int
        /\ (x0 <= q[1] /\ q[1] <= x1) \/ (x1 <= q[1] /\ q[1] <= x0)
        /\ (y0 <= q[2] /\ q[2] <= y1) \/ (y1 <= q[2] /\ q[2] <= y0)
        /\ 2 * ((x1 - x0) * (q[2] - y0) - (y1 - y0) * (q[1] - x0)) <= n
        /\ 2 * ((y1 - y0) * (q[1] - x0) - (x1 - x0) * (q[2] - y0)) <= n
  BY <1>7
<1> HIDE DEF n
<1>9. Straight(L, x0, y0, x1, y1, n)
  BY <1>5, <1>6, <1>8 DEF Straight
<1> QED BY <1>9 DEF L, n

\* The same line from its other end, and with the axes exchanged.
LEMMA BackLemma ==
    ASSUME NEW L, NEW x0 \in Int, NEW y0 \in Int, NEW x1 \in Int, NEW y1 \in Int, NEW n \in Int,
           Straight(L, x1, y1, x0, y0, n)
    PROVE  Straight(L, x0, y0, x1, y1, n)
<1>1. ASSUME NEW q \in L
      PROVE  /\ q \in Int \X Int
             /\ (x0 <= q[1] /\ q[1] <= x1) \/ (x1 <= q[1] /\ q[1] <= x0)
             /\ (y0 <= q[2] /\ q[2] <= y1) \/ (y1 <= q[2] /\ q[2] <= y0)
             /\ 2 * ((x1 - x0) * (q[2] - y0) - (y1 - y0) * (q[1] - x0)) <= n
             /\ 2 * ((y1 - y0) * (q[1] - x0) - (x1 - x0) * (q[2] - y0)) <= n
  <2>1. /\ q \in Int \X Int
        /\ (x1 <= q[1] /\ q[1] <= x0) \/ (x0 <= q[1] /\ q[1] <= x1)
        /\ (y1 <= q[2] /\ q[2] <= y0) \/ (y0 <= q[2] /\ q[2] <= y1)
        /\ 2 * ((x0 - x1) * (q[2] - y1) - (y0 - y1) * (q[1] - x1)) <= n
        /\ 2 * ((y0 - y1) * (q[1] - x1) - (x0 - x1) * (q[2] - y1)) <= n
    BY DEF Straight
  <2>2. q[1] \in Int /\ q[2] \in Int
    BY <2>1
  <2>3. ASSUME NEW u \in Int, NEW v \in Int
        PROVE  /\ (x0 - x1) * (v - y1) - (y0 - y1) * (u - x1)
                    = (y1 - y0) * (u - x0) - (x1 - x0) * (v - y0)
               /\ (y0 - y1) * (u - x1) - (x0 - x1) * (v - y1)
                    = (x1 - x0) * (v - y0) - (y1 - y0) * (u - x0)
    OBVIOUS
  <2>4. /\ (x0 - x1) * (q[2] - y1) - (y0 - y1) * (q[1] - x1)
             = (y1 - y0) * (q[1] - x0) - (x1 - x0) * (q[2] - y0)
        /\ (y0 - y1) * (q[1] - x1) - (x0 - x1) * (q[2] - y1)
             = (x1 - x0) * (q[2] - y0) - (y1 - y0) * (q[1] - x0)
    BY <2>2, <2>3
  <2> QED BY <2>1, <2>4
<1>2. /\ <<x0, y0>> \in L /\ <<x1, y1>> \in L
      /\ IsFiniteSet(L) /\ Cardinality(L) = n + 1
  BY DEF Straight
<1>3. \A q \in L :
        /\ q \in Int \X Int
        /\ (x0 <= q[1] /\ q[1] <= x1) \/ (x1 <= q[1] /\ q[1] <= x0)
        /\ (y0 <= q[2] /\ q[2] <= y1) \/ (y1 <= q[2] /\ q[2] <= y0)
        /\ 2 * ((x1 - x0) * (q[2] - y0) - (y1 - y0) * (q[1] - x0)) <= n
        /\ 2 * ((y1 - y0) * (q[1] - x0) - (x1 - x0) * (q[2] - y0)) <= n
  BY <1>1
<1> QED BY <1>2, <1>3 DEF Straight

LEMMA FlippedLemma ==
    ASSUME NEW L, NEW x0 \in Int, NEW y0 \in Int, NEW x1 \in Int, NEW y1 \in Int, NEW n \in Int,
           Straight(L, y0, x0, y1, x1, n)
    PROVE  Straight(Flipped(L), x0, y0, x1, y1, n)
<1> DEFINE F == Flipped(L)
           f == [q \in L |-> <<q[2], q[1]>>]
<1>1. \A q \in L : q \in Int \X Int /\ q = <<q[1], q[2]>>
  BY DEF Straight
<1>2. F = {<<q[2], q[1]>> : q \in L}
  BY DEF Flipped
<1> HIDE DEF F
<1>3. IsFiniteSet(F) /\ Cardinality(F) = n + 1
  <2>1. f \in [L -> F] /\ \A r \in F : \E q \in L : f[q] = r
    BY <1>2
  <2>2. \A p \in L, q \in L : f[p] = f[q] => p = q
    <3> SUFFICES ASSUME NEW p \in L, NEW q \in L, <<p[2], p[1]>> = <<q[2], q[1]>> PROVE p = q
      OBVIOUS
    <3>1. p[1] = q[1] /\ p[2] = q[2]
      OBVIOUS
    <3> QED BY <1>1, <3>1
  <2> HIDE DEF f
  <2>3. f \in Injection(L, F)
    BY <2>1, <2>2 DEF Injection, IsInjective
  <2>4. f \in Surjection(L, F)
    BY <2>1 DEF Surjection
  <2>5. ExistsBijection(L, F)
    BY <2>3, <2>4 DEF ExistsBijection, Bijection
  <2> QED BY <2>5, FS_Bijection DEF Straight
<1>4. <<x0, y0>> \in F /\ <<x1, y1>> \in F
  <2>1. <<y0, x0>> \in L /\ <<y1, x1>> \in L
    BY DEF Straight
  <2> QED BY <1>2, <2>1
<1>5. ASSUME NEW r \in F
      PROVE  /\ r \in Int \X Int
             /\ (x0 <= r[1] /\ r[1] <= x1) \/ (x1 <= r[1] /\ r[1] <= x0)
             /\ (y0 <= r[2] /\ r[2] <= y1) \/ (y1 <= r[2] /\ r[2] <= y0)
             /\ 2 * ((x1 - x0) * (r[2] - y0) - (y1 - y0) * (r[1] - x0)) <= n
             /\ 2 * ((y1 - y0) * (r[1] - x0) - (x1 - x0) * (r[2] - y0)) <= n
  <2>1. PICK q \in L : r = <<q[2], q[1]>>
    BY <1>2
  <2>2. /\ q \in Int \X Int
        /\ (y0 <= q[1] /\ q[1] <= y1) \/ (y1 <= q[1] /\ q[1] <= y0)
        /\ (x0 <= q[2] /\ q[2] <= x1) \/ (x1 <= q[2] /\ q[2] <= x0)
        /\ 2 * ((y1 - y0) * (q[2] - x0) - (x1 - x0) * (q[1] - y0)) <= n
        /\ 2 * ((x1 - x0) * (q[1] - y0) - (y1 - y0) * (q[2] - x0)) <= n
    BY DEF Straight
  <2>3. r[1] = q[2] /\ r[2] = q[1] /\ r \in Int \X Int
    BY <2>1, <2>2
  <2> QED BY <2>2, <2>3
<1>6. Straight(F, x0, y0, x1, y1, n)
  <2>1. \A r \in F :
          /\ r \in Int \X Int
          /\ (x0 <= r[1] /\ r[1] <= x1) \/ (x1 <= r[1] /\ r[1] <= x0)
          /\ (y0 <= r[2] /\ r[2] <= y1) \/ (y1 <= r[2] /\ r[2] <= y0)
          /\ 2 * ((x1 - x0) * (r[2] - y0) - (y1 - y0) * (r[1] - x0)) <= n
          /\ 2 * ((y1 - y0) * (r[1] - x0) - (x1 - x0) * (r[2] - y0)) <= n
    BY <1>5
  <2> QED BY <1>3, <1>4, <2>1 DEF Straight
<1> QED BY <1>6 DEF F

\* drawLine between any two points.
LEMMA LineLemma ==
    ASSUME NEW x0 \in Int, NEW y0 \in Int, NEW x1 \in Int, NEW y1 \in Int
    PROVE  Straight(drawLine(x0, y0, x1, y1), x0, y0, x1, y1, Max({Abs(x1 - x0), Abs(y1 - y0)}))
<1> DEFINE n == Max({Abs(x1 - x0), Abs(y1 - y0)})
           L == drawLine(x0, y0, x1, y1)
<1>1. /\ Abs(x1 - x0) \in Nat /\ Abs(y1 - y0) \in Nat
      /\ Abs(x0 - x1) = Abs(x1 - x0) /\ Abs(y0 - y1) = Abs(y1 - y0)
      /\ x0 <= x1 => Abs(x1 - x0) = x1 - x0
      /\ x0 > x1 => Abs(x1 - x0) = x0 - x1 /\ x1 <= x0
      /\ y0 <= y1 => Abs(y1 - y0) = y1 - y0
      /\ y0 > y1 => Abs(y1 - y0) = y0 - y1 /\ y1 <= y0
  BY DEF Abs
<1>2. n = IF Abs(y1 - y0) > Abs(x1 - x0) THEN Abs(y1 - y0) ELSE Abs(x1 - x0)
  <2> DEFINE a == Abs(x1 - x0)
             b == Abs(y1 - y0)
             m == IF b > a THEN b ELSE a
  <2>1. a \in Nat /\ b \in Nat
    BY <1>1
  <2> HIDE DEF a, b
  <2>2. m \in {a, b} /\ \A e \in {a, b} : m >= e
    BY <2>1
  <2>3. \A e \in {a, b} : (\A o \in {a, b} : e >= o) => e = m
    BY <2>1
  <2>4. Max({a, b}) = m
    BY <2>2, <2>3 DEF Max
  <2> QED BY <2>4 DEF a, b
<1> HIDE DEF n
<1>3. CASE Abs(y1 - y0) > Abs(x1 - x0)
  <2>1. CASE y0 > y1
    <3>1. L = Flipped(Along(y1, x1, y0, x0))
      BY <1>3, <2>1 DEF drawLine
    <3>2. y1 <= y0 /\ Abs(x0 - x1) <= y0 - y1 /\ n = y0 - y1
      BY <1>1, <1>2, <1>3, <2>1
    <3>3. Straight(Along(y1, x1, y0, x0), y1, x1, y0, x0, n)
      BY <3>2, AlongLemma
    <3>4. Straight(Along(y1, x1, y0, x0), y0, x0, y1, x1, n)
      BY <3>2, <3>3, BackLemma
    <3> QED BY <3>1, <3>2, <3>4, FlippedLemma DEF n
  <2>2. CASE ~(y0 > y1)
    <3>1. L = Flipped(Along(y0, x0, y1, x1))
      BY <1>3, <2>2 DEF drawLine
    <3>2. y0 <= y1 /\ Abs(x1 - x0) <= y1 - y0 /\ n = y1 - y0
      BY <1>1, <1>2, <1>3, <2>2
    <3>3. Straight(Along(y0, x0, y1, x1), y0, x0, y1, x1, n)
      BY <3>2, AlongLemma
    <3> QED BY <3>1, <3>2, <3>3, FlippedLemma DEF n
  <2> QED BY <2>1, <2>2
<1>4. CASE ~(Abs(y1 - y0) > Abs(x1 - x0))
  <2>1. CASE x0 > x1
    <3>1. L = Along(x1, y1, x0, y0)
      BY <1>4, <2>1 DEF drawLine
    <3>2. x1 <= x0 /\ Abs(y0 - y1) <= x0 - x1 /\ n = x0 - x1
      BY <1>1, <1>2, <1>4, <2>1
    <3>3. Straight(Along(x1, y1, x0, y0), x1, y1, x0, y0, n)
      BY <3>2, AlongLemma
    <3> QED BY <3>1, <3>2, <3>3, BackLemma DEF n
  <2>2. CASE ~(x0 > x1)
    <3>1. L = Along(x0, y0, x1, y1)
      BY <1>4, <2>2 DEF drawLine
    <3>2. x0 <= x1 /\ Abs(y1 - y0) <= x1 - x0 /\ n = x1 - x0
      BY <1>1, <1>2, <1>4, <2>2
    <3>3. Straight(Along(x0, y0, x1, y1), x0, y0, x1, y1, n)
      BY <3>2, AlongLemma
    <3> QED BY <3>1, <3>3 DEF n
  <2> QED BY <2>1, <2>2
<1> QED BY <1>3, <1>4

LEMMA LineIsStraightLemma == DrawnInv => LineIsStraight
<1> SUFFICES ASSUME DrawnInv, drawn.kind = "line"
             PROVE  LET dx == drawn.x1 - drawn.x
                        dy == drawn.y1 - drawn.y
                        longer == Max({Abs(dx), Abs(dy)})
                    IN  /\ {<<drawn.x, drawn.y>>, <<drawn.x1, drawn.y1>>} \subseteq Inked
                        /\ Cardinality(Inked) = longer + 1
                        /\ \A q \in Inked :
                             2 * Abs(dx * (q[2] - drawn.y) - dy * (q[1] - drawn.x)) <= longer
  BY DEF LineIsStraight
<1> DEFINE x == drawn.x
           y == drawn.y
           x1 == drawn.x1
           y1 == drawn.y1
           c == drawn.c
           L == drawLine(x, y, x1, y1)
           n == Max({Abs(x1 - x), Abs(y1 - y)})
<1>1. drawn \in Menu /\ vga = Paint(Blank, Pixels(drawn), c)
  BY DEF DrawnInv, Nothing, Texts
<1>2. /\ x \in Columns /\ x1 \in Columns /\ y \in Rows /\ y1 \in Rows
      /\ c \in Colours /\ c # Ground
  BY <1>1, MenuLemma
<1>3. x \in Int /\ x1 \in Int /\ y \in Int /\ y1 \in Int
  BY <1>2, OnScreenLemma
<1>4. Pixels(drawn) = L
  BY DEF Pixels
<1>5. Straight(L, x, y, x1, y1, n)
  BY <1>3, LineLemma
<1> HIDE DEF L, n, x, y, x1, y1, c
<1>6. L \subseteq Screen
  <2> SUFFICES ASSUME NEW q \in L PROVE q \in Screen
    OBVIOUS
  <2>1. /\ q \in Int \X Int
        /\ (x <= q[1] /\ q[1] <= x1) \/ (x1 <= q[1] /\ q[1] <= x)
        /\ (y <= q[2] /\ q[2] <= y1) \/ (y1 <= q[2] /\ q[2] <= y)
    BY <1>5 DEF Straight
  <2>2. q[1] \in Columns /\ q[2] \in Rows
    BY <1>2, <2>1, ScreenAssumption DEF Columns, Rows
  <2> QED BY <2>1, <2>2 DEF Screen
<1>7. IsFiniteSet(L) /\ <<x, y>> \in L /\ <<x1, y1>> \in L /\ Cardinality(L) = n + 1
  BY <1>5 DEF Straight
<1>8. Inked = L
  <2>1. \A u \in Columns, v \in Rows :
           Shown(vga, u, v) = IF <<u, v>> \in L THEN c ELSE Shown(Blank, u, v)
    <3>1. Blank \in Buffers /\ L \in SUBSET Screen /\ IsFiniteSet(L) /\ c \in Colours
      BY <1>2, <1>6, <1>7, BlankLemma
    <3>2. vga = Paint(Blank, L, c)
      BY <1>1, <1>4
    <3>3. Painted(Paint(Blank, L, c), Blank, L, c)
      BY <3>1, PaintLemma
    <3> QED BY <3>2, <3>3 DEF Painted
  <2>2. ASSUME NEW q \in Screen PROVE Shown(vga, q[1], q[2]) # Ground <=> q \in L
    <3>1. q[1] \in Columns /\ q[2] \in Rows /\ q = <<q[1], q[2]>>
      BY DEF Screen
    <3>2. Shown(Blank, q[1], q[2]) = Ground
      BY <3>1, BlankLemma
    <3> QED BY <1>2, <2>1, <3>1, <3>2
  <2> QED BY <1>6, <2>2 DEF Inked
<1>9. ASSUME NEW q \in L
      PROVE  2 * Abs((x1 - x) * (q[2] - y) - (y1 - y) * (q[1] - x)) <= n
  <2> DEFINE e == (x1 - x) * (q[2] - y) - (y1 - y) * (q[1] - x)
  <2>1. /\ q \in Int \X Int
        /\ 2 * e <= n
        /\ 2 * ((y1 - y) * (q[1] - x) - (x1 - x) * (q[2] - y)) <= n
    BY <1>5 DEF Straight
  <2>2. /\ (x1 - x) * (q[2] - y) \in Int /\ (y1 - y) * (q[1] - x) \in Int
    BY <1>3, <2>1
  <2>3. e \in Int /\ (y1 - y) * (q[1] - x) - (x1 - x) * (q[2] - y) = -e
    BY <2>2
  <2>4. 2 * (-e) <= n
    BY <2>1, <2>3
  <2> HIDE DEF e
  <2>5. 2 * Abs(e) <= n
    BY <2>1, <2>3, <2>4 DEF Abs
  <2> QED BY <2>5 DEF e
<1>10. /\ {<<x, y>>, <<x1, y1>>} \subseteq Inked
       /\ Cardinality(Inked) = n + 1
       /\ \A q \in Inked : 2 * Abs((x1 - x) * (q[2] - y) - (y1 - y) * (q[1] - x)) <= n
  BY <1>7, <1>8, <1>9
<1> QED BY <1>10 DEF x, y, x1, y1, n

\* Every line between two points of a screen of any size, in any direction and
\* any colour but the ground's, is straight: the running error of drawLine never
\* takes it more than half a pixel off, and it ends where it should.
THEOREM LineTheorem == TextSpec => []LineIsStraight
BY LineIsStraightLemma, DrawnLemma, PTL

-----------------------------------------------------------------------------
(* Circles.                                                                  *)

\* One turn of the loop of the circle functions.
ArcTurned(s) ==
    LET y == IF s.f >= 0 THEN s.y - 1 ELSE s.y
    IN  IF s.x >= s.y THEN s
        ELSE [x |-> s.x + 1, y |-> y,
              f |-> s.f + (IF s.f >= 0 THEN -2 * y ELSE 0) + 1 + 2 * (s.x + 1)]

\* g is the running state of the loop.
ArcWalk(g, r) ==
    /\ Arc(r) = {<<g[i].x, g[i].y>> : i \in 1..r}
    /\ g[0] = [x |-> 0, y |-> r, f |-> 1 - r]
    /\ \A i \in 1..r : g[i] = ArcTurned(g[i - 1])

LEMMA ArcWalkedLemma ==
    ASSUME NEW r \in Nat
    PROVE  \E g : ArcWalk(g, r)
<1> DEFINE V == [x : Int, y : Int, f : Int]
           base == [x |-> 0, y |-> r, f |-> 1 - r]
           step == [s \in V |-> ArcTurned(s)]
           Body(g) == [i \in 0..r |-> IF i = 0 THEN base ELSE ArcTurned(g[i - 1])]
           walk[i \in 0..r] ==
               IF i = 0 THEN [x |-> 0, y |-> r, f |-> 1 - r]
               ELSE LET s == walk[i - 1]
                        y == IF s.f >= 0 THEN s.y - 1 ELSE s.y
                    IN  IF s.x >= s.y THEN s
                        ELSE [x |-> s.x + 1, y |-> y,
                              f |-> s.f + (IF s.f >= 0 THEN -2 * y ELSE 0) + 1 + 2 * (s.x + 1)]
<1>1. base \in V
  OBVIOUS
<1>2. Arc(r) = {<<walk[i].x, walk[i].y>> : i \in 1..r}
  BY DEF Arc
<1>3. walk = CHOOSE g : g = Body(g)
  BY DEF ArcTurned
<1> HIDE DEF walk
<1>4. step \in [V -> V]
  <2>1. ASSUME NEW s \in V PROVE ArcTurned(s) \in V
    BY DEF ArcTurned
  <2> QED BY <2>1
<1>5. PICK h : Walks(h, r, V, base, step)
  <2> HIDE DEF step, V, base
  <2> QED BY <1>1, <1>4, WalkLemma
<1>6. h = Body(h)
  <2>1. h \in [0..r -> V] /\ h[0] = base /\ \A i \in 0..(r - 1) : h[i + 1] = step[h[i]]
    BY <1>5 DEF Walks
  <2>2. ASSUME NEW i \in 0..r, i # 0 PROVE h[i] = ArcTurned(h[i - 1])
    <3>1. i - 1 \in 0..(r - 1) /\ i - 1 \in 0..r /\ (i - 1) + 1 = i
      BY <2>2
    <3>2. h[i] = step[h[i - 1]] /\ h[i - 1] \in V
      <4> HIDE DEF step, V
      <4> QED BY <2>1, <3>1
    <3> QED BY <3>2
  <2> HIDE DEF V, base, step
  <2> QED BY <2>1, <2>2
<1>7. walk = Body(walk)
  <2> HIDE DEF Body
  <2> QED BY <1>3, <1>6
<1>8. walk[0] = base /\ \A i \in 1..r : walk[i] = ArcTurned(walk[i - 1])
  <2> HIDE DEF base
  <2>1. 0 \in 0..r /\ \A i \in 1..r : i \in 0..r /\ i # 0
    OBVIOUS
  <2> QED BY <1>7, <2>1
<1>9. ArcWalk(walk, r)
  BY <1>2, <1>8 DEF ArcWalk
<1> QED BY <1>9

\* How far a point is off the circle, in squares.
Off(x, y, r) == x * x + y * y - r * r

\* The state after i turns: f decides between the next pixel and the one below it,
\* and the last pixel is hardly off the circle. Above the diagonal every turn is
\* a column.
ArcState(s, i, r) ==
    /\ s \in [x : 0..i, y : 0..r, f : Int]
    /\ s.x < s.y => s.x = i
    /\ s.f = Off(s.x, s.y, r) + 2 * s.x + 1 - s.y
    /\ -s.y <= Off(s.x, s.y, r) /\ Off(s.x, s.y, r) <= s.y
    /\ s.x < s.y => Off(s.x, s.y, r) < s.y

LEMMA ArcTurnLemma ==
    ASSUME NEW r \in Nat, NEW i \in Nat, NEW s, ArcState(s, i, r)
    PROVE  /\ ArcState(ArcTurned(s), i + 1, r)
           /\ ArcTurned(s).x \in {s.x, s.x + 1} /\ ArcTurned(s).y \in {s.y, s.y - 1}
<1>1. CASE s.x >= s.y
  <2>1. ArcTurned(s) = s
    BY <1>1 DEF ArcTurned
  <2>2. s \in [x : 0..(i + 1), y : 0..r, f : Int]
    <3>1. 0..i \subseteq 0..(i + 1)
      OBVIOUS
    <3> QED BY <3>1 DEF ArcState
  <2>3. ~(s.x < s.y)
    BY <1>1, <2>2
  <2> QED BY <2>1, <2>2, <2>3 DEF ArcState
<1>2. CASE ~(s.x >= s.y)
  <2> DEFINE x == s.x
             y == s.y
             e == Off(x, y, r)
  <2>1. /\ s \in [x : 0..i, y : 0..r, f : Int] /\ s.f = e + 2 * x + 1 - y
        /\ x \in Nat /\ y \in 0..r /\ x < y /\ x = i
        /\ -y <= e /\ e < y /\ e \in Int
    BY <1>2 DEF ArcState, Off
  <2>2. CASE s.f >= 0
    <3>1. Off(x + 1, y - 1, r) = e + 2 * x + 2 - 2 * y
      <4>1. (x + 1) * (x + 1) = x * x + 2 * x + 1 /\ (y - 1) * (y - 1) = y * y - 2 * y + 1
        BY <2>1
      <4>2. x * x \in Int /\ y * y \in Int /\ r * r \in Int
        BY <2>1
      <4> QED BY <2>1, <4>1, <4>2 DEF Off
    <3>2. ArcTurned(s) = [x |-> x + 1, y |-> y - 1, f |-> s.f - 2 * (y - 1) + 1 + 2 * (x + 1)]
      BY <1>2, <2>1, <2>2 DEF ArcTurned
    <3> DEFINE t == ArcTurned(s)
               e1 == Off(x + 1, y - 1, r)
    <3>3. t.x = x + 1 /\ t.y = y - 1 /\ t.f = s.f - 2 * (y - 1) + 1 + 2 * (x + 1)
      BY <3>2
    <3>4. t \in [x : 0..(i + 1), y : 0..r, f : Int]
      BY <2>1, <3>2
    <3> HIDE DEF t, e1, e, x, y
    <3>5. e1 = e + 2 * x + 2 - 2 * y /\ e + 2 * x + 1 - y >= 0
      BY <2>1, <2>2, <3>1 DEF e1
    <3>6. t.f = e1 + 2 * t.x + 1 - t.y /\ -t.y <= e1 /\ e1 <= t.y /\ (t.x < t.y => e1 < t.y)
      BY <2>1, <3>3, <3>5
    <3>7. e1 = Off(t.x, t.y, r)
      BY <3>3 DEF e1
    <3>8. t.x \in {x, x + 1} /\ t.y \in {y, y - 1} /\ t.x = i + 1
      BY <2>1, <3>3
    <3> QED BY <3>4, <3>6, <3>7, <3>8 DEF ArcState, t, x, y
  <2>3. CASE ~(s.f >= 0)
    <3>1. Off(x + 1, y, r) = e + 2 * x + 1
      <4>1. (x + 1) * (x + 1) = x * x + 2 * x + 1
        BY <2>1
      <4>2. x * x \in Int /\ y * y \in Int /\ r * r \in Int
        BY <2>1
      <4> QED BY <2>1, <4>1, <4>2 DEF Off
    <3>2. ArcTurned(s) = [x |-> x + 1, y |-> y, f |-> s.f + 0 + 1 + 2 * (x + 1)]
      BY <1>2, <2>1, <2>3 DEF ArcTurned
    <3> DEFINE t == ArcTurned(s)
               e1 == Off(x + 1, y, r)
    <3>3. t.x = x + 1 /\ t.y = y /\ t.f = s.f + 1 + 2 * (x + 1)
      BY <2>1, <3>2
    <3>4. t \in [x : 0..(i + 1), y : 0..r, f : Int]
      BY <2>1, <3>2
    <3> HIDE DEF t, e1, e, x, y
    <3>5. e1 = e + 2 * x + 1 /\ e + 2 * x + 1 - y < 0
      BY <2>1, <2>3, <3>1 DEF e1
    <3>6. t.f = e1 + 2 * t.x + 1 - t.y /\ -t.y <= e1 /\ e1 <= t.y /\ (t.x < t.y => e1 < t.y)
      BY <2>1, <3>3, <3>5
    <3>7. e1 = Off(t.x, t.y, r)
      BY <3>3 DEF e1
    <3>8. t.x \in {x, x + 1} /\ t.y \in {y, y - 1} /\ t.x = i + 1
      BY <2>1, <3>3
    <3> QED BY <3>4, <3>6, <3>7, <3>8 DEF ArcState, t, x, y
  <2> QED BY <2>2, <2>3
<1> QED BY <1>1, <1>2

\* The columns and rows that the first i turns have drawn.
Drawn(g, i, r) ==
    /\ \A v \in 1..g[i].x : \E j \in 1..i : g[j].x = v
    /\ \A v \in g[i].y..(r - 1) : \E j \in 1..i : g[j].y = v

LEMMA ArcStateLemma ==
    ASSUME NEW r \in Nat, NEW g, ArcWalk(g, r)
    PROVE  \A i \in 0..r : ArcState(g[i], i, r) /\ Drawn(g, i, r)
<1> DEFINE Q == {i \in Nat : i <= r => ArcState(g[i], i, r) /\ Drawn(g, i, r)}
<1>1. 0 \in Q
  <2>1. g[0] = [x |-> 0, y |-> r, f |-> 1 - r]
    BY DEF ArcWalk
  <2>2. Off(0, r, r) = 0
    <3>1. r * r \in Int /\ 0 * 0 = 0
      OBVIOUS
    <3> QED BY <3>1 DEF Off
  <2>3. g[0] \in [x : 0..0, y : 0..r, f : Int] /\ g[0].x = 0 /\ g[0].y = r /\ g[0].f = 1 - r
    BY <2>1
  <2>4. ArcState(g[0], 0, r)
    BY <2>2, <2>3 DEF ArcState
  <2>5. Drawn(g, 0, r)
    BY <2>3 DEF Drawn
  <2> QED BY <2>4, <2>5
<1>2. ASSUME NEW i \in Nat, i \in Q PROVE i + 1 \in Q
  <2> SUFFICES ASSUME i + 1 <= r PROVE ArcState(g[i + 1], i + 1, r) /\ Drawn(g, i + 1, r)
    OBVIOUS
  <2>1. ArcState(g[i], i, r) /\ Drawn(g, i, r)
    BY <1>2
  <2>2. g[i + 1] = ArcTurned(g[i])
    <3>1. i + 1 \in 1..r /\ (i + 1) - 1 = i
      OBVIOUS
    <3> QED BY <3>1 DEF ArcWalk
  <2>3. /\ ArcState(g[i + 1], i + 1, r)
        /\ g[i + 1].x \in {g[i].x, g[i].x + 1} /\ g[i + 1].y \in {g[i].y, g[i].y - 1}
    BY <2>1, <2>2, ArcTurnLemma
  <2>4. i + 1 \in 1..(i + 1) /\ 1..i \subseteq 1..(i + 1)
    OBVIOUS
  <2>5. /\ g[i].x \in Nat /\ g[i].y \in Nat /\ g[i + 1].x \in Nat /\ g[i + 1].y \in Nat
    BY <2>1, <2>3 DEF ArcState
  <2>6. ASSUME NEW v \in 1..g[i + 1].x PROVE \E j \in 1..(i + 1) : g[j].x = v
    <3>1. v = g[i + 1].x \/ v \in 1..g[i].x
      BY <2>3, <2>5
    <3> QED BY <2>1, <2>4, <3>1 DEF Drawn
  <2>7. ASSUME NEW v \in g[i + 1].y..(r - 1) PROVE \E j \in 1..(i + 1) : g[j].y = v
    <3>1. v = g[i + 1].y \/ v \in g[i].y..(r - 1)
      BY <2>3, <2>5
    <3> QED BY <2>1, <2>4, <3>1 DEF Drawn
  <2> QED BY <2>3, <2>6, <2>7 DEF Drawn
<1>3. Nat \subseteq Q
  <2> HIDE DEF Q
  <2> QED BY <1>1, <1>2, NatSetInduction
<1>4. ASSUME NEW i \in 0..r PROVE ArcState(g[i], i, r) /\ Drawn(g, i, r)
  <2>1. i \in Nat /\ i <= r
    OBVIOUS
  <2> QED BY <1>3, <2>1
<1> QED BY <1>4

\* An eighth of the circle: hardly off, and with the eighth across the diagonal in
\* every column up to the radius.
LEMMA ArcLemma ==
    ASSUME NEW r \in Nat
    PROVE  /\ Arc(r) \subseteq (0..r) \X (0..r)
           /\ \A q \in Arc(r) : -r <= Off(q[1], q[2], r) /\ Off(q[1], q[2], r) <= r
           /\ \A v \in 1..r : \E q \in Arc(r) : v \in {q[1], q[2]}
<1>1. PICK g : ArcWalk(g, r)
  BY ArcWalkedLemma
<1>2. Arc(r) = {<<g[i].x, g[i].y>> : i \in 1..r}
  BY <1>1 DEF ArcWalk
<1>3. \A i \in 0..r : ArcState(g[i], i, r) /\ Drawn(g, i, r)
  BY <1>1, ArcStateLemma
<1>4. ASSUME NEW q \in Arc(r)
      PROVE  /\ q \in (0..r) \X (0..r)
             /\ -r <= Off(q[1], q[2], r) /\ Off(q[1], q[2], r) <= r
  <2>1. PICK i \in 1..r : q = <<g[i].x, g[i].y>>
    BY <1>2
  <2>2. ArcState(g[i], i, r)
    BY <1>3
  <2>3. g[i].x \in 0..r /\ g[i].y \in 0..r
    BY <2>2 DEF ArcState
  <2> DEFINE e == Off(g[i].x, g[i].y, r)
  <2>4. e \in Int /\ -g[i].y <= e /\ e <= g[i].y
    BY <2>2, <2>3 DEF ArcState, Off
  <2>5. e = Off(q[1], q[2], r)
    BY <2>1
  <2> HIDE DEF e
  <2>6. -r <= e /\ e <= r
    BY <2>3, <2>4
  <2> QED BY <2>1, <2>3, <2>5, <2>6
<1>5. ASSUME NEW v \in 1..r PROVE \E q \in Arc(r) : v \in {q[1], q[2]}
  <2> SUFFICES \E j \in 1..r : v \in {g[j].x, g[j].y}
    <3>1. \A j \in 1..r : LET q == <<g[j].x, g[j].y>>
                         IN  q \in Arc(r) /\ q[1] = g[j].x /\ q[2] = g[j].y
      BY <1>2
    <3> QED BY <3>1
  <2>1. r \in 0..r /\ ArcState(g[r], r, r) /\ Drawn(g, r, r)
    BY <1>3
  <2>2. g[r].x \in Nat /\ g[r].y \in Nat /\ g[r].y <= g[r].x
    BY <2>1 DEF ArcState
  <2>3. CASE v < r
    <3>1. v \in 1..g[r].x \/ v \in g[r].y..(r - 1)
      BY <2>2, <2>3
    <3> QED BY <2>1, <3>1 DEF Drawn
  <2>4. CASE v = r
    <3>1. g[0] = [x |-> 0, y |-> r, f |-> 1 - r] /\ 1 \in 1..r
      BY <1>1, <2>4 DEF ArcWalk
    <3>2. g[1] = ArcTurned(g[0])
      <4>1. 1 - 1 = 0
        OBVIOUS
      <4> QED BY <1>1, <3>1, <4>1 DEF ArcWalk
    <3>3. g[0].x = 0 /\ g[0].y = r /\ g[0].f = 1 - r
      BY <3>1
    <3>4. g[1].x = 1 /\ (r > 1 => g[1].y = r)
      BY <2>4, <3>2, <3>3 DEF ArcTurned
    <3>5. r \in {g[1].x, g[1].y}
      BY <2>4, <3>4
    <3> QED BY <2>4, <3>1, <3>5
  <2> QED BY <2>3, <2>4
<1> QED BY <1>4, <1>5

\* A quarter of the circle.
LEMMA QuarterLemma ==
    ASSUME NEW r \in Nat
    PROVE  /\ BothWays(Arc(r)) \subseteq (0..r) \X (0..r)
           /\ \A q \in BothWays(Arc(r)) : -r <= Off(q[1], q[2], r) /\ Off(q[1], q[2], r) <= r
           /\ \A v \in 1..r : \E q \in BothWays(Arc(r)) : q[1] = v
           /\ \A v \in 1..r : \E q \in BothWays(Arc(r)) : q[2] = v
<1>1. ASSUME NEW q \in BothWays(Arc(r))
      PROVE  \E p \in Arc(r) : q = p \/ q = <<p[2], p[1]>>
  BY DEF BothWays, Flipped
<1>2. \A p \in Arc(r) : p \in BothWays(Arc(r)) /\ <<p[2], p[1]>> \in BothWays(Arc(r))
  BY DEF BothWays, Flipped
<1>3. ASSUME NEW q \in BothWays(Arc(r))
      PROVE  /\ q \in (0..r) \X (0..r)
             /\ -r <= Off(q[1], q[2], r) /\ Off(q[1], q[2], r) <= r
  <2>1. PICK p \in Arc(r) : q = p \/ q = <<p[2], p[1]>>
    BY <1>1
  <2>2. p \in (0..r) \X (0..r) /\ -r <= Off(p[1], p[2], r) /\ Off(p[1], p[2], r) <= r
    BY ArcLemma
  <2>3. Off(p[2], p[1], r) = Off(p[1], p[2], r)
    <3>1. p[1] * p[1] \in Int /\ p[2] * p[2] \in Int /\ r * r \in Int
      BY <2>2
    <3> QED BY <3>1 DEF Off
  <2>4. CASE q = p
    BY <2>2, <2>4
  <2>5. CASE q = <<p[2], p[1]>>
    <3>1. q[1] = p[2] /\ q[2] = p[1]
      BY <1>1, <2>1, <2>2, <2>5
    <3>2. q \in (0..r) \X (0..r)
      BY <2>2, <2>5
    <3>3. Off(q[1], q[2], r) = Off(p[1], p[2], r)
      BY <2>3, <3>1
    <3> QED BY <2>2, <3>2, <3>3
  <2> QED BY <2>1, <2>4, <2>5
<1>4. ASSUME NEW v \in 1..r
      PROVE  /\ \E q \in BothWays(Arc(r)) : q[1] = v
             /\ \E q \in BothWays(Arc(r)) : q[2] = v
  <2>1. PICK p \in Arc(r) : v \in {p[1], p[2]}
    BY ArcLemma
  <2> DEFINE q == <<p[2], p[1]>>
  <2>2. p \in BothWays(Arc(r)) /\ q \in BothWays(Arc(r)) /\ q[1] = p[2] /\ q[2] = p[1]
    BY <1>2
  <2> HIDE DEF q
  <2> QED BY <2>1, <2>2
<1> QED BY <1>3, <1>4

\* q is a point of the axes or of the quarter, p the same in one of the quadrants.
QuarterPoints(r) == {<<0, r>>, <<r, 0>>} \union BothWays(Arc(r))
Mirrored(p, q, x0, y0) == p[1] \in {x0 + q[1], x0 - q[1]} /\ p[2] \in {y0 + q[2], y0 - q[2]}

LEMMA QuarterPointsLemma ==
    ASSUME NEW r \in Nat
    PROVE  /\ QuarterPoints(r) \subseteq (0..r) \X (0..r)
           /\ \A q \in QuarterPoints(r) : -r <= Off(q[1], q[2], r) /\ Off(q[1], q[2], r) <= r
           /\ \A v \in 0..r : \E q \in QuarterPoints(r) : q[1] = v
           /\ \A v \in 0..r : \E q \in QuarterPoints(r) : q[2] = v
<1>1. Off(0, r, r) = 0 /\ Off(r, 0, r) = 0
  <2>1. r * r \in Int /\ 0 * 0 = 0
    OBVIOUS
  <2> QED BY <2>1 DEF Off
<1> DEFINE a == <<0, r>>
           b == <<r, 0>>
<1>2. a \in (0..r) \X (0..r) /\ b \in (0..r) \X (0..r) /\ a[1] = 0 /\ a[2] = r /\ b[1] = r /\ b[2] = 0
  OBVIOUS
<1>3. QuarterPoints(r) = {a, b} \union BothWays(Arc(r))
  BY DEF QuarterPoints
<1> HIDE DEF a, b
<1>4. /\ -r <= Off(a[1], a[2], r) /\ Off(a[1], a[2], r) <= r
      /\ -r <= Off(b[1], b[2], r) /\ Off(b[1], b[2], r) <= r
  BY <1>1, <1>2
<1>5. \A v \in 0..r : v = 0 \/ v \in 1..r
  OBVIOUS
<1> QED BY <1>2, <1>3, <1>4, <1>5, QuarterLemma

\* The circle is the quarter in the four quadrants.
LEMMA CirclePointsLemma ==
    ASSUME NEW r \in Nat, NEW x0 \in Int, NEW y0 \in Int
    PROVE  /\ \A p \in drawCircle(x0, y0, r) :
                 p \in Int \X Int /\ \E q \in QuarterPoints(r) : Mirrored(p, q, x0, y0)
           /\ \A q \in QuarterPoints(r) :
                 {<<x0 + q[1], y0 + q[2]>>, <<x0 + q[1], y0 - q[2]>>,
                  <<x0 - q[1], y0 + q[2]>>, <<x0 - q[1], y0 - q[2]>>} \subseteq drawCircle(x0, y0, r)
<1> DEFINE D == drawCircle(x0, y0, r)
           B == BothWays(Arc(r))
           Axes == {<<x0, y0 + r>>, <<x0, y0 - r>>, <<x0 + r, y0>>, <<x0 - r, y0>>}
<1>1. \A q \in B : q[1] \in Int /\ q[2] \in Int
  BY QuarterLemma
<1>2. \A n \in Int : -1 * n = -n /\ 1 * n = n
  OBVIOUS
<1>3. D = Axes \union UNION {drawCircleHelper(x0, y0, r, sx, sy) : sx, sy \in {-1, 1}}
  BY DEF drawCircle
<1>4. ASSUME NEW p, p \in UNION {drawCircleHelper(x0, y0, r, sx, sy) : sx, sy \in {-1, 1}}
      PROVE  p \in Int \X Int /\ \E q \in B : Mirrored(p, q, x0, y0)
  <2>1. PICK sx \in {-1, 1}, sy \in {-1, 1} : p \in drawCircleHelper(x0, y0, r, sx, sy)
    BY <1>4
  <2>2. PICK q \in B : p = <<x0 + sx * q[1], y0 + sy * q[2]>>
    BY <2>1 DEF drawCircleHelper
  <2>3. q[1] \in Int /\ q[2] \in Int
    BY <1>1
  <2>4. x0 + sx * q[1] \in {x0 + q[1], x0 - q[1]} /\ y0 + sy * q[2] \in {y0 + q[2], y0 - q[2]}
    BY <2>3
  <2>5. p[1] = x0 + sx * q[1] /\ p[2] = y0 + sy * q[2] /\ p \in Int \X Int
    BY <2>2, <2>3
  <2>6. Mirrored(p, q, x0, y0)
    BY <2>4, <2>5 DEF Mirrored
  <2> QED BY <2>5, <2>6
<1>5. ASSUME NEW q \in B
      PROVE  {<<x0 + q[1], y0 + q[2]>>, <<x0 + q[1], y0 - q[2]>>,
              <<x0 - q[1], y0 + q[2]>>, <<x0 - q[1], y0 - q[2]>>} \subseteq D
  <2>1. ASSUME NEW sx \in {-1, 1}, NEW sy \in {-1, 1}
        PROVE  <<x0 + sx * q[1], y0 + sy * q[2]>> \in D
    <3>1. <<x0 + sx * q[1], y0 + sy * q[2]>> \in drawCircleHelper(x0, y0, r, sx, sy)
      BY DEF drawCircleHelper
    <3> HIDE DEF D
    <3> QED BY <1>3, <3>1
  <2>2. /\ <<x0 + 1 * q[1], y0 + 1 * q[2]>> \in D /\ <<x0 + 1 * q[1], y0 + (-1) * q[2]>> \in D
        /\ <<x0 + (-1) * q[1], y0 + 1 * q[2]>> \in D /\ <<x0 + (-1) * q[1], y0 + (-1) * q[2]>> \in D
    <3>1. -1 \in {-1, 1} /\ 1 \in {-1, 1}
      OBVIOUS
    <3> HIDE DEF D, B
    <3> QED BY <2>1, <3>1
  <2>3. /\ x0 + 1 * q[1] = x0 + q[1] /\ x0 + (-1) * q[1] = x0 - q[1]
        /\ y0 + 1 * q[2] = y0 + q[2] /\ y0 + (-1) * q[2] = y0 - q[2]
    BY <1>1
  <2> HIDE DEF D, B
  <2> QED BY <2>2, <2>3
<1> DEFINE a == <<0, r>>
           b == <<r, 0>>
<1>6. a[1] = 0 /\ a[2] = r /\ b[1] = r /\ b[2] = 0
  OBVIOUS
<1>7. QuarterPoints(r) = {a, b} \union B
  BY DEF QuarterPoints
<1>8. x0 + 0 = x0 /\ x0 - 0 = x0 /\ y0 + 0 = y0 /\ y0 - 0 = y0
  OBVIOUS
<1> HIDE DEF a, b, B, D
<1>9. ASSUME NEW p \in Axes
      PROVE  p \in Int \X Int /\ \E q \in {a, b} : Mirrored(p, q, x0, y0)
  <2>1. p \in Int \X Int
    OBVIOUS
  <2>2. CASE p = <<x0, y0 + r>> \/ p = <<x0, y0 - r>>
    <3>1. Mirrored(p, a, x0, y0)
      BY <1>6, <1>8, <2>2 DEF Mirrored
    <3> QED BY <2>1, <3>1
  <2>3. CASE p = <<x0 + r, y0>> \/ p = <<x0 - r, y0>>
    <3>1. Mirrored(p, b, x0, y0)
      BY <1>6, <1>8, <2>3 DEF Mirrored
    <3> QED BY <2>1, <3>1
  <2> QED BY <2>2, <2>3
<1>10. \A q \in {a, b} : {<<x0 + q[1], y0 + q[2]>>, <<x0 + q[1], y0 - q[2]>>,
                          <<x0 - q[1], y0 + q[2]>>, <<x0 - q[1], y0 - q[2]>>} \subseteq Axes
  BY <1>6, <1>8
<1>11. ASSUME NEW p \in D PROVE p \in Int \X Int /\ \E q \in QuarterPoints(r) : Mirrored(p, q, x0, y0)
  <2> HIDE DEF Axes
  <2> QED BY <1>3, <1>4, <1>7, <1>9
<1>12. ASSUME NEW q \in QuarterPoints(r)
       PROVE  {<<x0 + q[1], y0 + q[2]>>, <<x0 + q[1], y0 - q[2]>>,
               <<x0 - q[1], y0 + q[2]>>, <<x0 - q[1], y0 - q[2]>>} \subseteq D
  <2>1. Axes \subseteq D
    BY <1>3
  <2>2. q \in {a, b} \/ q \in B
    BY <1>7
  <2> HIDE DEF Axes
  <2> QED BY <1>5, <1>10, <2>1, <2>2
<1> QED BY <1>11, <1>12 DEF D

\* A shape within the screen, in another colour than the ground's, is what has ink.
LEMMA InkedLemma ==
    ASSUME NEW S, S \subseteq Screen, IsFiniteSet(S),
           drawn \in Menu, drawn.kind # "pixel", Pixels(drawn) = S, vga = Paint(Blank, S, drawn.c)
    PROVE  Inked = S
<1> DEFINE c == drawn.c
<1>1. c \in Colours /\ c # Ground
  BY MenuLemma
<1> HIDE DEF c
<1>2. \A u \in Columns, v \in Rows :
         Shown(vga, u, v) = IF <<u, v>> \in S THEN c ELSE Shown(Blank, u, v)
  <2>1. Painted(Paint(Blank, S, c), Blank, S, c)
    BY <1>1, BlankLemma, PaintLemma
  <2> QED BY <2>1 DEF Painted, c
<1>3. ASSUME NEW q \in Screen PROVE Shown(vga, q[1], q[2]) # Ground <=> q \in S
  <2>1. q[1] \in Columns /\ q[2] \in Rows /\ q = <<q[1], q[2]>>
    BY DEF Screen
  <2>2. Shown(Blank, q[1], q[2]) = Ground
    BY <2>1, BlankLemma
  <2> QED BY <1>1, <1>2, <2>1, <2>2
<1> QED BY <1>3 DEF Inked

LEMMA ScreenIsFinite == IsFiniteSet(Screen)
<1>1. IsFiniteSet(Columns) /\ IsFiniteSet(Rows)
  BY FS_Interval, ScreenAssumption DEF Columns, Rows
<1> QED BY <1>1, FS_Product DEF Screen

\* What is within a square on the screen is on the screen.
LEMMA SquareLemma ==
    ASSUME NEW S, NEW x0 \in Int, NEW y0 \in Int, NEW r \in Nat,
           {x0 - r, x0 + r} \subseteq Columns, {y0 - r, y0 + r} \subseteq Rows,
           \A p \in S : p \in Int \X Int /\ \E q \in (0..r) \X (0..r) : Mirrored(p, q, x0, y0)
    PROVE  S \subseteq Screen /\ IsFiniteSet(S)
<1>1. ASSUME NEW p \in S PROVE p \in Screen
  <2>1. PICK q \in (0..r) \X (0..r) : p \in Int \X Int /\ Mirrored(p, q, x0, y0)
    OBVIOUS
  <2>2. /\ x0 - r <= p[1] /\ p[1] <= x0 + r /\ y0 - r <= p[2] /\ p[2] <= y0 + r
        /\ p[1] \in Int /\ p[2] \in Int
    BY <2>1 DEF Mirrored
  <2>3. p[1] \in Columns /\ p[2] \in Rows
    BY <2>2, ScreenAssumption DEF Columns, Rows
  <2> QED BY <2>1, <2>3 DEF Screen
<1>2. S \subseteq Screen
  BY <1>1
<1> QED BY <1>2, ScreenIsFinite, FS_Subset

\* The circle on the screen.
LEMMA CircleInkedLemma ==
    ASSUME DrawnInv, drawn.kind = "circle"
    PROVE  /\ drawn.x \in Int /\ drawn.y \in Int /\ drawn.r \in Nat
           /\ Inked = drawCircle(drawn.x, drawn.y, drawn.r)
<1> DEFINE S == drawCircle(drawn.x, drawn.y, drawn.r)
<1>1. drawn \in Menu /\ vga = Paint(Blank, Pixels(drawn), drawn.c)
  BY DEF DrawnInv, Nothing, Texts
<1>2. /\ drawn.x \in Int /\ drawn.y \in Int /\ drawn.r \in Nat
      /\ {drawn.x - drawn.r, drawn.x + drawn.r} \subseteq Columns
      /\ {drawn.y - drawn.r, drawn.y + drawn.r} \subseteq Rows
  BY <1>1, MenuLemma, OnScreenLemma
<1>3. Pixels(drawn) = S
  BY DEF Pixels
<1>4. S \subseteq Screen /\ IsFiniteSet(S)
  <2>1. \A p \in S : p \in Int \X Int /\ \E q \in (0..drawn.r) \X (0..drawn.r) :
                                            Mirrored(p, q, drawn.x, drawn.y)
    BY <1>2, CirclePointsLemma, QuarterPointsLemma
  <2> HIDE DEF S
  <2> QED BY <1>2, <2>1, SquareLemma
<1>5. Inked = S
  <2> HIDE DEF S
  <2> QED BY <1>1, <1>3, <1>4, InkedLemma
<1> QED BY <1>2, <1>5

LEMMA CircleIsRoundLemma == DrawnInv => CircleIsRound
<1> SUFFICES ASSUME DrawnInv, drawn.kind = "circle"
             PROVE  LET dx(q) == q[1] - drawn.x
                        dy(q) == q[2] - drawn.y
                    IN  /\ \A q \in Inked : Abs(dx(q) * dx(q) + dy(q) * dy(q) - drawn.r * drawn.r) <= drawn.r
                        /\ {dx(q) : q \in Inked} = (-drawn.r)..drawn.r
                        /\ {dy(q) : q \in Inked} = (-drawn.r)..drawn.r
  BY DEF CircleIsRound
<1> DEFINE x == drawn.x
           y == drawn.y
           r == drawn.r
           D == drawCircle(x, y, r)
           dx(q) == q[1] - x
           dy(q) == q[2] - y
<1>1. x \in Int /\ y \in Int /\ r \in Nat /\ Inked = D
  BY CircleInkedLemma
<1> HIDE DEF x, y, r
<1>2. ASSUME NEW p \in D
      PROVE  /\ Abs(dx(p) * dx(p) + dy(p) * dy(p) - r * r) <= r
             /\ dx(p) \in (-r)..r /\ dy(p) \in (-r)..r
  <2>1. PICK q \in QuarterPoints(r) : p \in Int \X Int /\ Mirrored(p, q, x, y)
    BY <1>1, CirclePointsLemma
  <2>2. q[1] \in 0..r /\ q[2] \in 0..r /\ -r <= Off(q[1], q[2], r) /\ Off(q[1], q[2], r) <= r
    BY <1>1, QuarterPointsLemma
  <2>3. dx(p) \in {q[1], -q[1]} /\ dy(p) \in {q[2], -q[2]}
    BY <1>1, <2>1, <2>2 DEF Mirrored
  <2>4. \A n \in Int : (-n) * (-n) = n * n
    OBVIOUS
  <2>5. dx(p) * dx(p) = q[1] * q[1] /\ dy(p) * dy(p) = q[2] * q[2]
    <3> HIDE DEF dx, dy
    <3> QED BY <2>2, <2>3, <2>4
  <2>6. Off(q[1], q[2], r) = dx(p) * dx(p) + dy(p) * dy(p) - r * r /\ Off(q[1], q[2], r) \in Int
    <3>1. q[1] * q[1] \in Int /\ q[2] * q[2] \in Int /\ r * r \in Int
      BY <1>1, <2>2
    <3> QED BY <2>5, <3>1 DEF Off
  <2>7. Abs(dx(p) * dx(p) + dy(p) * dy(p) - r * r) <= r
    BY <1>1, <2>2, <2>6 DEF Abs
  <2> QED BY <1>1, <2>2, <2>3, <2>7
<1>3. ASSUME NEW v \in (-r)..r
      PROVE  (\E p \in D : dx(p) = v) /\ (\E p \in D : dy(p) = v)
  <2>1. Abs(v) \in 0..r /\ v \in {Abs(v), -Abs(v)} /\ v \in Int
    BY <1>1 DEF Abs
  <2>2. PICK q \in QuarterPoints(r) : q[1] = Abs(v)
    BY <1>1, <2>1, QuarterPointsLemma
  <2>3. PICK w \in QuarterPoints(r) : w[2] = Abs(v)
    BY <1>1, <2>1, QuarterPointsLemma
  <2>4. /\ <<x + q[1], y + q[2]>> \in D /\ <<x - q[1], y + q[2]>> \in D
        /\ <<x + w[1], y + w[2]>> \in D /\ <<x + w[1], y - w[2]>> \in D
    BY <1>1, CirclePointsLemma
  <2>5. x + q[1] - x = Abs(v) /\ x - q[1] - x = -Abs(v)
    BY <1>1, <2>1, <2>2
  <2>6. y + w[2] - y = Abs(v) /\ y - w[2] - y = -Abs(v)
    BY <1>1, <2>1, <2>3
  <2> HIDE DEF D
  <2>7. \E p \in D : dx(p) = v
    <3> DEFINE p1 == <<x + q[1], y + q[2]>>
               p2 == <<x - q[1], y + q[2]>>
    <3>1. p1[1] = x + q[1] /\ p2[1] = x - q[1]
      OBVIOUS
    <3>2. p1 \in D /\ p2 \in D
      BY <2>4
    <3>3. \A p : (p[1] = x + q[1] => dx(p) = Abs(v)) /\ (p[1] = x - q[1] => dx(p) = -Abs(v))
      BY <1>1, <2>1, <2>2, <2>5
    <3> HIDE DEF p1, p2, dx
    <3> QED BY <2>1, <3>1, <3>2, <3>3
  <2>8. \E p \in D : dy(p) = v
    <3> DEFINE p1 == <<x + w[1], y + w[2]>>
               p2 == <<x + w[1], y - w[2]>>
    <3>1. p1[2] = y + w[2] /\ p2[2] = y - w[2]
      OBVIOUS
    <3>2. p1 \in D /\ p2 \in D
      BY <2>4
    <3>3. \A p : (p[2] = y + w[2] => dy(p) = Abs(v)) /\ (p[2] = y - w[2] => dy(p) = -Abs(v))
      BY <1>1, <2>1, <2>3, <2>6
    <3> HIDE DEF p1, p2, dy
    <3> QED BY <2>1, <3>1, <3>2, <3>3
  <2> QED BY <2>7, <2>8
<1>4. {dx(p) : p \in D} = (-r)..r /\ {dy(p) : p \in D} = (-r)..r
  <2> HIDE DEF D, dx, dy
  <2> QED BY <1>2, <1>3
<1>5. \A p \in D : Abs(dx(p) * dx(p) + dy(p) * dy(p) - r * r) <= r
  BY <1>2
<1> QED BY <1>1, <1>4, <1>5 DEF x, y, r

\* Every circle on a screen of any size and of any radius has a pixel in each of its
\* rows and columns, and the square of the distance of none is off by more than the
\* radius: half a pixel.
THEOREM CircleTheorem == TextSpec => []CircleIsRound
BY CircleIsRoundLemma, DrawnLemma, PTL

-----------------------------------------------------------------------------
(* Filled shapes.                                                            *)

\* A finite set of integers has a least and a greatest element.
LEMMA ExtremesLemma ==
    ASSUME NEW S, IsFiniteSet(S), S \subseteq Int, S # {}
    PROVE  /\ Min(S) \in S /\ \A y \in S : Min(S) <= y
           /\ Max(S) \in S /\ \A y \in S : y <= Max(S)
<1> DEFINE Q == {T \in SUBSET S : T # {} =>
                    (\E m \in T : \A y \in T : m <= y) /\ (\E m \in T : \A y \in T : y <= m)}
<1>1. ASSUME NEW T \in SUBSET S, \A x \in T : T \ {x} \in Q PROVE T \in Q
  <2> SUFFICES ASSUME T # {}
               PROVE  (\E m \in T : \A y \in T : m <= y) /\ (\E m \in T : \A y \in T : y <= m)
    OBVIOUS
  <2>1. PICK x \in T : TRUE
    OBVIOUS
  <2>2. x \in Int /\ \A y \in T : y \in Int
    OBVIOUS
  <2>3. CASE T = {x}
    <3>1. x <= x
      BY <2>2
    <3> QED BY <2>3, <3>1
  <2>4. CASE T # {x}
    <3> DEFINE U == T \ {x}
    <3>1. U # {} /\ U \in Q
      BY <1>1, <2>1, <2>4
    <3>2. PICK a \in U, b \in U : (\A y \in U : a <= y) /\ (\A y \in U : y <= b)
      BY <3>1
    <3>3. \A y \in T : y = x \/ y \in U
      OBVIOUS
    <3>4. a \in T /\ b \in T /\ a \in Int /\ b \in Int
      BY <2>2
    <3> HIDE DEF U, Q
    <3>5. \E m \in T : \A y \in T : m <= y
      <4>1. CASE x <= a
        <5>1. \A y \in T : x <= y
          BY <2>2, <3>2, <3>3, <3>4, <4>1
        <5> QED BY <5>1
      <4>2. CASE ~(x <= a)
        <5>1. \A y \in T : a <= y
          BY <2>2, <3>2, <3>3, <3>4, <4>2
        <5> QED BY <3>4, <5>1
      <4> QED BY <4>1, <4>2
    <3>6. \E m \in T : \A y \in T : y <= m
      <4>1. CASE b <= x
        <5>1. \A y \in T : y <= x
          BY <2>2, <3>2, <3>3, <3>4, <4>1
        <5> QED BY <5>1
      <4>2. CASE ~(b <= x)
        <5>1. \A y \in T : y <= b
          BY <2>2, <3>2, <3>3, <3>4, <4>2
        <5> QED BY <3>4, <5>1
      <4> QED BY <4>1, <4>2
    <3> QED BY <3>5, <3>6
  <2> QED BY <2>3, <2>4
<1>2. S \in Q
  <2> HIDE DEF Q
  <2> QED BY <1>1, SetInduction
<1>3. (\E m \in S : \A y \in S : m <= y) /\ (\E m \in S : \A y \in S : m >= y)
  BY <1>2
<1>4. Min(S) \in S /\ \A y \in S : Min(S) <= y
  BY <1>3 DEF Min
<1>5. Max(S) \in S /\ \A y \in S : Max(S) >= y
  BY <1>3 DEF Max
<1> QED BY <1>4, <1>5

\* b lies between a and the point across the axis, that is s - a.
Across(a, b, s) == (a <= b /\ b <= s - a) \/ (s - a <= b /\ b <= a)

\* The hull of a set that an axis mirrors top to bottom: in each column what lies
\* between a point of the set and its image.
LEMMA HullLemma ==
    ASSUME NEW O, O \subseteq Int \X Int, IsFiniteSet(O), NEW s \in Int,
           \A o \in O : <<o[1], s - o[2]>> \in O
    PROVE  Hull(O) = {p \in Int \X Int : \E o \in O : o[1] = p[1] /\ Across(o[2], p[2], s)}
<1> DEFINE ys(x) == {q[2] : q \in {o \in O : o[1] = x}}
<1>1. Hull(O) = UNION {{<<x, y>> : y \in Min(ys(x))..Max(ys(x))} : x \in {q[1] : q \in O}}
  BY DEF Hull
<1>2. ASSUME NEW o \in O
      PROVE  LET m == Min(ys(o[1]))
                 n == Max(ys(o[1]))
             IN  /\ m \in Int /\ n = s - m /\ m <= n
                 /\ \E u \in O : u[1] = o[1] /\ u[2] = m
                 /\ m <= o[2] /\ o[2] <= n
  <2> DEFINE Y == ys(o[1])
  <2>1. Y \subseteq Int /\ o[2] \in Y
    OBVIOUS
  <2>2. IsFiniteSet(Y)
    <3> DEFINE T == {u \in O : u[1] = o[1]}
    <3>1. IsFiniteSet(T)
      BY FS_Subset
    <3>2. Y = {u[2] : u \in T}
      OBVIOUS
    <3> HIDE DEF T, Y
    <3> DEFINE f == [u \in T |-> u[2]]
    <3>3. f \in Surjection(T, Y)
      BY <3>2 DEF Surjection
    <3> HIDE DEF f
    <3> QED BY <3>1, <3>3, FS_Surjection
  <2>3. \A y \in Y : s - y \in Y /\ \E u \in O : u[1] = o[1] /\ u[2] = y
    <3>1. ASSUME NEW y \in Y PROVE s - y \in Y /\ \E u \in O : u[1] = o[1] /\ u[2] = y
      <4>1. PICK u \in O : u[1] = o[1] /\ u[2] = y
        OBVIOUS
      <4> DEFINE v == <<u[1], s - u[2]>>
      <4>2. v \in O /\ v[1] = o[1] /\ v[2] = s - y
        BY <4>1
      <4> HIDE DEF v
      <4> QED BY <4>1, <4>2
    <3> QED BY <3>1
  <2> DEFINE m == Min(Y)
             n == Max(Y)
  <2> HIDE DEF Y
  <2>4. m \in Y /\ n \in Y /\ \A y \in Y : m <= y /\ y <= n
    BY <2>1, <2>2, ExtremesLemma
  <2> HIDE DEF m, n
  <2>5. m \in Int /\ n \in Int /\ s - m <= n /\ m <= s - n
    BY <2>1, <2>3, <2>4
  <2>6. n = s - m
    BY <2>5
  <2> QED BY <2>1, <2>3, <2>4, <2>5, <2>6 DEF m, n, Y
<1> HIDE DEF ys
<1>3. ASSUME NEW p \in Hull(O)
      PROVE  p \in Int \X Int /\ \E o \in O : o[1] = p[1] /\ Across(o[2], p[2], s)
  <2>1. PICK o \in O : \E y \in Min(ys(o[1]))..Max(ys(o[1])) : p = <<o[1], y>>
    BY <1>1
  <2>2. PICK y \in Min(ys(o[1]))..Max(ys(o[1])) : p = <<o[1], y>>
    BY <2>1
  <2> DEFINE m == Min(ys(o[1]))
  <2>3. m \in Int /\ Max(ys(o[1])) = s - m /\ \E u \in O : u[1] = o[1] /\ u[2] = m
    BY <1>2
  <2>4. PICK u \in O : u[1] = o[1] /\ u[2] = m
    BY <2>3
  <2>5. y \in Int /\ m <= y /\ y <= s - m
    BY <2>3
  <2>6. Across(u[2], y, s)
    BY <2>4, <2>5 DEF Across
  <2>7. p[1] = o[1] /\ p[2] = y /\ o[1] \in Int
    BY <2>2
  <2>8. p \in Int \X Int
    BY <2>2, <2>5, <2>7
  <2> HIDE DEF m
  <2> QED BY <2>4, <2>6, <2>7, <2>8
<1>4. ASSUME NEW p \in Int \X Int, NEW o \in O, o[1] = p[1], Across(o[2], p[2], s)
      PROVE  p \in Hull(O)
  <2> DEFINE m == Min(ys(o[1]))
  <2>1. m \in Int /\ Max(ys(o[1])) = s - m /\ m <= o[2] /\ o[2] <= s - m
    BY <1>2
  <2>2. o[2] \in Int /\ p[2] \in Int /\ p = <<p[1], p[2]>>
    OBVIOUS
  <2>3. p[2] \in m..(s - m)
    BY <1>4, <2>1, <2>2 DEF Across
  <2>4. p = <<o[1], p[2]>> /\ p[2] \in Min(ys(o[1]))..Max(ys(o[1]))
    BY <1>4, <2>1, <2>2, <2>3
  <2> QED BY <1>1, <2>4
<1> QED BY <1>3, <1>4

\* Mirroring in an axis twice goes nowhere: what Mirrored allows has its image there.
LEMMA CircleMirrorLemma ==
    ASSUME NEW r \in Nat, NEW x0 \in Int, NEW y0 \in Int, NEW p \in drawCircle(x0, y0, r)
    PROVE  <<p[1], 2 * y0 - p[2]>> \in drawCircle(x0, y0, r)
<1>1. PICK q \in QuarterPoints(r) : p \in Int \X Int /\ Mirrored(p, q, x0, y0)
  BY CirclePointsLemma
<1>2. q[1] \in Int /\ q[2] \in Int /\ p[1] \in Int /\ p[2] \in Int
  BY <1>1, QuarterPointsLemma
<1>3. p[2] = y0 + q[2] => 2 * y0 - p[2] = y0 - q[2]
  BY <1>2
<1>4. p[2] = y0 - q[2] => 2 * y0 - p[2] = y0 + q[2]
  BY <1>2
<1>5. p[1] \in {x0 + q[1], x0 - q[1]} /\ 2 * y0 - p[2] \in {y0 + q[2], y0 - q[2]}
  BY <1>1, <1>3, <1>4 DEF Mirrored
<1> DEFINE D == drawCircle(x0, y0, r)
<1>6. /\ <<x0 + q[1], y0 + q[2]>> \in D /\ <<x0 + q[1], y0 - q[2]>> \in D
      /\ <<x0 - q[1], y0 + q[2]>> \in D /\ <<x0 - q[1], y0 - q[2]>> \in D
  BY CirclePointsLemma
<1> HIDE DEF D
<1>7. <<p[1], 2 * y0 - p[2]>> \in D
  BY <1>5, <1>6
<1> QED BY <1>7 DEF D

\* The disc, by its quarter: in the columns of each point what lies between its images.
Inside(p, q, x0, y0) ==
    /\ p \in Int \X Int
    /\ p[1] \in {x0 + q[1], x0 - q[1]}
    /\ y0 - q[2] <= p[2] /\ p[2] <= y0 + q[2]

LEMMA VLineLemma ==
    ASSUME NEW x \in Int, NEW y \in Int, NEW h \in Int, NEW p
    PROVE  p \in drawVLine(x, y, h) <=> p \in Int \X Int /\ p[1] = x /\ y <= p[2] /\ p[2] < y + h
<1>1. ASSUME p \in drawVLine(x, y, h)
      PROVE  p \in Int \X Int /\ p[1] = x /\ y <= p[2] /\ p[2] < y + h
  <2>1. PICK i \in y..(y + h - 1) : p = <<x, i>>
    BY <1>1 DEF drawVLine
  <2>2. i \in Int /\ y <= i /\ i < y + h /\ p[1] = x /\ p[2] = i
    BY <2>1
  <2> QED BY <2>1, <2>2
<1>2. ASSUME p \in Int \X Int, p[1] = x, y <= p[2], p[2] < y + h
      PROVE  p \in drawVLine(x, y, h)
  <2>1. p = <<x, p[2]>> /\ p[2] \in y..(y + h - 1)
    BY <1>2
  <2> QED BY <2>1 DEF drawVLine
<1> QED BY <1>1, <1>2

LEMMA HLineLemma ==
    ASSUME NEW x \in Int, NEW y \in Int, NEW w \in Int, NEW p
    PROVE  p \in drawHLine(x, y, w) <=> p \in Int \X Int /\ p[2] = y /\ x <= p[1] /\ p[1] < x + w
<1>1. ASSUME p \in drawHLine(x, y, w)
      PROVE  p \in Int \X Int /\ p[2] = y /\ x <= p[1] /\ p[1] < x + w
  <2>1. PICK i \in x..(x + w - 1) : p = <<i, y>>
    BY <1>1 DEF drawHLine
  <2>2. i \in Int /\ x <= i /\ i < x + w /\ p[1] = i /\ p[2] = y
    BY <2>1
  <2> QED BY <2>1, <2>2
<1>2. ASSUME p \in Int \X Int, p[2] = y, x <= p[1], p[1] < x + w
      PROVE  p \in drawHLine(x, y, w)
  <2>1. p = <<p[1], y>> /\ p[1] \in x..(x + w - 1)
    BY <1>2
  <2> QED BY <2>1 DEF drawHLine
<1> QED BY <1>1, <1>2

LEMMA FillRectLemma ==
    ASSUME NEW x \in Int, NEW y \in Int, NEW w \in Int, NEW h \in Int, NEW p
    PROVE  p \in fillRect(x, y, w, h) <=>
              /\ p \in Int \X Int
              /\ x <= p[1] /\ p[1] < x + w /\ y <= p[2] /\ p[2] < y + h
BY DEF fillRect

LEMMA FillHelperLemma ==
    ASSUME NEW r \in Nat, NEW x0 \in Int, NEW y0 \in Int, NEW delta \in Int, NEW p
    PROVE  /\ p \in fillCircleHelper(x0, y0, r, 1, delta) <=>
                 \E q \in BothWays(Arc(r)) :
                    /\ p \in Int \X Int /\ p[1] = x0 + q[1]
                    /\ y0 - q[2] <= p[2] /\ p[2] <= y0 + q[2] + delta
           /\ p \in fillCircleHelper(x0, y0, r, -1, delta) <=>
                 \E q \in BothWays(Arc(r)) :
                    /\ p \in Int \X Int /\ p[1] = x0 - q[1]
                    /\ y0 - q[2] <= p[2] /\ p[2] <= y0 + q[2] + delta
<1> DEFINE B == BothWays(Arc(r))
           V(sx, q) == drawVLine(x0 + sx * q[1], y0 - q[2], 2 * q[2] + 1 + delta)
<1>1. ASSUME NEW sx \in {-1, 1}
      PROVE  p \in fillCircleHelper(x0, y0, r, sx, delta) <=> \E q \in B : p \in V(sx, q)
  BY DEF fillCircleHelper
<1>2. ASSUME NEW sx \in {-1, 1}, NEW q \in B
      PROVE  p \in V(sx, q) <=> /\ p \in Int \X Int /\ p[1] = x0 + sx * q[1]
                                /\ y0 - q[2] <= p[2] /\ p[2] <= y0 + q[2] + delta
  <2>1. q[1] \in Int /\ q[2] \in Int
    BY QuarterLemma
  <2> DEFINE x == x0 + sx * q[1]
             y == y0 - q[2]
             h == 2 * q[2] + 1 + delta
  <2>2. x \in Int /\ y \in Int /\ h \in Int /\ y + h = y0 + q[2] + 1 + delta
    BY <2>1
  <2> HIDE DEF x, y, h
  <2>3. p \in drawVLine(x, y, h) <=> p \in Int \X Int /\ p[1] = x /\ y <= p[2] /\ p[2] < y + h
    BY <2>2, VLineLemma
  <2>4. p \in Int \X Int => (p[2] < y + h <=> p[2] <= y0 + q[2] + delta)
    BY <2>1, <2>2
  <2> QED BY <2>3, <2>4 DEF x, y, h
<1>3. \A q \in B : x0 + 1 * q[1] = x0 + q[1] /\ x0 + (-1) * q[1] = x0 - q[1]
  <2>1. \A q \in B : q[1] \in Int
    BY QuarterLemma
  <2> HIDE DEF B
  <2> QED BY <2>1
<1> HIDE DEF B, V
<1>4. p \in fillCircleHelper(x0, y0, r, 1, delta) <=> \E q \in B : p \in V(1, q)
  BY <1>1
<1>5. p \in fillCircleHelper(x0, y0, r, -1, delta) <=> \E q \in B : p \in V(-1, q)
  <2>1. -1 \in {-1, 1}
    OBVIOUS
  <2> QED BY <1>1, <2>1
<1>6. \A q \in B : p \in V(1, q) <=> /\ p \in Int \X Int /\ p[1] = x0 + q[1]
                                     /\ y0 - q[2] <= p[2] /\ p[2] <= y0 + q[2] + delta
  <2>1. 1 \in {-1, 1}
    OBVIOUS
  <2> QED BY <1>2, <1>3, <2>1
<1>7. \A q \in B : p \in V(-1, q) <=> /\ p \in Int \X Int /\ p[1] = x0 - q[1]
                                      /\ y0 - q[2] <= p[2] /\ p[2] <= y0 + q[2] + delta
  <2>1. -1 \in {-1, 1}
    OBVIOUS
  <2> QED BY <1>2, <1>3, <2>1
<1> QED BY <1>4, <1>5, <1>6, <1>7 DEF B

\* The disc, by the quarter.
LEMMA DiscLemma ==
    ASSUME NEW r \in Nat, NEW x0 \in Int, NEW y0 \in Int, NEW p
    PROVE  p \in fillCircle(x0, y0, r) <=> \E q \in QuarterPoints(r) : Inside(p, q, x0, y0)
<1> DEFINE B == BothWays(Arc(r))
           a == <<0, r>>
           b == <<r, 0>>
           R == fillCircleHelper(x0, y0, r, 1, 0)
           L == fillCircleHelper(x0, y0, r, -1, 0)
           M == drawVLine(x0, y0 - r, 2 * r + 1)
<1>1. p \in fillCircle(x0, y0, r) <=> p \in M \/ p \in R \/ p \in L
  BY DEF fillCircle
<1>2. QuarterPoints(r) = {a, b} \union B
  BY DEF QuarterPoints
<1>3. a[1] = 0 /\ a[2] = r /\ b[1] = r /\ b[2] = 0
  OBVIOUS
<1>4. \A q \in B : q[1] \in Nat /\ q[2] \in Nat
  BY QuarterLemma
<1>5. p \in R \/ p \in L <=> \E q \in B : Inside(p, q, x0, y0)
  <2>1. \A q \in B : y0 + q[2] + 0 = y0 + q[2]
    BY <1>4
  <2>2. p \in R <=> \E q \in B : /\ p \in Int \X Int /\ p[1] = x0 + q[1]
                                 /\ y0 - q[2] <= p[2] /\ p[2] <= y0 + q[2] + 0
    BY FillHelperLemma
  <2>3. p \in L <=> \E q \in B : /\ p \in Int \X Int /\ p[1] = x0 - q[1]
                                 /\ y0 - q[2] <= p[2] /\ p[2] <= y0 + q[2] + 0
    BY FillHelperLemma
  <2> HIDE DEF R, L, B
  <2> QED BY <2>1, <2>2, <2>3 DEF Inside
<1>6. p \in M <=> Inside(p, a, x0, y0)
  <2>1. p \in M <=> p \in Int \X Int /\ p[1] = x0 /\ y0 - r <= p[2] /\ p[2] < y0 - r + (2 * r + 1)
    <3>1. y0 - r \in Int /\ 2 * r + 1 \in Int
      OBVIOUS
    <3> QED BY <3>1, VLineLemma
  <2>2. p \in Int \X Int => (p[2] < y0 - r + (2 * r + 1) <=> p[2] <= y0 + r)
    OBVIOUS
  <2>3. x0 + 0 = x0 /\ x0 - 0 = x0
    OBVIOUS
  <2> HIDE DEF M, a
  <2> QED BY <1>3, <2>1, <2>2, <2>3 DEF Inside
<1>7. ASSUME Inside(p, b, x0, y0)
      PROVE  p \in M \/ \E q \in B : Inside(p, q, x0, y0)
  <2>1. p \in Int \X Int /\ p[1] \in {x0 + r, x0 - r} /\ y0 - 0 <= p[2] /\ p[2] <= y0 + 0
    BY <1>3, <1>7 DEF Inside
  <2>2. CASE r = 0
    <3>1. a = b
      BY <2>2
    <3> QED BY <1>6, <1>7, <3>1
  <2>3. CASE r # 0
    <3>1. r \in 1..r
      BY <2>3
    <3>2. PICK q \in B : q[1] = r
      BY <3>1, QuarterLemma
    <3>3. q[2] \in Nat
      BY <1>4
    <3>4. y0 - q[2] <= p[2] /\ p[2] <= y0 + q[2]
      BY <2>1, <3>3
    <3>5. Inside(p, q, x0, y0)
      BY <2>1, <3>2, <3>4 DEF Inside
    <3> QED BY <3>5
  <2> QED BY <2>2, <2>3
<1> HIDE DEF a, b, B, R, L, M
<1> QED BY <1>1, <1>2, <1>5, <1>6, <1>7

\* The disc is the circle with what lies between.
LEMMA DiscHullLemma ==
    ASSUME NEW r \in Nat, NEW x0 \in Int, NEW y0 \in Int, IsFiniteSet(drawCircle(x0, y0, r))
    PROVE  Hull(drawCircle(x0, y0, r)) = fillCircle(x0, y0, r)
<1> DEFINE D == drawCircle(x0, y0, r)
           s == 2 * y0
<1>1. D \subseteq Int \X Int /\ s \in Int /\ \A o \in D : <<o[1], s - o[2]>> \in D
  BY CirclePointsLemma, CircleMirrorLemma
<1>2. Hull(D) = {p \in Int \X Int : \E o \in D : o[1] = p[1] /\ Across(o[2], p[2], s)}
  <2> HIDE DEF D, s
  <2> QED BY <1>1, HullLemma DEF D
<1>3. ASSUME NEW p \in Hull(D) PROVE p \in fillCircle(x0, y0, r)
  <2>1. p \in Int \X Int
    BY <1>2
  <2>2. PICK o \in D : o[1] = p[1] /\ Across(o[2], p[2], s)
    BY <1>2
  <2>3. PICK q \in QuarterPoints(r) : o \in Int \X Int /\ Mirrored(o, q, x0, y0)
    BY CirclePointsLemma
  <2>4. q[1] \in Nat /\ q[2] \in Nat
    BY QuarterPointsLemma
  <2>5. o[2] = y0 + q[2] \/ o[2] = y0 - q[2]
    BY <2>3 DEF Mirrored
  <2>6. y0 - q[2] <= p[2] /\ p[2] <= y0 + q[2]
    <3> HIDE DEF D
    <3> QED BY <2>1, <2>2, <2>4, <2>5 DEF Across
  <2>7. p[1] \in {x0 + q[1], x0 - q[1]}
    BY <2>2, <2>3 DEF Mirrored
  <2>8. Inside(p, q, x0, y0)
    BY <2>1, <2>6, <2>7 DEF Inside
  <2> QED BY <2>8, DiscLemma
<1>4. ASSUME NEW p \in fillCircle(x0, y0, r) PROVE p \in Hull(D)
  <2>1. PICK q \in QuarterPoints(r) : Inside(p, q, x0, y0)
    BY DiscLemma
  <2>2. q[1] \in Nat /\ q[2] \in Nat
    BY QuarterPointsLemma
  <2> DEFINE o == <<p[1], y0 - q[2]>>
  <2>3. o \in D
    <3>1. <<x0 + q[1], y0 - q[2]>> \in D /\ <<x0 - q[1], y0 - q[2]>> \in D
      BY CirclePointsLemma
    <3>2. p[1] = x0 + q[1] \/ p[1] = x0 - q[1]
      BY <2>1 DEF Inside
    <3> HIDE DEF D
    <3> QED BY <3>1, <3>2
  <2>4. o[1] = p[1] /\ o[2] = y0 - q[2]
    OBVIOUS
  <2>5. p \in Int \X Int /\ y0 - q[2] <= p[2] /\ p[2] <= y0 + q[2]
    BY <2>1 DEF Inside
  <2>6. s - (y0 - q[2]) = y0 + q[2]
    BY <2>2
  <2>7. Across(y0 - q[2], p[2], s)
    BY <2>5, <2>6 DEF Across
  <2> HIDE DEF o, s, D
  <2> QED BY <1>2, <2>3, <2>4, <2>5, <2>7
<1> QED BY <1>3, <1>4

LEMMA DiscInkedLemma ==
    ASSUME DrawnInv, drawn.kind = "disc"
    PROVE  Inked = Hull(Outline(drawn))
<1> DEFINE x == drawn.x
           y == drawn.y
           r == drawn.r
           F == fillCircle(x, y, r)
           D == drawCircle(x, y, r)
<1>1. drawn \in Menu /\ vga = Paint(Blank, Pixels(drawn), drawn.c)
  BY DEF DrawnInv, Nothing, Texts
<1>2. /\ x \in Int /\ y \in Int /\ r \in Nat /\ drawn \in CircleShapes
      /\ {x - r, x + r} \subseteq Columns /\ {y - r, y + r} \subseteq Rows
  BY <1>1, MenuLemma, OnScreenLemma
<1>3. Pixels(drawn) = F
  BY DEF Pixels
<1>4. Outline(drawn) = D
  <2> DEFINE e == [drawn EXCEPT !.kind = IF @ = "disc" THEN "circle" ELSE "box"]
  <2>1. e.kind = "circle" /\ e.x = x /\ e.y = y /\ e.r = r
    BY <1>2 DEF CircleShapes
  <2>2. Outline(drawn) = Pixels(e)
    BY DEF Outline
  <2> HIDE DEF e, x, y, r
  <2> QED BY <2>1, <2>2 DEF Pixels
<1> HIDE DEF x, y, r
<1>5. D \subseteq Screen /\ IsFiniteSet(D)
  <2>1. \A p \in D : p \in Int \X Int /\ \E q \in (0..r) \X (0..r) : Mirrored(p, q, x, y)
    BY <1>2, CirclePointsLemma, QuarterPointsLemma
  <2> HIDE DEF D
  <2> QED BY <1>2, <2>1, SquareLemma
<1>6. F \subseteq Screen
  <2> SUFFICES ASSUME NEW p \in F PROVE p \in Screen
    OBVIOUS
  <2>1. PICK q \in QuarterPoints(r) : Inside(p, q, x, y)
    BY <1>2, DiscLemma
  <2>2. q[1] \in 0..r /\ q[2] \in 0..r
    BY <1>2, QuarterPointsLemma
  <2>3. /\ p \in Int \X Int /\ x - r <= p[1] /\ p[1] <= x + r /\ y - r <= p[2] /\ p[2] <= y + r
    BY <1>2, <2>1, <2>2 DEF Inside
  <2>4. p[1] \in Columns /\ p[2] \in Rows
    BY <1>2, <2>3, ScreenAssumption DEF Columns, Rows
  <2> QED BY <2>3, <2>4 DEF Screen
<1>7. IsFiniteSet(F)
  BY <1>6, ScreenIsFinite, FS_Subset
<1>8. Inked = F
  <2> HIDE DEF F
  <2> QED BY <1>1, <1>3, <1>6, <1>7, InkedLemma
<1>9. Hull(D) = F
  BY <1>2, <1>5, DiscHullLemma
<1> QED BY <1>4, <1>8, <1>9

\* The points of an outlined rectangle, and of one with round corners of radius r.
OnRect(p, x, y, w, h) ==
    /\ p \in Int \X Int
    /\ \/ x <= p[1] /\ p[1] < x + w /\ p[2] \in {y, y + h - 1}
       \/ y <= p[2] /\ p[2] < y + h /\ p[1] \in {x, x + w - 1}

LEMMA RectLemma ==
    ASSUME NEW x \in Int, NEW y \in Int, NEW w \in Nat, NEW h \in Nat, NEW p
    PROVE  p \in drawRect(x, y, w, h) <=> OnRect(p, x, y, w, h)
<1> DEFINE A == drawHLine(x, y, w)
           B == drawHLine(x, y + h - 1, w)
           C == drawVLine(x, y, h)
           D == drawVLine(x + w - 1, y, h)
<1>1. p \in drawRect(x, y, w, h) <=> p \in A \/ p \in B \/ p \in C \/ p \in D
  BY DEF drawRect
<1>2. y + h - 1 \in Int /\ x + w - 1 \in Int
  OBVIOUS
<1>3. /\ p \in A <=> p \in Int \X Int /\ p[2] = y /\ x <= p[1] /\ p[1] < x + w
      /\ p \in B <=> p \in Int \X Int /\ p[2] = y + h - 1 /\ x <= p[1] /\ p[1] < x + w
  BY <1>2, HLineLemma
<1>4. /\ p \in C <=> p \in Int \X Int /\ p[1] = x /\ y <= p[2] /\ p[2] < y + h
      /\ p \in D <=> p \in Int \X Int /\ p[1] = x + w - 1 /\ y <= p[2] /\ p[2] < y + h
  BY <1>2, VLineLemma
<1> HIDE DEF A, B, C, D
<1> QED BY <1>1, <1>3, <1>4 DEF OnRect

\* q is a point of the quarter, p the same in one of the corners with the centres
\* xl and xr, yt and yb.
Cornered(p, q, xl, xr, yt, yb) ==
    p[1] \in {xl - q[1], xr + q[1]} /\ p[2] \in {yt - q[2], yb + q[2]}

OnBox(p, x, y, w, h, r) ==
    /\ p \in Int \X Int
    /\ \/ x + r <= p[1] /\ p[1] < x + w - r /\ p[2] \in {y, y + h - 1}
       \/ y + r <= p[2] /\ p[2] < y + h - r /\ p[1] \in {x, x + w - 1}
       \/ \E q \in BothWays(Arc(r)) :
             Cornered(p, q, x + r, x + w - r - 1, y + r, y + h - r - 1)

LEMMA CornerLemma ==
    ASSUME NEW r \in Nat, NEW x0 \in Int, NEW y0 \in Int, NEW p
    PROVE  LET B == {q \in BothWays(Arc(r)) : p \in Int \X Int}
           IN  /\ p \in drawCircleHelper(x0, y0, r, -1, -1) <=> \E q \in B : p[1] = x0 - q[1] /\ p[2] = y0 - q[2]
               /\ p \in drawCircleHelper(x0, y0, r, 1, -1) <=> \E q \in B : p[1] = x0 + q[1] /\ p[2] = y0 - q[2]
               /\ p \in drawCircleHelper(x0, y0, r, 1, 1) <=> \E q \in B : p[1] = x0 + q[1] /\ p[2] = y0 + q[2]
               /\ p \in drawCircleHelper(x0, y0, r, -1, 1) <=> \E q \in B : p[1] = x0 - q[1] /\ p[2] = y0 + q[2]
<1> DEFINE W == BothWays(Arc(r))
           B == {q \in W : p \in Int \X Int}
<1>1. \A sx, sy : p \in drawCircleHelper(x0, y0, r, sx, sy) <=>
                       \E q \in W : p = <<x0 + sx * q[1], y0 + sy * q[2]>>
  BY DEF drawCircleHelper
<1>2. \A q \in W : q[1] \in Int /\ q[2] \in Int
  BY QuarterLemma
<1>3. \A a, b \in Int : p = <<a, b>> <=> p \in Int \X Int /\ p[1] = a /\ p[2] = b
  OBVIOUS
<1>4. ASSUME NEW q \in W
      PROVE  /\ x0 + 1 * q[1] = x0 + q[1] /\ x0 + (-1) * q[1] = x0 - q[1]
             /\ y0 + 1 * q[2] = y0 + q[2] /\ y0 + (-1) * q[2] = y0 - q[2]
             /\ x0 + q[1] \in Int /\ x0 - q[1] \in Int /\ y0 + q[2] \in Int /\ y0 - q[2] \in Int
  BY <1>2
<1>5. p \in drawCircleHelper(x0, y0, r, -1, -1) <=> \E q \in B : p[1] = x0 - q[1] /\ p[2] = y0 - q[2]
  <2>1. p \in drawCircleHelper(x0, y0, r, -1, -1) <=>
           \E q \in W : p = <<x0 + (-1) * q[1], y0 + (-1) * q[2]>>
    BY <1>1
  <2>2. \A q \in W : p = <<x0 + (-1) * q[1], y0 + (-1) * q[2]>> <=> p = <<x0 - q[1], y0 - q[2]>>
    <3> HIDE DEF W
    <3> QED BY <1>4
  <2>3. \A q \in W : p = <<x0 - q[1], y0 - q[2]>> <=> p \in Int \X Int /\ p[1] = x0 - q[1] /\ p[2] = y0 - q[2]
    <3> HIDE DEF W
    <3> QED BY <1>3, <1>4
  <2> HIDE DEF W
  <2> QED BY <2>1, <2>2, <2>3
<1>6. p \in drawCircleHelper(x0, y0, r, 1, -1) <=> \E q \in B : p[1] = x0 + q[1] /\ p[2] = y0 - q[2]
  <2>1. p \in drawCircleHelper(x0, y0, r, 1, -1) <=>
           \E q \in W : p = <<x0 + 1 * q[1], y0 + (-1) * q[2]>>
    BY <1>1
  <2>2. \A q \in W : p = <<x0 + 1 * q[1], y0 + (-1) * q[2]>> <=> p = <<x0 + q[1], y0 - q[2]>>
    <3> HIDE DEF W
    <3> QED BY <1>4
  <2>3. \A q \in W : p = <<x0 + q[1], y0 - q[2]>> <=> p \in Int \X Int /\ p[1] = x0 + q[1] /\ p[2] = y0 - q[2]
    <3> HIDE DEF W
    <3> QED BY <1>3, <1>4
  <2> HIDE DEF W
  <2> QED BY <2>1, <2>2, <2>3
<1>7. p \in drawCircleHelper(x0, y0, r, 1, 1) <=> \E q \in B : p[1] = x0 + q[1] /\ p[2] = y0 + q[2]
  <2>1. p \in drawCircleHelper(x0, y0, r, 1, 1) <=>
           \E q \in W : p = <<x0 + 1 * q[1], y0 + 1 * q[2]>>
    BY <1>1
  <2>2. \A q \in W : p = <<x0 + 1 * q[1], y0 + 1 * q[2]>> <=> p = <<x0 + q[1], y0 + q[2]>>
    <3> HIDE DEF W
    <3> QED BY <1>4
  <2>3. \A q \in W : p = <<x0 + q[1], y0 + q[2]>> <=> p \in Int \X Int /\ p[1] = x0 + q[1] /\ p[2] = y0 + q[2]
    <3> HIDE DEF W
    <3> QED BY <1>3, <1>4
  <2> HIDE DEF W
  <2> QED BY <2>1, <2>2, <2>3
<1>8. p \in drawCircleHelper(x0, y0, r, -1, 1) <=> \E q \in B : p[1] = x0 - q[1] /\ p[2] = y0 + q[2]
  <2>1. p \in drawCircleHelper(x0, y0, r, -1, 1) <=>
           \E q \in W : p = <<x0 + (-1) * q[1], y0 + 1 * q[2]>>
    BY <1>1
  <2>2. \A q \in W : p = <<x0 + (-1) * q[1], y0 + 1 * q[2]>> <=> p = <<x0 - q[1], y0 + q[2]>>
    <3> HIDE DEF W
    <3> QED BY <1>4
  <2>3. \A q \in W : p = <<x0 - q[1], y0 + q[2]>> <=> p \in Int \X Int /\ p[1] = x0 - q[1] /\ p[2] = y0 + q[2]
    <3> HIDE DEF W
    <3> QED BY <1>3, <1>4
  <2> HIDE DEF W
  <2> QED BY <2>1, <2>2, <2>3
<1> QED BY <1>5, <1>6, <1>7, <1>8

LEMMA BoxLemma ==
    ASSUME NEW x \in Int, NEW y \in Int, NEW w \in Nat, NEW h \in Nat, NEW r \in Nat, NEW p
    PROVE  p \in drawRoundRect(x, y, w, h, r) <=> OnBox(p, x, y, w, h, r)
<1> DEFINE xl == x + r
           xr == x + w - r - 1
           yt == y + r
           yb == y + h - r - 1
           W == BothWays(Arc(r))
           A == drawHLine(x + r, y, w - 2 * r)
           B == drawHLine(x + r, y + h - 1, w - 2 * r)
           C == drawVLine(x, y + r, h - 2 * r)
           D == drawVLine(x + w - 1, y + r, h - 2 * r)
           E == drawCircleHelper(x + r, y + r, r, -1, -1)
           F == drawCircleHelper(x + w - r - 1, y + r, r, 1, -1)
           G == drawCircleHelper(x + w - r - 1, y + h - r - 1, r, 1, 1)
           H == drawCircleHelper(x + r, y + h - r - 1, r, -1, 1)
<1>1. p \in drawRoundRect(x, y, w, h, r) <=>
         (p \in A \/ p \in B) \/ (p \in C \/ p \in D) \/ (p \in E \/ p \in F \/ p \in G \/ p \in H)
  BY DEF drawRoundRect
<1>2. /\ xl \in Int /\ xr \in Int /\ yt \in Int /\ yb \in Int
      /\ y + h - 1 \in Int /\ x + w - 1 \in Int /\ w - 2 * r \in Int /\ h - 2 * r \in Int
      /\ xl + (w - 2 * r) = x + w - r /\ yt + (h - 2 * r) = y + h - r
      /\ -1 \in {-1, 1} /\ 1 \in {-1, 1} /\ -1 # 1
  OBVIOUS
<1>3. p \in A \/ p \in B <=> /\ p \in Int \X Int
                             /\ xl <= p[1] /\ p[1] < x + w - r /\ p[2] \in {y, y + h - 1}
  <2>1. /\ p \in A <=> p \in Int \X Int /\ p[2] = y /\ xl <= p[1] /\ p[1] < xl + (w - 2 * r)
        /\ p \in B <=> p \in Int \X Int /\ p[2] = y + h - 1 /\ xl <= p[1] /\ p[1] < xl + (w - 2 * r)
    <3> HIDE DEF yt, xr, yb
    <3> QED BY <1>2, HLineLemma
  <2> HIDE DEF A, B, xl
  <2> QED BY <1>2, <2>1
<1>4. p \in C \/ p \in D <=> /\ p \in Int \X Int
                             /\ yt <= p[2] /\ p[2] < y + h - r /\ p[1] \in {x, x + w - 1}
  <2>1. /\ p \in C <=> p \in Int \X Int /\ p[1] = x /\ yt <= p[2] /\ p[2] < yt + (h - 2 * r)
        /\ p \in D <=> p \in Int \X Int /\ p[1] = x + w - 1 /\ yt <= p[2] /\ p[2] < yt + (h - 2 * r)
    <3> HIDE DEF xl, xr, yb
    <3> QED BY <1>2, VLineLemma
  <2> HIDE DEF C, D, yt
  <2> QED BY <1>2, <2>1
<1>5. p \in E \/ p \in F \/ p \in G \/ p \in H <=>
         p \in Int \X Int /\ \E q \in W : Cornered(p, q, xl, xr, yt, yb)
  <2>1. p \in E <=> \E q \in W : p \in Int \X Int /\ p[1] = xl - q[1] /\ p[2] = yt - q[2]
    <3> HIDE DEF xr, yb
    <3> QED BY <1>2, CornerLemma
  <2>2. p \in F <=> \E q \in W : p \in Int \X Int /\ p[1] = xr + q[1] /\ p[2] = yt - q[2]
    <3> HIDE DEF xl, yb
    <3> QED BY <1>2, CornerLemma
  <2>3. p \in G <=> \E q \in W : p \in Int \X Int /\ p[1] = xr + q[1] /\ p[2] = yb + q[2]
    <3> HIDE DEF xl, yt
    <3> QED BY <1>2, CornerLemma
  <2>4. p \in H <=> \E q \in W : p \in Int \X Int /\ p[1] = xl - q[1] /\ p[2] = yb + q[2]
    <3> HIDE DEF xr, yt
    <3> QED BY <1>2, CornerLemma
  <2> HIDE DEF E, F, G, H, W, xl, xr, yt, yb
  <2> QED BY <2>1, <2>2, <2>3, <2>4 DEF Cornered
<1> HIDE DEF A, B, C, D, E, F, G, H
<1> QED BY <1>1, <1>3, <1>4, <1>5 DEF OnBox

\* The points of a filled rectangle with round corners.
InBox(p, x, y, w, h, r) ==
    /\ p \in Int \X Int
    /\ \/ x + r <= p[1] /\ p[1] < x + w - r /\ y <= p[2] /\ p[2] < y + h
       \/ \E q \in BothWays(Arc(r)) :
             /\ p[1] \in {x + r - q[1], x + w - r - 1 + q[1]}
             /\ y + r - q[2] <= p[2] /\ p[2] <= y + h - r - 1 + q[2]

LEMMA FillBoxLemma ==
    ASSUME NEW x \in Int, NEW y \in Int, NEW w \in Nat, NEW h \in Nat, NEW r \in Nat, NEW p
    PROVE  p \in fillRoundRect(x, y, w, h, r) <=> InBox(p, x, y, w, h, r)
<1> DEFINE B == BothWays(Arc(r))
           M == fillRect(x + r, y, w - 2 * r, h)
           R == fillCircleHelper(x + w - r - 1, y + r, r, 1, h - 2 * r - 1)
           L == fillCircleHelper(x + r, y + r, r, -1, h - 2 * r - 1)
<1>1. p \in fillRoundRect(x, y, w, h, r) <=> p \in M \/ p \in R \/ p \in L
  BY DEF fillRoundRect
<1>2. /\ x + r \in Int /\ w - 2 * r \in Int /\ h \in Int /\ y + r \in Int
      /\ x + w - r - 1 \in Int /\ h - 2 * r - 1 \in Int
      /\ x + r + (w - 2 * r) = x + w - r
  OBVIOUS
<1>3. p \in M <=> /\ p \in Int \X Int
                  /\ x + r <= p[1] /\ p[1] < x + w - r /\ y <= p[2] /\ p[2] < y + h
  <2>1. p \in M <=> /\ p \in Int \X Int /\ x + r <= p[1] /\ p[1] < x + r + (w - 2 * r)
                    /\ y <= p[2] /\ p[2] < y + h
    BY <1>2, FillRectLemma
  <2> HIDE DEF M
  <2> QED BY <1>2, <2>1
<1> DEFINE xl == x + r
           xr == x + w - r - 1
           yt == y + r
           delta == h - 2 * r - 1
<1>4. /\ xl \in Int /\ xr \in Int /\ yt \in Int /\ delta \in Int
      /\ R = fillCircleHelper(xr, yt, r, 1, delta) /\ L = fillCircleHelper(xl, yt, r, -1, delta)
  BY <1>2
<1>5. \A q \in B : yt + q[2] + delta = y + h - r - 1 + q[2]
  <2>1. \A q \in B : q[2] \in Int
    BY QuarterLemma
  <2> HIDE DEF B
  <2> QED BY <2>1
<1>6. InBox(p, x, y, w, h, r) <=>
         /\ p \in Int \X Int
         /\ \/ x + r <= p[1] /\ p[1] < x + w - r /\ y <= p[2] /\ p[2] < y + h
            \/ \E q \in B : /\ p[1] \in {xl - q[1], xr + q[1]}
                            /\ yt - q[2] <= p[2] /\ p[2] <= y + h - r - 1 + q[2]
  <2>1. InBox(p, x, y, w, h, r) <=>
           /\ p \in Int \X Int
           /\ \/ x + r <= p[1] /\ p[1] < x + w - r /\ y <= p[2] /\ p[2] < y + h
              \/ \E q \in B : /\ p[1] \in {x + r - q[1], x + w - r - 1 + q[1]}
                              /\ y + r - q[2] <= p[2] /\ p[2] <= y + h - r - 1 + q[2]
    BY DEF InBox
  <2>2. xl = x + r /\ xr = x + w - r - 1 /\ yt = y + r
    OBVIOUS
  <2>3. \A q \in B : q[1] \in Int /\ q[2] \in Int
    BY QuarterLemma
  <2> HIDE DEF xl, xr, yt, B
  <2>4. \A q \in B : /\ xl - q[1] = x + r - q[1] /\ xr + q[1] = x + w - r - 1 + q[1]
                     /\ yt - q[2] = y + r - q[2]
    BY <2>2, <2>3
  <2> QED BY <2>1, <2>4
<1> HIDE DEF xl, xr, yt, delta, M, R, L
<1>7. /\ p \in R <=> \E q \in B : /\ p \in Int \X Int /\ p[1] = xr + q[1]
                                  /\ yt - q[2] <= p[2] /\ p[2] <= yt + q[2] + delta
      /\ p \in L <=> \E q \in B : /\ p \in Int \X Int /\ p[1] = xl - q[1]
                                  /\ yt - q[2] <= p[2] /\ p[2] <= yt + q[2] + delta
  BY <1>4, FillHelperLemma
<1> HIDE DEF B
<1>8. p \in R \/ p \in L <=>
         p \in Int \X Int /\ \E q \in B : /\ p[1] \in {xl - q[1], xr + q[1]}
                                          /\ yt - q[2] <= p[2] /\ p[2] <= y + h - r - 1 + q[2]
  BY <1>5, <1>7
<1> QED BY <1>1, <1>3, <1>6, <1>8

\* The filled rectangle is the outlined one with what lies between.
LEMMA RectHullLemma ==
    ASSUME NEW x \in Int, NEW y \in Int, NEW w \in Nat \ {0}, NEW h \in Nat \ {0},
           IsFiniteSet(drawRect(x, y, w, h))
    PROVE  Hull(drawRect(x, y, w, h)) = fillRect(x, y, w, h)
<1> DEFINE D == drawRect(x, y, w, h)
           F == fillRect(x, y, w, h)
           s == 2 * y + h - 1
<1>1. s \in Int /\ s - y = y + h - 1 /\ w \in Nat /\ h \in Nat /\ w \in Int /\ h \in Int
  OBVIOUS
<1>2. \A p : p \in D <=> OnRect(p, x, y, w, h)
  BY <1>1, RectLemma
<1>3. \A p : p \in F <=> /\ p \in Int \X Int
                         /\ x <= p[1] /\ p[1] < x + w /\ y <= p[2] /\ p[2] < y + h
  BY <1>1, FillRectLemma
<1> HIDE DEF D, F, s
<1>4. D \subseteq Int \X Int
  BY <1>2 DEF OnRect
<1>5. ASSUME NEW o \in D PROVE <<o[1], s - o[2]>> \in D
  <2> DEFINE v == <<o[1], s - o[2]>>
  <2>1. OnRect(o, x, y, w, h) /\ o[1] \in Int /\ o[2] \in Int
    BY <1>2, <1>4
  <2>2. v \in Int \X Int /\ v[1] = o[1] /\ v[2] = s - o[2]
    BY <1>1, <2>1
  <2> HIDE DEF v
  <2>3. o[2] \in {y, y + h - 1} => v[2] \in {y, y + h - 1}
    BY <1>1, <2>1, <2>2 DEF s
  <2>4. y <= o[2] /\ o[2] < y + h => y <= v[2] /\ v[2] < y + h
    BY <1>1, <2>1, <2>2 DEF s
  <2>5. OnRect(v, x, y, w, h)
    BY <2>1, <2>2, <2>3, <2>4 DEF OnRect
  <2> QED BY <1>2, <2>5 DEF v
<1>6. Hull(D) = {p \in Int \X Int : \E o \in D : o[1] = p[1] /\ Across(o[2], p[2], s)}
  BY <1>1, <1>4, <1>5, HullLemma DEF D
<1>7. ASSUME NEW p \in Hull(D) PROVE p \in F
  <2>1. PICK o \in D : o[1] = p[1] /\ Across(o[2], p[2], s)
    BY <1>6
  <2>2. /\ p \in Int \X Int /\ p[1] \in Int /\ p[2] \in Int
        /\ o[1] \in Int /\ o[2] \in Int /\ OnRect(o, x, y, w, h)
    BY <1>2, <1>4, <1>6
  <2>3. y <= o[2] /\ o[2] < y + h /\ x <= o[1] /\ o[1] < x + w
    BY <1>1, <2>2 DEF OnRect
  <2>4. y <= p[2] /\ p[2] < y + h
    BY <1>1, <2>1, <2>2, <2>3 DEF Across, s
  <2> QED BY <1>3, <2>1, <2>2, <2>3, <2>4
<1>8. ASSUME NEW p \in F PROVE p \in Hull(D)
  <2>1. /\ p \in Int \X Int /\ p[1] \in Int /\ p[2] \in Int
        /\ x <= p[1] /\ p[1] < x + w /\ y <= p[2] /\ p[2] < y + h
    BY <1>3
  <2> DEFINE o == <<p[1], y>>
  <2>2. o \in Int \X Int /\ o[1] = p[1] /\ o[2] = y
    BY <2>1
  <2> HIDE DEF o
  <2>3. o \in D
    BY <1>2, <2>1, <2>2 DEF OnRect
  <2>4. Across(o[2], p[2], s)
    BY <1>1, <2>1, <2>2 DEF Across, s
  <2> QED BY <1>6, <2>1, <2>2, <2>3, <2>4
<1>9. Hull(D) = F
  BY <1>7, <1>8
<1> QED BY <1>9 DEF D, F

\* The same of a rectangle with round corners: the columns of the corners are those of
\* the quarter, and the leftmost and rightmost are in them.
LEMMA BoxHullLemma ==
    ASSUME NEW x \in Int, NEW y \in Int, NEW w \in Nat, NEW h \in Nat, NEW r \in Nat,
           2 * r < w, 2 * r < h, IsFiniteSet(drawRoundRect(x, y, w, h, r))
    PROVE  Hull(drawRoundRect(x, y, w, h, r)) = fillRoundRect(x, y, w, h, r)
<1> DEFINE D == drawRoundRect(x, y, w, h, r)
           F == fillRoundRect(x, y, w, h, r)
           W == BothWays(Arc(r))
           s == 2 * y + h - 1
           xl == x + r
           xr == x + w - r - 1
           yt == y + r
           yb == y + h - r - 1
<1>1. /\ s \in Int /\ s - y = y + h - 1 /\ xl \in Int /\ xr \in Int /\ yt \in Int /\ yb \in Int
      /\ s - yt = yb /\ yt <= yb /\ xl <= xr
  OBVIOUS
<1>2. \A q \in W : q[1] \in Nat /\ q[2] \in Nat /\ q[1] \in Int /\ q[2] \in Int
  BY QuarterLemma
<1>3. ASSUME r # 0 PROVE \E q \in W : q[1] = r
  <2>1. r \in 1..r
    BY <1>3
  <2> QED BY <2>1, QuarterLemma
<1>4. ASSUME NEW p
      PROVE  p \in D <=>
                /\ p \in Int \X Int
                /\ \/ xl <= p[1] /\ p[1] <= xr /\ p[2] \in {y, s - y}
                   \/ yt <= p[2] /\ p[2] <= yb /\ p[1] \in {x, x + w - 1}
                   \/ \E q \in W : Cornered(p, q, xl, xr, yt, yb)
  <2>1. p \in D <=> OnBox(p, x, y, w, h, r)
    BY BoxLemma
  <2>2. p \in Int \X Int => /\ p[1] < x + w - r <=> p[1] <= xr
                            /\ p[2] < y + h - r <=> p[2] <= yb
    OBVIOUS
  <2> HIDE DEF D, W
  <2>3. OnBox(p, x, y, w, h, r) <=>
           /\ p \in Int \X Int
           /\ \/ xl <= p[1] /\ p[1] < x + w - r /\ p[2] \in {y, y + h - 1}
              \/ yt <= p[2] /\ p[2] < y + h - r /\ p[1] \in {x, x + w - 1}
              \/ \E q \in W : Cornered(p, q, xl, xr, yt, yb)
    BY DEF OnBox, W
  <2> HIDE DEF xl, xr, yt, yb, s
  <2> QED BY <1>1, <2>1, <2>2, <2>3
<1>5. ASSUME NEW p
      PROVE  p \in F <=>
                /\ p \in Int \X Int
                /\ \/ xl <= p[1] /\ p[1] <= xr /\ y <= p[2] /\ p[2] <= s - y
                   \/ \E q \in W : /\ p[1] \in {xl - q[1], xr + q[1]}
                                   /\ yt - q[2] <= p[2] /\ p[2] <= yb + q[2]
  <2>1. p \in F <=> InBox(p, x, y, w, h, r)
    BY FillBoxLemma
  <2>2. p \in Int \X Int => /\ p[1] < x + w - r <=> p[1] <= xr
                            /\ p[2] < y + h <=> p[2] <= s - y
    OBVIOUS
  <2> HIDE DEF F
  <2>3. InBox(p, x, y, w, h, r) <=>
           /\ p \in Int \X Int
           /\ \/ x + r <= p[1] /\ p[1] < x + w - r /\ y <= p[2] /\ p[2] < y + h
              \/ \E q \in W : /\ p[1] \in {x + r - q[1], x + w - r - 1 + q[1]}
                              /\ y + r - q[2] <= p[2] /\ p[2] <= y + h - r - 1 + q[2]
    BY DEF InBox
  <2>4. xl = x + r /\ xr = x + w - r - 1 /\ yt = y + r /\ yb = y + h - r - 1
    OBVIOUS
  <2> HIDE DEF xl, xr, yt, yb, s, W
  <2>5. \A q \in W : /\ xl - q[1] = x + r - q[1] /\ xr + q[1] = x + w - r - 1 + q[1]
                     /\ yt - q[2] = y + r - q[2] /\ yb + q[2] = y + h - r - 1 + q[2]
    BY <1>2, <2>4
  <2> QED BY <2>1, <2>2, <2>3, <2>4, <2>5
<1>6. /\ r = 0 => xl = x /\ xr = x + w - 1 /\ yt = y /\ yb = s - y
      /\ xl - r = x /\ xr + r = x + w - 1
  OBVIOUS
<1>7. s - yb = yt /\ y <= s - y /\ s - (s - y) = y /\ x + w - 1 \in Int
  OBVIOUS
<1> HIDE DEF D, F, W, s, xl, xr, yt, yb
<1>8. D \subseteq Int \X Int
  BY <1>4
<1>9. ASSUME NEW o \in D PROVE <<o[1], s - o[2]>> \in D
  <2> DEFINE v == <<o[1], s - o[2]>>
  <2>1. o[1] \in Int /\ o[2] \in Int
    BY <1>8
  <2>2. v \in Int \X Int /\ v[1] = o[1] /\ v[2] = s - o[2]
    BY <1>1, <2>1
  <2> HIDE DEF v
  <2>3. o[2] \in {y, s - y} => v[2] \in {y, s - y}
    BY <1>7, <2>1, <2>2
  <2>4. yt <= o[2] /\ o[2] <= yb => yt <= v[2] /\ v[2] <= yb
    BY <1>1, <1>7, <2>1, <2>2
  <2>5. ASSUME NEW q \in W, Cornered(o, q, xl, xr, yt, yb)
        PROVE  Cornered(v, q, xl, xr, yt, yb)
    <3>1. q[2] \in Int
      BY <1>2
    <3>2. o[2] = yt - q[2] => v[2] = yb + q[2]
      BY <1>1, <2>1, <2>2, <3>1
    <3>3. o[2] = yb + q[2] => v[2] = yt - q[2]
      BY <1>1, <1>7, <2>1, <2>2, <3>1
    <3> QED BY <2>2, <2>5, <3>2, <3>3 DEF Cornered
  <2>6. v \in D
    BY <1>4, <2>2, <2>3, <2>4, <2>5
  <2> QED BY <2>6 DEF v
<1>10. Hull(D) = {p \in Int \X Int : \E o \in D : o[1] = p[1] /\ Across(o[2], p[2], s)}
  BY <1>1, <1>8, <1>9, HullLemma DEF D
<1>11. ASSUME NEW p \in Hull(D) PROVE p \in F
  <2>1. PICK o \in D : o[1] = p[1] /\ Across(o[2], p[2], s)
    BY <1>10
  <2>2. p \in Int \X Int /\ p[1] \in Int /\ p[2] \in Int /\ o[2] \in Int
    BY <1>8, <1>10
  <2>3. CASE xl <= o[1] /\ o[1] <= xr /\ o[2] \in {y, s - y}
    <3>1. y <= p[2] /\ p[2] <= s - y
      BY <1>1, <1>7, <2>1, <2>2, <2>3 DEF Across
    <3> QED BY <1>5, <2>1, <2>2, <2>3, <3>1
  <2>4. CASE yt <= o[2] /\ o[2] <= yb /\ o[1] \in {x, x + w - 1}
    <3>1. yt <= p[2] /\ p[2] <= yb
      BY <1>1, <1>7, <2>1, <2>2, <2>4 DEF Across
    <3>2. CASE r = 0
      <4>1. p[1] \in {xl, xr}
        BY <1>6, <2>1, <2>4, <3>2
      <4>2. xl <= p[1] /\ p[1] <= xr /\ y <= p[2] /\ p[2] <= s - y
        BY <1>1, <1>6, <2>2, <3>1, <3>2, <4>1
      <4> QED BY <1>5, <2>2, <4>2
    <3>3. CASE r # 0
      <4>1. PICK q \in W : q[1] = r
        BY <1>3, <3>3
      <4>2. p[1] \in {xl - q[1], xr + q[1]}
        BY <1>6, <2>1, <2>4, <4>1
      <4>3. yt - q[2] <= p[2] /\ p[2] <= yb + q[2]
        BY <1>1, <1>2, <2>2, <3>1
      <4> QED BY <1>5, <2>2, <4>2, <4>3
    <3> QED BY <3>2, <3>3
  <2>5. ASSUME NEW q \in W, Cornered(o, q, xl, xr, yt, yb) PROVE p \in F
    <3>1. q[2] \in Int /\ q[2] >= 0
      BY <1>2
    <3>2. p[1] \in {xl - q[1], xr + q[1]} /\ o[2] \in {yt - q[2], yb + q[2]}
      BY <2>1, <2>5 DEF Cornered
    <3>3. s - (yt - q[2]) = yb + q[2] /\ s - (yb + q[2]) = yt - q[2] /\ yt - q[2] <= yb + q[2]
          /\ yt - q[2] \in Int /\ yb + q[2] \in Int
      BY <1>1, <1>7, <3>1
    <3>4. yt - q[2] <= p[2] /\ p[2] <= yb + q[2]
      BY <2>1, <2>2, <3>2, <3>3 DEF Across
    <3> QED BY <1>5, <2>2, <3>2, <3>4
  <2> QED BY <1>4, <2>3, <2>4, <2>5
<1>12. ASSUME NEW p \in F PROVE p \in Hull(D)
  <2>1. p \in Int \X Int /\ p[1] \in Int /\ p[2] \in Int
    BY <1>5
  <2>2. CASE xl <= p[1] /\ p[1] <= xr /\ y <= p[2] /\ p[2] <= s - y
    <3> DEFINE o == <<p[1], y>>
    <3>1. o \in Int \X Int /\ o[1] = p[1] /\ o[2] = y
      BY <2>1
    <3> HIDE DEF o
    <3>2. o \in D
      BY <1>4, <2>2, <3>1
    <3>3. Across(o[2], p[2], s)
      BY <2>2, <3>1 DEF Across
    <3> QED BY <1>10, <2>1, <3>1, <3>2, <3>3
  <2>3. ASSUME NEW q \in W, p[1] \in {xl - q[1], xr + q[1]}, yt - q[2] <= p[2], p[2] <= yb + q[2]
        PROVE  p \in Hull(D)
    <3> DEFINE o == <<p[1], yt - q[2]>>
    <3>1. yt - q[2] \in Int /\ s - (yt - q[2]) = yb + q[2]
      BY <1>1, <1>2
    <3>2. o \in Int \X Int /\ o[1] = p[1] /\ o[2] = yt - q[2]
      BY <2>1, <3>1
    <3> HIDE DEF o
    <3>3. Cornered(o, q, xl, xr, yt, yb)
      BY <2>3, <3>2 DEF Cornered
    <3>4. o \in D
      BY <1>4, <3>2, <3>3
    <3>5. Across(o[2], p[2], s)
      BY <2>3, <3>1, <3>2 DEF Across
    <3> QED BY <1>10, <2>1, <3>2, <3>4, <3>5
  <2> QED BY <1>5, <2>2, <2>3
<1>13. Hull(D) = F
  BY <1>11, <1>12
<1> QED BY <1>13 DEF D, F

\* What is in the frame of a rectangle on the screen is on the screen.
LEMMA FrameLemma ==
    ASSUME NEW S, NEW x \in Columns, NEW y \in Rows, NEW w \in Nat, NEW h \in Nat,
           x + w - 1 \in Columns, y + h - 1 \in Rows,
           \A p \in S : /\ p \in Int \X Int /\ x <= p[1] /\ p[1] <= x + w - 1
                        /\ y <= p[2] /\ p[2] <= y + h - 1
    PROVE  S \subseteq Screen /\ IsFiniteSet(S)
<1>1. ASSUME NEW p \in S PROVE p \in Screen
  <2>1. p[1] \in Int /\ p[2] \in Int /\ x \in Int /\ y \in Int
    BY OnScreenLemma
  <2>2. p[1] \in Columns /\ p[2] \in Rows
    BY <2>1, ScreenAssumption DEF Columns, Rows
  <2> QED BY <2>2 DEF Screen
<1>2. S \subseteq Screen
  BY <1>1
<1> QED BY <1>2, ScreenIsFinite, FS_Subset

\* The outlined rectangle, the box and the filled box are in their frames.
LEMMA InFrameLemma ==
    ASSUME NEW x \in Int, NEW y \in Int, NEW w \in Nat \ {0}, NEW h \in Nat \ {0}, NEW r \in Nat,
           2 * r < w, 2 * r < h, NEW p,
           \/ p \in drawRect(x, y, w, h)
           \/ p \in drawRoundRect(x, y, w, h, r)
           \/ p \in fillRoundRect(x, y, w, h, r)
    PROVE  /\ p \in Int \X Int /\ x <= p[1] /\ p[1] <= x + w - 1
           /\ y <= p[2] /\ p[2] <= y + h - 1
<1>1. w \in Nat /\ h \in Nat /\ w >= 1 /\ h >= 1
  OBVIOUS
<1>2. \A q \in BothWays(Arc(r)) : /\ q[1] \in Int /\ q[2] \in Int
                                  /\ 0 <= q[1] /\ q[1] <= r /\ 0 <= q[2] /\ q[2] <= r
  BY QuarterLemma
<1>3. CASE OnRect(p, x, y, w, h)
  <2>1. p[1] \in Int /\ p[2] \in Int
    BY <1>3 DEF OnRect
  <2> QED BY <1>1, <1>3, <2>1 DEF OnRect
<1>4. CASE OnBox(p, x, y, w, h, r)
  <2>1. p \in Int \X Int /\ p[1] \in Int /\ p[2] \in Int
    BY <1>4 DEF OnBox
  <2>2. ASSUME NEW q \in BothWays(Arc(r)),
               Cornered(p, q, x + r, x + w - r - 1, y + r, y + h - r - 1)
        PROVE  x <= p[1] /\ p[1] <= x + w - 1 /\ y <= p[2] /\ p[2] <= y + h - 1
    BY <1>1, <1>2, <2>1, <2>2 DEF Cornered
  <2> QED BY <1>1, <1>4, <2>1, <2>2 DEF OnBox
<1>5. CASE InBox(p, x, y, w, h, r)
  <2>1. p \in Int \X Int /\ p[1] \in Int /\ p[2] \in Int
    BY <1>5 DEF InBox
  <2>2. ASSUME NEW q \in BothWays(Arc(r)), p[1] \in {x + r - q[1], x + w - r - 1 + q[1]},
               y + r - q[2] <= p[2], p[2] <= y + h - r - 1 + q[2]
        PROVE  x <= p[1] /\ p[1] <= x + w - 1 /\ y <= p[2] /\ p[2] <= y + h - 1
    BY <1>1, <1>2, <2>1, <2>2
  <2> QED BY <1>1, <1>5, <2>1, <2>2 DEF InBox
<1> QED BY <1>1, <1>3, <1>4, <1>5, RectLemma, BoxLemma, FillBoxLemma

\* The drawn rectangle, plain or with round corners.
LEMMA DrawnFrameLemma ==
    ASSUME DrawnInv, drawn.kind \in {"rect", "box", "filled_box"}
    PROVE  /\ drawn \in Menu /\ vga = Paint(Blank, Pixels(drawn), drawn.c)
           /\ drawn.x \in Columns /\ drawn.x \in Int /\ drawn.y \in Rows /\ drawn.y \in Int
           /\ drawn.w \in Nat \ {0} /\ drawn.x + drawn.w - 1 \in Columns
           /\ drawn.h \in Nat \ {0} /\ drawn.y + drawn.h - 1 \in Rows
           /\ drawn.w \in Nat /\ drawn.h \in Nat
<1>1. drawn \in Menu /\ vga = Paint(Blank, Pixels(drawn), drawn.c)
  BY DEF DrawnInv, Nothing, Texts
<1>2. /\ drawn.x \in Columns /\ drawn.y \in Rows
      /\ drawn.w \in Nat \ {0} /\ drawn.x + drawn.w - 1 \in Columns
      /\ drawn.h \in Nat \ {0} /\ drawn.y + drawn.h - 1 \in Rows
  BY <1>1, MenuLemma
<1> QED BY <1>1, <1>2, OnScreenLemma

LEMMA RectInkedLemma ==
    ASSUME DrawnInv, drawn.kind = "rect"
    PROVE  Hull(Inked) = fillRect(drawn.x, drawn.y, drawn.w, drawn.h)
<1> DEFINE x == drawn.x
           y == drawn.y
           w == drawn.w
           h == drawn.h
           D == drawRect(x, y, w, h)
<1>1. /\ drawn \in Menu /\ vga = Paint(Blank, Pixels(drawn), drawn.c)
      /\ x \in Columns /\ x \in Int /\ y \in Rows /\ y \in Int
      /\ w \in Nat \ {0} /\ x + w - 1 \in Columns /\ h \in Nat \ {0} /\ y + h - 1 \in Rows
      /\ w \in Nat /\ h \in Nat
  BY DrawnFrameLemma
<1>2. Pixels(drawn) = D
  BY DEF Pixels
<1> HIDE DEF x, y, w, h
<1>3. \A p \in D : /\ p \in Int \X Int /\ x <= p[1] /\ p[1] <= x + w - 1
                   /\ y <= p[2] /\ p[2] <= y + h - 1
  <2>1. 2 * 0 < w /\ 2 * 0 < h
    BY <1>1
  <2> QED BY <1>1, <2>1, InFrameLemma
<1>4. D \subseteq Screen /\ IsFiniteSet(D)
  <2> HIDE DEF D
  <2> QED BY <1>1, <1>3, FrameLemma
<1>5. Inked = D
  <2> HIDE DEF D
  <2> QED BY <1>1, <1>2, <1>4, InkedLemma
<1>6. Hull(D) = fillRect(x, y, w, h)
  BY <1>1, <1>4, RectHullLemma
<1> QED BY <1>5, <1>6 DEF x, y, w, h

LEMMA BoxInkedLemma ==
    ASSUME DrawnInv, drawn.kind \in {"box", "filled_box"}
    PROVE  /\ drawn.kind = "filled_box" => Inked = Hull(Outline(drawn))
           /\ drawn.kind = "box" => Hull(Inked) = Pixels([drawn EXCEPT !.kind = "filled_box"])
<1> DEFINE x == drawn.x
           y == drawn.y
           w == drawn.w
           h == drawn.h
           r == drawn.r
           D == drawRoundRect(x, y, w, h, r)
           F == fillRoundRect(x, y, w, h, r)
<1>1. /\ drawn \in Menu /\ vga = Paint(Blank, Pixels(drawn), drawn.c)
      /\ x \in Columns /\ x \in Int /\ y \in Rows /\ y \in Int
      /\ w \in Nat \ {0} /\ x + w - 1 \in Columns /\ h \in Nat \ {0} /\ y + h - 1 \in Rows
      /\ w \in Nat /\ h \in Nat
  BY DrawnFrameLemma
<1>2. drawn \in BoxShapes /\ r \in Nat /\ 2 * r < w /\ 2 * r < h
  BY <1>1, MenuLemma
<1>3. /\ drawn.kind = "box" => Pixels(drawn) = D
      /\ drawn.kind = "filled_box" => Pixels(drawn) = F
  BY DEF Pixels
<1>4. Pixels([drawn EXCEPT !.kind = "filled_box"]) = F
  <2> DEFINE e == [drawn EXCEPT !.kind = "filled_box"]
  <2>1. e.kind = "filled_box" /\ e.x = x /\ e.y = y /\ e.w = w /\ e.h = h /\ e.r = r
    BY <1>2 DEF BoxShapes
  <2> HIDE DEF e, x, y, w, h, r
  <2>2. Pixels(e) = F
    BY <2>1 DEF Pixels
  <2> QED BY <2>2 DEF e
<1>5. drawn.kind = "filled_box" => Outline(drawn) = D
  <2> SUFFICES ASSUME drawn.kind = "filled_box" PROVE Outline(drawn) = D
    OBVIOUS
  <2> DEFINE e == [drawn EXCEPT !.kind = IF @ = "disc" THEN "circle" ELSE "box"]
  <2>1. e.kind = "box" /\ e.x = x /\ e.y = y /\ e.w = w /\ e.h = h /\ e.r = r
    BY <1>2 DEF BoxShapes
  <2>2. Outline(drawn) = Pixels(e)
    BY DEF Outline
  <2> HIDE DEF e, x, y, w, h, r
  <2> QED BY <2>1, <2>2 DEF Pixels
<1> HIDE DEF x, y, w, h, r
<1>6. \A p : p \in D \/ p \in F => /\ p \in Int \X Int /\ x <= p[1] /\ p[1] <= x + w - 1
                                   /\ y <= p[2] /\ p[2] <= y + h - 1
  BY <1>1, <1>2, InFrameLemma
<1>7. D \subseteq Screen /\ IsFiniteSet(D) /\ F \subseteq Screen /\ IsFiniteSet(F)
  <2> HIDE DEF D, F
  <2> QED BY <1>1, <1>6, FrameLemma
<1>8. Hull(D) = F
  BY <1>1, <1>2, <1>7, BoxHullLemma
<1> HIDE DEF D, F
<1>9. drawn.kind = "box" => Inked = D
  BY <1>1, <1>3, <1>7, InkedLemma
<1>10. drawn.kind = "filled_box" => Inked = F
  BY <1>1, <1>3, <1>7, InkedLemma
<1> QED BY <1>4, <1>5, <1>8, <1>9, <1>10

LEMMA FillMeetsOutlineLemma == DrawnInv => FillMeetsOutline
BY DiscInkedLemma, RectInkedLemma, BoxInkedLemma DEF FillMeetsOutline

\* On a screen of any size, the disc and the filled box of any size and radius are
\* their outlines with exactly what lies between: the loops that fill and those that
\* draw the outline meet without a gap, and so do the rectangle's.
THEOREM FillTheorem == TextSpec => []FillMeetsOutline
BY FillMeetsOutlineLemma, DrawnLemma, PTL
-----------------------------------------------------------------------------
(* Text.                                                                     *)

\* The quotient is the number of times the divisor goes into a number.
LEMMA QuotientLemma ==
    ASSUME NEW n \in Int, NEW d \in Nat \ {0}
    PROVE  /\ n \div d \in Int /\ n % d \in 0..(d - 1) /\ n = d * (n \div d) + (n % d)
           /\ \A m \in Int : n \div d = m <=> d * m <= n /\ n < d * m + d
           /\ \A m \in Int : m <= n \div d <=> d * m <= n
<1> DEFINE e == n \div d
           f == n % d
<1>1. e \in Int /\ f \in 0..(d - 1) /\ n = d * e + f
  OBVIOUS
<1> HIDE DEF e, f
<1>2. ASSUME NEW m \in Int, m < e PROVE d * m + d <= d * e
  <2>1. PICK j \in Nat : e = m + 1 + j
    <3>1. e - m - 1 \in Nat /\ e = m + 1 + (e - m - 1)
      BY <1>1, <1>2
    <3> QED BY <3>1
  <2>2. d * j \in Nat /\ d * (m + 1 + j) = d * m + d + d * j
    OBVIOUS
  <2> QED BY <2>1, <2>2
<1>3. ASSUME NEW m \in Int, m > e PROVE d * e + d <= d * m
  <2>1. PICK j \in Nat : m = e + 1 + j
    <3>1. m - e - 1 \in Nat /\ m = e + 1 + (m - e - 1)
      BY <1>1, <1>3
    <3> QED BY <3>1
  <2>2. d * j \in Nat /\ d * (e + 1 + j) = d * e + d + d * j /\ d * e \in Int
    BY <1>1
  <2>3. d * m = d * e + d + d * j
    BY <2>1, <2>2
  <2> QED BY <2>2, <2>3
<1>4. \A m \in Int : d * m \in Int
  OBVIOUS
<1>5. d * e <= n /\ n < d * e + d
  BY <1>1, <1>4
<1>6. ASSUME NEW m \in Int
      PROVE  /\ e = m <=> d * m <= n /\ n < d * m + d
             /\ m <= e <=> d * m <= n
  <2>1. d * m \in Int /\ d * e \in Int
    BY <1>1, <1>4
  <2>2. CASE m < e
    BY <1>1, <1>2, <1>5, <2>1, <2>2
  <2>3. CASE m > e
    BY <1>1, <1>3, <1>5, <2>1, <2>3
  <2>4. CASE m = e
    BY <1>1, <1>5, <2>4
  <2> QED BY <1>1, <2>2, <2>3, <2>4
<1> QED BY <1>1, <1>6 DEF e, f

\* The next remainder.
LEMMA RemainderLemma ==
    ASSUME NEW n \in Nat, NEW d \in Nat \ {0}
    PROVE  /\ n % d \in 0..(d - 1) /\ 0 % d = 0
           /\ (n + 1) % d = IF (n % d) + 1 = d THEN 0 ELSE (n % d) + 1
<1> DEFINE e == n \div d
           f == n % d
           g == (n + 1) \div d
           k == (n + 1) % d
<1>1. e \in Int /\ f \in 0..(d - 1) /\ n = d * e + f
  BY QuotientLemma
<1>2. /\ g \in Int /\ k \in 0..(d - 1) /\ n + 1 = d * g + k
      /\ \A m \in Int : g = m <=> d * m <= n + 1 /\ n + 1 < d * m + d
  <2>1. n + 1 \in Int
    OBVIOUS
  <2> QED BY <2>1, QuotientLemma
<1>3. 0 % d = 0
  <2>1. /\ 0 = d * (0 \div d) + (0 % d)
        /\ 0 \div d = 0 <=> d * 0 <= 0 /\ 0 < d * 0 + d
    BY QuotientLemma
  <2>2. d * 0 = 0 /\ d > 0 /\ 0 % d \in Int
    OBVIOUS
  <2> QED BY <2>1, <2>2
<1> HIDE DEF e, f, g, k
<1>4. d * e \in Int /\ d * (e + 1) = d * e + d
  BY <1>1
<1>5. CASE f + 1 = d
  <2>1. g = e + 1
    BY <1>1, <1>2, <1>4, <1>5
  <2>2. k = 0
    BY <1>1, <1>2, <1>4, <1>5, <2>1
  <2> QED BY <1>1, <1>3, <1>5, <2>2 DEF f, k
<1>6. CASE f + 1 # d
  <2>1. g = e
    BY <1>1, <1>2, <1>4, <1>6
  <2>2. k = f + 1
    BY <1>1, <1>2, <1>4, <2>1
  <2> QED BY <1>1, <1>3, <1>6, <2>2 DEF f, k
<1> QED BY <1>5, <1>6

\* A line from column x on has room for n > 1 characters if they end on the screen.
LEMMA RoomLemma ==
    ASSUME NEW t \in Texts, NEW x \in Nat
    PROVE  /\ Room(t, x) \in Nat \ {0}
           /\ \A n \in Nat : n > 1 => (n <= Room(t, x) <=> x + 6 * t.size * n <= Width)
<1> DEFINE s == 6 * t.size
           a == (Width - x) \div s
           S == {1, a}
<1>1. s \in Nat \ {0} /\ Width - x \in Int /\ Width \in Nat
  BY ScreenAssumption DEF Texts
<1>2. a \in Int /\ \A n \in Int : n <= a <=> s * n <= Width - x
  <2> HIDE DEF s
  <2> QED BY <1>1, QuotientLemma
<1>3. Room(t, x) = Max(S)
  BY DEF Room
<1> HIDE DEF a, s
<1>4. IsFiniteSet(S) /\ S \subseteq Int /\ S # {}
  <2>1. IsFiniteSet({1} \union {a})
    <3>1. IsFiniteSet({1})
      BY FS_Singleton
    <3> QED BY <3>1, FS_AddElement
  <2>2. S = {1} \union {a}
    OBVIOUS
  <2> QED BY <1>2, <2>1, <2>2
<1>5. Max(S) \in S /\ \A y \in S : y <= Max(S)
  <2> HIDE DEF S
  <2> QED BY <1>4, ExtremesLemma
<1>6. Max(S) \in Nat \ {0} /\ \A n \in Nat : n > 1 => (n <= Max(S) <=> n <= a)
  BY <1>2, <1>5
<1>7. \A n \in Nat : s * n <= Width - x <=> x + s * n <= Width
  <2>1. \A n \in Nat : s * n \in Int
    BY <1>1
  <2> QED BY <1>1, <2>1
<1>8. \A n \in Nat : n > 1 => (n <= Room(t, x) <=> x + s * n <= Width)
  <2> SUFFICES ASSUME NEW n \in Nat, n > 1
               PROVE  n <= Room(t, x) <=> x + s * n <= Width
    OBVIOUS
  <2>1. n <= Room(t, x) <=> n <= a
    BY <1>3, <1>6
  <2>2. n <= a <=> s * n <= Width - x
    BY <1>2
  <2> QED BY <1>7, <2>1, <2>2
<1> QED BY <1>3, <1>6, <1>8 DEF s

\* The column of the character after b others in a line that begins in column from,
\* and whether it is the last of its row.
LineColumn(t, from, b) ==
    IF t.wrap /\ b - Room(t, from) >= 0
    THEN 6 * t.size * ((b - Room(t, from)) % Room(t, 0))
    ELSE from + 6 * t.size * b

RowIsFull(t, from, b) ==
    t.wrap /\ b - Room(t, from) + 1 >= 0 /\ (b - Room(t, from) + 1) % Room(t, 0) = 0

\* tft_write breaks the line where it is full.
LEMMA WrapLemma ==
    ASSUME NEW t \in Texts, NEW from \in Nat, NEW b \in Nat
    PROVE  /\ LineColumn(t, from, b) \in Nat /\ LineColumn(t, from, 0) = from
           /\ LineIsFull(LineColumn(t, from, b) + 6 * t.size, t) <=> RowIsFull(t, from, b)
           /\ LineColumn(t, from, b + 1) = IF RowIsFull(t, from, b) THEN 0
                                           ELSE LineColumn(t, from, b) + 6 * t.size
<1> DEFINE s == 6 * t.size
           R == Room(t, from)
           P == Room(t, 0)
           c == LineColumn(t, from, b)
           e == b + 1
           d == LineColumn(t, from, e)
           Full == RowIsFull(t, from, b)
           x == from + s * b
<1>1. s \in Nat \ {0} /\ Width \in Nat /\ t.wrap \in BOOLEAN
  BY ScreenAssumption DEF Texts
<1> HIDE DEF e
<1>2. /\ R \in Nat \ {0} /\ \A n \in Nat : n > 1 => (n <= R <=> from + s * n <= Width)
      /\ P \in Nat \ {0} /\ \A n \in Nat : n > 1 => (n <= P <=> s * n <= Width)
  <2>1. 0 \in Nat /\ \A n \in Nat : 0 + s * n = s * n
    BY <1>1
  <2> QED BY <2>1, RoomLemma
<1>3. /\ c = IF t.wrap /\ b - R >= 0 THEN s * ((b - R) % P) ELSE x
      /\ d = IF t.wrap /\ e - R >= 0 THEN s * ((e - R) % P) ELSE from + s * e
      /\ LineColumn(t, from, 0) = IF t.wrap /\ 0 - R >= 0 THEN s * ((0 - R) % P) ELSE from + s * 0
      /\ Full <=> t.wrap /\ b - R + 1 >= 0 /\ (b - R + 1) % P = 0
      /\ LineIsFull(c + s, t) <=> t.wrap /\ c + s > Width - s
  <2>1. c = IF t.wrap /\ b - R >= 0 THEN s * ((b - R) % P) ELSE x
    BY DEF LineColumn
  <2>2. d = IF t.wrap /\ e - R >= 0 THEN s * ((e - R) % P) ELSE from + s * e
    BY DEF LineColumn
  <2>3. LineColumn(t, from, 0) = IF t.wrap /\ 0 - R >= 0 THEN s * ((0 - R) % P) ELSE from + s * 0
    BY DEF LineColumn
  <2>4. Full <=> t.wrap /\ b - R + 1 >= 0 /\ (b - R + 1) % P = 0
    BY DEF RowIsFull
  <2>5. LineIsFull(c + s, t) <=> t.wrap /\ c + s > Width - s
    <3> HIDE DEF c
    <3> QED BY DEF LineIsFull
  <2> QED BY <2>1, <2>2, <2>3, <2>4, <2>5
<1>4. e - R = b - R + 1 /\ b - R \in Int
  BY <1>2 DEF e
<1> HIDE DEF s, R, P, c, d, Full, x
<1>5. \A n \in Nat : s * n \in Nat /\ s * (n + 1) = s * n + s /\ s * (n + 2) = s * n + 2 * s
  BY <1>1
<1>6. /\ x \in Nat /\ from + s * e = x + s /\ from + s * (b + 2) = x + 2 * s
      /\ from + s * 0 = from /\ s * 0 = 0
  <2>1. s * b \in Nat /\ s * (b + 1) = s * b + s /\ s * (b + 2) = s * b + 2 * s
    BY <1>5
  <2>2. s * 0 = 0
    BY <1>1
  <2> QED BY <1>1, <2>1, <2>2 DEF x, e
<1>7. LineColumn(t, from, 0) = from
  BY <1>2, <1>3, <1>6
<1>8. CASE ~t.wrap
  <2>1. c = x /\ d = x + s /\ ~Full /\ ~LineIsFull(c + s, t)
    BY <1>3, <1>6, <1>8
  <2> QED BY <1>6, <1>7, <2>1 DEF s, c, d, e, Full
<1>9. CASE t.wrap /\ b + 1 < R
  <2>1. ~(b - R >= 0) /\ ~(b - R + 1 >= 0)
    BY <1>2, <1>9
  <2>2. c = x /\ d = x + s /\ ~Full
    BY <1>3, <1>4, <1>6, <2>1
  <2>3. b + 2 \in Nat /\ b + 2 > 1 /\ b + 2 <= R
    BY <1>2, <1>9
  <2>4. x + 2 * s <= Width
    BY <1>2, <1>6, <2>3
  <2>5. ~LineIsFull(c + s, t)
    BY <1>1, <1>3, <1>6, <2>2, <2>4
  <2> QED BY <1>6, <1>7, <2>2, <2>5 DEF s, c, d, e, Full
<1>10. CASE t.wrap /\ b + 1 = R
  <2>1. ~(b - R >= 0) /\ b - R + 1 = 0
    BY <1>2, <1>10
  <2>2. 0 % P = 0
    BY <1>2, RemainderLemma
  <2>3. c = x /\ d = 0 /\ Full
    BY <1>3, <1>4, <1>6, <1>10, <2>1, <2>2
  <2>4. b + 2 \in Nat /\ b + 2 > 1 /\ ~(b + 2 <= R)
    BY <1>2, <1>10
  <2>5. ~(x + 2 * s <= Width)
    BY <1>2, <1>6, <2>4
  <2>6. LineIsFull(c + s, t)
    BY <1>1, <1>3, <1>6, <1>10, <2>3, <2>5
  <2> QED BY <1>6, <1>7, <2>3, <2>6 DEF s, c, d, e, Full
<1>11. CASE t.wrap /\ b >= R
  <2> DEFINE n == b - R
             m == n % P
             k == (n + 1) % P
  <2>1. n \in Nat /\ n >= 0 /\ n + 1 >= 0
    BY <1>2, <1>11
  <2>2. c = s * m /\ d = s * k /\ (Full <=> k = 0)
    BY <1>3, <1>4, <1>11, <2>1
  <2>3. m \in 0..(P - 1) /\ k = IF m + 1 = P THEN 0 ELSE m + 1
    <3> HIDE DEF n
    <3> QED BY <1>2, <2>1, RemainderLemma
  <2> HIDE DEF n, m, k
  <2>4. m \in Nat /\ m + 2 > 1 /\ m + 2 \in Nat
    BY <1>2, <2>3
  <2>5. s * m \in Nat /\ s * (m + 1) = s * m + s /\ s * (m + 2) = s * m + 2 * s
    BY <1>5, <2>4
  <2>6. m + 2 <= P <=> s * m + 2 * s <= Width
    BY <1>2, <2>4, <2>5
  <2>7. CASE m + 1 = P
    <3>1. ~(s * m + 2 * s <= Width)
      BY <1>2, <2>4, <2>6, <2>7
    <3>2. LineIsFull(c + s, t)
      BY <1>1, <1>3, <1>11, <2>2, <2>5, <3>1
    <3>3. Full /\ d = 0
      BY <1>6, <2>2, <2>3, <2>7
    <3> QED BY <1>7, <2>2, <2>5, <3>2, <3>3 DEF s, c, d, e, Full
  <2>8. CASE m + 1 # P
    <3>1. s * m + 2 * s <= Width
      BY <1>2, <2>3, <2>4, <2>6, <2>8
    <3>2. ~LineIsFull(c + s, t)
      BY <1>1, <1>3, <2>2, <2>5, <3>1
    <3>3. ~Full /\ d = c + s
      BY <2>2, <2>3, <2>4, <2>5, <2>8
    <3> QED BY <1>7, <2>2, <2>5, <3>2, <3>3 DEF s, c, d, e, Full
  <2> QED BY <2>7, <2>8
<1>12. b + 1 < R \/ b + 1 = R \/ b >= R
  BY <1>2
<1> QED BY <1>1, <1>8, <1>9, <1>10, <1>11, <1>12

\* The characters a text may have.
Letters == DOMAIN Font \union {LF, CR, Tab}

LEMMA FeedLemma ==
    ASSUME NEW t \in Texts, NEW k \in 1..(Len(t.str) + 1)
    PROVE  /\ Feed(t, k) \in 0..(k - 1)
           /\ \A q \in 1..(k - 1) : t.str[q] = LF => q <= Feed(t, k)
           /\ Start(t, k) \in Nat
<1> DEFINE F == {q \in 1..(k - 1) : t.str[q] = LF}
           S == {0} \union F
<1>1. k \in Nat /\ k > 0 /\ t.x \in Nat
  BY DEF Texts
<1>2. F \subseteq 1..(k - 1) /\ IsFiniteSet(F)
  <2>1. 1 \in Int /\ k - 1 \in Int
    BY <1>1
  <2>2. IsFiniteSet(1..(k - 1))
    BY <2>1, FS_Interval
  <2>3. F \subseteq 1..(k - 1)
    OBVIOUS
  <2> HIDE DEF F
  <2> QED BY <2>2, <2>3, FS_Subset
<1>3. IsFiniteSet(S) /\ S \subseteq Int /\ S # {} /\ \A q \in S : q \in 0..(k - 1)
  <2>1. IsFiniteSet(F \union {0})
    BY <1>2, FS_AddElement
  <2>2. S = F \union {0}
    OBVIOUS
  <2> HIDE DEF F
  <2>3. \A q \in S : q \in 0..(k - 1)
    BY <1>1, <1>2
  <2>4. S \subseteq Int /\ S # {}
    BY <1>1, <1>2
  <2> HIDE DEF S
  <2> QED BY <2>1, <2>2, <2>3, <2>4
<1>4. Max(S) \in S /\ \A q \in S : q <= Max(S)
  <2> HIDE DEF S
  <2> QED BY <1>3, ExtremesLemma
<1>5. Feed(t, k) = Max(S)
  BY DEF Feed
<1>6. Start(t, k) \in Nat
  BY <1>1 DEF Start
<1>7. \A q \in 1..(k - 1) : t.str[q] = LF => q \in S
  OBVIOUS
<1> HIDE DEF S, F
<1> QED BY <1>3, <1>4, <1>5, <1>6, <1>7

\* Where a character is, by its line.
LEMMA ByLineLemma ==
    ASSUME NEW t \in Texts, NEW k \in 1..(Len(t.str) + 1)
    PROVE  /\ IsFiniteSet({q \in Printed(t) : q > Feed(t, k) /\ q < k}) /\ Before(t, k) \in Nat
           /\ Column(t, k) = LineColumn(t, Start(t, k), Before(t, k)) /\ Column(t, k) \in Nat
           /\ EndsLine(t, k) <=> \/ t.str[k] = LF
                                 \/ k \in Printed(t) /\ RowIsFull(t, Start(t, k), Before(t, k))
           /\ IsFiniteSet({q \in 1..(k - 1) : EndsLine(t, q)}) /\ Row(t, k) \in Nat
<1>1. IsFiniteSet({q \in Printed(t) : q > Feed(t, k) /\ q < k}) /\ Before(t, k) \in Nat
  <2> DEFINE S == {q \in Printed(t) : q > Feed(t, k) /\ q < k}
  <2>1. Len(t.str) \in Nat /\ DOMAIN t.str = 1..Len(t.str)
    BY DEF Texts
  <2>2. S \subseteq 1..Len(t.str)
    BY <2>1 DEF Printed
  <2> HIDE DEF S
  <2>3. IsFiniteSet(S) /\ Cardinality(S) \in Nat
    <3>1. IsFiniteSet(1..Len(t.str))
      BY <2>1, FS_Interval
    <3> QED BY <2>2, <3>1, FS_Subset, FS_CardinalityType
  <2> QED BY <2>3 DEF Before, S
<1>2. Column(t, k) = LineColumn(t, Start(t, k), Before(t, k))
  BY DEF Column, Over, LineColumn
<1>3. Column(t, k) \in Nat
  <2>1. Start(t, k) \in Nat
    BY FeedLemma
  <2> QED BY <1>1, <1>2, <2>1, WrapLemma
<1>4. EndsLine(t, k) <=> \/ t.str[k] = LF
                         \/ k \in Printed(t) /\ RowIsFull(t, Start(t, k), Before(t, k))
  BY DEF EndsLine, Over, RowIsFull
<1>5. IsFiniteSet({q \in 1..(k - 1) : EndsLine(t, q)}) /\ Row(t, k) \in Nat
  <2> DEFINE S == {q \in 1..(k - 1) : EndsLine(t, q)}
  <2>1. S \subseteq 1..(k - 1) /\ k - 1 \in Int
    BY DEF Texts
  <2>2. Row(t, k) = t.y + 8 * t.size * Cardinality(S)
    BY DEF Row
  <2> HIDE DEF S
  <2>3. IsFiniteSet(S) /\ Cardinality(S) \in Nat
    <3>1. IsFiniteSet(1..(k - 1))
      BY <2>1, FS_Interval
    <3> QED BY <2>1, <3>1, FS_Subset, FS_CardinalityType
  <2>4. t.y \in Nat /\ t.size \in Nat
    BY DEF Texts
  <2>5. 8 * t.size * Cardinality(S) \in Nat
    BY <2>3, <2>4
  <2> QED BY <2>2, <2>3, <2>4, <2>5 DEF S
<1> QED BY <1>1, <1>2, <1>3, <1>4, <1>5

\* One more character.
LEMMA AppendedLemma ==
    ASSUME NEW t \in Texts, NEW c \in Letters, NEW u, u = [t EXCEPT !.str = Append(@, c)]
    PROVE  /\ u \in Texts /\ u.kind = t.kind
           /\ u.x = t.x /\ u.y = t.y /\ u.size = t.size /\ u.wrap = t.wrap
           /\ u.c = t.c /\ u.bg = t.bg
           /\ Len(t.str) \in Nat /\ Len(u.str) = Len(t.str) + 1
           /\ DOMAIN t.str = 1..Len(t.str) /\ DOMAIN u.str = 1..(Len(t.str) + 1)
           /\ \A q \in 1..Len(t.str) : u.str[q] = t.str[q]
           /\ u.str[Len(t.str) + 1] = c
           /\ \A q \in 1..Len(t.str) : q \in Printed(u) <=> q \in Printed(t)
           /\ Len(t.str) + 1 \in Printed(u) <=> c \in DOMAIN Font
           /\ Printed(t) \subseteq 1..Len(t.str) /\ Printed(u) \subseteq 1..(Len(t.str) + 1)
<1> DEFINE s == t.str
           v == Append(s, c)
<1>1. s \in Seq(Letters) /\ v \in Seq(Letters)
  BY DEF Texts, Letters
<1>2. /\ u \in Texts /\ u.kind = t.kind /\ u.x = t.x /\ u.y = t.y /\ u.size = t.size
      /\ u.wrap = t.wrap /\ u.c = t.c /\ u.bg = t.bg /\ u.str = v
  BY <1>1 DEF Texts, Letters
<1>3. /\ Len(s) \in Nat /\ Len(v) = Len(s) + 1 /\ DOMAIN s = 1..Len(s)
      /\ DOMAIN v = 1..(Len(s) + 1)
      /\ \A q \in 1..Len(s) : v[q] = s[q]
      /\ v[Len(s) + 1] = c
  BY <1>1
<1>4. Printed(t) = {q \in DOMAIN s : s[q] \in DOMAIN Font}
  BY DEF Printed
<1>5. Printed(u) = {q \in DOMAIN v : v[q] \in DOMAIN Font}
  BY <1>2 DEF Printed
<1> HIDE DEF v
<1>6. \A q \in 1..Len(s) : q \in 1..(Len(s) + 1)
  BY <1>3
<1>7. Len(s) + 1 \in 1..(Len(s) + 1)
  BY <1>3
<1> QED BY <1>2, <1>3, <1>4, <1>5, <1>6, <1>7

\* What is before it does not move.
LEMMA StaysLemma ==
    ASSUME NEW t \in Texts, NEW c \in Letters, NEW u, u = [t EXCEPT !.str = Append(@, c)],
           NEW k \in 1..(Len(t.str) + 1)
    PROVE  /\ Feed(u, k) = Feed(t, k) /\ Start(u, k) = Start(t, k) /\ Before(u, k) = Before(t, k)
           /\ Column(u, k) = Column(t, k) /\ Row(u, k) = Row(t, k)
<1> DEFINE N == Len(t.str)
<1>1. /\ u \in Texts /\ u.x = t.x /\ u.y = t.y /\ u.size = t.size /\ u.wrap = t.wrap
      /\ N \in Nat /\ Len(u.str) = N + 1
      /\ \A q \in 1..N : u.str[q] = t.str[q] /\ (q \in Printed(u) <=> q \in Printed(t))
      /\ Printed(t) \subseteq 1..N /\ Printed(u) \subseteq 1..(N + 1)
  BY AppendedLemma
<1> HIDE DEF N
<1>2. \A from : Room(u, from) = Room(t, from)
  BY <1>1 DEF Room
<1>3. ASSUME NEW m \in 1..(N + 1)
      PROVE  Feed(u, m) = Feed(t, m) /\ Start(u, m) = Start(t, m) /\ Before(u, m) = Before(t, m)
  <2>1. \A q \in 1..(m - 1) : q \in 1..N
    BY <1>1
  <2>2. {q \in 1..(m - 1) : u.str[q] = LF} = {q \in 1..(m - 1) : t.str[q] = LF}
    BY <1>1, <2>1
  <2>3. Feed(u, m) = Feed(t, m)
    BY <2>2 DEF Feed
  <2>4. Start(u, m) = Start(t, m)
    BY <1>1, <2>3 DEF Start
  <2>5. {q \in Printed(u) : q > Feed(t, m) /\ q < m} = {q \in Printed(t) : q > Feed(t, m) /\ q < m}
    <3>1. \A q \in 1..(N + 1) : q < m => q \in 1..N
      BY <1>1
    <3>2. \A q \in 1..N : q \in 1..(N + 1)
      BY <1>1
    <3> QED BY <1>1, <3>1, <3>2
  <2>6. Before(u, m) = Before(t, m)
    BY <2>3, <2>5 DEF Before
  <2> QED BY <2>3, <2>4, <2>6
<1>4. ASSUME NEW m \in 1..(N + 1) PROVE Over(u, m) = Over(t, m) /\ Column(u, m) = Column(t, m)
  <2>1. Over(u, m) = Over(t, m)
    BY <1>2, <1>3 DEF Over
  <2>2. Start(u, m) = Start(t, m) /\ Before(u, m) = Before(t, m) /\ Room(u, 0) = Room(t, 0)
    BY <1>2, <1>3
  <2> QED BY <1>1, <2>1, <2>2 DEF Column
<1>5. ASSUME NEW q \in 1..N PROVE EndsLine(u, q) <=> EndsLine(t, q)
  <2>1. q \in 1..(N + 1)
    BY <1>1
  <2>2. Over(u, q) = Over(t, q) /\ Room(u, 0) = Room(t, 0)
    BY <1>2, <1>4, <2>1
  <2> QED BY <1>1, <2>2 DEF EndsLine
<1>6. k \in 1..(N + 1)
  BY DEF N
<1>7. Row(u, k) = Row(t, k)
  <2>1. \A q \in 1..(k - 1) : q \in 1..N
    BY <1>1, <1>6
  <2>2. {q \in 1..(k - 1) : EndsLine(u, q)} = {q \in 1..(k - 1) : EndsLine(t, q)}
    BY <1>5, <2>1
  <2> QED BY <1>1, <2>2 DEF Row
<1> QED BY <1>3, <1>4, <1>6, <1>7

\* Where the next character goes, after each kind of character.
LEMMA NextPlaceLemma ==
    ASSUME NEW t \in Texts, NEW c \in Letters, c # Tab, NEW u, u = [t EXCEPT !.str = Append(@, c)]
    PROVE  LET k == Len(t.str) + 1
               full == LineIsFull(Column(t, k) + 6 * t.size, t)
           IN  /\ c = LF => Column(u, k + 1) = 0 /\ Row(u, k + 1) = Row(t, k) + 8 * t.size
               /\ c = CR => Column(u, k + 1) = Column(t, k) /\ Row(u, k + 1) = Row(t, k)
               /\ c \in DOMAIN Font =>
                     /\ Column(u, k + 1) = IF full THEN 0 ELSE Column(t, k) + 6 * t.size
                     /\ Row(u, k + 1) = Row(t, k) + IF full THEN 8 * t.size ELSE 0
<1> DEFINE k == Len(t.str) + 1
           l == k + 1
           full == LineIsFull(Column(t, k) + 6 * t.size, t)
           F == Feed(t, k)
           b == Before(t, k)
           from == Start(t, k)
<1>1. /\ u \in Texts /\ u.x = t.x /\ u.y = t.y /\ u.size = t.size /\ u.wrap = t.wrap
      /\ k \in Nat /\ k > 0 /\ k \in 1..(Len(t.str) + 1) /\ k \in 1..(Len(u.str) + 1)
      /\ l \in 1..(Len(u.str) + 1)
      /\ \A q \in 1..(k - 1) : u.str[q] = t.str[q]
      /\ u.str[k] = c /\ (k \in Printed(u) <=> c \in DOMAIN Font)
  <2>1. /\ u \in Texts /\ u.x = t.x /\ u.y = t.y /\ u.size = t.size /\ u.wrap = t.wrap
        /\ Len(t.str) \in Nat /\ Len(u.str) = Len(t.str) + 1
        /\ \A q \in 1..Len(t.str) : u.str[q] = t.str[q]
        /\ u.str[Len(t.str) + 1] = c /\ (Len(t.str) + 1 \in Printed(u) <=> c \in DOMAIN Font)
    BY AppendedLemma
  <2>2. k - 1 = Len(t.str)
    BY <2>1
  <2> QED BY <2>1, <2>2
<1>2. t.size \in Nat /\ t.y \in Nat /\ 8 * t.size \in Nat
  BY DEF Texts
<1>3. Feed(u, k) = F /\ Start(u, k) = from /\ Before(u, k) = b /\ Row(u, k) = Row(t, k)
  <2> HIDE DEF k
  <2> QED BY <1>1, StaysLemma
<1>4. /\ F \in 0..(k - 1) /\ \A q \in 1..(k - 1) : t.str[q] = LF => q <= F
      /\ from \in Nat /\ b \in Nat
      /\ Column(t, k) = LineColumn(t, from, b) /\ Column(t, k) \in Nat /\ Row(t, k) \in Nat
  BY <1>1, FeedLemma, ByLineLemma
<1>5. /\ Feed(u, l) \in 0..k /\ \A q \in 1..k : u.str[q] = LF => q <= Feed(u, l)
      /\ Column(u, l) = LineColumn(u, Start(u, l), Before(u, l))
      /\ EndsLine(u, k) <=> c = LF \/ (c \in DOMAIN Font /\ RowIsFull(u, from, b))
  <2>1. l - 1 = k
    BY <1>1
  <2>2. /\ Feed(u, l) \in 0..(l - 1) /\ \A q \in 1..(l - 1) : u.str[q] = LF => q <= Feed(u, l)
        /\ Column(u, l) = LineColumn(u, Start(u, l), Before(u, l))
    <3> HIDE DEF l
    <3> QED BY <1>1, FeedLemma, ByLineLemma
  <2>3. EndsLine(u, k) <=> u.str[k] = LF \/ (k \in Printed(u) /\ RowIsFull(u, Start(u, k), Before(u, k)))
    <3> HIDE DEF k
    <3> QED BY <1>1, ByLineLemma
  <2> HIDE DEF k, l
  <2> QED BY <1>1, <1>3, <2>1, <2>2, <2>3
<1>6. \A r, n : LineColumn(u, r, n) = LineColumn(t, r, n) /\ (RowIsFull(u, r, n) <=> RowIsFull(t, r, n))
  <2>1. \A r : Room(u, r) = Room(t, r)
    BY <1>1 DEF Room
  <2> QED BY <1>1, <2>1 DEF LineColumn, RowIsFull
<1>7. /\ LineColumn(t, from, b) \in Nat /\ LineColumn(t, 0, 0) = 0
      /\ full <=> RowIsFull(t, from, b)
      /\ LineColumn(t, from, b + 1) = IF full THEN 0 ELSE Column(t, k) + 6 * t.size
  <2>1. /\ LineColumn(t, from, b) \in Nat
        /\ LineIsFull(LineColumn(t, from, b) + 6 * t.size, t) <=> RowIsFull(t, from, b)
        /\ LineColumn(t, from, b + 1) = IF RowIsFull(t, from, b) THEN 0
                                        ELSE LineColumn(t, from, b) + 6 * t.size
    <3> HIDE DEF from, b
    <3> QED BY <1>4, WrapLemma
  <2>2. LineColumn(t, 0, 0) = 0
    BY WrapLemma
  <2> HIDE DEF from, b, k
  <2> QED BY <1>4, <2>1, <2>2
<1> HIDE DEF F, b, from, full
<1>8. Row(u, l) = Row(t, k) + IF EndsLine(u, k) THEN 8 * t.size ELSE 0
  <2> DEFINE S == {q \in 1..(k - 1) : EndsLine(u, q)}
             T == {q \in 1..(l - 1) : EndsLine(u, q)}
  <2>1. Row(u, k) = u.y + 8 * u.size * Cardinality(S) /\ Row(u, l) = u.y + 8 * u.size * Cardinality(T)
    BY DEF Row
  <2>2. IsFiniteSet(S) /\ Cardinality(S) \in Nat
    <3>1. IsFiniteSet(S)
      <4> HIDE DEF k
      <4> QED BY <1>1, ByLineLemma
    <3> HIDE DEF S
    <3> QED BY <3>1, FS_CardinalityType
  <2>3. k \notin S
    BY <1>1
  <2>4. T = IF EndsLine(u, k) THEN S \union {k} ELSE S
    <3>1. \A q : q \in 1..(l - 1) <=> q \in 1..(k - 1) \/ q = k
      BY <1>1
    <3> HIDE DEF k, l
    <3> QED BY <3>1
  <2> HIDE DEF S, T, k, l
  <2>5. Cardinality(S \union {k}) = Cardinality(S) + 1
    BY <2>2, <2>3, FS_AddElement
  <2> DEFINE n == Cardinality(S)
             h == 8 * t.size
  <2>6. h \in Nat /\ n \in Nat /\ h * (n + 1) = h * n + h
    BY <1>2, <2>2
  <2>7. Row(t, k) = t.y + h * n
    BY <1>1, <1>3, <2>1
  <2>8. Row(u, l) = t.y + h * (IF EndsLine(u, k) THEN n + 1 ELSE n)
    BY <1>1, <2>1, <2>4, <2>5
  <2> HIDE DEF n, h
  <2>9. h * n \in Nat
    BY <2>6
  <2>10. Row(u, l) = Row(t, k) + IF EndsLine(u, k) THEN h ELSE 0
    BY <1>2, <2>6, <2>7, <2>8, <2>9
  <2> QED BY <2>10 DEF h
<1>9. CASE c = LF
  <2>1. Feed(u, l) = k
    <3>1. k \in 1..k
      BY <1>1
    <3>2. k <= Feed(u, l)
      BY <1>1, <1>5, <1>9, <3>1
    <3> QED BY <1>1, <1>5, <3>2
  <2>2. Start(u, l) = 0
    BY <1>1, <2>1 DEF Start
  <2>3. Before(u, l) = 0
    <3>1. {q \in Printed(u) : q > k /\ q < l} = {}
      <4>1. \A q \in Int : ~(q > k /\ q < l)
        BY <1>1
      <4>2. Printed(u) \subseteq Int
        BY <1>1, AppendedLemma
      <4> HIDE DEF k, l
      <4> QED BY <4>1, <4>2
    <3>2. Before(u, l) = Cardinality({q \in Printed(u) : q > k /\ q < l})
      BY <2>1 DEF Before
    <3> HIDE DEF k, l
    <3> QED BY <3>1, <3>2, FS_EmptySet
  <2>4. Column(u, l) = 0
    BY <1>5, <1>6, <1>7, <2>2, <2>3
  <2>5. Row(u, l) = Row(t, k) + 8 * t.size
    BY <1>5, <1>8, <1>9
  <2>6. c # CR /\ c \notin DOMAIN Font
    BY <1>9, TextAssumption
  <2> QED BY <1>9, <2>4, <2>5, <2>6 DEF full
<1>10. ASSUME c # LF PROVE Feed(u, l) = F /\ Start(u, l) = from
  <2>1. {q \in 1..(l - 1) : u.str[q] = LF} = {q \in 1..(k - 1) : t.str[q] = LF}
    <3>1. \A q : q \in 1..(l - 1) <=> q \in 1..(k - 1) \/ q = k
      BY <1>1
    <3> HIDE DEF k, l
    <3> QED BY <1>1, <1>10, <3>1
  <2>2. Feed(u, l) = F
    BY <2>1 DEF Feed, F
  <2> QED BY <1>1, <2>2 DEF Start, from, F
<1>11. {q \in Printed(u) : q > F /\ q < l} =
          {q \in Printed(u) : q > F /\ q < k} \union (IF c \in DOMAIN Font THEN {k} ELSE {})
  <2>1. Printed(u) \subseteq Int
    BY AppendedLemma
  <2>2. \A q \in Int : q < l <=> q < k \/ q = k
    BY <1>1
  <2>3. k > F /\ k < l
    BY <1>1, <1>4
  <2>4. k \in Printed(u) <=> c \in DOMAIN Font
    BY <1>1
  <2> HIDE DEF k, l
  <2> QED BY <2>1, <2>2, <2>3, <2>4
<1>12. CASE c \in DOMAIN Font
  <2>1. c # LF /\ c # CR
    BY <1>12, TextAssumption
  <2>2. Before(u, l) = b + 1
    <3> DEFINE S == {q \in Printed(u) : q > F /\ q < k}
    <3>1. IsFiniteSet(S) /\ Before(u, k) = Cardinality(S)
      <4>1. /\ IsFiniteSet({q \in Printed(u) : q > Feed(u, k) /\ q < k})
            /\ Before(u, k) = Cardinality({q \in Printed(u) : q > Feed(u, k) /\ q < k})
        <5> HIDE DEF k
        <5> QED BY <1>1, ByLineLemma DEF Before
      <4> QED BY <1>3, <4>1
    <3>2. Before(u, l) = Cardinality(S \union {k})
      <4>1. Before(u, l) = Cardinality({q \in Printed(u) : q > F /\ q < l})
        BY <1>10, <2>1 DEF Before
      <4> HIDE DEF l
      <4> QED BY <1>11, <1>12, <4>1
    <3>3. k \notin S
      BY <1>1
    <3> HIDE DEF S, k, l
    <3>4. Cardinality(S \union {k}) = Cardinality(S) + 1
      BY <3>1, <3>3, FS_AddElement
    <3> QED BY <1>3, <3>1, <3>2, <3>4
  <2>3. Column(u, l) = LineColumn(t, from, b + 1)
    BY <1>5, <1>6, <1>10, <2>1, <2>2
  <2>4. Row(u, l) = Row(t, k) + IF full THEN 8 * t.size ELSE 0
    BY <1>5, <1>6, <1>7, <1>8, <1>12, <2>1
  <2> QED BY <1>7, <1>12, <2>1, <2>3, <2>4 DEF full
<1>13. CASE c = CR
  <2>1. c # LF /\ c \notin DOMAIN Font
    BY <1>13, TextAssumption
  <2>2. Before(u, l) = b
    <3>1. Before(u, l) = Cardinality({q \in Printed(u) : q > F /\ q < l})
      BY <1>10, <2>1 DEF Before
    <3>2. Before(u, k) = Cardinality({q \in Printed(u) : q > F /\ q < k})
      BY <1>3 DEF Before
    <3> HIDE DEF l, k
    <3> QED BY <1>3, <1>11, <2>1, <3>1, <3>2
  <2>3. Column(u, l) = Column(t, k)
    BY <1>4, <1>5, <1>6, <1>10, <2>1, <2>2
  <2>4. Row(u, l) = Row(t, k)
    BY <1>4, <1>5, <1>8, <2>1
  <2> QED BY <1>13, <2>1, <2>3, <2>4 DEF full
<1>14. c = LF \/ c = CR \/ c \in DOMAIN Font
  BY DEF Letters
<1> QED BY <1>9, <1>12, <1>13, <1>14

\* One of the dots of a character: painted in the text's colour or the background's, or left.
DotNumber(k) == <<k \div 8, k % 8>>
DotSquare(k, x, y, size) == fillRect(x + (k \div 8) * size, y + (k % 8) * size, size, size)

DotStep(b, k, x, y, c, color, bg, size) ==
    IF DotNumber(k) \in Font[c] THEN Paint(b, DotSquare(k, x, y, size), color)
    ELSE IF bg # color THEN Paint(b, DotSquare(k, x, y, size), bg)
    ELSE b

\* The dot of a place on the screen.
Dot(q, x, y, size) == <<(q[1] - x) \div size, (q[2] - y) \div size>>

\* A character at x, y is whole on the screen.
OnScreen(x, y, size) ==
    /\ x \in Nat /\ y \in Nat /\ size \in Nat \ {0}
    /\ x + 6 * size <= Width /\ y + 8 * size <= Height

\* The places of a dot.
LEMMA DotSquareLemma ==
    ASSUME NEW x, NEW y, NEW size, OnScreen(x, y, size), NEW k \in 0..47
    PROVE  LET S == DotSquare(k, x, y, size)
           IN  /\ S \subseteq Screen /\ IsFiniteSet(S)
               /\ \A q \in Screen : q \in S <=> Dot(q, x, y, size) = DotNumber(k)
<1> DEFINE i == k \div 8
           j == k % 8
           S == DotSquare(k, x, y, size)
           a == x + i * size
           b == y + j * size
<1>0. /\ x \in Nat /\ y \in Nat /\ size \in Nat \ {0}
      /\ x + 6 * size <= Width /\ y + 8 * size <= Height
  BY DEF OnScreen
<1>1. i \in 0..5 /\ j \in 0..7
  OBVIOUS
<1>2. S = fillRect(a, b, size, size)
  BY DEF DotSquare
<1> HIDE DEF i, j, S
<1>3. /\ i * size \in Nat /\ j * size \in Nat /\ i * size = size * i /\ j * size = size * j
      /\ a \in Int /\ b \in Int /\ size \in Int
      /\ i * size + size <= 6 * size /\ j * size + size <= 8 * size
  BY <1>0, <1>1
<1>4. \A q : q \in S <=> /\ q \in Int \X Int /\ a <= q[1] /\ q[1] < a + size
                         /\ b <= q[2] /\ q[2] < b + size
  <2> HIDE DEF a, b
  <2> QED BY <1>2, <1>3, FillRectLemma
<1>5. S \subseteq Screen /\ IsFiniteSet(S)
  <2>1. ASSUME NEW q \in S PROVE q \in Screen
    <3>1. q[1] \in Int /\ q[2] \in Int /\ q \in Int \X Int
      BY <1>4
    <3>2. 0 <= q[1] /\ q[1] < Width /\ 0 <= q[2] /\ q[2] < Height
      <4>1. 0 <= a /\ a + size <= Width /\ 0 <= b /\ b + size <= Height
        BY <1>0, <1>3, ScreenAssumption
      <4>2. a <= q[1] /\ q[1] < a + size /\ b <= q[2] /\ q[2] < b + size
        BY <1>4
      <4> HIDE DEF a, b
      <4> QED BY <1>3, <3>1, <4>1, <4>2, ScreenAssumption
    <3>3. q[1] \in Columns /\ q[2] \in Rows
      BY <3>1, <3>2, ScreenAssumption DEF Columns, Rows
    <3> QED BY <3>1, <3>3 DEF Screen
  <2> QED BY <2>1, ScreenIsFinite, FS_Subset
<1>6. ASSUME NEW q \in Screen PROVE q \in S <=> Dot(q, x, y, size) = <<i, j>>
  <2>1. q \in Int \X Int /\ q[1] \in Int /\ q[2] \in Int
    BY ScreenAssumption DEF Screen, Columns, Rows
  <2> DEFINE m == q[1] - x
             n == q[2] - y
  <2>2. m \in Int /\ n \in Int /\ i \in Int /\ j \in Int
    BY <1>0, <1>1, <2>1
  <2>3. /\ m \div size = i <=> size * i <= m /\ m < size * i + size
        /\ n \div size = j <=> size * j <= n /\ n < size * j + size
    <3> HIDE DEF m, n
    <3> QED BY <1>0, <2>2, QuotientLemma
  <2>4. /\ a <= q[1] /\ q[1] < a + size <=> size * i <= m /\ m < size * i + size
        /\ b <= q[2] /\ q[2] < b + size <=> size * j <= n /\ n < size * j + size
    BY <1>0, <1>3, <2>1
  <2>5. Dot(q, x, y, size) = <<m \div size, n \div size>>
    BY DEF Dot
  <2> HIDE DEF a, b, m, n
  <2> QED BY <1>4, <2>1, <2>3, <2>4, <2>5
<1>7. DotNumber(k) = <<i, j>>
  BY DEF DotNumber, i, j
<1> HIDE DEF a, b
<1> QED BY <1>5, <1>6, <1>7 DEF S

\* A step of the loop of drawChar.
DotPainted(new, b, k, x, y, c, color, bg, size) ==
    \A q \in Screen :
        Shown(new, q[1], q[2]) =
            IF Dot(q, x, y, size) = DotNumber(k)
            THEN IF DotNumber(k) \in Font[c] THEN color
                 ELSE IF bg # color THEN bg ELSE Shown(b, q[1], q[2])
            ELSE Shown(b, q[1], q[2])

LEMMA DotStepLemma ==
    ASSUME NEW x, NEW y, NEW size, OnScreen(x, y, size), NEW k \in 0..47,
           NEW b \in Buffers, NEW c, NEW color \in Colours, NEW bg \in Colours
    PROVE  /\ DotStep(b, k, x, y, c, color, bg, size) \in Buffers
           /\ DotPainted(DotStep(b, k, x, y, c, color, bg, size), b, k, x, y, c, color, bg, size)
<1> DEFINE S == DotSquare(k, x, y, size)
           d == DotNumber(k)
           new == DotStep(b, k, x, y, c, color, bg, size)
<1>1. S \in SUBSET Screen /\ IsFiniteSet(S) /\ \A q \in Screen : q \in S <=> Dot(q, x, y, size) = d
  <2>1. /\ S \subseteq Screen /\ IsFiniteSet(S)
        /\ \A q \in Screen : q \in S <=> Dot(q, x, y, size) = DotNumber(k)
    BY DotSquareLemma
  <2> HIDE DEF S
  <2> QED BY <2>1
<1>2. new = IF d \in Font[c] THEN Paint(b, S, color) ELSE IF bg # color THEN Paint(b, S, bg) ELSE b
  BY DEF DotStep
<1> HIDE DEF S, d, new
<1>3. ASSUME NEW e \in Colours
      PROVE  /\ Paint(b, S, e) \in Buffers
             /\ \A q \in Screen : Shown(Paint(b, S, e), q[1], q[2]) =
                                      IF q \in S THEN e ELSE Shown(b, q[1], q[2])
  <2>1. Paint(b, S, e) \in Buffers /\ Painted(Paint(b, S, e), b, S, e)
    BY <1>1, PaintLemma
  <2>2. \A q \in Screen : q[1] \in Columns /\ q[2] \in Rows /\ q = <<q[1], q[2]>>
    BY DEF Screen
  <2> QED BY <2>1, <2>2 DEF Painted
<1>4. new \in Buffers
  BY <1>2, <1>3
<1>5. ASSUME NEW q \in Screen
      PROVE  Shown(new, q[1], q[2]) =
                 IF Dot(q, x, y, size) = d
                 THEN IF d \in Font[c] THEN color
                      ELSE IF bg # color THEN bg ELSE Shown(b, q[1], q[2])
                 ELSE Shown(b, q[1], q[2])
  <2>1. q \in S <=> Dot(q, x, y, size) = d
    BY <1>1
  <2>2. CASE d \in Font[c]
    BY <1>2, <1>3, <2>1, <2>2
  <2>3. CASE d \notin Font[c] /\ bg # color
    BY <1>2, <1>3, <2>1, <2>3
  <2>4. CASE d \notin Font[c] /\ bg = color
    BY <1>2, <2>4
  <2> QED BY <2>2, <2>3, <2>4
<1>6. DotPainted(new, b, k, x, y, c, color, bg, size)
  BY <1>5 DEF DotPainted, d
<1> QED BY <1>4, <1>6 DEF new

\* What a place of the screen shows after k dots of the character.
CharColour(q, k, buf, x, y, c, color, bg, size) ==
    LET d == Dot(q, x, y, size)
    IN  IF \E i \in 0..(k - 1) : d = DotNumber(i)
        THEN IF d \in Font[c] THEN color ELSE IF bg # color THEN bg ELSE Shown(buf, q[1], q[2])
        ELSE Shown(buf, q[1], q[2])

\* The states of the loop of drawChar.
DotWalk(g, n, buf, x, y, c, color, bg, size) ==
    /\ g \in [0..n -> Buffers] /\ g[0] = buf
    /\ \A k \in 1..n : g[k] = DotStep(g[k - 1], k - 1, x, y, c, color, bg, size)

LEMMA DotWalkLemma ==
    ASSUME NEW x, NEW y, NEW size, OnScreen(x, y, size),
           NEW buf \in Buffers, NEW c, NEW color \in Colours, NEW bg \in Colours
    PROVE  \E g : DotWalk(g, 48, buf, x, y, c, color, bg, size)
<1> DEFINE W(g, n) == DotWalk(g, n, buf, x, y, c, color, bg, size)
           Q == {n \in Nat : n <= 48 => \E g : W(g, n)}
           step(b, k) == DotStep(b, k, x, y, c, color, bg, size)
<1>1. 0 \in Q
  <2> DEFINE g == [k \in 0..0 |-> buf]
  <2>1. g \in [0..0 -> Buffers] /\ g[0] = buf /\ 1..0 = {}
    OBVIOUS
  <2> HIDE DEF g
  <2>2. W(g, 0)
    BY <2>1 DEF DotWalk
  <2> QED BY <2>2
<1>2. ASSUME NEW n \in Nat, n \in Q PROVE n + 1 \in Q
  <2> SUFFICES ASSUME n + 1 <= 48 PROVE \E g : W(g, n + 1)
    OBVIOUS
  <2>1. n \in 0..47 /\ n <= 48
    OBVIOUS
  <2>2. PICK f : W(f, n)
    BY <1>2, <2>1
  <2>3. /\ f \in [0..n -> Buffers] /\ f[0] = buf
        /\ \A k \in 1..n : f[k] = step(f[k - 1], k - 1)
    BY <2>2 DEF DotWalk
  <2> DEFINE e == step(f[n], n)
             g == [k \in 0..(n + 1) |-> IF k = n + 1 THEN e ELSE f[k]]
  <2>4. e \in Buffers
    <3>1. f[n] \in Buffers
      BY <2>3
    <3> QED BY <2>1, <3>1, DotStepLemma
  <2> HIDE DEF e, step
  <2>5. g \in [0..(n + 1) -> Buffers]
    BY <2>3, <2>4
  <2>6. g[0] = buf /\ g[n + 1] = e /\ \A k \in 0..n : g[k] = f[k]
    BY <2>3
  <2> HIDE DEF g
  <2>7. ASSUME NEW k \in 1..(n + 1) PROVE g[k] = step(g[k - 1], k - 1)
    <3>1. CASE k = n + 1
      <4>1. k - 1 = n /\ g[n] = f[n]
        BY <2>6, <3>1
      <4> QED BY <2>6, <3>1, <4>1 DEF e
    <3>2. CASE k # n + 1
      <4>1. k \in 1..n /\ k \in 0..n /\ k - 1 \in 0..n
        BY <3>2
      <4> QED BY <2>3, <2>6, <4>1
    <3> QED BY <3>1, <3>2
  <2>8. W(g, n + 1)
    BY <2>5, <2>6, <2>7 DEF DotWalk, step
  <2> QED BY <2>8
<1>3. 48 \in Q
  <2> HIDE DEF Q
  <2>1. Nat \subseteq Q
    BY <1>1, <1>2, NatSetInduction
  <2> QED BY <2>1
<1> QED BY <1>3

LEMMA DrawCharLemma ==
    ASSUME NEW x, NEW y, NEW size, OnScreen(x, y, size),
           NEW buf \in Buffers, NEW c, NEW color \in Colours, NEW bg \in Colours
    PROVE  \E g : /\ DotWalk(g, 48, buf, x, y, c, color, bg, size)
                  /\ drawChar(buf, x, y, c, color, bg, size) = g[48]
<1> DEFINE Body(g) == [k \in 0..48 |-> IF k = 0 THEN buf
                                       ELSE DotStep(g[k - 1], k - 1, x, y, c, color, bg, size)]
           ink(k) == <<k \div 8, k % 8>> \in Font[c]
           dot(k) == fillRect(x + (k \div 8) * size, y + (k % 8) * size, size, size)
           painted[k \in 0..48] ==
               IF k = 0 THEN buf
               ELSE IF ink(k - 1) THEN Paint(painted[k - 1], dot(k - 1), color)
               ELSE IF bg # color THEN Paint(painted[k - 1], dot(k - 1), bg)
               ELSE painted[k - 1]
<1>1. drawChar(buf, x, y, c, color, bg, size) = painted[48]
  <2>1. ~(x >= Width \/ y >= Height \/ x + 6 * size - 1 < 0 \/ y + 8 * size - 1 < 0)
    BY ScreenAssumption DEF OnScreen
  <2> QED BY <2>1 DEF drawChar
<1>2. painted = CHOOSE g : g = Body(g)
  BY DEF DotStep, DotNumber, DotSquare
<1> HIDE DEF painted
<1>3. PICK h : DotWalk(h, 48, buf, x, y, c, color, bg, size)
  BY DotWalkLemma
<1>4. h = Body(h)
  <2>1. /\ h \in [0..48 -> Buffers] /\ h[0] = buf
        /\ \A k \in 1..48 : h[k] = DotStep(h[k - 1], k - 1, x, y, c, color, bg, size)
    BY <1>3 DEF DotWalk
  <2>2. \A k \in 0..48 : k = 0 \/ k \in 1..48
    OBVIOUS
  <2> QED BY <2>1, <2>2
<1>5. painted = Body(painted)
  <2> HIDE DEF Body
  <2> QED BY <1>2, <1>4
<1>6. /\ h[0] = buf /\ painted[0] = buf
      /\ \A k \in 1..48 : /\ h[k] = DotStep(h[k - 1], k - 1, x, y, c, color, bg, size)
                          /\ painted[k] = DotStep(painted[k - 1], k - 1, x, y, c, color, bg, size)
  <2>1. 0 \in 0..48 /\ \A k \in 1..48 : k \in 0..48 /\ k # 0
    OBVIOUS
  <2> QED BY <1>3, <1>5, <2>1 DEF DotWalk
<1>7. painted[48] = h[48]
  <2> DEFINE Q == {n \in Nat : n <= 48 => painted[n] = h[n]}
  <2>1. 0 \in Q
    BY <1>6
  <2>2. ASSUME NEW n \in Nat, n \in Q PROVE n + 1 \in Q
    <3> SUFFICES ASSUME n + 1 <= 48 PROVE painted[n + 1] = h[n + 1]
      OBVIOUS
    <3>1. n + 1 \in 1..48 /\ (n + 1) - 1 = n /\ painted[n] = h[n]
      BY <2>2
    <3> QED BY <1>6, <3>1
  <2>3. 48 \in Q
    <3> HIDE DEF Q
    <3>1. Nat \subseteq Q
      BY <2>1, <2>2, NatSetInduction
    <3> QED BY <3>1
  <2> QED BY <2>3
<1> QED BY <1>1, <1>3, <1>7

\* The character is in its cell, and the rest of the screen is as it was.
CharShown(new, buf, x, y, c, color, bg, size) ==
    \A q \in Screen :
        LET d == Dot(q, x, y, size)
        IN  Shown(new, q[1], q[2]) =
                IF d \in (0..5) \X (0..7)
                THEN IF d \in Font[c] THEN color
                     ELSE IF bg # color THEN bg ELSE Shown(buf, q[1], q[2])
                ELSE Shown(buf, q[1], q[2])

\* A character that is whole on the screen shows its ink in the text's colour, the rest
\* of its cell in the background's if that is another, and leaves the rest as it was.
LEMMA CharLemma ==
    ASSUME NEW x, NEW y, NEW size, OnScreen(x, y, size),
           NEW buf \in Buffers, NEW c, NEW color \in Colours, NEW bg \in Colours
    PROVE  /\ drawChar(buf, x, y, c, color, bg, size) \in Buffers
           /\ CharShown(drawChar(buf, x, y, c, color, bg, size), buf, x, y, c, color, bg, size)
<1>1. PICK g : /\ DotWalk(g, 48, buf, x, y, c, color, bg, size)
               /\ drawChar(buf, x, y, c, color, bg, size) = g[48]
  BY DrawCharLemma
<1>2. /\ g[0] = buf /\ \A k \in 0..48 : g[k] \in Buffers
      /\ \A k \in 1..48 : g[k] = DotStep(g[k - 1], k - 1, x, y, c, color, bg, size)
  BY <1>1 DEF DotWalk
<1> DEFINE C(q, k) == CharColour(q, k, buf, x, y, c, color, bg, size)
           Q == {k \in Nat : k <= 48 => \A q \in Screen : Shown(g[k], q[1], q[2]) = C(q, k)}
<1>3. 0 \in Q
  <2>1. ASSUME NEW q \in Screen PROVE C(q, 0) = Shown(buf, q[1], q[2])
    <3>1. 0..(0 - 1) = {}
      OBVIOUS
    <3> QED BY <3>1 DEF CharColour
  <2> HIDE DEF C
  <2> QED BY <1>2, <2>1
<1>4. ASSUME NEW n \in Nat, n \in Q PROVE n + 1 \in Q
  <2> SUFFICES ASSUME n + 1 <= 48, NEW q \in Screen
               PROVE  Shown(g[n + 1], q[1], q[2]) = C(q, n + 1)
    OBVIOUS
  <2>1. n \in 0..47 /\ n + 1 \in 1..48 /\ (n + 1) - 1 = n /\ n \in 0..48 /\ n <= 48
    OBVIOUS
  <2>2. Shown(g[n], q[1], q[2]) = C(q, n)
    BY <1>4, <2>1
  <2> DEFINE d == Dot(q, x, y, size)
             old == Shown(buf, q[1], q[2])
             new == IF d \in Font[c] THEN color ELSE IF bg # color THEN bg ELSE old
  <2>3. Shown(g[n + 1], q[1], q[2]) =
           IF d = DotNumber(n)
           THEN IF d \in Font[c] THEN color ELSE IF bg # color THEN bg ELSE Shown(g[n], q[1], q[2])
           ELSE Shown(g[n], q[1], q[2])
    <3>1. g[n + 1] = DotStep(g[n], n, x, y, c, color, bg, size) /\ g[n] \in Buffers
      BY <1>2, <2>1
    <3>2. Shown(DotStep(g[n], n, x, y, c, color, bg, size), q[1], q[2]) =
             IF d = DotNumber(n)
             THEN IF DotNumber(n) \in Font[c] THEN color
                  ELSE IF bg # color THEN bg ELSE Shown(g[n], q[1], q[2])
             ELSE Shown(g[n], q[1], q[2])
      <4> DEFINE b == g[n]
                 e == DotStep(b, n, x, y, c, color, bg, size)
      <4>1. b \in Buffers
        BY <3>1
      <4> HIDE DEF b
      <4>2. DotPainted(e, b, n, x, y, c, color, bg, size)
        BY <2>1, <4>1, DotStepLemma
      <4> HIDE DEF e
      <4> QED BY <4>2 DEF b, e, d, DotPainted
    <3> HIDE DEF d
    <3> QED BY <3>1, <3>2
  <2>4. C(q, n) = IF \E i \in 0..(n - 1) : d = DotNumber(i) THEN new ELSE old
    BY DEF CharColour
  <2>5. C(q, n + 1) = IF \E i \in 0..n : d = DotNumber(i) THEN new ELSE old
    <3>1. (n + 1) - 1 = n
      OBVIOUS
    <3> QED BY <3>1 DEF CharColour
  <2>6. \A i : i \in 0..n <=> i \in 0..(n - 1) \/ i = n
    OBVIOUS
  <2> HIDE DEF d, old, C
  <2>7. (\E i \in 0..n : d = DotNumber(i)) <=> (\E i \in 0..(n - 1) : d = DotNumber(i)) \/ d = DotNumber(n)
    BY <2>6
  <2> QED BY <2>2, <2>3, <2>4, <2>5, <2>7
<1>5. 48 \in Q
  <2> HIDE DEF Q
  <2>1. Nat \subseteq Q
    BY <1>3, <1>4, NatSetInduction
  <2> QED BY <2>1
<1>6. \A d : d \in (0..5) \X (0..7) <=> \E i \in 0..47 : d = DotNumber(i)
  <2>1. ASSUME NEW d \in (0..5) \X (0..7) PROVE \E i \in 0..47 : d = DotNumber(i)
    <3> DEFINE i == 8 * d[1] + d[2]
    <3>1. i \in 0..47 /\ i \div 8 = d[1] /\ i % 8 = d[2] /\ d = <<d[1], d[2]>>
      OBVIOUS
    <3> HIDE DEF i
    <3> QED BY <3>1 DEF DotNumber
  <2>2. ASSUME NEW i \in 0..47 PROVE DotNumber(i) \in (0..5) \X (0..7)
    <3>1. i \div 8 \in 0..5 /\ i % 8 \in 0..7
      OBVIOUS
    <3> QED BY <3>1 DEF DotNumber
  <2> QED BY <2>1, <2>2
<1>7. ASSUME NEW q \in Screen
      PROVE  LET d == Dot(q, x, y, size)
             IN  Shown(g[48], q[1], q[2]) =
                     IF d \in (0..5) \X (0..7)
                     THEN IF d \in Font[c] THEN color
                          ELSE IF bg # color THEN bg ELSE Shown(buf, q[1], q[2])
                     ELSE Shown(buf, q[1], q[2])
  <2> DEFINE d == Dot(q, x, y, size)
  <2>1. Shown(g[48], q[1], q[2]) = C(q, 48)
    BY <1>5
  <2>2. C(q, 48) = IF \E i \in 0..47 : d = DotNumber(i)
                   THEN IF d \in Font[c] THEN color ELSE IF bg # color THEN bg ELSE Shown(buf, q[1], q[2])
                   ELSE Shown(buf, q[1], q[2])
    <3>1. 48 - 1 = 47
      OBVIOUS
    <3> QED BY <3>1 DEF CharColour
  <2> HIDE DEF d, C
  <2>3. d \in (0..5) \X (0..7) <=> \E i \in 0..47 : d = DotNumber(i)
    BY <1>6
  <2> QED BY <2>1, <2>2, <2>3 DEF d
<1>8. g[48] \in Buffers
  BY <1>2
<1>9. CharShown(g[48], buf, x, y, c, color, bg, size)
  BY <1>7 DEF CharShown
<1> QED BY <1>1, <1>8, <1>9

\* A place of the screen in the cell of character k, and what it should show.
InCell(t, k, q) == Dot(q, Column(t, k), Row(t, k), t.size) \in (0..5) \X (0..7)
IsInk(t, k, q) == Dot(q, Column(t, k), Row(t, k), t.size) \in Font[t.str[k]]

Should(t, q) ==
    IF \E k \in Printed(t) : InCell(t, k, q) /\ IsInk(t, k, q) THEN t.c
    ELSE IF (\E k \in Printed(t) : InCell(t, k, q)) /\ t.bg # t.c THEN t.bg ELSE Ground

\* The characters of a text are above the cursor or left of it.
Behind(t) ==
    LET n == Len(t.str) + 1
    IN  \A k \in Printed(t) :
            \/ Row(t, k) + 8 * t.size <= Row(t, n)
            \/ Row(t, k) = Row(t, n) /\ Column(t, k) + 6 * t.size <= Column(t, n)

NoTabs(t) == \A k \in DOMAIN t.str : t.str[k] # Tab

LEMMA InCellLemma ==
    ASSUME NEW t \in Texts, NEW k \in 1..(Len(t.str) + 1), NEW q \in Screen
    PROVE  InCell(t, k, q) => /\ Column(t, k) <= q[1] /\ q[1] < Column(t, k) + 6 * t.size
                              /\ Row(t, k) <= q[2] /\ q[2] < Row(t, k) + 8 * t.size
<1> SUFFICES ASSUME InCell(t, k, q)
             PROVE  /\ Column(t, k) <= q[1] /\ q[1] < Column(t, k) + 6 * t.size
                    /\ Row(t, k) <= q[2] /\ q[2] < Row(t, k) + 8 * t.size
  OBVIOUS
<1> DEFINE x == Column(t, k)
           y == Row(t, k)
           s == t.size
           m == q[1] - x
           n == q[2] - y
           i == m \div s
           j == n \div s
<1>1. x \in Nat /\ y \in Nat
  BY ByLineLemma
<1>2. s \in Nat \ {0} /\ q[1] \in Int /\ q[2] \in Int
  BY ScreenAssumption DEF Texts, Screen, Columns, Rows
<1>3. <<i, j>> \in (0..5) \X (0..7)
  BY DEF InCell, Dot
<1>4. i \in 0..5 /\ j \in 0..7
  <2> HIDE DEF i, j
  <2> QED BY <1>3
<1> HIDE DEF x, y, s
<1>5. m \in Int /\ n \in Int
  BY <1>1, <1>2
<1>6. s * i <= m /\ m < s * i + s /\ s * j <= n /\ n < s * j + s
  <2> HIDE DEF m, n
  <2>1. i \in Int /\ j \in Int
    BY <1>4
  <2> QED BY <1>2, <1>5, <2>1, QuotientLemma
<1> HIDE DEF i, j
<1>7. 0 <= s * i /\ s * i + s <= 6 * s /\ 0 <= s * j /\ s * j + s <= 8 * s
      /\ s * i \in Int /\ s * j \in Int
  BY <1>2, <1>4
<1>8. q[1] = x + m /\ q[2] = y + n
  BY <1>1, <1>2
<1> HIDE DEF m, n
<1>9. x <= q[1] /\ q[1] < x + 6 * s /\ y <= q[2] /\ q[2] < y + 8 * s
  <2> DEFINE a == s * i
             b == s * j
             c == 6 * s
             d == 8 * s
  <2>1. c \in Int /\ d \in Int
    BY <1>2
  <2>2. a \in Int /\ b \in Int /\ 0 <= a /\ a + s <= c /\ 0 <= b /\ b + s <= d
        /\ a <= m /\ m < a + s /\ b <= n /\ n < b + s
    BY <1>6, <1>7
  <2> HIDE DEF a, b, c, d
  <2>3. x <= q[1] /\ q[1] < x + c /\ y <= q[2] /\ q[2] < y + d
    BY <1>1, <1>2, <1>5, <1>8, <2>1, <2>2
  <2> QED BY <2>3 DEF c, d
<1> QED BY <1>9 DEF x, y, s

LEMMA ShouldLemma ==
    ASSUME drawn \in Texts
    PROVE  TextIsWhole <=>
              (Fits(drawn) => \A q \in Screen : Shown(vga, q[1], q[2]) = Should(drawn, q))
<1> DEFINE t == drawn
           place == Place(t)
           dot(k, q) == <<(q[1] - place[k][1]) \div t.size, (q[2] - place[k][2]) \div t.size>>
           cell(q) == {k \in DOMAIN place : dot(k, q) \in (0..5) \X (0..7)}
           should(q) == IF \E k \in cell(q) : dot(k, q) \in Font[t.str[k]] THEN t.c
                        ELSE IF cell(q) # {} /\ t.bg # t.c THEN t.bg ELSE Ground
<1>1. drawn.kind = "text"
  BY DEF Texts
<1>2. TextIsWhole <=> (Fits(t) => \A q \in Screen : Shown(vga, q[1], q[2]) = should(q))
  BY <1>1 DEF TextIsWhole
<1>3. ASSUME NEW q PROVE should(q) = Should(t, q)
  <2>1. DOMAIN place = Printed(t)
    BY DEF Place
  <2>2. ASSUME NEW k \in Printed(t) PROVE dot(k, q) = Dot(q, Column(t, k), Row(t, k), t.size)
    <3>1. place[k] = <<Column(t, k), Row(t, k)>>
      BY DEF Place
    <3> HIDE DEF place
    <3> QED BY <3>1 DEF Dot
  <2> HIDE DEF place, dot
  <2>3. \A k \in Printed(t) : /\ k \in cell(q) <=> InCell(t, k, q)
                              /\ dot(k, q) \in Font[t.str[k]] <=> IsInk(t, k, q)
    BY <2>1, <2>2 DEF InCell, IsInk
  <2>4. cell(q) \subseteq Printed(t)
    BY <2>1
  <2> HIDE DEF cell
  <2> QED BY <2>3, <2>4 DEF Should
<1> HIDE DEF should
<1> QED BY <1>2, <1>3

\* One more character: the cursor, and what is behind it.
LEMMA BehindLemma ==
    ASSUME NEW t \in Texts, NEW c \in Letters, c # Tab, NEW u, u = [t EXCEPT !.str = Append(@, c)],
           Behind(t)
    PROVE  Behind(u)
<1> DEFINE n == Len(t.str) + 1
           x == Column(t, n)
           y == Row(t, n)
           v == Column(u, n + 1)
           w == Row(u, n + 1)
           a == 6 * t.size
           b == 8 * t.size
<1>1. /\ u \in Texts /\ u.size = t.size /\ Len(t.str) \in Nat /\ Len(u.str) = n
      /\ \A k \in 1..Len(t.str) : k \in Printed(u) <=> k \in Printed(t)
      /\ n \in Printed(u) <=> c \in DOMAIN Font
      /\ Printed(u) \subseteq 1..n
  BY AppendedLemma
<1>2. n \in 1..(Len(t.str) + 1) /\ n + 1 \in 1..(Len(u.str) + 1) /\ n - 1 = Len(t.str)
      /\ \A k \in 1..n : k \in 1..(Len(t.str) + 1) /\ k \in 1..(Len(u.str) + 1)
  BY <1>1
<1>3. x \in Nat /\ y \in Nat /\ v \in Nat /\ w \in Nat
  <2> HIDE DEF n
  <2> QED BY <1>1, <1>2, ByLineLemma
<1>4. a \in Nat /\ b \in Nat
  BY DEF Texts
<1>5. \A k \in 1..n : /\ Column(u, k) = Column(t, k) /\ Row(u, k) = Row(t, k)
                      /\ Column(t, k) \in Nat /\ Row(t, k) \in Nat
  BY <1>2, StaysLemma, ByLineLemma
<1>6. /\ w = y + b \/ (w = y /\ v >= x)
      /\ c \in DOMAIN Font => w = y + b \/ (w = y /\ v = x + a)
  <2>1. c = LF \/ c = CR \/ c \in DOMAIN Font
    BY DEF Letters
  <2>2. c = LF => w = y + b
    BY NextPlaceLemma
  <2>3. c = CR => w = y /\ v = x
    BY NextPlaceLemma
  <2>4. c \in DOMAIN Font => w = y + b \/ (w = y /\ v = x + a)
    <3> SUFFICES ASSUME c \in DOMAIN Font PROVE w = y + b \/ (w = y /\ v = x + a)
      OBVIOUS
    <3> DEFINE full == LineIsFull(x + a, t)
    <3>1. v = (IF full THEN 0 ELSE x + a) /\ w = y + (IF full THEN b ELSE 0)
      BY NextPlaceLemma
    <3> HIDE DEF full, x, y, v, w, a, b
    <3> QED BY <1>3, <3>1
  <2> HIDE DEF x, y, v, w, a, b
  <2> QED BY <1>3, <1>4, <2>1, <2>2, <2>3, <2>4
<1>7. \A k \in Printed(t) : Row(t, k) + b <= y \/ (Row(t, k) = y /\ Column(t, k) + a <= x)
  BY DEF Behind
<1>8. Behind(u) <=> \A k \in Printed(u) : \/ Row(u, k) + b <= w
                                          \/ Row(u, k) = w /\ Column(u, k) + a <= v
  <2>1. Len(u.str) + 1 = n + 1
    BY <1>1
  <2> HIDE DEF n
  <2> QED BY <1>1, <2>1 DEF Behind
<1>9. ASSUME NEW k \in Printed(u)
      PROVE  Row(u, k) + b <= w \/ (Row(u, k) = w /\ Column(u, k) + a <= v)
  <2>1. k \in 1..n /\ Row(u, k) = Row(t, k) /\ Column(u, k) = Column(t, k)
        /\ Row(t, k) \in Nat /\ Column(t, k) \in Nat
    BY <1>1, <1>5
  <2>2. CASE k = n
    <3>1. Row(t, k) = y /\ Column(t, k) = x /\ c \in DOMAIN Font
      BY <1>1, <2>2
    <3> HIDE DEF x, y, v, w, a, b, n
    <3> QED BY <1>3, <1>4, <1>6, <2>1, <3>1
  <2>3. CASE k # n
    <3> DEFINE l == Len(t.str)
    <3>0. k \in 1..l
      <4>1. n = l + 1 /\ l \in Nat
        BY <1>1
      <4> HIDE DEF n, l
      <4> QED BY <2>1, <2>3, <4>1
    <3>1. k \in Printed(t)
      BY <1>1, <3>0
    <3>2. Row(t, k) + b <= y \/ (Row(t, k) = y /\ Column(t, k) + a <= x)
      BY <1>7, <3>1
    <3> HIDE DEF x, y, v, w, a, b, n
    <3> QED BY <1>3, <1>4, <1>6, <2>1, <3>2
  <2> QED BY <2>2, <2>3
<1> QED BY <1>8, <1>9

\* What was there fits where it was.
LEMMA FitsLemma ==
    ASSUME NEW t \in Texts, NEW c \in Letters, NEW u, u = [t EXCEPT !.str = Append(@, c)]
    PROVE  /\ NoTabs(u) => NoTabs(t) /\ c # Tab
           /\ Fits(u) => Fits(t) /\ NoTabs(u)
           /\ Fits(u) /\ c \in DOMAIN Font =>
                 OnScreen(Column(t, Len(t.str) + 1), Row(t, Len(t.str) + 1), t.size)
<1> DEFINE n == Len(t.str) + 1
<1>1. /\ u \in Texts /\ u.size = t.size /\ Len(t.str) \in Nat
      /\ DOMAIN t.str = 1..Len(t.str) /\ DOMAIN u.str = 1..n
      /\ \A q \in 1..Len(t.str) : u.str[q] = t.str[q]
      /\ u.str[n] = c
      /\ \A q \in 1..Len(t.str) : q \in Printed(u) <=> q \in Printed(t)
      /\ n \in Printed(u) <=> c \in DOMAIN Font
      /\ Printed(t) \subseteq 1..Len(t.str)
  BY AppendedLemma
<1>2. n \in 1..n /\ \A q \in 1..Len(t.str) : q \in 1..n
  BY <1>1
<1>3. \A k \in 1..n : /\ Column(u, k) = Column(t, k) /\ Row(u, k) = Row(t, k)
                      /\ Column(t, k) \in Nat /\ Row(t, k) \in Nat
  BY StaysLemma, ByLineLemma
<1> HIDE DEF n
<1>4. NoTabs(u) => NoTabs(t) /\ c # Tab
  BY <1>1, <1>2 DEF NoTabs
<1>5. Fits(u) => NoTabs(u)
  BY DEF Fits, NoTabs
<1>6. Fits(u) => Fits(t)
  <2> SUFFICES ASSUME Fits(u) PROVE Fits(t)
    OBVIOUS
  <2>1. \A k \in DOMAIN t.str : t.str[k] # Tab
    BY <1>4, <1>5 DEF NoTabs
  <2>2. ASSUME NEW k \in Printed(t)
        PROVE  Column(t, k) + 6 * t.size <= Width /\ Row(t, k) + 8 * t.size <= Height
    <3>1. k \in Printed(u) /\ Column(u, k) = Column(t, k) /\ Row(u, k) = Row(t, k)
      BY <1>1, <1>2, <1>3
    <3>2. Column(u, k) + 6 * u.size <= Width /\ Row(u, k) + 8 * u.size <= Height
      BY <3>1 DEF Fits
    <3> QED BY <1>1, <3>1, <3>2
  <2> QED BY <2>1, <2>2 DEF Fits
<1>7. ASSUME Fits(u), c \in DOMAIN Font PROVE OnScreen(Column(t, n), Row(t, n), t.size)
  <2>1. n \in Printed(u) /\ Column(u, n) = Column(t, n) /\ Row(u, n) = Row(t, n)
    BY <1>1, <1>2, <1>3, <1>7
  <2>2. Column(u, n) + 6 * u.size <= Width /\ Row(u, n) + 8 * u.size <= Height
    BY <1>7, <2>1 DEF Fits
  <2>3. t.size \in Nat \ {0} /\ Column(t, n) \in Nat /\ Row(t, n) \in Nat
    BY <1>2, <1>3 DEF Texts
  <2> QED BY <1>1, <2>1, <2>2, <2>3 DEF OnScreen
<1> QED BY <1>4, <1>5, <1>6, <1>7 DEF n

\* The cells and the ink of t are the same in u.
Same(u, t, q) ==
    \A k \in Printed(t) : /\ InCell(u, k, q) <=> InCell(t, k, q)
                          /\ IsInk(u, k, q) <=> IsInk(t, k, q)

\* Where the older characters are, one more changes nothing.
LEMMA OlderLemma ==
    ASSUME NEW t \in Texts, NEW c \in Letters, NEW u, u = [t EXCEPT !.str = Append(@, c)], NEW q
    PROVE  LET n == Len(t.str) + 1
               d == Dot(q, Column(t, n), Row(t, n), t.size)
           IN  /\ Same(u, t, q)
               /\ InCell(u, n, q) <=> d \in (0..5) \X (0..7)
               /\ IsInk(u, n, q) <=> d \in Font[c]
               /\ c \in DOMAIN Font => Printed(u) = Printed(t) \union {n}
               /\ c \notin DOMAIN Font => Printed(u) = Printed(t)
<1> DEFINE n == Len(t.str) + 1
<1>1. /\ u.size = t.size /\ Len(t.str) \in Nat
      /\ \A k \in 1..Len(t.str) : u.str[k] = t.str[k]
      /\ u.str[n] = c
      /\ \A k \in 1..Len(t.str) : k \in Printed(u) <=> k \in Printed(t)
      /\ n \in Printed(u) <=> c \in DOMAIN Font
      /\ Printed(t) \subseteq 1..Len(t.str) /\ Printed(u) \subseteq 1..n
  BY AppendedLemma
<1>2. /\ n \in 1..n /\ n \notin 1..Len(t.str)
      /\ \A k \in 1..Len(t.str) : k \in 1..n
      /\ \A k \in 1..n : k = n \/ k \in 1..Len(t.str)
  BY <1>1
<1>3. \A k \in 1..n : Column(u, k) = Column(t, k) /\ Row(u, k) = Row(t, k)
  BY StaysLemma
<1> HIDE DEF n
<1>4. Same(u, t, q)
  BY <1>1, <1>2, <1>3 DEF InCell, IsInk, Same
<1>5. /\ InCell(u, n, q) <=> Dot(q, Column(t, n), Row(t, n), t.size) \in (0..5) \X (0..7)
      /\ IsInk(u, n, q) <=> Dot(q, Column(t, n), Row(t, n), t.size) \in Font[c]
  BY <1>1, <1>2, <1>3 DEF InCell, IsInk
<1>6. /\ c \in DOMAIN Font => Printed(u) = Printed(t) \union {n}
      /\ c \notin DOMAIN Font => Printed(u) = Printed(t)
  <2> DEFINE P == Printed(t)
             N == Printed(u)
  <2>1. \A k \in N : k = n \/ k \in P
    BY <1>1, <1>2
  <2>2. \A k \in P : k \in N
    BY <1>1
  <2>3. n \in N <=> c \in DOMAIN Font
    BY <1>1
  <2>4. n \notin P
    BY <1>1, <1>2
  <2> HIDE DEF P, N
  <2>5. CASE c \in DOMAIN Font
    <3>1. N = P \union {n}
      BY <2>1, <2>2, <2>3, <2>5
    <3> QED BY <2>5, <3>1 DEF P, N
  <2>6. CASE c \notin DOMAIN Font
    <3>1. N = P
      BY <2>1, <2>2, <2>3, <2>6
    <3> QED BY <2>6, <3>1 DEF P, N
  <2> QED BY <2>5, <2>6
<1> QED BY <1>4, <1>5, <1>6 DEF n

\* The new character is beside all the older ones.
LEMMA ApartLemma ==
    ASSUME NEW t \in Texts, Behind(t), NEW k \in Printed(t), NEW q \in Screen,
           InCell(t, k, q), InCell(t, Len(t.str) + 1, q)
    PROVE  FALSE
<1> DEFINE n == Len(t.str) + 1
           x == Column(t, n)
           y == Row(t, n)
           v == Column(t, k)
           w == Row(t, k)
           a == 6 * t.size
           b == 8 * t.size
<1>1. k \in 1..n /\ n \in 1..n
  <2>1. Len(t.str) \in Nat /\ DOMAIN t.str = 1..Len(t.str)
    BY DEF Texts
  <2>2. k \in DOMAIN t.str
    BY DEF Printed
  <2> QED BY <2>1, <2>2
<1>2. x \in Nat /\ y \in Nat /\ v \in Nat /\ w \in Nat
  BY <1>1, ByLineLemma
<1>3. x <= q[1] /\ q[1] < x + a /\ y <= q[2] /\ q[2] < y + b
  BY <1>1, InCellLemma
<1>4. v <= q[1] /\ q[1] < v + a /\ w <= q[2] /\ q[2] < w + b
  BY <1>1, InCellLemma
<1>5. w + b <= y \/ (w = y /\ v + a <= x)
  BY DEF Behind
<1>6. a \in Nat /\ b \in Nat /\ q[1] \in Int /\ q[2] \in Int
  BY ScreenAssumption DEF Texts, Screen, Columns, Rows
<1> HIDE DEF n, x, y, v, w, a, b
<1> QED BY <1>2, <1>3, <1>4, <1>5, <1>6

\* What of a text is on the screen.
Shows(buf, t) == \A q \in Screen : Shown(buf, q[1], q[2]) = Should(t, q)

LEMMA OneMoreLemma ==
    ASSUME NEW t \in Texts, NEW c \in DOMAIN Font, NEW u, u = [t EXCEPT !.str = Append(@, c)],
           Behind(t), Fits(u), NEW buf \in Buffers, Shows(buf, t)
    PROVE  LET n == Len(t.str) + 1
               new == drawChar(buf, Column(t, n), Row(t, n), c, t.c, t.bg, t.size)
           IN  new \in Buffers /\ Shows(new, u)
<1> DEFINE n == Len(t.str) + 1
           x == Column(t, n)
           y == Row(t, n)
           new == drawChar(buf, x, y, c, t.c, t.bg, t.size)
<1>1. c \in Letters /\ t.c \in Colours /\ t.bg \in Colours /\ u.c = t.c /\ u.bg = t.bg
  <2>1. c \in Letters
    BY DEF Letters
  <2> QED BY <2>1, AppendedLemma DEF Texts
<1>2. OnScreen(x, y, t.size)
  BY <1>1, FitsLemma
<1>3. /\ new \in Buffers
      /\ \A q \in Screen :
            Shown(new, q[1], q[2]) =
                IF Dot(q, x, y, t.size) \in (0..5) \X (0..7)
                THEN IF Dot(q, x, y, t.size) \in Font[c] THEN t.c
                     ELSE IF t.bg # t.c THEN t.bg ELSE Shown(buf, q[1], q[2])
                ELSE Shown(buf, q[1], q[2])
  <2> HIDE DEF n, x, y
  <2>1. new \in Buffers /\ CharShown(new, buf, x, y, c, t.c, t.bg, t.size)
    BY <1>1, <1>2, CharLemma
  <2> QED BY <2>1 DEF CharShown
<1>4. ASSUME NEW q \in Screen PROVE Shown(new, q[1], q[2]) = Should(u, q)
  <2> DEFINE d == Dot(q, x, y, t.size)
             in(k) == InCell(t, k, q)
             ink(k) == IsInk(t, k, q)
             P == Printed(t)
             old == Shown(buf, q[1], q[2])
             now == Shown(new, q[1], q[2])
             cell == d \in (0..5) \X (0..7)
             black == d \in Font[c]
  <2>1. now = IF cell THEN IF black THEN t.c ELSE IF t.bg # t.c THEN t.bg ELSE old ELSE old
    BY <1>3
  <2>2. old = IF \E k \in P : in(k) /\ ink(k) THEN t.c
              ELSE IF (\E k \in P : in(k)) /\ t.bg # t.c THEN t.bg ELSE Ground
    BY DEF Shows, Should
  <2>3. /\ \A k \in P : (InCell(u, k, q) <=> in(k)) /\ (IsInk(u, k, q) <=> ink(k))
        /\ InCell(u, n, q) <=> cell
        /\ IsInk(u, n, q) <=> black
        /\ Printed(u) = P \union {n}
    <3>1. /\ Same(u, t, q) /\ Printed(u) = P \union {n}
          /\ InCell(u, n, q) <=> cell
          /\ IsInk(u, n, q) <=> black
      BY <1>1, OlderLemma
    <3> QED BY <3>1 DEF Same
  <2>4. cell => \A k \in P : ~ in(k)
    <3>1. cell <=> InCell(t, n, q)
      BY DEF InCell
    <3> QED BY <3>1, ApartLemma
  <2>5. /\ (\E k \in Printed(u) : InCell(u, k, q) /\ IsInk(u, k, q))
              <=> (\E k \in P : in(k) /\ ink(k)) \/ (cell /\ black)
        /\ (\E k \in Printed(u) : InCell(u, k, q)) <=> (\E k \in P : in(k)) \/ cell
    <3> HIDE DEF n, x, y, d, in, ink, P, cell, black
    <3>1. \A k : k \in Printed(u) <=> k \in P \/ k = n
      BY <2>3
    <3> QED BY <2>3, <3>1
  <2>6. Should(u, q) = IF (\E k \in P : in(k) /\ ink(k)) \/ (cell /\ black) THEN t.c
                       ELSE IF ((\E k \in P : in(k)) \/ cell) /\ t.bg # t.c THEN t.bg ELSE Ground
    BY <1>1, <2>5 DEF Should
  <2> HIDE DEF n, x, y, d, in, ink, P, cell, black, old, now
  <2>7. now = Should(u, q)
    BY <2>1, <2>2, <2>4, <2>6
  <2> QED BY <2>7 DEF now
<1>5. Shows(new, u)
  BY <1>4 DEF Shows
<1> QED BY <1>3, <1>5

LEMMA NoMoreLemma ==
    ASSUME NEW t \in Texts, NEW c \in Letters, c \notin DOMAIN Font,
           NEW u, u = [t EXCEPT !.str = Append(@, c)]
    PROVE  \A q : Should(u, q) = Should(t, q)
<1> SUFFICES ASSUME NEW q PROVE Should(u, q) = Should(t, q)
  OBVIOUS
<1>1. /\ \A k \in Printed(t) : /\ InCell(u, k, q) <=> InCell(t, k, q)
                               /\ IsInk(u, k, q) <=> IsInk(t, k, q)
      /\ Printed(u) = Printed(t)
  <2>1. Same(u, t, q) /\ Printed(u) = Printed(t)
    BY OlderLemma
  <2> QED BY <2>1 DEF Same
<1>2. u.c = t.c /\ u.bg = t.bg
  BY AppendedLemma
<1>3. /\ (\E k \in Printed(u) : InCell(u, k, q) /\ IsInk(u, k, q))
            <=> (\E k \in Printed(t) : InCell(t, k, q) /\ IsInk(t, k, q))
      /\ (\E k \in Printed(u) : InCell(u, k, q)) <=> (\E k \in Printed(t) : InCell(t, k, q))
  BY <1>1
<1> QED BY <1>2, <1>3 DEF Should

\* The cursor is where the next character goes, everything printed is behind it,
\* and as long as the text fits the screen shows what it should.
Written(t) ==
    LET n == Len(t.str) + 1
    IN  /\ cursor_x = Column(t, n) /\ cursor_y = Row(t, n)
        /\ Behind(t)
        /\ Fits(t) => vga \in Buffers /\ Shows(vga, t)

TextInv == drawn \in Texts /\ NoTabs(drawn) => Written(drawn)

LEMMA SetTextLemma ==
    ASSUME DrawnInv, NEW t \in Settings, SetText(t)
    PROVE  TextInv'
<1>1. drawn' = t /\ cursor_x' = t.x /\ cursor_y' = t.y /\ vga' = vga /\ drawn = Nothing
  BY DEF SetText
<1>2. vga = Blank
  <2>1. Nothing.kind = "nothing" /\ \A s \in Texts : s.kind = "text"
    BY DEF Nothing, Texts
  <2> QED BY <1>1, <2>1, MenuLemma DEF DrawnInv
<1> SUFFICES ASSUME t \in Texts PROVE Written(t)'
  BY <1>1 DEF TextInv
<1>3. t.str = <<>> /\ Len(t.str) = 0 /\ t.x \in Nat /\ t.y \in Nat /\ t.size \in Nat
  <2>1. t.str = <<>>
    BY TextAssumption
  <2>2. t.x \in Nat /\ t.y \in Nat /\ t.size \in Nat
    BY DEF Texts
  <2> QED BY <2>1, <2>2
<1>4. Printed(t) = {}
  BY <1>3 DEF Printed
<1>5. Feed(t, 1) = 0 /\ Start(t, 1) = t.x
  <2>1. 1 \in 1..(Len(t.str) + 1)
    BY <1>3
  <2>2. Feed(t, 1) \in 0..(1 - 1)
    BY <2>1, FeedLemma
  <2> QED BY <2>2 DEF Start
<1>6. Column(t, 1) = t.x
  <2>1. Before(t, 1) = 0
    <3>1. {q \in Printed(t) : q > Feed(t, 1) /\ q < 1} = {}
      BY <1>4
    <3> QED BY <3>1, FS_EmptySet DEF Before
  <2>2. Column(t, 1) = LineColumn(t, Start(t, 1), Before(t, 1))
    <3>1. 1 \in 1..(Len(t.str) + 1)
      BY <1>3
    <3> QED BY <3>1, ByLineLemma
  <2> QED BY <1>3, <1>5, <2>1, <2>2, WrapLemma
<1>7. Row(t, 1) = t.y
  <2>1. {q \in 1..(1 - 1) : EndsLine(t, q)} = {}
    OBVIOUS
  <2>2. Cardinality({q \in 1..(1 - 1) : EndsLine(t, q)}) = 0
    BY <2>1, FS_EmptySet
  <2>3. Row(t, 1) = t.y + 8 * t.size * 0
    BY <2>2 DEF Row
  <2> QED BY <1>3, <2>3
<1>8. Behind(t)
  BY <1>4 DEF Behind
<1>9. Blank \in Buffers /\ Shows(Blank, t)
  <2>1. \A q \in Screen : Should(t, q) = Ground
    BY <1>4 DEF Should
  <2>2. \A q \in Screen : q[1] \in Columns /\ q[2] \in Rows
    BY DEF Screen
  <2> QED BY <2>1, <2>2, BlankLemma DEF Shows
<1>10. Len(t.str) + 1 = 1
  BY <1>3
<1> QED BY <1>1, <1>2, <1>6, <1>7, <1>8, <1>9, <1>10 DEF Written

LEMMA WriteNextLemma ==
    ASSUME NEW t \in Texts, drawn = t, TextInv, NEW c \in Letters, WriteNext(c),
           NEW u, u = [t EXCEPT !.str = Append(@, c)]
    PROVE  TextInv'
<1> DEFINE n == Len(t.str) + 1
           x == Column(t, n)
           y == Row(t, n)
<1>1. drawn' = u /\ tft_write(c)
  BY DEF WriteNext
<1> SUFFICES ASSUME NoTabs(u) PROVE Written(u)'
  BY <1>1 DEF TextInv
<1>2. /\ NoTabs(t) /\ c # Tab
      /\ Fits(u) => Fits(t)
  BY FitsLemma
<1>3. /\ cursor_x = x /\ cursor_y = y /\ Behind(t)
      /\ Fits(t) => vga \in Buffers /\ Shows(vga, t)
  BY <1>2 DEF TextInv, Written
<1>4. Len(u.str) = n /\ n \in Nat
  BY AppendedLemma
<1>5. Behind(u)
  BY <1>2, <1>3, BehindLemma
<1>6. /\ c = LF => Column(u, n + 1) = 0 /\ Row(u, n + 1) = y + 8 * t.size
      /\ c = CR => Column(u, n + 1) = x /\ Row(u, n + 1) = y
      /\ c \in DOMAIN Font =>
            /\ Column(u, n + 1) = IF LineIsFull(x + 6 * t.size, t) THEN 0 ELSE x + 6 * t.size
            /\ Row(u, n + 1) = y + IF LineIsFull(x + 6 * t.size, t) THEN 8 * t.size ELSE 0
  BY <1>2, NextPlaceLemma
<1>7. cursor_x' = Column(u, n + 1) /\ cursor_y' = Row(u, n + 1)
      /\ (Fits(u) => vga' \in Buffers /\ Shows(vga', u))
  <2>1. CASE c = LF
    <3>1. cursor_x' = 0 /\ cursor_y' = cursor_y + 8 * t.size /\ vga' = vga
      BY <1>1, <2>1, TextAssumption DEF tft_write
    <3>2. c \notin DOMAIN Font
      BY <2>1, TextAssumption
    <3>3. \A q : Should(u, q) = Should(t, q)
      BY <3>2, NoMoreLemma
    <3>4. Fits(u) => vga' \in Buffers /\ Shows(vga', u)
      BY <1>2, <1>3, <3>1, <3>3 DEF Shows
    <3> QED BY <1>3, <1>6, <2>1, <3>1, <3>4
  <2>2. CASE c = CR
    <3>1. cursor_x' = cursor_x /\ cursor_y' = cursor_y /\ vga' = vga
      BY <1>1, <2>2, TextAssumption DEF tft_write, cursor
    <3>2. c \notin DOMAIN Font
      BY <2>2, TextAssumption
    <3>3. \A q : Should(u, q) = Should(t, q)
      BY <3>2, NoMoreLemma
    <3>4. Fits(u) => vga' \in Buffers /\ Shows(vga', u)
      BY <1>2, <1>3, <3>1, <3>3 DEF Shows
    <3> QED BY <1>3, <1>6, <2>2, <3>1, <3>4
  <2>3. CASE c \in DOMAIN Font
    <3>1. c # LF /\ c # CR /\ c # Tab
      BY <2>3, TextAssumption
    <3>2. /\ vga' = drawChar(vga, cursor_x, cursor_y, c, t.c, t.bg, t.size)
          /\ cursor_x' = IF LineIsFull(cursor_x + 6 * t.size, t) THEN 0 ELSE cursor_x + 6 * t.size
          /\ cursor_y' = cursor_y + IF LineIsFull(cursor_x + 6 * t.size, t) THEN 8 * t.size ELSE 0
      BY <1>1, <3>1 DEF tft_write
    <3>3. Fits(u) => vga' \in Buffers /\ Shows(vga', u)
      BY <1>2, <1>3, <2>3, <3>2, OneMoreLemma
    <3> QED BY <1>3, <1>6, <2>3, <3>2, <3>3
  <2> QED BY <1>2, <2>1, <2>2, <2>3 DEF Letters
<1>8. Len(u.str) + 1 = n + 1
  BY <1>4
<1> HIDE DEF n, x, y
<1> QED BY <1>1, <1>5, <1>7, <1>8 DEF Written

LEMMA TextInvLemma == TextSpec => []TextInv
<1>1. TextInit => TextInv
  <2>1. Nothing.kind = "nothing" /\ \A s \in Texts : s.kind = "text"
    BY DEF Nothing, Texts
  <2> QED BY <2>1 DEF TextInit, Init, TextInv
<1>2. TextInv /\ DrawnInv /\ [TextNext]_<<vars, cursor>> => TextInv'
  <2> SUFFICES ASSUME TextInv, DrawnInv, [TextNext]_<<vars, cursor>> PROVE TextInv'
    OBVIOUS
  <2>0. \A t \in Texts : t.kind = "text"
    BY DEF Texts
  <2>1. ASSUME NEW s \in Menu, Draw(s) PROVE TextInv'
    <3>1. drawn' = s /\ s \notin Texts
      BY <2>0, <2>1, MenuLemma DEF Draw
    <3> QED BY <3>1 DEF TextInv
  <2>2. ASSUME NEW t \in Settings, SetText(t) PROVE TextInv'
    BY <2>2, SetTextLemma
  <2>3. ASSUME NEW c \in Letters, WriteNext(c) PROVE TextInv'
    <3>1. drawn.kind = "text"
      BY <2>3 DEF WriteNext
    <3>2. drawn \in Texts
      BY <3>1, MenuLemma DEF DrawnInv, Nothing
    <3>3. PICK t \in Texts : drawn = t
      BY <3>2
    <3>4. PICK u : u = [t EXCEPT !.str = Append(@, c)]
      OBVIOUS
    <3> QED BY <2>3, <3>3, <3>4, WriteNextLemma
  <2>4. CASE UNCHANGED <<vars, cursor>>
    BY <2>4 DEF TextInv, Written, vars, cursor
  <2> QED BY <2>1, <2>2, <2>3, <2>4 DEF TextNext, Next, Letters
<1> QED BY <1>1, <1>2, DrawnLemma, PTL DEF TextSpec

LEMMA TextIsWholeLemma == DrawnInv /\ TextInv => TextIsWhole
<1> SUFFICES ASSUME DrawnInv, TextInv PROVE TextIsWhole
  OBVIOUS
<1>1. CASE drawn.kind = "text"
  <2>1. drawn \in Texts
    BY <1>1, MenuLemma DEF DrawnInv, Nothing
  <2>2. Fits(drawn) => Shows(vga, drawn)
    <3>1. Fits(drawn) => NoTabs(drawn)
      BY DEF Fits, NoTabs
    <3> QED BY <2>1, <3>1 DEF TextInv, Written
  <2> QED BY <2>1, <2>2, ShouldLemma DEF Shows
<1>2. CASE drawn.kind # "text"
  BY <1>2 DEF TextIsWhole
<1> QED BY <1>1, <1>2

\* Whatever the font, the place, the size, the colours and the wrap: a text that fits is
\* on the screen character for character, each whole and in its cell, and nothing else is
\* there (drawChar, tft_write and writeString, vga_graphics.c:450-554).
THEOREM TextTheorem == TextSpec => []TextIsWhole
BY TextIsWholeLemma, TextInvLemma, DrawnLemma, PTL
=============================================================================
