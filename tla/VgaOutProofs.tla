---------------------------- MODULE VgaOutProofs ----------------------------
(***************************************************************************)
(* The picture generator for every size of a picture, every length of the  *)
(* porches and every delay of the bus below the ten cycles in which rgb    *)
(* takes a byte.                                                           *)
(*                                                                         *)
(* Nobody compares the three machines, so the proof gives them a common    *)
(* clock: the place of hsync in its program is a number of cycles since    *)
(* its last interrupt, and each place of vsync and of rgb says what that   *)
(* number is.                                                              *)
(***************************************************************************)
EXTENDS VgaOut, TLAPS

h == sm["hsync"]
v == sm["vsync"]
r == sm["rgb"]
bytes == fifo["rgb"]

\* The clocks of hsync since its last interrupt, and the cycles of the system.
Clock ==
    IF h.pc = 0 THEN 0
    ELSE IF h.pc = 1 THEN 1 - h.delay
    ELSE IF h.pc = 2 THEN H_ACTIVE + 2 - h.x
    ELSE IF h.pc = 3 THEN H_ACTIVE + 3
    ELSE IF h.pc = 8 THEN H_ACTIVE + 144 - h.delay
    ELSE H_ACTIVE + 32 * h.pc - 93 - h.delay

Cycle == 5 * Clock + IF phase = 0 THEN 4 ELSE phase - 1

Started == since # NotYet

Registers == [pc : Nat, x : Int, y : Int, osr : Int, shift : 0..2, delay : 0..31]

\* hsync follows the clock; hsync is low in the places 4 to 6.
HsyncTime ==
    /\ h \in Registers /\ h.pc <= 8 /\ h.x \in -1..H_ACTIVE
    /\ h.pc \in {0, 2, 3} => h.delay = 0
    /\ h.pc = 1 => h.delay <= 1
    /\ h.pc = 8 => h.delay <= 12
    /\ h.pc = 2 => h.x >= 0
    /\ h.pc = 0 => ~Started
    /\ h.pc # 0 => h.osr = H_ACTIVE
    /\ Started => since = Clock
    /\ pin["hsync"] \in {0, 1}
    /\ pin["hsync"] = 0 => h.pc \in 4..6 \/ (h.pc <= 3 /\ ~Started)

HsyncFifo == fifo["hsync"] = IF h.pc = 0 THEN <<H_ACTIVE>> ELSE <<>>

HsyncInv == HsyncTime /\ HsyncFifo

\* The line that vsync counts is in its registers.
VsyncLine ==
    /\ v \in Registers /\ v.pc <= 13 /\ v.x \in -1..V_ACTIVE /\ v.delay = 0
    /\ v.pc \in {2, 3, 4} => v.x >= 0
    /\ v.pc # 0 => v.osr = V_ACTIVE
    /\ v.pc = 0 => line = 0
    /\ v.pc = 1 => line \in {0, Lines}
    /\ v.pc \in {2, 3} => line = V_ACTIVE - v.x
    /\ v.pc = 4 => line = Lines - v.x
    /\ v.pc >= 5 => line = Lines
    /\ pin["vsync"] \in {0, 1}

\* vsync waits for the interrupt at its places 2, 6, 9, 10 and 12, and is back at
\* one of them four clocks after it; irq 1 lasts a cycle.
VsyncTime ==
    /\ irq \subseteq {0, 1}
    /\ 0 \in irq <=> Started /\ Clock = 0
    /\ 1 \in irq <=> Started /\ Clock = 2 /\ phase = 1 /\ v.pc = 4
    /\ ~Started => v.pc = IF Clock < 2 THEN Clock ELSE 2
    /\ Started =>
          /\ Clock = 0 => v.pc \in {2, 6, 9, 10, 12}
          /\ Clock = 1 => v.pc \in {3, 7, 10, 11, 13}
          /\ Clock = 2 => v.pc \in {1, 4, 6, 8, 10, 12}
          /\ Clock = 3 => v.pc \in {2, 5, 6, 9, 10, 12}
          /\ Clock >= 4 => v.pc \in {2, 6, 9, 10, 12}

VsyncFifo == fifo["vsync"] = IF v.pc = 0 THEN <<V_ACTIVE>> ELSE <<>>

VsyncInv == VsyncLine /\ VsyncTime /\ VsyncFifo

\* The bytes of the line that rgb has finished.
k == RGB_ACTIVE - r.x

\* The cycle in which rgb is at its place, out of place 4.
RgbCycle ==
    IF r.pc \in {2, 3} THEN 12 + r.pc + 10 * Bytes
    ELSE IF r.pc = 5 THEN 14 + 10 * k - r.delay
    ELSE IF r.pc = 6 THEN 15 + 10 * k
    ELSE IF r.pc = 7 THEN 20 + 10 * k - r.delay
    ELSE 23 + 10 * k - r.delay

RgbRegs ==
    /\ r \in Registers /\ r.pc <= 8 /\ r.x \in -1..RGB_ACTIVE /\ r.delay <= 4
    /\ r.pc \in {0, 1, 2, 3, 4, 6} => r.delay = 0
    /\ r.pc = 5 => r.delay <= 3
    /\ r.pc = 8 => r.delay <= 2
    /\ r.pc = 6 => r.shift = 0
    /\ r.pc = 7 => r.shift = 1
    /\ r.pc = 1 => r.osr = RGB_ACTIVE
    /\ r.pc >= 2 => r.y = RGB_ACTIVE
    /\ r.pc >= 5 => r.x >= 0
    /\ r.pc = 4 \/ (r.pc = 5 /\ r.delay > 0) => r.x = RGB_ACTIVE

\* rgb starts a line in time for its first pixel, and ends it before the next one.
RgbTime ==
    /\ ~Started => r.pc <= 4 /\ (r.pc < 4 => Cycle = 4 + r.pc)
    /\ Started /\ r.pc # 4 =>
          /\ r.pc >= 2 /\ Cycle = RgbCycle
          /\ v.pc \in {2, 4, 5, 6} /\ line >= 1
    /\ ~Started \/ r.pc \in {3, 4} => pin["rgb"] = Black

RgbInv == RgbRegs /\ RgbTime

\* The first byte of the line with index l; the byte that rgb takes next.
First(l) == l * Bytes

Upcoming ==
    IF r.pc >= 6 THEN First(line - 1) + k + 1
    ELSE IF r.pc = 5 THEN First(line - 1) + k
    ELSE IF r.pc = 4 /\ 1 \in irq THEN First(line - 1)
    ELSE IF line = Lines THEN 0 ELSE First(line)

Wrap(n) == IF n >= TXCOUNT THEN n - TXCOUNT ELSE n

\* q holds the bytes from u on, up to the one before a.
Chain(q, u, a) ==
    /\ \A i \in 1..Len(q) : q[i] = Wrap(u + i - 1)
    /\ u + Len(q) \in {a, a + TXCOUNT}

ColourInv == pin["rgb"] \in {Black} \union 0..(2 * TXCOUNT - 1)

\* The FIFO holds what rgb takes next, up to what the DMA reads next.
BytesInv ==
    /\ bytes \in Seq(Nat)
    /\ r.pc = 0 => bytes = <<RGB_ACTIVE>> /\ read = 0
    /\ r.pc # 0 => Chain(bytes, Upcoming, read)
    /\ r.pc \in {6, 7, 8} => r.osr = First(line - 1) + k

Turn == Slack + 1
Reloads == IF read = TXCOUNT THEN 1 ELSE 0
Full == Len(bytes) = FifoDepth /\ read # TXCOUNT /\ lag = 0

\* The cycles in which the DMA fills the FIFO again: if it has to reload now, and
\* if it has to reload before every byte.
Work == Turn * (FifoDepth - Len(bytes) + Reloads) - lag
MostWork == Turn * (2 * (FifoDepth - Len(bytes)) + Reloads) - lag

\* The cycles since rgb took a byte.
Age == IF r.pc = 6 THEN 0
       ELSE IF r.pc = 7 THEN 5 - r.delay
       ELSE IF r.pc = 8 THEN 8 - r.delay
       ELSE 9

\* The DMA has passed the end of the frame buffer, rgb has not.
Wrapped == read = TXCOUNT \/ read + TXCOUNT = Upcoming + Len(bytes)

\* Between lines the DMA fills the FIFO; in a line its work is less than two turns.
DmaInv ==
    /\ Len(bytes) <= FifoDepth /\ read \in 0..TXCOUNT /\ lag \in 0..Slack
    /\ r.pc = 0 => lag = 0
    /\ r.pc \in 1..4 =>
          \/ Full
          \/ /\ MostWork + Cycle <= 104 + 10 * Bytes
             /\ Started => Cycle >= 14 + 10 * Bytes
    /\ r.pc = 5 /\ k = 0 => Full
    /\ r.pc >= 5 => Full \/ Work + Age <= Turn * (IF Wrapped THEN 2 ELSE 1)

IInv ==
    /\ phase \in 0..4
    /\ HsyncInv /\ VsyncInv /\ RgbInv /\ ColourInv /\ BytesInv /\ DmaInv

-----------------------------------------------------------------------------
(* What the machines do in a cycle.                                          *)

\* A machine that is not due, that counts a delay, that waits, or that executes.
LEMMA MachineLemma ==
    ASSUME Tick, NEW m \in Machines
    PROVE  /\ sm'[m] = NextMachine(m) /\ pin'[m] = NextPin(m)
           /\ m # "rgb" => fifo'[m] = Pulled(m)
BY DEF Tick, Transfer, NoTransfer

\* The instruction that m executes next.
Runs(m, op, arg, delay) == Instr(m).op = op /\ Instr(m).arg = arg /\ Instr(m).delay = delay

\* The instructions of hsync.pio by their places.
LEMMA HsyncCode ==
    /\ Len(Program("hsync")) = 9 /\ WrapTarget("hsync") = 1
    /\ h.pc = 0 => Runs("hsync", "pull", 0, 0)
    /\ h.pc = 1 => Runs("hsync", "x=osr", 0, 0)
    /\ h.pc = 2 => Runs("hsync", "jmp_x--", 2, 0)
    /\ h.pc = 3 => Runs("hsync", "set_pins", 0, 31)
    /\ h.pc = 4 => Runs("hsync", "set_pins", 0, 31)
    /\ h.pc = 5 => Runs("hsync", "set_pins", 0, 31)
    /\ h.pc = 6 => Runs("hsync", "set_pins", 1, 31)
    /\ h.pc = 7 => Runs("hsync", "set_pins", 1, 12)
    /\ h.pc = 8 => Runs("hsync", "irq", 0, 1)
<1>1. Program("hsync") = Hsync /\ WrapTarget("hsync") = 1
  BY DEF Program, WrapTarget
<1>2. Len(Hsync) = 9
  BY DEF Hsync
<1>3. Instr("hsync") = Hsync[h.pc + 1]
  BY <1>1 DEF Instr, h
<1>4. h.pc = 0 => Runs("hsync", "pull", 0, 0)
  <2>1. Hsync[1] = I("pull", 0, 0)
    BY DEF Hsync
  <2>2. Hsync[1].op = "pull" /\ Hsync[1].arg = 0 /\ Hsync[1].delay = 0
    BY <2>1 DEF I
  <2>3. h.pc = 0 => Instr("hsync") = Hsync[1]
    BY <1>3
  <2> QED BY <2>2, <2>3 DEF Runs
<1>5. h.pc = 1 => Runs("hsync", "x=osr", 0, 0)
  <2>1. Hsync[2] = I("x=osr", 0, 0)
    BY DEF Hsync
  <2>2. Hsync[2].op = "x=osr" /\ Hsync[2].arg = 0 /\ Hsync[2].delay = 0
    BY <2>1 DEF I
  <2>3. h.pc = 1 => Instr("hsync") = Hsync[2]
    BY <1>3
  <2> QED BY <2>2, <2>3 DEF Runs
<1>6. h.pc = 2 => Runs("hsync", "jmp_x--", 2, 0)
  <2>1. Hsync[3] = I("jmp_x--", 2, 0)
    BY DEF Hsync
  <2>2. Hsync[3].op = "jmp_x--" /\ Hsync[3].arg = 2 /\ Hsync[3].delay = 0
    BY <2>1 DEF I
  <2>3. h.pc = 2 => Instr("hsync") = Hsync[3]
    BY <1>3
  <2> QED BY <2>2, <2>3 DEF Runs
<1>7. h.pc = 3 => Runs("hsync", "set_pins", 0, 31)
  <2>1. Hsync[4] = I("set_pins", 0, 31)
    BY DEF Hsync
  <2>2. Hsync[4].op = "set_pins" /\ Hsync[4].arg = 0 /\ Hsync[4].delay = 31
    BY <2>1 DEF I
  <2>3. h.pc = 3 => Instr("hsync") = Hsync[4]
    BY <1>3
  <2> QED BY <2>2, <2>3 DEF Runs
<1>8. h.pc = 4 => Runs("hsync", "set_pins", 0, 31)
  <2>1. Hsync[5] = I("set_pins", 0, 31)
    BY DEF Hsync
  <2>2. Hsync[5].op = "set_pins" /\ Hsync[5].arg = 0 /\ Hsync[5].delay = 31
    BY <2>1 DEF I
  <2>3. h.pc = 4 => Instr("hsync") = Hsync[5]
    BY <1>3
  <2> QED BY <2>2, <2>3 DEF Runs
<1>9. h.pc = 5 => Runs("hsync", "set_pins", 0, 31)
  <2>1. Hsync[6] = I("set_pins", 0, 31)
    BY DEF Hsync
  <2>2. Hsync[6].op = "set_pins" /\ Hsync[6].arg = 0 /\ Hsync[6].delay = 31
    BY <2>1 DEF I
  <2>3. h.pc = 5 => Instr("hsync") = Hsync[6]
    BY <1>3
  <2> QED BY <2>2, <2>3 DEF Runs
<1>10. h.pc = 6 => Runs("hsync", "set_pins", 1, 31)
  <2>1. Hsync[7] = I("set_pins", 1, 31)
    BY DEF Hsync
  <2>2. Hsync[7].op = "set_pins" /\ Hsync[7].arg = 1 /\ Hsync[7].delay = 31
    BY <2>1 DEF I
  <2>3. h.pc = 6 => Instr("hsync") = Hsync[7]
    BY <1>3
  <2> QED BY <2>2, <2>3 DEF Runs
<1>11. h.pc = 7 => Runs("hsync", "set_pins", 1, 12)
  <2>1. Hsync[8] = I("set_pins", 1, 12)
    BY DEF Hsync
  <2>2. Hsync[8].op = "set_pins" /\ Hsync[8].arg = 1 /\ Hsync[8].delay = 12
    BY <2>1 DEF I
  <2>3. h.pc = 7 => Instr("hsync") = Hsync[8]
    BY <1>3
  <2> QED BY <2>2, <2>3 DEF Runs
<1>12. h.pc = 8 => Runs("hsync", "irq", 0, 1)
  <2>1. Hsync[9] = I("irq", 0, 1)
    BY DEF Hsync
  <2>2. Hsync[9].op = "irq" /\ Hsync[9].arg = 0 /\ Hsync[9].delay = 1
    BY <2>1 DEF I
  <2>3. h.pc = 8 => Instr("hsync") = Hsync[9]
    BY <1>3
  <2> QED BY <2>2, <2>3 DEF Runs
<1> QED BY <1>1, <1>2, <1>4, <1>5, <1>6, <1>7, <1>8, <1>9, <1>10, <1>11, <1>12

\* The instructions of vsync.pio by their places.
LEMMA VsyncCode ==
    /\ Len(Program("vsync")) = 14 /\ WrapTarget("vsync") = 1
    /\ v.pc = 0 => Runs("vsync", "pull", 0, 0)
    /\ v.pc = 1 => Runs("vsync", "x=osr", 0, 0)
    /\ v.pc = 2 => Runs("vsync", "wait", 0, 0)
    /\ v.pc = 3 => Runs("vsync", "irq", 1, 0)
    /\ v.pc = 4 => Runs("vsync", "jmp_x--", 2, 0)
    /\ v.pc = 5 => Runs("vsync", "set_y", FrontPorch, 0)
    /\ v.pc = 6 => Runs("vsync", "wait", 0, 0)
    /\ v.pc = 7 => Runs("vsync", "jmp_y--", 6, 0)
    /\ v.pc = 8 => Runs("vsync", "set_pins", 0, 0)
    /\ v.pc = 9 => Runs("vsync", "wait", 0, 0)
    /\ v.pc = 10 => Runs("vsync", "wait", 0, 0)
    /\ v.pc = 11 => Runs("vsync", "set_y", BackPorch, 0)
    /\ v.pc = 12 => Runs("vsync", "wait_side_1", 0, 0)
    /\ v.pc = 13 => Runs("vsync", "jmp_y--", 12, 0)
<1>1. Program("vsync") = Vsync /\ WrapTarget("vsync") = 1
  BY DEF Program, WrapTarget
<1>2. Len(Vsync) = 14
  BY DEF Vsync
<1>3. Instr("vsync") = Vsync[v.pc + 1]
  BY <1>1 DEF Instr, v
<1>4. v.pc = 0 => Runs("vsync", "pull", 0, 0)
  <2>1. Vsync[1] = I("pull", 0, 0)
    BY DEF Vsync
  <2>2. Vsync[1].op = "pull" /\ Vsync[1].arg = 0 /\ Vsync[1].delay = 0
    BY <2>1 DEF I
  <2>3. v.pc = 0 => Instr("vsync") = Vsync[1]
    BY <1>3
  <2> QED BY <2>2, <2>3 DEF Runs
<1>5. v.pc = 1 => Runs("vsync", "x=osr", 0, 0)
  <2>1. Vsync[2] = I("x=osr", 0, 0)
    BY DEF Vsync
  <2>2. Vsync[2].op = "x=osr" /\ Vsync[2].arg = 0 /\ Vsync[2].delay = 0
    BY <2>1 DEF I
  <2>3. v.pc = 1 => Instr("vsync") = Vsync[2]
    BY <1>3
  <2> QED BY <2>2, <2>3 DEF Runs
<1>6. v.pc = 2 => Runs("vsync", "wait", 0, 0)
  <2>1. Vsync[3] = I("wait", 0, 0)
    BY DEF Vsync
  <2>2. Vsync[3].op = "wait" /\ Vsync[3].arg = 0 /\ Vsync[3].delay = 0
    BY <2>1 DEF I
  <2>3. v.pc = 2 => Instr("vsync") = Vsync[3]
    BY <1>3
  <2> QED BY <2>2, <2>3 DEF Runs
<1>7. v.pc = 3 => Runs("vsync", "irq", 1, 0)
  <2>1. Vsync[4] = I("irq", 1, 0)
    BY DEF Vsync
  <2>2. Vsync[4].op = "irq" /\ Vsync[4].arg = 1 /\ Vsync[4].delay = 0
    BY <2>1 DEF I
  <2>3. v.pc = 3 => Instr("vsync") = Vsync[4]
    BY <1>3
  <2> QED BY <2>2, <2>3 DEF Runs
<1>8. v.pc = 4 => Runs("vsync", "jmp_x--", 2, 0)
  <2>1. Vsync[5] = I("jmp_x--", 2, 0)
    BY DEF Vsync
  <2>2. Vsync[5].op = "jmp_x--" /\ Vsync[5].arg = 2 /\ Vsync[5].delay = 0
    BY <2>1 DEF I
  <2>3. v.pc = 4 => Instr("vsync") = Vsync[5]
    BY <1>3
  <2> QED BY <2>2, <2>3 DEF Runs
<1>9. v.pc = 5 => Runs("vsync", "set_y", FrontPorch, 0)
  <2>1. Vsync[6] = I("set_y", FrontPorch, 0)
    BY DEF Vsync
  <2>2. Vsync[6].op = "set_y" /\ Vsync[6].arg = FrontPorch /\ Vsync[6].delay = 0
    BY <2>1 DEF I
  <2>3. v.pc = 5 => Instr("vsync") = Vsync[6]
    BY <1>3
  <2> QED BY <2>2, <2>3 DEF Runs
<1>10. v.pc = 6 => Runs("vsync", "wait", 0, 0)
  <2>1. Vsync[7] = I("wait", 0, 0)
    BY DEF Vsync
  <2>2. Vsync[7].op = "wait" /\ Vsync[7].arg = 0 /\ Vsync[7].delay = 0
    BY <2>1 DEF I
  <2>3. v.pc = 6 => Instr("vsync") = Vsync[7]
    BY <1>3
  <2> QED BY <2>2, <2>3 DEF Runs
<1>11. v.pc = 7 => Runs("vsync", "jmp_y--", 6, 0)
  <2>1. Vsync[8] = I("jmp_y--", 6, 0)
    BY DEF Vsync
  <2>2. Vsync[8].op = "jmp_y--" /\ Vsync[8].arg = 6 /\ Vsync[8].delay = 0
    BY <2>1 DEF I
  <2>3. v.pc = 7 => Instr("vsync") = Vsync[8]
    BY <1>3
  <2> QED BY <2>2, <2>3 DEF Runs
<1>12. v.pc = 8 => Runs("vsync", "set_pins", 0, 0)
  <2>1. Vsync[9] = I("set_pins", 0, 0)
    BY DEF Vsync
  <2>2. Vsync[9].op = "set_pins" /\ Vsync[9].arg = 0 /\ Vsync[9].delay = 0
    BY <2>1 DEF I
  <2>3. v.pc = 8 => Instr("vsync") = Vsync[9]
    BY <1>3
  <2> QED BY <2>2, <2>3 DEF Runs
<1>13. v.pc = 9 => Runs("vsync", "wait", 0, 0)
  <2>1. Vsync[10] = I("wait", 0, 0)
    BY DEF Vsync
  <2>2. Vsync[10].op = "wait" /\ Vsync[10].arg = 0 /\ Vsync[10].delay = 0
    BY <2>1 DEF I
  <2>3. v.pc = 9 => Instr("vsync") = Vsync[10]
    BY <1>3
  <2> QED BY <2>2, <2>3 DEF Runs
<1>14. v.pc = 10 => Runs("vsync", "wait", 0, 0)
  <2>1. Vsync[11] = I("wait", 0, 0)
    BY DEF Vsync
  <2>2. Vsync[11].op = "wait" /\ Vsync[11].arg = 0 /\ Vsync[11].delay = 0
    BY <2>1 DEF I
  <2>3. v.pc = 10 => Instr("vsync") = Vsync[11]
    BY <1>3
  <2> QED BY <2>2, <2>3 DEF Runs
<1>15. v.pc = 11 => Runs("vsync", "set_y", BackPorch, 0)
  <2>1. Vsync[12] = I("set_y", BackPorch, 0)
    BY DEF Vsync
  <2>2. Vsync[12].op = "set_y" /\ Vsync[12].arg = BackPorch /\ Vsync[12].delay = 0
    BY <2>1 DEF I
  <2>3. v.pc = 11 => Instr("vsync") = Vsync[12]
    BY <1>3
  <2> QED BY <2>2, <2>3 DEF Runs
<1>16. v.pc = 12 => Runs("vsync", "wait_side_1", 0, 0)
  <2>1. Vsync[13] = I("wait_side_1", 0, 0)
    BY DEF Vsync
  <2>2. Vsync[13].op = "wait_side_1" /\ Vsync[13].arg = 0 /\ Vsync[13].delay = 0
    BY <2>1 DEF I
  <2>3. v.pc = 12 => Instr("vsync") = Vsync[13]
    BY <1>3
  <2> QED BY <2>2, <2>3 DEF Runs
<1>17. v.pc = 13 => Runs("vsync", "jmp_y--", 12, 0)
  <2>1. Vsync[14] = I("jmp_y--", 12, 0)
    BY DEF Vsync
  <2>2. Vsync[14].op = "jmp_y--" /\ Vsync[14].arg = 12 /\ Vsync[14].delay = 0
    BY <2>1 DEF I
  <2>3. v.pc = 13 => Instr("vsync") = Vsync[14]
    BY <1>3
  <2> QED BY <2>2, <2>3 DEF Runs
<1> QED BY <1>1, <1>2, <1>4, <1>5, <1>6, <1>7, <1>8, <1>9, <1>10, <1>11, <1>12, <1>13, <1>14, <1>15, <1>16, <1>17

\* The instructions of rgb.pio by their places.
LEMMA RgbCode ==
    /\ Len(Program("rgb")) = 9 /\ WrapTarget("rgb") = 2
    /\ r.pc = 0 => Runs("rgb", "pull", 0, 0)
    /\ r.pc = 1 => Runs("rgb", "y=osr", 0, 0)
    /\ r.pc = 2 => Runs("rgb", "set_pins", 0, 0)
    /\ r.pc = 3 => Runs("rgb", "x=y", 0, 0)
    /\ r.pc = 4 => Runs("rgb", "wait", 1, 3)
    /\ r.pc = 5 => Runs("rgb", "pull", 0, 0)
    /\ r.pc = 6 => Runs("rgb", "out", 0, 4)
    /\ r.pc = 7 => Runs("rgb", "out", 0, 2)
    /\ r.pc = 8 => Runs("rgb", "jmp_x--", 5, 0)
<1>1. Program("rgb") = Rgb /\ WrapTarget("rgb") = 2
  BY DEF Program, WrapTarget
<1>2. Len(Rgb) = 9
  BY DEF Rgb
<1>3. Instr("rgb") = Rgb[r.pc + 1]
  BY <1>1 DEF Instr, r
<1>4. r.pc = 0 => Runs("rgb", "pull", 0, 0)
  <2>1. Rgb[1] = I("pull", 0, 0)
    BY DEF Rgb
  <2>2. Rgb[1].op = "pull" /\ Rgb[1].arg = 0 /\ Rgb[1].delay = 0
    BY <2>1 DEF I
  <2>3. r.pc = 0 => Instr("rgb") = Rgb[1]
    BY <1>3
  <2> QED BY <2>2, <2>3 DEF Runs
<1>5. r.pc = 1 => Runs("rgb", "y=osr", 0, 0)
  <2>1. Rgb[2] = I("y=osr", 0, 0)
    BY DEF Rgb
  <2>2. Rgb[2].op = "y=osr" /\ Rgb[2].arg = 0 /\ Rgb[2].delay = 0
    BY <2>1 DEF I
  <2>3. r.pc = 1 => Instr("rgb") = Rgb[2]
    BY <1>3
  <2> QED BY <2>2, <2>3 DEF Runs
<1>6. r.pc = 2 => Runs("rgb", "set_pins", 0, 0)
  <2>1. Rgb[3] = I("set_pins", 0, 0)
    BY DEF Rgb
  <2>2. Rgb[3].op = "set_pins" /\ Rgb[3].arg = 0 /\ Rgb[3].delay = 0
    BY <2>1 DEF I
  <2>3. r.pc = 2 => Instr("rgb") = Rgb[3]
    BY <1>3
  <2> QED BY <2>2, <2>3 DEF Runs
<1>7. r.pc = 3 => Runs("rgb", "x=y", 0, 0)
  <2>1. Rgb[4] = I("x=y", 0, 0)
    BY DEF Rgb
  <2>2. Rgb[4].op = "x=y" /\ Rgb[4].arg = 0 /\ Rgb[4].delay = 0
    BY <2>1 DEF I
  <2>3. r.pc = 3 => Instr("rgb") = Rgb[4]
    BY <1>3
  <2> QED BY <2>2, <2>3 DEF Runs
<1>8. r.pc = 4 => Runs("rgb", "wait", 1, 3)
  <2>1. Rgb[5] = I("wait", 1, 3)
    BY DEF Rgb
  <2>2. Rgb[5].op = "wait" /\ Rgb[5].arg = 1 /\ Rgb[5].delay = 3
    BY <2>1 DEF I
  <2>3. r.pc = 4 => Instr("rgb") = Rgb[5]
    BY <1>3
  <2> QED BY <2>2, <2>3 DEF Runs
<1>9. r.pc = 5 => Runs("rgb", "pull", 0, 0)
  <2>1. Rgb[6] = I("pull", 0, 0)
    BY DEF Rgb
  <2>2. Rgb[6].op = "pull" /\ Rgb[6].arg = 0 /\ Rgb[6].delay = 0
    BY <2>1 DEF I
  <2>3. r.pc = 5 => Instr("rgb") = Rgb[6]
    BY <1>3
  <2> QED BY <2>2, <2>3 DEF Runs
<1>10. r.pc = 6 => Runs("rgb", "out", 0, 4)
  <2>1. Rgb[7] = I("out", 0, 4)
    BY DEF Rgb
  <2>2. Rgb[7].op = "out" /\ Rgb[7].arg = 0 /\ Rgb[7].delay = 4
    BY <2>1 DEF I
  <2>3. r.pc = 6 => Instr("rgb") = Rgb[7]
    BY <1>3
  <2> QED BY <2>2, <2>3 DEF Runs
<1>11. r.pc = 7 => Runs("rgb", "out", 0, 2)
  <2>1. Rgb[8] = I("out", 0, 2)
    BY DEF Rgb
  <2>2. Rgb[8].op = "out" /\ Rgb[8].arg = 0 /\ Rgb[8].delay = 2
    BY <2>1 DEF I
  <2>3. r.pc = 7 => Instr("rgb") = Rgb[8]
    BY <1>3
  <2> QED BY <2>2, <2>3 DEF Runs
<1>12. r.pc = 8 => Runs("rgb", "jmp_x--", 5, 0)
  <2>1. Rgb[9] = I("jmp_x--", 5, 0)
    BY DEF Rgb
  <2>2. Rgb[9].op = "jmp_x--" /\ Rgb[9].arg = 5 /\ Rgb[9].delay = 0
    BY <2>1 DEF I
  <2>3. r.pc = 8 => Instr("rgb") = Rgb[9]
    BY <1>3
  <2> QED BY <2>2, <2>3 DEF Runs
<1> QED BY <1>1, <1>2, <1>4, <1>5, <1>6, <1>7, <1>8, <1>9, <1>10, <1>11, <1>12


-----------------------------------------------------------------------------
(* What each operation does.                                                 *)

S(pc, x, y, osr, shift, delay) ==
    [pc |-> pc, x |-> x, y |-> y, osr |-> osr, shift |-> shift, delay |-> delay]

\* The next place, unless a jump chooses another.
After(m) == IF sm[m].pc + 1 = Len(Program(m)) THEN WrapTarget(m) ELSE sm[m].pc + 1

\* A machine that is not due counts its delay or does nothing, one that waits
\* does nothing but its side-set.
LEMMA RestLemma ==
    ASSUME Tick, NEW m \in Machines, ~Due(m)
    PROVE  /\ sm'[m] = IF sm[m].delay > 0 /\ (m = "rgb" \/ phase = 0)
                       THEN [sm[m] EXCEPT !.delay = @ - 1] ELSE sm[m]
           /\ m # "rgb" => fifo'[m] = fifo[m]
           /\ Pulled(m) = fifo[m] /\ pin'[m] = pin[m]
<1>1. ~Fires(m) /\ \A ops : ~Does(m, ops)
  BY DEF Does, Fires
<1>2. Pulled(m) = fifo[m]
  BY <1>1 DEF Pulled
<1>3. NextPin(m) = pin[m]
  BY <1>1 DEF NextPin
<1> QED BY <1>1, <1>2, <1>3, MachineLemma DEF NextMachine

LEMMA StallLemma ==
    ASSUME Tick, NEW m \in Machines, Due(m), Stalled(m)
    PROVE  /\ sm'[m] = sm[m]
           /\ m # "rgb" => fifo'[m] = fifo[m]
           /\ Pulled(m) = fifo[m]
           /\ pin'[m] = IF Instr(m).op = "wait_side_1" THEN 1 ELSE pin[m]
<1>1. ~Fires(m) /\ \A ops : ~Does(m, ops)
  BY DEF Does, Fires
<1>2. Pulled(m) = fifo[m]
  BY <1>1 DEF Pulled
<1>3. NextPin(m) = IF Instr(m).op = "wait_side_1" THEN 1 ELSE pin[m]
  BY <1>1 DEF NextPin
<1>4. ~(sm[m].delay > 0)
  BY DEF Due
<1>5. NextMachine(m) = sm[m]
  BY <1>1, <1>4 DEF NextMachine
<1> QED BY <1>2, <1>3, <1>5, MachineLemma

LEMMA PullStep ==
    ASSUME Tick, NEW m \in Machines, Instr(m).op = "pull", Due(m), fifo[m] # <<>>
    PROVE  /\ sm'[m] = S(After(m), sm[m].x, sm[m].y, Head(fifo[m]), 0, Instr(m).delay)
           /\ m # "rgb" => fifo'[m] = Tail(fifo[m])
           /\ Pulled(m) = Tail(fifo[m])
           /\ pin'[m] = pin[m]
<1>1. ~Stalled(m)
  BY DEF Stalled
<1>2. NextPc(m) = After(m)
  BY DEF NextPc, After
<1>3. Fires(m)
  BY <1>1 DEF Fires
<1>4. Executed(m) = S(After(m), sm[m].x, sm[m].y, Head(fifo[m]), 0, Instr(m).delay)
  BY <1>2 DEF Executed, S
<1>5. \A ops : Does(m, ops) <=> "pull" \in ops
  BY <1>3 DEF Does
<1>6. Pulled(m) = Tail(fifo[m])
  BY <1>5 DEF Pulled
<1>7. NextPin(m) = pin[m]
  BY <1>5 DEF NextPin
<1> QED BY <1>3, <1>4, <1>6, <1>7, MachineLemma DEF NextMachine

LEMMA LoadXStep ==
    ASSUME Tick, NEW m \in Machines, Instr(m).op = "x=osr", Due(m)
    PROVE  /\ sm'[m] = S(After(m), sm[m].osr, sm[m].y, sm[m].osr, sm[m].shift, Instr(m).delay)
           /\ m # "rgb" => fifo'[m] = fifo[m]
           /\ Pulled(m) = fifo[m]
           /\ pin'[m] = pin[m]
<1>1. ~Stalled(m)
  BY DEF Stalled
<1>2. NextPc(m) = After(m)
  BY DEF NextPc, After
<1>3. Fires(m)
  BY <1>1 DEF Fires
<1>4. Executed(m) = S(After(m), sm[m].osr, sm[m].y, sm[m].osr, sm[m].shift, Instr(m).delay)
  BY <1>2 DEF Executed, S
<1>5. \A ops : Does(m, ops) <=> "x=osr" \in ops
  BY <1>3 DEF Does
<1>6. Pulled(m) = fifo[m]
  BY <1>5 DEF Pulled
<1>7. NextPin(m) = pin[m]
  BY <1>5 DEF NextPin
<1> QED BY <1>3, <1>4, <1>6, <1>7, MachineLemma DEF NextMachine

LEMMA CopyXStep ==
    ASSUME Tick, NEW m \in Machines, Instr(m).op = "x=y", Due(m)
    PROVE  /\ sm'[m] = S(After(m), sm[m].y, sm[m].y, sm[m].osr, sm[m].shift, Instr(m).delay)
           /\ m # "rgb" => fifo'[m] = fifo[m]
           /\ Pulled(m) = fifo[m]
           /\ pin'[m] = pin[m]
<1>1. ~Stalled(m)
  BY DEF Stalled
<1>2. NextPc(m) = After(m)
  BY DEF NextPc, After
<1>3. Fires(m)
  BY <1>1 DEF Fires
<1>4. Executed(m) = S(After(m), sm[m].y, sm[m].y, sm[m].osr, sm[m].shift, Instr(m).delay)
  BY <1>2 DEF Executed, S
<1>5. \A ops : Does(m, ops) <=> "x=y" \in ops
  BY <1>3 DEF Does
<1>6. Pulled(m) = fifo[m]
  BY <1>5 DEF Pulled
<1>7. NextPin(m) = pin[m]
  BY <1>5 DEF NextPin
<1> QED BY <1>3, <1>4, <1>6, <1>7, MachineLemma DEF NextMachine

LEMMA LoadYStep ==
    ASSUME Tick, NEW m \in Machines, Instr(m).op = "y=osr", Due(m)
    PROVE  /\ sm'[m] = S(After(m), sm[m].x, sm[m].osr, sm[m].osr, sm[m].shift, Instr(m).delay)
           /\ m # "rgb" => fifo'[m] = fifo[m]
           /\ Pulled(m) = fifo[m]
           /\ pin'[m] = pin[m]
<1>1. ~Stalled(m)
  BY DEF Stalled
<1>2. NextPc(m) = After(m)
  BY DEF NextPc, After
<1>3. Fires(m)
  BY <1>1 DEF Fires
<1>4. Executed(m) = S(After(m), sm[m].x, sm[m].osr, sm[m].osr, sm[m].shift, Instr(m).delay)
  BY <1>2 DEF Executed, S
<1>5. \A ops : Does(m, ops) <=> "y=osr" \in ops
  BY <1>3 DEF Does
<1>6. Pulled(m) = fifo[m]
  BY <1>5 DEF Pulled
<1>7. NextPin(m) = pin[m]
  BY <1>5 DEF NextPin
<1> QED BY <1>3, <1>4, <1>6, <1>7, MachineLemma DEF NextMachine

LEMMA SetYStep ==
    ASSUME Tick, NEW m \in Machines, Instr(m).op = "set_y", Due(m)
    PROVE  /\ sm'[m] = S(After(m), sm[m].x, Instr(m).arg, sm[m].osr, sm[m].shift, Instr(m).delay)
           /\ m # "rgb" => fifo'[m] = fifo[m]
           /\ Pulled(m) = fifo[m]
           /\ pin'[m] = pin[m]
<1>1. ~Stalled(m)
  BY DEF Stalled
<1>2. NextPc(m) = After(m)
  BY DEF NextPc, After
<1>3. Fires(m)
  BY <1>1 DEF Fires
<1>4. Executed(m) = S(After(m), sm[m].x, Instr(m).arg, sm[m].osr, sm[m].shift, Instr(m).delay)
  BY <1>2 DEF Executed, S
<1>5. \A ops : Does(m, ops) <=> "set_y" \in ops
  BY <1>3 DEF Does
<1>6. Pulled(m) = fifo[m]
  BY <1>5 DEF Pulled
<1>7. NextPin(m) = pin[m]
  BY <1>5 DEF NextPin
<1> QED BY <1>3, <1>4, <1>6, <1>7, MachineLemma DEF NextMachine

LEMMA JumpXStep ==
    ASSUME Tick, NEW m \in Machines, Instr(m).op = "jmp_x--", Due(m)
    PROVE  /\ sm'[m] = S(IF sm[m].x # 0 THEN Instr(m).arg ELSE After(m), sm[m].x - 1, sm[m].y, sm[m].osr, sm[m].shift, Instr(m).delay)
           /\ m # "rgb" => fifo'[m] = fifo[m]
           /\ Pulled(m) = fifo[m]
           /\ pin'[m] = pin[m]
<1>1. ~Stalled(m)
  BY DEF Stalled
<1>2. NextPc(m) = IF sm[m].x # 0 THEN Instr(m).arg ELSE After(m)
  BY DEF NextPc, After
<1>3. Fires(m)
  BY <1>1 DEF Fires
<1>4. Executed(m) = S(IF sm[m].x # 0 THEN Instr(m).arg ELSE After(m), sm[m].x - 1, sm[m].y, sm[m].osr, sm[m].shift, Instr(m).delay)
  BY <1>2 DEF Executed, S
<1>5. \A ops : Does(m, ops) <=> "jmp_x--" \in ops
  BY <1>3 DEF Does
<1>6. Pulled(m) = fifo[m]
  BY <1>5 DEF Pulled
<1>7. NextPin(m) = pin[m]
  BY <1>5 DEF NextPin
<1> QED BY <1>3, <1>4, <1>6, <1>7, MachineLemma DEF NextMachine

LEMMA JumpYStep ==
    ASSUME Tick, NEW m \in Machines, Instr(m).op = "jmp_y--", Due(m)
    PROVE  /\ sm'[m] = S(IF sm[m].y # 0 THEN Instr(m).arg ELSE After(m), sm[m].x, sm[m].y - 1, sm[m].osr, sm[m].shift, Instr(m).delay)
           /\ m # "rgb" => fifo'[m] = fifo[m]
           /\ Pulled(m) = fifo[m]
           /\ pin'[m] = pin[m]
<1>1. ~Stalled(m)
  BY DEF Stalled
<1>2. NextPc(m) = IF sm[m].y # 0 THEN Instr(m).arg ELSE After(m)
  BY DEF NextPc, After
<1>3. Fires(m)
  BY <1>1 DEF Fires
<1>4. Executed(m) = S(IF sm[m].y # 0 THEN Instr(m).arg ELSE After(m), sm[m].x, sm[m].y - 1, sm[m].osr, sm[m].shift, Instr(m).delay)
  BY <1>2 DEF Executed, S
<1>5. \A ops : Does(m, ops) <=> "jmp_y--" \in ops
  BY <1>3 DEF Does
<1>6. Pulled(m) = fifo[m]
  BY <1>5 DEF Pulled
<1>7. NextPin(m) = pin[m]
  BY <1>5 DEF NextPin
<1> QED BY <1>3, <1>4, <1>6, <1>7, MachineLemma DEF NextMachine

LEMMA SetPinsStep ==
    ASSUME Tick, NEW m \in Machines, Instr(m).op = "set_pins", Due(m)
    PROVE  /\ sm'[m] = S(After(m), sm[m].x, sm[m].y, sm[m].osr, sm[m].shift, Instr(m).delay)
           /\ m # "rgb" => fifo'[m] = fifo[m]
           /\ Pulled(m) = fifo[m]
           /\ pin'[m] = IF m = "rgb" THEN Black ELSE Instr(m).arg
<1>1. ~Stalled(m)
  BY DEF Stalled
<1>2. NextPc(m) = After(m)
  BY DEF NextPc, After
<1>3. Fires(m)
  BY <1>1 DEF Fires
<1>4. Executed(m) = S(After(m), sm[m].x, sm[m].y, sm[m].osr, sm[m].shift, Instr(m).delay)
  BY <1>2 DEF Executed, S
<1>5. \A ops : Does(m, ops) <=> "set_pins" \in ops
  BY <1>3 DEF Does
<1>6. Pulled(m) = fifo[m]
  BY <1>5 DEF Pulled
<1>7. NextPin(m) = IF m = "rgb" THEN Black ELSE Instr(m).arg
  BY <1>5 DEF NextPin
<1> QED BY <1>3, <1>4, <1>6, <1>7, MachineLemma DEF NextMachine

LEMMA OutStep ==
    ASSUME Tick, NEW m \in Machines, Instr(m).op = "out", Due(m)
    PROVE  /\ sm'[m] = S(After(m), sm[m].x, sm[m].y, sm[m].osr, sm[m].shift + 1, Instr(m).delay)
           /\ m # "rgb" => fifo'[m] = fifo[m]
           /\ Pulled(m) = fifo[m]
           /\ pin'[m] = 2 * sm[m].osr + sm[m].shift
<1>1. ~Stalled(m)
  BY DEF Stalled
<1>2. NextPc(m) = After(m)
  BY DEF NextPc, After
<1>3. Fires(m)
  BY <1>1 DEF Fires
<1>4. Executed(m) = S(After(m), sm[m].x, sm[m].y, sm[m].osr, sm[m].shift + 1, Instr(m).delay)
  BY <1>2 DEF Executed, S
<1>5. \A ops : Does(m, ops) <=> "out" \in ops
  BY <1>3 DEF Does
<1>6. Pulled(m) = fifo[m]
  BY <1>5 DEF Pulled
<1>7. NextPin(m) = 2 * sm[m].osr + sm[m].shift
  BY <1>5 DEF NextPin
<1> QED BY <1>3, <1>4, <1>6, <1>7, MachineLemma DEF NextMachine

LEMMA WaitStep ==
    ASSUME Tick, NEW m \in Machines, Instr(m).op = "wait", Due(m), Instr(m).arg \in irq
    PROVE  /\ sm'[m] = S(After(m), sm[m].x, sm[m].y, sm[m].osr, sm[m].shift, Instr(m).delay)
           /\ m # "rgb" => fifo'[m] = fifo[m]
           /\ Pulled(m) = fifo[m]
           /\ pin'[m] = pin[m]
<1>1. ~Stalled(m)
  BY DEF Stalled
<1>2. NextPc(m) = After(m)
  BY DEF NextPc, After
<1>3. Fires(m)
  BY <1>1 DEF Fires
<1>4. Executed(m) = S(After(m), sm[m].x, sm[m].y, sm[m].osr, sm[m].shift, Instr(m).delay)
  BY <1>2 DEF Executed, S
<1>5. \A ops : Does(m, ops) <=> "wait" \in ops
  BY <1>3 DEF Does
<1>6. Pulled(m) = fifo[m]
  BY <1>5 DEF Pulled
<1>7. NextPin(m) = pin[m]
  BY <1>5 DEF NextPin
<1> QED BY <1>3, <1>4, <1>6, <1>7, MachineLemma DEF NextMachine

LEMMA WaitSideStep ==
    ASSUME Tick, NEW m \in Machines, Instr(m).op = "wait_side_1", Due(m), Instr(m).arg \in irq
    PROVE  /\ sm'[m] = S(After(m), sm[m].x, sm[m].y, sm[m].osr, sm[m].shift, Instr(m).delay)
           /\ m # "rgb" => fifo'[m] = fifo[m]
           /\ Pulled(m) = fifo[m]
           /\ pin'[m] = 1
<1>1. ~Stalled(m)
  BY DEF Stalled
<1>2. NextPc(m) = After(m)
  BY DEF NextPc, After
<1>3. Fires(m)
  BY <1>1 DEF Fires
<1>4. Executed(m) = S(After(m), sm[m].x, sm[m].y, sm[m].osr, sm[m].shift, Instr(m).delay)
  BY <1>2 DEF Executed, S
<1>5. \A ops : Does(m, ops) <=> "wait_side_1" \in ops
  BY <1>3 DEF Does
<1>6. Pulled(m) = fifo[m]
  BY <1>5 DEF Pulled
<1>7. NextPin(m) = 1
  BY <1>5 DEF NextPin
<1> QED BY <1>3, <1>4, <1>6, <1>7, MachineLemma DEF NextMachine

LEMMA IrqStep ==
    ASSUME Tick, NEW m \in Machines, Instr(m).op = "irq", Due(m)
    PROVE  /\ sm'[m] = S(After(m), sm[m].x, sm[m].y, sm[m].osr, sm[m].shift, Instr(m).delay)
           /\ m # "rgb" => fifo'[m] = fifo[m]
           /\ Pulled(m) = fifo[m]
           /\ pin'[m] = pin[m]
<1>1. ~Stalled(m)
  BY DEF Stalled
<1>2. NextPc(m) = After(m)
  BY DEF NextPc, After
<1>3. Fires(m)
  BY <1>1 DEF Fires
<1>4. Executed(m) = S(After(m), sm[m].x, sm[m].y, sm[m].osr, sm[m].shift, Instr(m).delay)
  BY <1>2 DEF Executed, S
<1>5. \A ops : Does(m, ops) <=> "irq" \in ops
  BY <1>3 DEF Does
<1>6. Pulled(m) = fifo[m]
  BY <1>5 DEF Pulled
<1>7. NextPin(m) = pin[m]
  BY <1>5 DEF NextPin
<1> QED BY <1>3, <1>4, <1>6, <1>7, MachineLemma DEF NextMachine


-----------------------------------------------------------------------------
(* What each machine does at each of its places.                             *)

LEMMA HsyncRest ==
    ASSUME Tick, h.delay \in 0..31, ~(phase = 0 /\ h.delay = 0)
    PROVE  /\ h' = IF h.delay > 0 /\ phase = 0 THEN [h EXCEPT !.delay = @ - 1] ELSE h
           /\ fifo'["hsync"] = fifo["hsync"]
           /\ pin'["hsync"] = pin["hsync"]
<1>1. "hsync" \in Machines
  BY DEF Machines
<1>2. ~Due("hsync")
  BY DEF Due, h
<1>3. /\ sm'["hsync"] = IF sm["hsync"].delay > 0 /\ ("hsync" = "rgb" \/ phase = 0)
                    THEN [sm["hsync"] EXCEPT !.delay = @ - 1] ELSE sm["hsync"]
      /\ fifo'["hsync"] = fifo["hsync"]
      /\ pin'["hsync"] = pin["hsync"]
  BY <1>1, <1>2, RestLemma
<1> QED BY <1>3 DEF h

LEMMA HsyncStep ==
    ASSUME Tick, phase = 0, h.delay = 0
    PROVE  /\ h.pc = 0 /\ fifo["hsync"] # <<>> =>
                 h' = S(1, h.x, h.y, Head(fifo["hsync"]), 0, 0) /\ fifo'["hsync"] = Tail(fifo["hsync"]) /\ pin'["hsync"] = pin["hsync"]
           /\ h.pc = 1 =>
                 h' = S(2, h.osr, h.y, h.osr, h.shift, 0) /\ fifo'["hsync"] = fifo["hsync"] /\ pin'["hsync"] = pin["hsync"]
           /\ h.pc = 2 =>
                 h' = S(IF h.x # 0 THEN 2 ELSE 3, h.x - 1, h.y, h.osr, h.shift, 0) /\ fifo'["hsync"] = fifo["hsync"] /\ pin'["hsync"] = pin["hsync"]
           /\ h.pc = 3 =>
                 h' = S(4, h.x, h.y, h.osr, h.shift, 31) /\ fifo'["hsync"] = fifo["hsync"] /\ pin'["hsync"] = 0
           /\ h.pc = 4 =>
                 h' = S(5, h.x, h.y, h.osr, h.shift, 31) /\ fifo'["hsync"] = fifo["hsync"] /\ pin'["hsync"] = 0
           /\ h.pc = 5 =>
                 h' = S(6, h.x, h.y, h.osr, h.shift, 31) /\ fifo'["hsync"] = fifo["hsync"] /\ pin'["hsync"] = 0
           /\ h.pc = 6 =>
                 h' = S(7, h.x, h.y, h.osr, h.shift, 31) /\ fifo'["hsync"] = fifo["hsync"] /\ pin'["hsync"] = 1
           /\ h.pc = 7 =>
                 h' = S(8, h.x, h.y, h.osr, h.shift, 12) /\ fifo'["hsync"] = fifo["hsync"] /\ pin'["hsync"] = 1
           /\ h.pc = 8 =>
                 h' = S(1, h.x, h.y, h.osr, h.shift, 1) /\ fifo'["hsync"] = fifo["hsync"] /\ pin'["hsync"] = pin["hsync"]
<1>1. "hsync" \in Machines
  BY DEF Machines
<1>2. Due("hsync")
  BY DEF Due, h
<1>3. ASSUME h.pc = 0 /\ fifo["hsync"] # <<>>
      PROVE  h' = S(1, h.x, h.y, Head(fifo["hsync"]), 0, 0) /\ fifo'["hsync"] = Tail(fifo["hsync"]) /\ pin'["hsync"] = pin["hsync"]
  <2>1. h.pc = 0
    BY <1>3
  <2>2. Runs("hsync", "pull", 0, 0) /\ After("hsync") = 1
    BY <2>1, HsyncCode DEF After, h
  <2> QED BY <1>1, <1>2, <1>3, <2>2, PullStep DEF Runs, h
<1>4. ASSUME h.pc = 1
      PROVE  h' = S(2, h.osr, h.y, h.osr, h.shift, 0) /\ fifo'["hsync"] = fifo["hsync"] /\ pin'["hsync"] = pin["hsync"]
  <2>1. h.pc = 1
    BY <1>4
  <2>2. Runs("hsync", "x=osr", 0, 0) /\ After("hsync") = 2
    BY <2>1, HsyncCode DEF After, h
  <2> QED BY <1>1, <1>2, <1>4, <2>2, LoadXStep DEF Runs, h
<1>5. ASSUME h.pc = 2
      PROVE  h' = S(IF h.x # 0 THEN 2 ELSE 3, h.x - 1, h.y, h.osr, h.shift, 0) /\ fifo'["hsync"] = fifo["hsync"] /\ pin'["hsync"] = pin["hsync"]
  <2>1. h.pc = 2
    BY <1>5
  <2>2. Runs("hsync", "jmp_x--", 2, 0) /\ After("hsync") = 3
    BY <2>1, HsyncCode DEF After, h
  <2> QED BY <1>1, <1>2, <1>5, <2>2, JumpXStep DEF Runs, h
<1>6. ASSUME h.pc = 3
      PROVE  h' = S(4, h.x, h.y, h.osr, h.shift, 31) /\ fifo'["hsync"] = fifo["hsync"] /\ pin'["hsync"] = 0
  <2>1. h.pc = 3
    BY <1>6
  <2>2. Runs("hsync", "set_pins", 0, 31) /\ After("hsync") = 4
    BY <2>1, HsyncCode DEF After, h
  <2> QED BY <1>1, <1>2, <1>6, <2>2, SetPinsStep DEF Runs, h
<1>7. ASSUME h.pc = 4
      PROVE  h' = S(5, h.x, h.y, h.osr, h.shift, 31) /\ fifo'["hsync"] = fifo["hsync"] /\ pin'["hsync"] = 0
  <2>1. h.pc = 4
    BY <1>7
  <2>2. Runs("hsync", "set_pins", 0, 31) /\ After("hsync") = 5
    BY <2>1, HsyncCode DEF After, h
  <2> QED BY <1>1, <1>2, <1>7, <2>2, SetPinsStep DEF Runs, h
<1>8. ASSUME h.pc = 5
      PROVE  h' = S(6, h.x, h.y, h.osr, h.shift, 31) /\ fifo'["hsync"] = fifo["hsync"] /\ pin'["hsync"] = 0
  <2>1. h.pc = 5
    BY <1>8
  <2>2. Runs("hsync", "set_pins", 0, 31) /\ After("hsync") = 6
    BY <2>1, HsyncCode DEF After, h
  <2> QED BY <1>1, <1>2, <1>8, <2>2, SetPinsStep DEF Runs, h
<1>9. ASSUME h.pc = 6
      PROVE  h' = S(7, h.x, h.y, h.osr, h.shift, 31) /\ fifo'["hsync"] = fifo["hsync"] /\ pin'["hsync"] = 1
  <2>1. h.pc = 6
    BY <1>9
  <2>2. Runs("hsync", "set_pins", 1, 31) /\ After("hsync") = 7
    BY <2>1, HsyncCode DEF After, h
  <2> QED BY <1>1, <1>2, <1>9, <2>2, SetPinsStep DEF Runs, h
<1>10. ASSUME h.pc = 7
      PROVE  h' = S(8, h.x, h.y, h.osr, h.shift, 12) /\ fifo'["hsync"] = fifo["hsync"] /\ pin'["hsync"] = 1
  <2>1. h.pc = 7
    BY <1>10
  <2>2. Runs("hsync", "set_pins", 1, 12) /\ After("hsync") = 8
    BY <2>1, HsyncCode DEF After, h
  <2> QED BY <1>1, <1>2, <1>10, <2>2, SetPinsStep DEF Runs, h
<1>11. ASSUME h.pc = 8
      PROVE  h' = S(1, h.x, h.y, h.osr, h.shift, 1) /\ fifo'["hsync"] = fifo["hsync"] /\ pin'["hsync"] = pin["hsync"]
  <2>1. h.pc = 8
    BY <1>11
  <2>2. Runs("hsync", "irq", 0, 1) /\ After("hsync") = 1
    BY <2>1, HsyncCode DEF After, h
  <2> QED BY <1>1, <1>2, <1>11, <2>2, IrqStep DEF Runs, h
<1> QED BY <1>3, <1>4, <1>5, <1>6, <1>7, <1>8, <1>9, <1>10, <1>11

LEMMA VsyncRest ==
    ASSUME Tick, v.delay \in 0..31, ~(phase = 0 /\ v.delay = 0)
    PROVE  /\ v' = IF v.delay > 0 /\ phase = 0 THEN [v EXCEPT !.delay = @ - 1] ELSE v
           /\ fifo'["vsync"] = fifo["vsync"]
           /\ pin'["vsync"] = pin["vsync"]
<1>1. "vsync" \in Machines
  BY DEF Machines
<1>2. ~Due("vsync")
  BY DEF Due, v
<1>3. /\ sm'["vsync"] = IF sm["vsync"].delay > 0 /\ ("vsync" = "rgb" \/ phase = 0)
                    THEN [sm["vsync"] EXCEPT !.delay = @ - 1] ELSE sm["vsync"]
      /\ fifo'["vsync"] = fifo["vsync"]
      /\ pin'["vsync"] = pin["vsync"]
  BY <1>1, <1>2, RestLemma
<1> QED BY <1>3 DEF v

LEMMA VsyncStep ==
    ASSUME Tick, phase = 0, v.delay = 0
    PROVE  /\ v.pc = 0 /\ fifo["vsync"] # <<>> =>
                 v' = S(1, v.x, v.y, Head(fifo["vsync"]), 0, 0) /\ fifo'["vsync"] = Tail(fifo["vsync"]) /\ pin'["vsync"] = pin["vsync"]
           /\ v.pc = 1 =>
                 v' = S(2, v.osr, v.y, v.osr, v.shift, 0) /\ fifo'["vsync"] = fifo["vsync"] /\ pin'["vsync"] = pin["vsync"]
           /\ v.pc = 2 /\ 0 \in irq =>
                 v' = S(3, v.x, v.y, v.osr, v.shift, 0) /\ fifo'["vsync"] = fifo["vsync"] /\ pin'["vsync"] = pin["vsync"]
           /\ v.pc = 2 /\ ~(0 \in irq) =>
                 v' = v /\ fifo'["vsync"] = fifo["vsync"] /\ pin'["vsync"] = pin["vsync"]
           /\ v.pc = 3 =>
                 v' = S(4, v.x, v.y, v.osr, v.shift, 0) /\ fifo'["vsync"] = fifo["vsync"] /\ pin'["vsync"] = pin["vsync"]
           /\ v.pc = 4 =>
                 v' = S(IF v.x # 0 THEN 2 ELSE 5, v.x - 1, v.y, v.osr, v.shift, 0) /\ fifo'["vsync"] = fifo["vsync"] /\ pin'["vsync"] = pin["vsync"]
           /\ v.pc = 5 =>
                 v' = S(6, v.x, FrontPorch, v.osr, v.shift, 0) /\ fifo'["vsync"] = fifo["vsync"] /\ pin'["vsync"] = pin["vsync"]
           /\ v.pc = 6 /\ 0 \in irq =>
                 v' = S(7, v.x, v.y, v.osr, v.shift, 0) /\ fifo'["vsync"] = fifo["vsync"] /\ pin'["vsync"] = pin["vsync"]
           /\ v.pc = 6 /\ ~(0 \in irq) =>
                 v' = v /\ fifo'["vsync"] = fifo["vsync"] /\ pin'["vsync"] = pin["vsync"]
           /\ v.pc = 7 =>
                 v' = S(IF v.y # 0 THEN 6 ELSE 8, v.x, v.y - 1, v.osr, v.shift, 0) /\ fifo'["vsync"] = fifo["vsync"] /\ pin'["vsync"] = pin["vsync"]
           /\ v.pc = 8 =>
                 v' = S(9, v.x, v.y, v.osr, v.shift, 0) /\ fifo'["vsync"] = fifo["vsync"] /\ pin'["vsync"] = 0
           /\ v.pc = 9 /\ 0 \in irq =>
                 v' = S(10, v.x, v.y, v.osr, v.shift, 0) /\ fifo'["vsync"] = fifo["vsync"] /\ pin'["vsync"] = pin["vsync"]
           /\ v.pc = 9 /\ ~(0 \in irq) =>
                 v' = v /\ fifo'["vsync"] = fifo["vsync"] /\ pin'["vsync"] = pin["vsync"]
           /\ v.pc = 10 /\ 0 \in irq =>
                 v' = S(11, v.x, v.y, v.osr, v.shift, 0) /\ fifo'["vsync"] = fifo["vsync"] /\ pin'["vsync"] = pin["vsync"]
           /\ v.pc = 10 /\ ~(0 \in irq) =>
                 v' = v /\ fifo'["vsync"] = fifo["vsync"] /\ pin'["vsync"] = pin["vsync"]
           /\ v.pc = 11 =>
                 v' = S(12, v.x, BackPorch, v.osr, v.shift, 0) /\ fifo'["vsync"] = fifo["vsync"] /\ pin'["vsync"] = pin["vsync"]
           /\ v.pc = 12 /\ 0 \in irq =>
                 v' = S(13, v.x, v.y, v.osr, v.shift, 0) /\ fifo'["vsync"] = fifo["vsync"] /\ pin'["vsync"] = 1
           /\ v.pc = 12 /\ ~(0 \in irq) =>
                 v' = v /\ fifo'["vsync"] = fifo["vsync"] /\ pin'["vsync"] = 1
           /\ v.pc = 13 =>
                 v' = S(IF v.y # 0 THEN 12 ELSE 1, v.x, v.y - 1, v.osr, v.shift, 0) /\ fifo'["vsync"] = fifo["vsync"] /\ pin'["vsync"] = pin["vsync"]
<1>1. "vsync" \in Machines
  BY DEF Machines
<1>2. Due("vsync")
  BY DEF Due, v
<1>3. ASSUME v.pc = 0 /\ fifo["vsync"] # <<>>
      PROVE  v' = S(1, v.x, v.y, Head(fifo["vsync"]), 0, 0) /\ fifo'["vsync"] = Tail(fifo["vsync"]) /\ pin'["vsync"] = pin["vsync"]
  <2>1. v.pc = 0
    BY <1>3
  <2>2. Runs("vsync", "pull", 0, 0) /\ After("vsync") = 1
    BY <2>1, VsyncCode DEF After, v
  <2> QED BY <1>1, <1>2, <1>3, <2>2, PullStep DEF Runs, v
<1>4. ASSUME v.pc = 1
      PROVE  v' = S(2, v.osr, v.y, v.osr, v.shift, 0) /\ fifo'["vsync"] = fifo["vsync"] /\ pin'["vsync"] = pin["vsync"]
  <2>1. v.pc = 1
    BY <1>4
  <2>2. Runs("vsync", "x=osr", 0, 0) /\ After("vsync") = 2
    BY <2>1, VsyncCode DEF After, v
  <2> QED BY <1>1, <1>2, <1>4, <2>2, LoadXStep DEF Runs, v
<1>5. ASSUME v.pc = 2 /\ 0 \in irq
      PROVE  v' = S(3, v.x, v.y, v.osr, v.shift, 0) /\ fifo'["vsync"] = fifo["vsync"] /\ pin'["vsync"] = pin["vsync"]
  <2>1. v.pc = 2
    BY <1>5
  <2>2. Runs("vsync", "wait", 0, 0) /\ After("vsync") = 3
    BY <2>1, VsyncCode DEF After, v
  <2> QED BY <1>1, <1>2, <1>5, <2>2, WaitStep DEF Runs, v
<1>6. ASSUME v.pc = 2 /\ ~(0 \in irq)
      PROVE  v' = v /\ fifo'["vsync"] = fifo["vsync"] /\ pin'["vsync"] = pin["vsync"]
  <2>1. Runs("vsync", "wait", 0, 0)
    BY <1>6, VsyncCode
  <2>2. Stalled("vsync")
    BY <1>6, <2>1 DEF Runs, Stalled
  <2> QED BY <1>1, <1>2, <2>1, <2>2, StallLemma DEF Runs, v
<1>7. ASSUME v.pc = 3
      PROVE  v' = S(4, v.x, v.y, v.osr, v.shift, 0) /\ fifo'["vsync"] = fifo["vsync"] /\ pin'["vsync"] = pin["vsync"]
  <2>1. v.pc = 3
    BY <1>7
  <2>2. Runs("vsync", "irq", 1, 0) /\ After("vsync") = 4
    BY <2>1, VsyncCode DEF After, v
  <2> QED BY <1>1, <1>2, <1>7, <2>2, IrqStep DEF Runs, v
<1>8. ASSUME v.pc = 4
      PROVE  v' = S(IF v.x # 0 THEN 2 ELSE 5, v.x - 1, v.y, v.osr, v.shift, 0) /\ fifo'["vsync"] = fifo["vsync"] /\ pin'["vsync"] = pin["vsync"]
  <2>1. v.pc = 4
    BY <1>8
  <2>2. Runs("vsync", "jmp_x--", 2, 0) /\ After("vsync") = 5
    BY <2>1, VsyncCode DEF After, v
  <2> QED BY <1>1, <1>2, <1>8, <2>2, JumpXStep DEF Runs, v
<1>9. ASSUME v.pc = 5
      PROVE  v' = S(6, v.x, FrontPorch, v.osr, v.shift, 0) /\ fifo'["vsync"] = fifo["vsync"] /\ pin'["vsync"] = pin["vsync"]
  <2>1. v.pc = 5
    BY <1>9
  <2>2. Runs("vsync", "set_y", FrontPorch, 0) /\ After("vsync") = 6
    BY <2>1, VsyncCode DEF After, v
  <2> QED BY <1>1, <1>2, <1>9, <2>2, SetYStep DEF Runs, v
<1>10. ASSUME v.pc = 6 /\ 0 \in irq
      PROVE  v' = S(7, v.x, v.y, v.osr, v.shift, 0) /\ fifo'["vsync"] = fifo["vsync"] /\ pin'["vsync"] = pin["vsync"]
  <2>1. v.pc = 6
    BY <1>10
  <2>2. Runs("vsync", "wait", 0, 0) /\ After("vsync") = 7
    BY <2>1, VsyncCode DEF After, v
  <2> QED BY <1>1, <1>2, <1>10, <2>2, WaitStep DEF Runs, v
<1>11. ASSUME v.pc = 6 /\ ~(0 \in irq)
      PROVE  v' = v /\ fifo'["vsync"] = fifo["vsync"] /\ pin'["vsync"] = pin["vsync"]
  <2>1. Runs("vsync", "wait", 0, 0)
    BY <1>11, VsyncCode
  <2>2. Stalled("vsync")
    BY <1>11, <2>1 DEF Runs, Stalled
  <2> QED BY <1>1, <1>2, <2>1, <2>2, StallLemma DEF Runs, v
<1>12. ASSUME v.pc = 7
      PROVE  v' = S(IF v.y # 0 THEN 6 ELSE 8, v.x, v.y - 1, v.osr, v.shift, 0) /\ fifo'["vsync"] = fifo["vsync"] /\ pin'["vsync"] = pin["vsync"]
  <2>1. v.pc = 7
    BY <1>12
  <2>2. Runs("vsync", "jmp_y--", 6, 0) /\ After("vsync") = 8
    BY <2>1, VsyncCode DEF After, v
  <2> QED BY <1>1, <1>2, <1>12, <2>2, JumpYStep DEF Runs, v
<1>13. ASSUME v.pc = 8
      PROVE  v' = S(9, v.x, v.y, v.osr, v.shift, 0) /\ fifo'["vsync"] = fifo["vsync"] /\ pin'["vsync"] = 0
  <2>1. v.pc = 8
    BY <1>13
  <2>2. Runs("vsync", "set_pins", 0, 0) /\ After("vsync") = 9
    BY <2>1, VsyncCode DEF After, v
  <2> QED BY <1>1, <1>2, <1>13, <2>2, SetPinsStep DEF Runs, v
<1>14. ASSUME v.pc = 9 /\ 0 \in irq
      PROVE  v' = S(10, v.x, v.y, v.osr, v.shift, 0) /\ fifo'["vsync"] = fifo["vsync"] /\ pin'["vsync"] = pin["vsync"]
  <2>1. v.pc = 9
    BY <1>14
  <2>2. Runs("vsync", "wait", 0, 0) /\ After("vsync") = 10
    BY <2>1, VsyncCode DEF After, v
  <2> QED BY <1>1, <1>2, <1>14, <2>2, WaitStep DEF Runs, v
<1>15. ASSUME v.pc = 9 /\ ~(0 \in irq)
      PROVE  v' = v /\ fifo'["vsync"] = fifo["vsync"] /\ pin'["vsync"] = pin["vsync"]
  <2>1. Runs("vsync", "wait", 0, 0)
    BY <1>15, VsyncCode
  <2>2. Stalled("vsync")
    BY <1>15, <2>1 DEF Runs, Stalled
  <2> QED BY <1>1, <1>2, <2>1, <2>2, StallLemma DEF Runs, v
<1>16. ASSUME v.pc = 10 /\ 0 \in irq
      PROVE  v' = S(11, v.x, v.y, v.osr, v.shift, 0) /\ fifo'["vsync"] = fifo["vsync"] /\ pin'["vsync"] = pin["vsync"]
  <2>1. v.pc = 10
    BY <1>16
  <2>2. Runs("vsync", "wait", 0, 0) /\ After("vsync") = 11
    BY <2>1, VsyncCode DEF After, v
  <2> QED BY <1>1, <1>2, <1>16, <2>2, WaitStep DEF Runs, v
<1>17. ASSUME v.pc = 10 /\ ~(0 \in irq)
      PROVE  v' = v /\ fifo'["vsync"] = fifo["vsync"] /\ pin'["vsync"] = pin["vsync"]
  <2>1. Runs("vsync", "wait", 0, 0)
    BY <1>17, VsyncCode
  <2>2. Stalled("vsync")
    BY <1>17, <2>1 DEF Runs, Stalled
  <2> QED BY <1>1, <1>2, <2>1, <2>2, StallLemma DEF Runs, v
<1>18. ASSUME v.pc = 11
      PROVE  v' = S(12, v.x, BackPorch, v.osr, v.shift, 0) /\ fifo'["vsync"] = fifo["vsync"] /\ pin'["vsync"] = pin["vsync"]
  <2>1. v.pc = 11
    BY <1>18
  <2>2. Runs("vsync", "set_y", BackPorch, 0) /\ After("vsync") = 12
    BY <2>1, VsyncCode DEF After, v
  <2> QED BY <1>1, <1>2, <1>18, <2>2, SetYStep DEF Runs, v
<1>19. ASSUME v.pc = 12 /\ 0 \in irq
      PROVE  v' = S(13, v.x, v.y, v.osr, v.shift, 0) /\ fifo'["vsync"] = fifo["vsync"] /\ pin'["vsync"] = 1
  <2>1. v.pc = 12
    BY <1>19
  <2>2. Runs("vsync", "wait_side_1", 0, 0) /\ After("vsync") = 13
    BY <2>1, VsyncCode DEF After, v
  <2> QED BY <1>1, <1>2, <1>19, <2>2, WaitSideStep DEF Runs, v
<1>20. ASSUME v.pc = 12 /\ ~(0 \in irq)
      PROVE  v' = v /\ fifo'["vsync"] = fifo["vsync"] /\ pin'["vsync"] = 1
  <2>1. Runs("vsync", "wait_side_1", 0, 0)
    BY <1>20, VsyncCode
  <2>2. Stalled("vsync")
    BY <1>20, <2>1 DEF Runs, Stalled
  <2> QED BY <1>1, <1>2, <2>1, <2>2, StallLemma DEF Runs, v
<1>21. ASSUME v.pc = 13
      PROVE  v' = S(IF v.y # 0 THEN 12 ELSE 1, v.x, v.y - 1, v.osr, v.shift, 0) /\ fifo'["vsync"] = fifo["vsync"] /\ pin'["vsync"] = pin["vsync"]
  <2>1. v.pc = 13
    BY <1>21
  <2>2. Runs("vsync", "jmp_y--", 12, 0) /\ After("vsync") = 1
    BY <2>1, VsyncCode DEF After, v
  <2> QED BY <1>1, <1>2, <1>21, <2>2, JumpYStep DEF Runs, v
<1> QED BY <1>3, <1>4, <1>5, <1>6, <1>7, <1>8, <1>9, <1>10, <1>11, <1>12, <1>13, <1>14, <1>15, <1>16, <1>17, <1>18, <1>19, <1>20, <1>21

LEMMA RgbRest ==
    ASSUME Tick, r.delay \in 0..31, ~(r.delay = 0)
    PROVE  /\ r' = IF r.delay > 0 THEN [r EXCEPT !.delay = @ - 1] ELSE r
           /\ Pulled("rgb") = fifo["rgb"]
           /\ pin'["rgb"] = pin["rgb"]
<1>1. "rgb" \in Machines
  BY DEF Machines
<1>2. ~Due("rgb")
  BY DEF Due, r
<1>3. /\ sm'["rgb"] = IF sm["rgb"].delay > 0 /\ ("rgb" = "rgb" \/ phase = 0)
                    THEN [sm["rgb"] EXCEPT !.delay = @ - 1] ELSE sm["rgb"]
      /\ Pulled("rgb") = fifo["rgb"]
      /\ pin'["rgb"] = pin["rgb"]
  BY <1>1, <1>2, RestLemma
<1> QED BY <1>3 DEF r

LEMMA RgbStep ==
    ASSUME Tick, r.delay = 0
    PROVE  /\ r.pc = 0 /\ fifo["rgb"] # <<>> =>
                 r' = S(1, r.x, r.y, Head(fifo["rgb"]), 0, 0) /\ Pulled("rgb") = Tail(fifo["rgb"]) /\ pin'["rgb"] = pin["rgb"]
           /\ r.pc = 0 /\ ~(fifo["rgb"] # <<>>) =>
                 r' = r /\ Pulled("rgb") = fifo["rgb"] /\ pin'["rgb"] = pin["rgb"]
           /\ r.pc = 1 =>
                 r' = S(2, r.x, r.osr, r.osr, r.shift, 0) /\ Pulled("rgb") = fifo["rgb"] /\ pin'["rgb"] = pin["rgb"]
           /\ r.pc = 2 =>
                 r' = S(3, r.x, r.y, r.osr, r.shift, 0) /\ Pulled("rgb") = fifo["rgb"] /\ pin'["rgb"] = Black
           /\ r.pc = 3 =>
                 r' = S(4, r.y, r.y, r.osr, r.shift, 0) /\ Pulled("rgb") = fifo["rgb"] /\ pin'["rgb"] = pin["rgb"]
           /\ r.pc = 4 /\ 1 \in irq =>
                 r' = S(5, r.x, r.y, r.osr, r.shift, 3) /\ Pulled("rgb") = fifo["rgb"] /\ pin'["rgb"] = pin["rgb"]
           /\ r.pc = 4 /\ ~(1 \in irq) =>
                 r' = r /\ Pulled("rgb") = fifo["rgb"] /\ pin'["rgb"] = pin["rgb"]
           /\ r.pc = 5 /\ fifo["rgb"] # <<>> =>
                 r' = S(6, r.x, r.y, Head(fifo["rgb"]), 0, 0) /\ Pulled("rgb") = Tail(fifo["rgb"]) /\ pin'["rgb"] = pin["rgb"]
           /\ r.pc = 5 /\ ~(fifo["rgb"] # <<>>) =>
                 r' = r /\ Pulled("rgb") = fifo["rgb"] /\ pin'["rgb"] = pin["rgb"]
           /\ r.pc = 6 =>
                 r' = S(7, r.x, r.y, r.osr, r.shift + 1, 4) /\ Pulled("rgb") = fifo["rgb"] /\ pin'["rgb"] = 2 * r.osr + r.shift
           /\ r.pc = 7 =>
                 r' = S(8, r.x, r.y, r.osr, r.shift + 1, 2) /\ Pulled("rgb") = fifo["rgb"] /\ pin'["rgb"] = 2 * r.osr + r.shift
           /\ r.pc = 8 =>
                 r' = S(IF r.x # 0 THEN 5 ELSE 2, r.x - 1, r.y, r.osr, r.shift, 0) /\ Pulled("rgb") = fifo["rgb"] /\ pin'["rgb"] = pin["rgb"]
<1>1. "rgb" \in Machines
  BY DEF Machines
<1>2. Due("rgb")
  BY DEF Due, r
<1>3. ASSUME r.pc = 0 /\ fifo["rgb"] # <<>>
      PROVE  r' = S(1, r.x, r.y, Head(fifo["rgb"]), 0, 0) /\ Pulled("rgb") = Tail(fifo["rgb"]) /\ pin'["rgb"] = pin["rgb"]
  <2>1. r.pc = 0
    BY <1>3
  <2>2. Runs("rgb", "pull", 0, 0) /\ After("rgb") = 1
    BY <2>1, RgbCode DEF After, r
  <2> QED BY <1>1, <1>2, <1>3, <2>2, PullStep DEF Runs, r
<1>4. ASSUME r.pc = 0 /\ ~(fifo["rgb"] # <<>>)
      PROVE  r' = r /\ Pulled("rgb") = fifo["rgb"] /\ pin'["rgb"] = pin["rgb"]
  <2>1. Runs("rgb", "pull", 0, 0)
    BY <1>4, RgbCode
  <2>2. Stalled("rgb")
    BY <1>4, <2>1 DEF Runs, Stalled
  <2> QED BY <1>1, <1>2, <2>1, <2>2, StallLemma DEF Runs, r
<1>5. ASSUME r.pc = 1
      PROVE  r' = S(2, r.x, r.osr, r.osr, r.shift, 0) /\ Pulled("rgb") = fifo["rgb"] /\ pin'["rgb"] = pin["rgb"]
  <2>1. r.pc = 1
    BY <1>5
  <2>2. Runs("rgb", "y=osr", 0, 0) /\ After("rgb") = 2
    BY <2>1, RgbCode DEF After, r
  <2> QED BY <1>1, <1>2, <1>5, <2>2, LoadYStep DEF Runs, r
<1>6. ASSUME r.pc = 2
      PROVE  r' = S(3, r.x, r.y, r.osr, r.shift, 0) /\ Pulled("rgb") = fifo["rgb"] /\ pin'["rgb"] = Black
  <2>1. r.pc = 2
    BY <1>6
  <2>2. Runs("rgb", "set_pins", 0, 0) /\ After("rgb") = 3
    BY <2>1, RgbCode DEF After, r
  <2> QED BY <1>1, <1>2, <1>6, <2>2, SetPinsStep DEF Runs, r
<1>7. ASSUME r.pc = 3
      PROVE  r' = S(4, r.y, r.y, r.osr, r.shift, 0) /\ Pulled("rgb") = fifo["rgb"] /\ pin'["rgb"] = pin["rgb"]
  <2>1. r.pc = 3
    BY <1>7
  <2>2. Runs("rgb", "x=y", 0, 0) /\ After("rgb") = 4
    BY <2>1, RgbCode DEF After, r
  <2> QED BY <1>1, <1>2, <1>7, <2>2, CopyXStep DEF Runs, r
<1>8. ASSUME r.pc = 4 /\ 1 \in irq
      PROVE  r' = S(5, r.x, r.y, r.osr, r.shift, 3) /\ Pulled("rgb") = fifo["rgb"] /\ pin'["rgb"] = pin["rgb"]
  <2>1. r.pc = 4
    BY <1>8
  <2>2. Runs("rgb", "wait", 1, 3) /\ After("rgb") = 5
    BY <2>1, RgbCode DEF After, r
  <2> QED BY <1>1, <1>2, <1>8, <2>2, WaitStep DEF Runs, r
<1>9. ASSUME r.pc = 4 /\ ~(1 \in irq)
      PROVE  r' = r /\ Pulled("rgb") = fifo["rgb"] /\ pin'["rgb"] = pin["rgb"]
  <2>1. Runs("rgb", "wait", 1, 3)
    BY <1>9, RgbCode
  <2>2. Stalled("rgb")
    BY <1>9, <2>1 DEF Runs, Stalled
  <2> QED BY <1>1, <1>2, <2>1, <2>2, StallLemma DEF Runs, r
<1>10. ASSUME r.pc = 5 /\ fifo["rgb"] # <<>>
      PROVE  r' = S(6, r.x, r.y, Head(fifo["rgb"]), 0, 0) /\ Pulled("rgb") = Tail(fifo["rgb"]) /\ pin'["rgb"] = pin["rgb"]
  <2>1. r.pc = 5
    BY <1>10
  <2>2. Runs("rgb", "pull", 0, 0) /\ After("rgb") = 6
    BY <2>1, RgbCode DEF After, r
  <2> QED BY <1>1, <1>2, <1>10, <2>2, PullStep DEF Runs, r
<1>11. ASSUME r.pc = 5 /\ ~(fifo["rgb"] # <<>>)
      PROVE  r' = r /\ Pulled("rgb") = fifo["rgb"] /\ pin'["rgb"] = pin["rgb"]
  <2>1. Runs("rgb", "pull", 0, 0)
    BY <1>11, RgbCode
  <2>2. Stalled("rgb")
    BY <1>11, <2>1 DEF Runs, Stalled
  <2> QED BY <1>1, <1>2, <2>1, <2>2, StallLemma DEF Runs, r
<1>12. ASSUME r.pc = 6
      PROVE  r' = S(7, r.x, r.y, r.osr, r.shift + 1, 4) /\ Pulled("rgb") = fifo["rgb"] /\ pin'["rgb"] = 2 * r.osr + r.shift
  <2>1. r.pc = 6
    BY <1>12
  <2>2. Runs("rgb", "out", 0, 4) /\ After("rgb") = 7
    BY <2>1, RgbCode DEF After, r
  <2> QED BY <1>1, <1>2, <1>12, <2>2, OutStep DEF Runs, r
<1>13. ASSUME r.pc = 7
      PROVE  r' = S(8, r.x, r.y, r.osr, r.shift + 1, 2) /\ Pulled("rgb") = fifo["rgb"] /\ pin'["rgb"] = 2 * r.osr + r.shift
  <2>1. r.pc = 7
    BY <1>13
  <2>2. Runs("rgb", "out", 0, 2) /\ After("rgb") = 8
    BY <2>1, RgbCode DEF After, r
  <2> QED BY <1>1, <1>2, <1>13, <2>2, OutStep DEF Runs, r
<1>14. ASSUME r.pc = 8
      PROVE  r' = S(IF r.x # 0 THEN 5 ELSE 2, r.x - 1, r.y, r.osr, r.shift, 0) /\ Pulled("rgb") = fifo["rgb"] /\ pin'["rgb"] = pin["rgb"]
  <2>1. r.pc = 8
    BY <1>14
  <2>2. Runs("rgb", "jmp_x--", 5, 0) /\ After("rgb") = 2
    BY <2>1, RgbCode DEF After, r
  <2> QED BY <1>1, <1>2, <1>14, <2>2, JumpXStep DEF Runs, r
<1> QED BY <1>3, <1>4, <1>5, <1>6, <1>7, <1>8, <1>9, <1>10, <1>11, <1>12, <1>13, <1>14


-----------------------------------------------------------------------------
(* The state the machines share.                                             *)

LEMMA ConstantFacts ==
    /\ H_ACTIVE \in Nat /\ V_ACTIVE \in Nat /\ RGB_ACTIVE \in Nat /\ TXCOUNT \in Nat
    /\ FrontPorch \in Nat /\ BackPorch \in Nat /\ Slack \in Nat
    /\ Bytes = RGB_ACTIVE + 1 /\ Lines = V_ACTIVE + 1
    /\ H_ACTIVE = 2 * Bytes + 15 /\ Slack <= 9 /\ TXCOUNT > 4
BY VgaAssumption, TimingAssumption DEF Bytes, Lines

LEMMA PhaseNext ==
    ASSUME Tick, phase \in 0..4
    PROVE  phase' \in 0..4 /\ phase' = IF phase = 4 THEN 0 ELSE phase + 1
BY DEF Tick, ClkDiv

HsyncEnds == phase = 0 /\ h.pc = 8 /\ h.delay = 0

LEMMA SinceNext ==
    ASSUME Tick, h.pc \in 0..8
    PROVE  since' = IF HsyncEnds THEN 0 ELSE IF Started /\ phase = 0 THEN since + 1 ELSE since
<1>1. Instr("hsync").op = "irq" <=> h.pc = 8
  BY HsyncCode DEF Runs
<1>2. Stalled("hsync") => h.pc # 8
  BY <1>1 DEF Stalled
<1>3. Does("hsync", {"irq"}) <=> HsyncEnds
  BY <1>1, <1>2 DEF Does, Fires, Due, HsyncEnds, h
<1>4. since' = IF Does("hsync", {"irq"}) THEN 0
              ELSE IF since # NotYet /\ phase = 0 THEN since + 1 ELSE since
  BY DEF Tick
<1> QED BY <1>3, <1>4 DEF Started

LEMMA LineNext ==
    ASSUME Tick, v.pc \in 0..13, v.delay = 0
    PROVE  line' = IF phase = 0 /\ v.pc = 3 THEN line + 1
                   ELSE IF phase = 0 /\ v.pc = 1 THEN 0 ELSE line
<1>1. Instr("vsync").op = "irq" <=> v.pc = 3
  BY VsyncCode DEF Runs
<1>2. Instr("vsync").op = "x=osr" <=> v.pc = 1
  BY VsyncCode DEF Runs
<1>3. Stalled("vsync") => v.pc # 3 /\ v.pc # 1
  BY <1>1, <1>2 DEF Stalled
<1>4. /\ Does("vsync", {"irq"}) <=> phase = 0 /\ v.pc = 3
      /\ Does("vsync", {"x=osr"}) <=> phase = 0 /\ v.pc = 1
  BY <1>1, <1>2, <1>3 DEF Does, Fires, Due, v
<1>5. line' = CASE Does("vsync", {"irq"}) -> line + 1
                [] Does("vsync", {"x=osr"}) -> 0
                [] OTHER -> line
  BY DEF Tick
<1>6. ~(v.pc = 3 /\ v.pc = 1)
  OBVIOUS
<1> QED BY <1>4, <1>5, <1>6

VsyncWaits == v.pc \in {2, 6, 9, 10, 12}

\* irq 0 is set by hsync and cleared by vsync, irq 1 is set by vsync and cleared by rgb.
LEMMA IrqNext ==
    ASSUME Tick, h.pc \in 0..8, v.pc \in 0..13, v.delay = 0, r.pc \in 0..8,
           irq \subseteq {0, 1}
    PROVE  /\ irq' \subseteq {0, 1}
           /\ 0 \in irq' <=> HsyncEnds \/ (0 \in irq /\ ~(phase = 0 /\ VsyncWaits))
           /\ 1 \in irq' <=> \/ phase = 0 /\ v.pc = 3
                             \/ 1 \in irq /\ ~(r.pc = 4 /\ r.delay = 0)
<1> DEFINE W(m) == Does(m, {"wait", "wait_side_1"})
           Q(m) == Does(m, {"irq"})
<1>1. /\ W("hsync") <=> FALSE
      /\ Q("hsync") <=> HsyncEnds
      /\ Q("hsync") => Instr("hsync").arg = 0
  <2>1. /\ Instr("hsync").op = "irq" <=> h.pc = 8
        /\ Instr("hsync").op \notin {"wait", "wait_side_1"}
        /\ h.pc = 8 => Instr("hsync").arg = 0
    BY HsyncCode DEF Runs
  <2>2. Stalled("hsync") => h.pc # 8
    BY <2>1 DEF Stalled
  <2> QED BY <2>1, <2>2 DEF Does, Fires, Due, HsyncEnds, h
<1>2. /\ W("vsync") <=> phase = 0 /\ VsyncWaits /\ 0 \in irq
      /\ W("vsync") => Instr("vsync").arg = 0
      /\ Q("vsync") <=> phase = 0 /\ v.pc = 3
      /\ Q("vsync") => Instr("vsync").arg = 1
  <2>1. /\ Instr("vsync").op = "irq" <=> v.pc = 3
        /\ Instr("vsync").op \in {"wait", "wait_side_1"} <=> VsyncWaits
        /\ VsyncWaits => Instr("vsync").arg = 0 /\ Instr("vsync").op # "pull"
        /\ v.pc = 3 => Instr("vsync").arg = 1
    BY VsyncCode DEF Runs, VsyncWaits
  <2>2. /\ v.pc = 3 => ~Stalled("vsync")
        /\ VsyncWaits => (Stalled("vsync") <=> 0 \notin irq)
    BY <2>1 DEF Stalled
  <2> QED BY <2>1, <2>2 DEF Does, Fires, Due, v
<1>3. /\ W("rgb") <=> r.pc = 4 /\ r.delay = 0 /\ 1 \in irq
      /\ W("rgb") => Instr("rgb").arg = 1
      /\ Q("rgb") <=> FALSE
  <2>1. /\ Instr("rgb").op # "irq"
        /\ Instr("rgb").op \in {"wait", "wait_side_1"} <=> r.pc = 4
        /\ r.pc = 4 => Instr("rgb").arg = 1 /\ Instr("rgb").op # "pull"
    BY RgbCode DEF Runs
  <2>2. r.pc = 4 => (Stalled("rgb") <=> 1 \notin irq)
    BY <2>1 DEF Stalled
  <2> QED BY <2>1, <2>2 DEF Does, Fires, Due, r
<1>4. irq' = (irq \ {Instr(m).arg : m \in {n \in Machines : W(n)}})
                \union {Instr(m).arg : m \in {n \in Machines : Q(n)}}
  BY DEF Tick, NextIrq
<1> HIDE DEF W, Q
<1>5. \A i : i \in irq' <=>
          \/ \E m \in Machines : Q(m) /\ i = Instr(m).arg
          \/ i \in irq /\ ~\E m \in Machines : W(m) /\ i = Instr(m).arg
  BY <1>4
<1>6. \A i : i \in irq' <=>
          \/ Q("hsync") /\ i = Instr("hsync").arg
          \/ Q("vsync") /\ i = Instr("vsync").arg
          \/ Q("rgb") /\ i = Instr("rgb").arg
          \/ /\ i \in irq
             /\ ~(W("hsync") /\ i = Instr("hsync").arg)
             /\ ~(W("vsync") /\ i = Instr("vsync").arg)
             /\ ~(W("rgb") /\ i = Instr("rgb").arg)
  BY <1>5, Zenon DEF Machines
<1>7. \A i : i \in irq' <=>
          \/ HsyncEnds /\ i = 0
          \/ phase = 0 /\ v.pc = 3 /\ i = 1
          \/ /\ i \in irq
             /\ ~(phase = 0 /\ VsyncWaits /\ 0 \in irq /\ i = 0)
             /\ ~(r.pc = 4 /\ r.delay = 0 /\ 1 \in irq /\ i = 1)
  BY <1>1, <1>2, <1>3, <1>6
<1>8. irq' \subseteq {0, 1}
  BY <1>7
<1>9. 0 \in irq' <=> HsyncEnds \/ (0 \in irq /\ ~(phase = 0 /\ VsyncWaits))
  BY <1>7
<1>10. 1 \in irq' <=> \/ phase = 0 /\ v.pc = 3
                      \/ 1 \in irq /\ ~(r.pc = 4 /\ r.delay = 0)
  BY <1>7
<1> QED BY <1>8, <1>9, <1>10

-----------------------------------------------------------------------------
(* hsync: its place is the common clock.                                     *)

LEMMA HsyncKeeps ==
    ASSUME HsyncInv, phase \in 0..4, Tick
    PROVE  /\ HsyncInv'
           /\ Clock' = IF HsyncEnds THEN 0 ELSE IF phase = 0 THEN Clock + 1 ELSE Clock
           /\ Started' = (Started \/ HsyncEnds)
<1> DEFINE F == fifo["hsync"]  P == pin["hsync"]  Goal ==
        /\ HsyncInv'
        /\ Clock' = IF HsyncEnds THEN 0 ELSE IF phase = 0 THEN Clock + 1 ELSE Clock
        /\ Started' = (Started \/ HsyncEnds)
<1>0. HsyncTime /\ HsyncFifo
  BY DEF HsyncInv
<1>1. h \in Registers /\ h.pc <= 8
  BY <1>0 DEF HsyncTime
<1>2. /\ h.pc \in 0..8 /\ h.x \in Int /\ h.y \in Int /\ h.osr \in Int
      /\ h.shift \in 0..2 /\ h.delay \in 0..31
  BY <1>1 DEF Registers
<1>3. since' = IF HsyncEnds THEN 0 ELSE IF Started /\ phase = 0 THEN since + 1 ELSE since
  BY <1>2, SinceNext
<1>4. Started => since \in Nat
  BY <1>0, <1>2, ConstantFacts DEF HsyncTime, Clock
<1>5. Started' = (Started \/ HsyncEnds)
  BY <1>3, <1>4 DEF Started, NotYet
<1>6. CASE phase # 0
  <2>1. ~(phase = 0 /\ h.delay = 0)
    BY <1>6
  <2>2. h' = h /\ F' = F /\ P' = P
    BY <1>2, <1>6, <2>1, HsyncRest
  <2>3. HsyncTime' /\ Clock' = Clock
    BY <1>0, <1>1, <1>3, <1>5, <1>6, <2>2 DEF HsyncTime, Clock, HsyncEnds, Started
  <2>4. HsyncFifo'
    BY <1>0, <2>2 DEF HsyncFifo
  <2> QED BY <1>5, <1>6, <2>3, <2>4 DEF HsyncInv, HsyncEnds
<1>7. CASE phase = 0 /\ h.delay # 0
  <2>1. ~(phase = 0 /\ h.delay = 0)
    BY <1>7
  <2>2. h' = [h EXCEPT !.delay = @ - 1] /\ F' = F /\ P' = P
    BY <1>2, <1>7, <2>1, HsyncRest
  <2>3. /\ h' \in Registers /\ h'.pc = h.pc /\ h'.x = h.x /\ h'.osr = h.osr
        /\ h'.delay = h.delay - 1
    BY <1>1, <1>2, <1>7, <2>2 DEF Registers
  <2>4. ~HsyncEnds
    BY <1>7 DEF HsyncEnds
  <2>5. Clock' = Clock + 1
    BY <1>0, <1>2, <1>7, <2>3, ConstantFacts DEF HsyncTime, Clock
  <2>6. HsyncTime'
    BY <1>0, <1>2, <1>3, <1>4, <1>5, <1>7, <2>2, <2>3, <2>4, <2>5, ConstantFacts DEF HsyncTime, Started
  <2>7. HsyncFifo'
    BY <1>0, <2>2, <2>3 DEF HsyncFifo
  <2> QED BY <1>5, <1>7, <2>4, <2>5, <2>6, <2>7 DEF HsyncInv
<1>8. CASE phase = 0 /\ h.delay = 0
  <2>0. CASE h.pc = 0
    <3>1. h' = S(1, h.x, h.y, H_ACTIVE, 0, 0) /\ F' = <<>> /\ P' = P
      <4>1. F = <<H_ACTIVE>>
        BY <1>0, <2>0 DEF HsyncFifo
      <4>2. F # <<>> /\ Head(F) = H_ACTIVE /\ Tail(F) = <<>>
        BY <4>1
      <4>3. h' = S(1, h.x, h.y, Head(F), 0, 0) /\ F' = Tail(F) /\ P' = P
        BY <1>8, <2>0, <4>2, HsyncStep
      <4> QED BY <4>2, <4>3
    <3>a. h' = S(1, h.x, h.y, H_ACTIVE, 0, 0) /\ P' = P
      BY <3>1
    <3>2. /\ h'.pc = (1) /\ h'.x = h.x /\ h'.y = h.y
          /\ h'.osr = H_ACTIVE /\ h'.shift \in 0..2 /\ h'.delay = 0
      BY <1>2, <3>a DEF S
    <3>3. h' \in Registers
      BY <1>2, <3>a, <3>2, ConstantFacts DEF S, Registers
    <3>4. HsyncEnds <=> FALSE
      BY <1>8, <2>0 DEF HsyncEnds
    <3>5. Clock' = Clock + 1
      BY <1>0, <1>2, <1>8, <2>0, <3>2, ConstantFacts DEF HsyncTime, Clock
    <3>6. HsyncTime'
      BY <1>0, <1>2, <1>3, <1>4, <1>5, <1>8, <2>0, <3>a, <3>2, <3>3, <3>4, <3>5, ConstantFacts DEF HsyncTime, Started
    <3>7. HsyncFifo'
      BY <1>0, <2>0, <3>1, <3>2 DEF HsyncFifo
    <3> QED BY <1>5, <1>8, <3>4, <3>5, <3>6, <3>7 DEF HsyncInv
  <2>1. CASE h.pc = 1
    <3>1. h' = S(2, h.osr, h.y, h.osr, h.shift, 0) /\ F' = F /\ P' = P
      BY <1>8, <2>1, HsyncStep
    <3>a. h' = S(2, h.osr, h.y, h.osr, h.shift, 0) /\ P' = P
      BY <3>1
    <3>2. /\ h'.pc = (2) /\ h'.x = h.osr /\ h'.y = h.y
          /\ h'.osr = h.osr /\ h'.shift \in 0..2 /\ h'.delay = 0
      BY <1>2, <3>a DEF S
    <3>3. h' \in Registers
      BY <1>2, <3>a, <3>2, ConstantFacts DEF S, Registers
    <3>4. HsyncEnds <=> FALSE
      BY <1>8, <2>1 DEF HsyncEnds
    <3>5. Clock' = Clock + 1
      BY <1>0, <1>2, <1>8, <2>1, <3>2, ConstantFacts DEF HsyncTime, Clock
    <3>6. HsyncTime'
      BY <1>0, <1>2, <1>3, <1>4, <1>5, <1>8, <2>1, <3>a, <3>2, <3>3, <3>4, <3>5, ConstantFacts DEF HsyncTime, Started
    <3>7. HsyncFifo'
      BY <1>0, <2>1, <3>1, <3>2 DEF HsyncFifo
    <3> QED BY <1>5, <1>8, <3>4, <3>5, <3>6, <3>7 DEF HsyncInv
  <2>2. CASE h.pc = 2
    <3>1. h' = S(IF h.x # 0 THEN 2 ELSE 3, h.x - 1, h.y, h.osr, h.shift, 0) /\ F' = F /\ P' = P
      BY <1>8, <2>2, HsyncStep
    <3>a. h' = S(IF h.x # 0 THEN 2 ELSE 3, h.x - 1, h.y, h.osr, h.shift, 0) /\ P' = P
      BY <3>1
    <3>2. /\ h'.pc = (IF h.x # 0 THEN 2 ELSE 3) /\ h'.x = h.x - 1 /\ h'.y = h.y
          /\ h'.osr = h.osr /\ h'.shift \in 0..2 /\ h'.delay = 0
      BY <1>2, <3>a DEF S
    <3>3. h' \in Registers
      BY <1>2, <3>a, <3>2, ConstantFacts DEF S, Registers
    <3>4. HsyncEnds <=> FALSE
      BY <1>8, <2>2 DEF HsyncEnds
    <3>5. Clock' = Clock + 1
      BY <1>0, <1>2, <1>8, <2>2, <3>2, ConstantFacts DEF HsyncTime, Clock
    <3>6. HsyncTime'
      BY <1>0, <1>2, <1>3, <1>4, <1>5, <1>8, <2>2, <3>a, <3>2, <3>3, <3>4, <3>5, ConstantFacts DEF HsyncTime, Started
    <3>7. HsyncFifo'
      BY <1>0, <2>2, <3>1, <3>2 DEF HsyncFifo
    <3> QED BY <1>5, <1>8, <3>4, <3>5, <3>6, <3>7 DEF HsyncInv
  <2>3. CASE h.pc = 3
    <3>1. h' = S(4, h.x, h.y, h.osr, h.shift, 31) /\ F' = F /\ P' = 0
      BY <1>8, <2>3, HsyncStep
    <3>a. h' = S(4, h.x, h.y, h.osr, h.shift, 31) /\ P' = 0
      BY <3>1
    <3>2. /\ h'.pc = (4) /\ h'.x = h.x /\ h'.y = h.y
          /\ h'.osr = h.osr /\ h'.shift \in 0..2 /\ h'.delay = 31
      BY <1>2, <3>a DEF S
    <3>3. h' \in Registers
      BY <1>2, <3>a, <3>2, ConstantFacts DEF S, Registers
    <3>4. HsyncEnds <=> FALSE
      BY <1>8, <2>3 DEF HsyncEnds
    <3>5. Clock' = Clock + 1
      BY <1>0, <1>2, <1>8, <2>3, <3>2, ConstantFacts DEF HsyncTime, Clock
    <3>6. HsyncTime'
      BY <1>0, <1>2, <1>3, <1>4, <1>5, <1>8, <2>3, <3>a, <3>2, <3>3, <3>4, <3>5, ConstantFacts DEF HsyncTime, Started
    <3>7. HsyncFifo'
      BY <1>0, <2>3, <3>1, <3>2 DEF HsyncFifo
    <3> QED BY <1>5, <1>8, <3>4, <3>5, <3>6, <3>7 DEF HsyncInv
  <2>4. CASE h.pc = 4
    <3>1. h' = S(5, h.x, h.y, h.osr, h.shift, 31) /\ F' = F /\ P' = 0
      BY <1>8, <2>4, HsyncStep
    <3>a. h' = S(5, h.x, h.y, h.osr, h.shift, 31) /\ P' = 0
      BY <3>1
    <3>2. /\ h'.pc = (5) /\ h'.x = h.x /\ h'.y = h.y
          /\ h'.osr = h.osr /\ h'.shift \in 0..2 /\ h'.delay = 31
      BY <1>2, <3>a DEF S
    <3>3. h' \in Registers
      BY <1>2, <3>a, <3>2, ConstantFacts DEF S, Registers
    <3>4. HsyncEnds <=> FALSE
      BY <1>8, <2>4 DEF HsyncEnds
    <3>5. Clock' = Clock + 1
      BY <1>0, <1>2, <1>8, <2>4, <3>2, ConstantFacts DEF HsyncTime, Clock
    <3>6. HsyncTime'
      BY <1>0, <1>2, <1>3, <1>4, <1>5, <1>8, <2>4, <3>a, <3>2, <3>3, <3>4, <3>5, ConstantFacts DEF HsyncTime, Started
    <3>7. HsyncFifo'
      BY <1>0, <2>4, <3>1, <3>2 DEF HsyncFifo
    <3> QED BY <1>5, <1>8, <3>4, <3>5, <3>6, <3>7 DEF HsyncInv
  <2>5. CASE h.pc = 5
    <3>1. h' = S(6, h.x, h.y, h.osr, h.shift, 31) /\ F' = F /\ P' = 0
      BY <1>8, <2>5, HsyncStep
    <3>a. h' = S(6, h.x, h.y, h.osr, h.shift, 31) /\ P' = 0
      BY <3>1
    <3>2. /\ h'.pc = (6) /\ h'.x = h.x /\ h'.y = h.y
          /\ h'.osr = h.osr /\ h'.shift \in 0..2 /\ h'.delay = 31
      BY <1>2, <3>a DEF S
    <3>3. h' \in Registers
      BY <1>2, <3>a, <3>2, ConstantFacts DEF S, Registers
    <3>4. HsyncEnds <=> FALSE
      BY <1>8, <2>5 DEF HsyncEnds
    <3>5. Clock' = Clock + 1
      BY <1>0, <1>2, <1>8, <2>5, <3>2, ConstantFacts DEF HsyncTime, Clock
    <3>6. HsyncTime'
      BY <1>0, <1>2, <1>3, <1>4, <1>5, <1>8, <2>5, <3>a, <3>2, <3>3, <3>4, <3>5, ConstantFacts DEF HsyncTime, Started
    <3>7. HsyncFifo'
      BY <1>0, <2>5, <3>1, <3>2 DEF HsyncFifo
    <3> QED BY <1>5, <1>8, <3>4, <3>5, <3>6, <3>7 DEF HsyncInv
  <2>6. CASE h.pc = 6
    <3>1. h' = S(7, h.x, h.y, h.osr, h.shift, 31) /\ F' = F /\ P' = 1
      BY <1>8, <2>6, HsyncStep
    <3>a. h' = S(7, h.x, h.y, h.osr, h.shift, 31) /\ P' = 1
      BY <3>1
    <3>2. /\ h'.pc = (7) /\ h'.x = h.x /\ h'.y = h.y
          /\ h'.osr = h.osr /\ h'.shift \in 0..2 /\ h'.delay = 31
      BY <1>2, <3>a DEF S
    <3>3. h' \in Registers
      BY <1>2, <3>a, <3>2, ConstantFacts DEF S, Registers
    <3>4. HsyncEnds <=> FALSE
      BY <1>8, <2>6 DEF HsyncEnds
    <3>5. Clock' = Clock + 1
      BY <1>0, <1>2, <1>8, <2>6, <3>2, ConstantFacts DEF HsyncTime, Clock
    <3>6. HsyncTime'
      BY <1>0, <1>2, <1>3, <1>4, <1>5, <1>8, <2>6, <3>a, <3>2, <3>3, <3>4, <3>5, ConstantFacts DEF HsyncTime, Started
    <3>7. HsyncFifo'
      BY <1>0, <2>6, <3>1, <3>2 DEF HsyncFifo
    <3> QED BY <1>5, <1>8, <3>4, <3>5, <3>6, <3>7 DEF HsyncInv
  <2>7. CASE h.pc = 7
    <3>1. h' = S(8, h.x, h.y, h.osr, h.shift, 12) /\ F' = F /\ P' = 1
      BY <1>8, <2>7, HsyncStep
    <3>a. h' = S(8, h.x, h.y, h.osr, h.shift, 12) /\ P' = 1
      BY <3>1
    <3>2. /\ h'.pc = (8) /\ h'.x = h.x /\ h'.y = h.y
          /\ h'.osr = h.osr /\ h'.shift \in 0..2 /\ h'.delay = 12
      BY <1>2, <3>a DEF S
    <3>3. h' \in Registers
      BY <1>2, <3>a, <3>2, ConstantFacts DEF S, Registers
    <3>4. HsyncEnds <=> FALSE
      BY <1>8, <2>7 DEF HsyncEnds
    <3>5. Clock' = Clock + 1
      BY <1>0, <1>2, <1>8, <2>7, <3>2, ConstantFacts DEF HsyncTime, Clock
    <3>6. HsyncTime'
      BY <1>0, <1>2, <1>3, <1>4, <1>5, <1>8, <2>7, <3>a, <3>2, <3>3, <3>4, <3>5, ConstantFacts DEF HsyncTime, Started
    <3>7. HsyncFifo'
      BY <1>0, <2>7, <3>1, <3>2 DEF HsyncFifo
    <3> QED BY <1>5, <1>8, <3>4, <3>5, <3>6, <3>7 DEF HsyncInv
  <2>8. CASE h.pc = 8
    <3>1. h' = S(1, h.x, h.y, h.osr, h.shift, 1) /\ F' = F /\ P' = P
      BY <1>8, <2>8, HsyncStep
    <3>a. h' = S(1, h.x, h.y, h.osr, h.shift, 1) /\ P' = P
      BY <3>1
    <3>2. /\ h'.pc = (1) /\ h'.x = h.x /\ h'.y = h.y
          /\ h'.osr = h.osr /\ h'.shift \in 0..2 /\ h'.delay = 1
      BY <1>2, <3>a DEF S
    <3>3. h' \in Registers
      BY <1>2, <3>a, <3>2, ConstantFacts DEF S, Registers
    <3>4. HsyncEnds <=> TRUE
      BY <1>8, <2>8 DEF HsyncEnds
    <3>5. Clock' = 0
      BY <1>0, <1>2, <1>8, <2>8, <3>2, ConstantFacts DEF HsyncTime, Clock
    <3>6. HsyncTime'
      BY <1>0, <1>2, <1>3, <1>4, <1>5, <1>8, <2>8, <3>a, <3>2, <3>3, <3>4, <3>5, ConstantFacts DEF HsyncTime, Started
    <3>7. HsyncFifo'
      BY <1>0, <2>8, <3>1, <3>2 DEF HsyncFifo
    <3> QED BY <1>5, <1>8, <3>4, <3>5, <3>6, <3>7 DEF HsyncInv
  <2> QED BY <1>2, <2>0, <2>1, <2>2, <2>3, <2>4, <2>5, <2>6, <2>7, <2>8
<1> QED BY <1>2, <1>6, <1>7, <1>8

-----------------------------------------------------------------------------
(* vsync: where it is after the interrupt of hsync, and the line it counts.  *)

LEMMA ClockFacts ==
    ASSUME HsyncInv, phase \in 0..4
    PROVE  Clock \in 0..(H_ACTIVE + 144) /\ (HsyncEnds <=> phase = 0 /\ Clock = H_ACTIVE + 144)
<1>1. HsyncTime
  BY DEF HsyncInv
<1>2. /\ h.pc \in 0..8 /\ h.x \in Int /\ h.y \in Int /\ h.osr \in Int
      /\ h.shift \in 0..2 /\ h.delay \in 0..31
  BY <1>1 DEF HsyncTime, Registers
<1> QED BY <1>1, <1>2, ConstantFacts DEF HsyncTime, Clock, HsyncEnds

\* The clock, the flags and the count of lines after a cycle.
SharedNext ==
    /\ phase' = IF phase = 4 THEN 0 ELSE phase + 1
    /\ (Started' <=> Started \/ HsyncEnds)
    /\ Clock \in 0..(H_ACTIVE + 144)
    /\ HsyncEnds <=> phase = 0 /\ Clock = H_ACTIVE + 144
    /\ Clock' = IF HsyncEnds THEN 0 ELSE IF phase = 0 THEN Clock + 1 ELSE Clock
    /\ line' = IF phase = 0 /\ v.pc = 3 THEN line + 1
               ELSE IF phase = 0 /\ v.pc = 1 THEN 0 ELSE line
    /\ irq' \subseteq {0, 1}
    /\ 0 \in irq' <=> HsyncEnds \/ (0 \in irq /\ ~(phase = 0 /\ VsyncWaits))
    /\ 1 \in irq' <=> phase = 0 /\ v.pc = 3

LEMMA SharedLemma ==
    ASSUME HsyncInv, VsyncInv, RgbInv, phase \in 0..4, Tick
    PROVE  SharedNext
<1>1. HsyncTime /\ VsyncLine /\ VsyncTime
  BY DEF HsyncInv, VsyncInv
<1>2. h.pc \in 0..8 /\ v.pc \in 0..13 /\ v.delay = 0 /\ r.pc \in 0..8
  BY <1>1 DEF HsyncTime, VsyncLine, RgbInv, RgbRegs, Registers
<1>3. r.x \in Int /\ r.delay \in 0..31
  BY DEF RgbInv, RgbRegs, Registers
<1>4. ASSUME 1 \in irq PROVE r.pc = 4 /\ r.delay = 0
  <2>1. Started /\ Cycle = 10
    BY <1>1, <1>4 DEF VsyncTime, Cycle
  <2>2. r.pc # 4 => r.pc >= 2 /\ Cycle = RgbCycle
    BY <2>1 DEF RgbInv, RgbTime
  <2>3. r.x <= RGB_ACTIVE /\ (r.pc = 4 => r.delay = 0)
    BY <1>3, ConstantFacts DEF RgbInv, RgbRegs
  <2>4. r.pc = 5 => r.delay <= 3
    BY DEF RgbInv, RgbRegs
  <2>5. r.pc \in {7, 8} => r.delay <= 4
    BY DEF RgbInv, RgbRegs
  <2>6. r.pc # 4 => RgbCycle > 10
    BY <1>2, <1>3, <2>2, <2>3, <2>4, <2>5, ConstantFacts DEF RgbCycle, k
  <2> QED BY <1>2, <1>3, <2>1, <2>2, <2>3, <2>6
<1>5. irq \subseteq {0, 1}
  BY <1>1 DEF VsyncTime
<1> QED BY <1>2, <1>4, <1>5, PhaseNext, ClockFacts, HsyncKeeps, LineNext, IrqNext DEF SharedNext

LEMMA VsyncKeeps ==
    ASSUME HsyncInv, VsyncInv, RgbInv, phase \in 0..4, Tick
    PROVE  VsyncInv'
<1> DEFINE F == fifo["vsync"]  P == pin["vsync"]
<1>0. VsyncLine /\ VsyncTime /\ VsyncFifo /\ SharedNext
  BY SharedLemma DEF VsyncInv
<1>1. /\ v.pc \in 0..13 /\ v.x \in Int /\ v.y \in Int /\ v.osr \in Int
      /\ v.shift \in 0..2 /\ v.delay = 0 /\ line \in Int /\ P \in {0, 1}
  BY <1>0, ConstantFacts DEF VsyncLine, Registers
<1>2. CASE phase # 0
  <2>1. ~(phase = 0 /\ v.delay = 0)
    BY <1>2
  <2>2. v' = v /\ F' = F /\ P' = P
    BY <1>1, <1>2, <2>1, VsyncRest
  <2>3. VsyncLine'
    BY <1>0, <1>1, <1>2, <2>2 DEF VsyncLine, SharedNext
  <2>4. VsyncTime'
    BY <1>0, <1>1, <1>2, <2>2 DEF VsyncTime, SharedNext
  <2>5. VsyncFifo'
    BY <1>0, <2>2 DEF VsyncFifo
  <2> QED BY <2>3, <2>4, <2>5 DEF VsyncInv
<1>3. CASE phase = 0
  <2>0. CASE v.pc = 0
    <3>1. v' = S(1, v.x, v.y, V_ACTIVE, 0, 0) /\ F' = <<>> /\ P' = P
      <4>1. F = <<V_ACTIVE>>
        BY <1>0, <2>0 DEF VsyncFifo
      <4>2. F # <<>> /\ Head(F) = V_ACTIVE /\ Tail(F) = <<>>
        BY <4>1
      <4>3. v' = S(1, v.x, v.y, Head(F), 0, 0) /\ F' = Tail(F) /\ P' = P
        BY <1>1, <1>3, <2>0, <4>2, VsyncStep
      <4> QED BY <4>2, <4>3
    <3>a. v' = S(1, v.x, v.y, V_ACTIVE, 0, 0) /\ P' = P
      BY <3>1
    <3>2. /\ v'.pc = (1) /\ v'.x = v.x /\ v'.y = v.y
          /\ v'.osr = V_ACTIVE /\ v'.shift \in 0..2 /\ v'.delay = 0
      BY <1>1, <3>a DEF S
    <3>3. v' \in Registers
      BY <1>1, <3>a, <3>2, ConstantFacts DEF S, Registers
    <3>4. VsyncLine'
      BY <1>0, <1>1, <1>3, <2>0, <3>a, <3>2, <3>3, ConstantFacts DEF VsyncLine, SharedNext
    <3>5. VsyncTime'
      BY <1>0, <1>1, <1>3, <2>0, <3>2, ConstantFacts DEF VsyncTime, SharedNext, VsyncWaits
    <3>6. VsyncFifo'
      BY <1>0, <1>1, <2>0, <3>1, <3>2 DEF VsyncFifo
    <3> QED BY <3>4, <3>5, <3>6 DEF VsyncInv
  <2>1. CASE v.pc = 1
    <3>1. v' = S(2, v.osr, v.y, v.osr, v.shift, 0) /\ F' = F /\ P' = P
      BY <1>1, <1>3, <2>1, VsyncStep
    <3>a. v' = S(2, v.osr, v.y, v.osr, v.shift, 0) /\ P' = P
      BY <3>1
    <3>2. /\ v'.pc = (2) /\ v'.x = v.osr /\ v'.y = v.y
          /\ v'.osr = v.osr /\ v'.shift \in 0..2 /\ v'.delay = 0
      BY <1>1, <3>a DEF S
    <3>3. v' \in Registers
      BY <1>1, <3>a, <3>2, ConstantFacts DEF S, Registers
    <3>4. VsyncLine'
      BY <1>0, <1>1, <1>3, <2>1, <3>a, <3>2, <3>3, ConstantFacts DEF VsyncLine, SharedNext
    <3>5. VsyncTime'
      BY <1>0, <1>1, <1>3, <2>1, <3>2, ConstantFacts DEF VsyncTime, SharedNext, VsyncWaits
    <3>6. VsyncFifo'
      BY <1>0, <1>1, <2>1, <3>1, <3>2 DEF VsyncFifo
    <3> QED BY <3>4, <3>5, <3>6 DEF VsyncInv
  <2>2. CASE v.pc = 2 /\ 0 \in irq
    <3>1. v' = S(3, v.x, v.y, v.osr, v.shift, 0) /\ F' = F /\ P' = P
      BY <1>1, <1>3, <2>2, VsyncStep
    <3>a. v' = S(3, v.x, v.y, v.osr, v.shift, 0) /\ P' = P
      BY <3>1
    <3>2. /\ v'.pc = (3) /\ v'.x = v.x /\ v'.y = v.y
          /\ v'.osr = v.osr /\ v'.shift \in 0..2 /\ v'.delay = 0
      BY <1>1, <3>a DEF S
    <3>3. v' \in Registers
      BY <1>1, <3>a, <3>2, ConstantFacts DEF S, Registers
    <3>4. VsyncLine'
      BY <1>0, <1>1, <1>3, <2>2, <3>a, <3>2, <3>3, ConstantFacts DEF VsyncLine, SharedNext
    <3>5. VsyncTime'
      BY <1>0, <1>1, <1>3, <2>2, <3>2, ConstantFacts DEF VsyncTime, SharedNext, VsyncWaits
    <3>6. VsyncFifo'
      BY <1>0, <1>1, <2>2, <3>1, <3>2 DEF VsyncFifo
    <3> QED BY <3>4, <3>5, <3>6 DEF VsyncInv
  <2>3. CASE v.pc = 2 /\ 0 \notin irq
    <3>1. v' = v /\ F' = F /\ P' = P
      BY <1>1, <1>3, <2>3, VsyncStep
    <3>2. VsyncLine'
      BY <1>0, <1>1, <1>3, <2>3, <3>1, ConstantFacts DEF VsyncLine, SharedNext
    <3>3. VsyncTime'
      BY <1>0, <1>1, <1>3, <2>3, <3>1, ConstantFacts DEF VsyncTime, SharedNext, VsyncWaits
    <3>4. VsyncFifo'
      BY <1>0, <3>1 DEF VsyncFifo
    <3> QED BY <3>2, <3>3, <3>4 DEF VsyncInv
  <2>4. CASE v.pc = 3
    <3>1. v' = S(4, v.x, v.y, v.osr, v.shift, 0) /\ F' = F /\ P' = P
      BY <1>1, <1>3, <2>4, VsyncStep
    <3>a. v' = S(4, v.x, v.y, v.osr, v.shift, 0) /\ P' = P
      BY <3>1
    <3>2. /\ v'.pc = (4) /\ v'.x = v.x /\ v'.y = v.y
          /\ v'.osr = v.osr /\ v'.shift \in 0..2 /\ v'.delay = 0
      BY <1>1, <3>a DEF S
    <3>3. v' \in Registers
      BY <1>1, <3>a, <3>2, ConstantFacts DEF S, Registers
    <3>4. VsyncLine'
      BY <1>0, <1>1, <1>3, <2>4, <3>a, <3>2, <3>3, ConstantFacts DEF VsyncLine, SharedNext
    <3>5. VsyncTime'
      BY <1>0, <1>1, <1>3, <2>4, <3>2, ConstantFacts DEF VsyncTime, SharedNext, VsyncWaits
    <3>6. VsyncFifo'
      BY <1>0, <1>1, <2>4, <3>1, <3>2 DEF VsyncFifo
    <3> QED BY <3>4, <3>5, <3>6 DEF VsyncInv
  <2>5. CASE v.pc = 4
    <3>1. v' = S(IF v.x # 0 THEN 2 ELSE 5, v.x - 1, v.y, v.osr, v.shift, 0) /\ F' = F /\ P' = P
      BY <1>1, <1>3, <2>5, VsyncStep
    <3>a. v' = S(IF v.x # 0 THEN 2 ELSE 5, v.x - 1, v.y, v.osr, v.shift, 0) /\ P' = P
      BY <3>1
    <3>2. /\ v'.pc = (IF v.x # 0 THEN 2 ELSE 5) /\ v'.x = v.x - 1 /\ v'.y = v.y
          /\ v'.osr = v.osr /\ v'.shift \in 0..2 /\ v'.delay = 0
      BY <1>1, <3>a DEF S
    <3>3. v' \in Registers
      BY <1>1, <3>a, <3>2, ConstantFacts DEF S, Registers
    <3>4. VsyncLine'
      BY <1>0, <1>1, <1>3, <2>5, <3>a, <3>2, <3>3, ConstantFacts DEF VsyncLine, SharedNext
    <3>5. VsyncTime'
      BY <1>0, <1>1, <1>3, <2>5, <3>2, ConstantFacts DEF VsyncTime, SharedNext, VsyncWaits
    <3>6. VsyncFifo'
      BY <1>0, <1>1, <2>5, <3>1, <3>2 DEF VsyncFifo
    <3> QED BY <3>4, <3>5, <3>6 DEF VsyncInv
  <2>6. CASE v.pc = 5
    <3>1. v' = S(6, v.x, FrontPorch, v.osr, v.shift, 0) /\ F' = F /\ P' = P
      BY <1>1, <1>3, <2>6, VsyncStep
    <3>a. v' = S(6, v.x, FrontPorch, v.osr, v.shift, 0) /\ P' = P
      BY <3>1
    <3>2. /\ v'.pc = (6) /\ v'.x = v.x /\ v'.y = FrontPorch
          /\ v'.osr = v.osr /\ v'.shift \in 0..2 /\ v'.delay = 0
      BY <1>1, <3>a DEF S
    <3>3. v' \in Registers
      BY <1>1, <3>a, <3>2, ConstantFacts DEF S, Registers
    <3>4. VsyncLine'
      BY <1>0, <1>1, <1>3, <2>6, <3>a, <3>2, <3>3, ConstantFacts DEF VsyncLine, SharedNext
    <3>5. VsyncTime'
      BY <1>0, <1>1, <1>3, <2>6, <3>2, ConstantFacts DEF VsyncTime, SharedNext, VsyncWaits
    <3>6. VsyncFifo'
      BY <1>0, <1>1, <2>6, <3>1, <3>2 DEF VsyncFifo
    <3> QED BY <3>4, <3>5, <3>6 DEF VsyncInv
  <2>7. CASE v.pc = 6 /\ 0 \in irq
    <3>1. v' = S(7, v.x, v.y, v.osr, v.shift, 0) /\ F' = F /\ P' = P
      BY <1>1, <1>3, <2>7, VsyncStep
    <3>a. v' = S(7, v.x, v.y, v.osr, v.shift, 0) /\ P' = P
      BY <3>1
    <3>2. /\ v'.pc = (7) /\ v'.x = v.x /\ v'.y = v.y
          /\ v'.osr = v.osr /\ v'.shift \in 0..2 /\ v'.delay = 0
      BY <1>1, <3>a DEF S
    <3>3. v' \in Registers
      BY <1>1, <3>a, <3>2, ConstantFacts DEF S, Registers
    <3>4. VsyncLine'
      BY <1>0, <1>1, <1>3, <2>7, <3>a, <3>2, <3>3, ConstantFacts DEF VsyncLine, SharedNext
    <3>5. VsyncTime'
      BY <1>0, <1>1, <1>3, <2>7, <3>2, ConstantFacts DEF VsyncTime, SharedNext, VsyncWaits
    <3>6. VsyncFifo'
      BY <1>0, <1>1, <2>7, <3>1, <3>2 DEF VsyncFifo
    <3> QED BY <3>4, <3>5, <3>6 DEF VsyncInv
  <2>8. CASE v.pc = 6 /\ 0 \notin irq
    <3>1. v' = v /\ F' = F /\ P' = P
      BY <1>1, <1>3, <2>8, VsyncStep
    <3>2. VsyncLine'
      BY <1>0, <1>1, <1>3, <2>8, <3>1, ConstantFacts DEF VsyncLine, SharedNext
    <3>3. VsyncTime'
      BY <1>0, <1>1, <1>3, <2>8, <3>1, ConstantFacts DEF VsyncTime, SharedNext, VsyncWaits
    <3>4. VsyncFifo'
      BY <1>0, <3>1 DEF VsyncFifo
    <3> QED BY <3>2, <3>3, <3>4 DEF VsyncInv
  <2>9. CASE v.pc = 7
    <3>1. v' = S(IF v.y # 0 THEN 6 ELSE 8, v.x, v.y - 1, v.osr, v.shift, 0) /\ F' = F /\ P' = P
      BY <1>1, <1>3, <2>9, VsyncStep
    <3>a. v' = S(IF v.y # 0 THEN 6 ELSE 8, v.x, v.y - 1, v.osr, v.shift, 0) /\ P' = P
      BY <3>1
    <3>2. /\ v'.pc = (IF v.y # 0 THEN 6 ELSE 8) /\ v'.x = v.x /\ v'.y = v.y - 1
          /\ v'.osr = v.osr /\ v'.shift \in 0..2 /\ v'.delay = 0
      BY <1>1, <3>a DEF S
    <3>3. v' \in Registers
      BY <1>1, <3>a, <3>2, ConstantFacts DEF S, Registers
    <3>4. VsyncLine'
      BY <1>0, <1>1, <1>3, <2>9, <3>a, <3>2, <3>3, ConstantFacts DEF VsyncLine, SharedNext
    <3>5. VsyncTime'
      BY <1>0, <1>1, <1>3, <2>9, <3>2, ConstantFacts DEF VsyncTime, SharedNext, VsyncWaits
    <3>6. VsyncFifo'
      BY <1>0, <1>1, <2>9, <3>1, <3>2 DEF VsyncFifo
    <3> QED BY <3>4, <3>5, <3>6 DEF VsyncInv
  <2>10. CASE v.pc = 8
    <3>1. v' = S(9, v.x, v.y, v.osr, v.shift, 0) /\ F' = F /\ P' = 0
      BY <1>1, <1>3, <2>10, VsyncStep
    <3>a. v' = S(9, v.x, v.y, v.osr, v.shift, 0) /\ P' = 0
      BY <3>1
    <3>2. /\ v'.pc = (9) /\ v'.x = v.x /\ v'.y = v.y
          /\ v'.osr = v.osr /\ v'.shift \in 0..2 /\ v'.delay = 0
      BY <1>1, <3>a DEF S
    <3>3. v' \in Registers
      BY <1>1, <3>a, <3>2, ConstantFacts DEF S, Registers
    <3>4. VsyncLine'
      BY <1>0, <1>1, <1>3, <2>10, <3>a, <3>2, <3>3, ConstantFacts DEF VsyncLine, SharedNext
    <3>5. VsyncTime'
      BY <1>0, <1>1, <1>3, <2>10, <3>2, ConstantFacts DEF VsyncTime, SharedNext, VsyncWaits
    <3>6. VsyncFifo'
      BY <1>0, <1>1, <2>10, <3>1, <3>2 DEF VsyncFifo
    <3> QED BY <3>4, <3>5, <3>6 DEF VsyncInv
  <2>11. CASE v.pc = 9 /\ 0 \in irq
    <3>1. v' = S(10, v.x, v.y, v.osr, v.shift, 0) /\ F' = F /\ P' = P
      BY <1>1, <1>3, <2>11, VsyncStep
    <3>a. v' = S(10, v.x, v.y, v.osr, v.shift, 0) /\ P' = P
      BY <3>1
    <3>2. /\ v'.pc = (10) /\ v'.x = v.x /\ v'.y = v.y
          /\ v'.osr = v.osr /\ v'.shift \in 0..2 /\ v'.delay = 0
      BY <1>1, <3>a DEF S
    <3>3. v' \in Registers
      BY <1>1, <3>a, <3>2, ConstantFacts DEF S, Registers
    <3>4. VsyncLine'
      BY <1>0, <1>1, <1>3, <2>11, <3>a, <3>2, <3>3, ConstantFacts DEF VsyncLine, SharedNext
    <3>5. VsyncTime'
      BY <1>0, <1>1, <1>3, <2>11, <3>2, ConstantFacts DEF VsyncTime, SharedNext, VsyncWaits
    <3>6. VsyncFifo'
      BY <1>0, <1>1, <2>11, <3>1, <3>2 DEF VsyncFifo
    <3> QED BY <3>4, <3>5, <3>6 DEF VsyncInv
  <2>12. CASE v.pc = 9 /\ 0 \notin irq
    <3>1. v' = v /\ F' = F /\ P' = P
      BY <1>1, <1>3, <2>12, VsyncStep
    <3>2. VsyncLine'
      BY <1>0, <1>1, <1>3, <2>12, <3>1, ConstantFacts DEF VsyncLine, SharedNext
    <3>3. VsyncTime'
      BY <1>0, <1>1, <1>3, <2>12, <3>1, ConstantFacts DEF VsyncTime, SharedNext, VsyncWaits
    <3>4. VsyncFifo'
      BY <1>0, <3>1 DEF VsyncFifo
    <3> QED BY <3>2, <3>3, <3>4 DEF VsyncInv
  <2>13. CASE v.pc = 10 /\ 0 \in irq
    <3>1. v' = S(11, v.x, v.y, v.osr, v.shift, 0) /\ F' = F /\ P' = P
      BY <1>1, <1>3, <2>13, VsyncStep
    <3>a. v' = S(11, v.x, v.y, v.osr, v.shift, 0) /\ P' = P
      BY <3>1
    <3>2. /\ v'.pc = (11) /\ v'.x = v.x /\ v'.y = v.y
          /\ v'.osr = v.osr /\ v'.shift \in 0..2 /\ v'.delay = 0
      BY <1>1, <3>a DEF S
    <3>3. v' \in Registers
      BY <1>1, <3>a, <3>2, ConstantFacts DEF S, Registers
    <3>4. VsyncLine'
      BY <1>0, <1>1, <1>3, <2>13, <3>a, <3>2, <3>3, ConstantFacts DEF VsyncLine, SharedNext
    <3>5. VsyncTime'
      BY <1>0, <1>1, <1>3, <2>13, <3>2, ConstantFacts DEF VsyncTime, SharedNext, VsyncWaits
    <3>6. VsyncFifo'
      BY <1>0, <1>1, <2>13, <3>1, <3>2 DEF VsyncFifo
    <3> QED BY <3>4, <3>5, <3>6 DEF VsyncInv
  <2>14. CASE v.pc = 10 /\ 0 \notin irq
    <3>1. v' = v /\ F' = F /\ P' = P
      BY <1>1, <1>3, <2>14, VsyncStep
    <3>2. VsyncLine'
      BY <1>0, <1>1, <1>3, <2>14, <3>1, ConstantFacts DEF VsyncLine, SharedNext
    <3>3. VsyncTime'
      BY <1>0, <1>1, <1>3, <2>14, <3>1, ConstantFacts DEF VsyncTime, SharedNext, VsyncWaits
    <3>4. VsyncFifo'
      BY <1>0, <3>1 DEF VsyncFifo
    <3> QED BY <3>2, <3>3, <3>4 DEF VsyncInv
  <2>15. CASE v.pc = 11
    <3>1. v' = S(12, v.x, BackPorch, v.osr, v.shift, 0) /\ F' = F /\ P' = P
      BY <1>1, <1>3, <2>15, VsyncStep
    <3>a. v' = S(12, v.x, BackPorch, v.osr, v.shift, 0) /\ P' = P
      BY <3>1
    <3>2. /\ v'.pc = (12) /\ v'.x = v.x /\ v'.y = BackPorch
          /\ v'.osr = v.osr /\ v'.shift \in 0..2 /\ v'.delay = 0
      BY <1>1, <3>a DEF S
    <3>3. v' \in Registers
      BY <1>1, <3>a, <3>2, ConstantFacts DEF S, Registers
    <3>4. VsyncLine'
      BY <1>0, <1>1, <1>3, <2>15, <3>a, <3>2, <3>3, ConstantFacts DEF VsyncLine, SharedNext
    <3>5. VsyncTime'
      BY <1>0, <1>1, <1>3, <2>15, <3>2, ConstantFacts DEF VsyncTime, SharedNext, VsyncWaits
    <3>6. VsyncFifo'
      BY <1>0, <1>1, <2>15, <3>1, <3>2 DEF VsyncFifo
    <3> QED BY <3>4, <3>5, <3>6 DEF VsyncInv
  <2>16. CASE v.pc = 12 /\ 0 \in irq
    <3>1. v' = S(13, v.x, v.y, v.osr, v.shift, 0) /\ F' = F /\ P' = 1
      BY <1>1, <1>3, <2>16, VsyncStep
    <3>a. v' = S(13, v.x, v.y, v.osr, v.shift, 0) /\ P' = 1
      BY <3>1
    <3>2. /\ v'.pc = (13) /\ v'.x = v.x /\ v'.y = v.y
          /\ v'.osr = v.osr /\ v'.shift \in 0..2 /\ v'.delay = 0
      BY <1>1, <3>a DEF S
    <3>3. v' \in Registers
      BY <1>1, <3>a, <3>2, ConstantFacts DEF S, Registers
    <3>4. VsyncLine'
      BY <1>0, <1>1, <1>3, <2>16, <3>a, <3>2, <3>3, ConstantFacts DEF VsyncLine, SharedNext
    <3>5. VsyncTime'
      BY <1>0, <1>1, <1>3, <2>16, <3>2, ConstantFacts DEF VsyncTime, SharedNext, VsyncWaits
    <3>6. VsyncFifo'
      BY <1>0, <1>1, <2>16, <3>1, <3>2 DEF VsyncFifo
    <3> QED BY <3>4, <3>5, <3>6 DEF VsyncInv
  <2>17. CASE v.pc = 12 /\ 0 \notin irq
    <3>1. v' = v /\ F' = F /\ P' = 1
      BY <1>1, <1>3, <2>17, VsyncStep
    <3>2. VsyncLine'
      BY <1>0, <1>1, <1>3, <2>17, <3>1, ConstantFacts DEF VsyncLine, SharedNext
    <3>3. VsyncTime'
      BY <1>0, <1>1, <1>3, <2>17, <3>1, ConstantFacts DEF VsyncTime, SharedNext, VsyncWaits
    <3>4. VsyncFifo'
      BY <1>0, <3>1 DEF VsyncFifo
    <3> QED BY <3>2, <3>3, <3>4 DEF VsyncInv
  <2>18. CASE v.pc = 13
    <3>1. v' = S(IF v.y # 0 THEN 12 ELSE 1, v.x, v.y - 1, v.osr, v.shift, 0) /\ F' = F /\ P' = P
      BY <1>1, <1>3, <2>18, VsyncStep
    <3>a. v' = S(IF v.y # 0 THEN 12 ELSE 1, v.x, v.y - 1, v.osr, v.shift, 0) /\ P' = P
      BY <3>1
    <3>2. /\ v'.pc = (IF v.y # 0 THEN 12 ELSE 1) /\ v'.x = v.x /\ v'.y = v.y - 1
          /\ v'.osr = v.osr /\ v'.shift \in 0..2 /\ v'.delay = 0
      BY <1>1, <3>a DEF S
    <3>3. v' \in Registers
      BY <1>1, <3>a, <3>2, ConstantFacts DEF S, Registers
    <3>4. VsyncLine'
      BY <1>0, <1>1, <1>3, <2>18, <3>a, <3>2, <3>3, ConstantFacts DEF VsyncLine, SharedNext
    <3>5. VsyncTime'
      BY <1>0, <1>1, <1>3, <2>18, <3>2, ConstantFacts DEF VsyncTime, SharedNext, VsyncWaits
    <3>6. VsyncFifo'
      BY <1>0, <1>1, <2>18, <3>1, <3>2 DEF VsyncFifo
    <3> QED BY <3>4, <3>5, <3>6 DEF VsyncInv
  <2> QED BY <1>1, <2>0, <2>1, <2>2, <2>3, <2>4, <2>5, <2>6, <2>7, <2>8, <2>9, <2>10, <2>11, <2>12, <2>13, <2>14, <2>15, <2>16, <2>17, <2>18
<1> QED BY <1>2, <1>3

-----------------------------------------------------------------------------
(* rgb: its place in a line is the cycle of the common clock.                *)

LEMMA CycleNext ==
    ASSUME SharedNext, phase \in 0..4
    PROVE  /\ Cycle \in Nat /\ Cycle' = IF HsyncEnds THEN 0 ELSE Cycle + 1
           /\ HsyncEnds <=> Cycle = 10 * Bytes + 799
           /\ Cycle = 5 * Clock + IF phase = 0 THEN 4 ELSE phase - 1
BY ConstantFacts DEF SharedNext, Cycle

\* The DMA is in time (DmaInv): rgb finds a byte.
LEMMA FifoFacts ==
    ASSUME BytesInv, DmaInv, RgbRegs
    PROVE  /\ bytes \in Seq(Nat) /\ Len(bytes) \in Nat
           /\ r.pc \in {0, 5} => bytes # <<>>
           /\ r.pc = 0 => Head(bytes) = RGB_ACTIVE
<1>1. bytes \in Seq(Nat) /\ Len(bytes) \in Nat
  BY DEF BytesInv
<1>2. r.pc = 0 => bytes # <<>> /\ Head(bytes) = RGB_ACTIVE
  <2>1. r.pc = 0 => bytes = <<RGB_ACTIVE>>
    BY DEF BytesInv
  <2> QED BY <2>1
<1>3. ASSUME r.pc = 5, Len(bytes) = 0 PROVE FALSE
  <2>1. ~Full
    BY <1>3 DEF Full, FifoDepth
  <2>2. Work + Age <= Turn * (IF Wrapped THEN 2 ELSE 1)
    BY <1>3, <2>1 DEF DmaInv
  <2>3. Age = 9
    BY <1>3 DEF Age
  <2>4. lag \in 0..Slack /\ Slack \in Nat
    BY ConstantFacts DEF DmaInv
  <2>5. Work = Turn * (4 + Reloads) - lag /\ Reloads \in {0, 1}
    BY <1>3 DEF Work, FifoDepth, Reloads
  <2>6. Turn = Slack + 1
    BY DEF Turn
  <2> QED BY <2>2, <2>3, <2>4, <2>5, <2>6
<1>4. r.pc = 5 => bytes # <<>>
  BY <1>3
<1> QED BY <1>1, <1>2, <1>4

\* While rgb is in a line, vsync does not leave it.
LEMMA VsyncStays ==
    ASSUME HsyncInv, VsyncInv, RgbInv, phase \in 0..4, Tick, Started, r.pc # 4 \/ 1 \in irq
    PROVE  /\ v'.pc \in {2, 4, 5, 6} /\ line' = line /\ line >= 1 /\ ~HsyncEnds
           /\ r.pc = 4 => Cycle = 10
<1>0. VsyncLine /\ VsyncTime /\ RgbRegs /\ RgbTime /\ SharedNext
  BY SharedLemma DEF VsyncInv, RgbInv
<1>1. /\ r.pc \in 0..8 /\ r.x \in Int /\ r.delay \in 0..31 /\ r.x \in -1..RGB_ACTIVE
      /\ v.pc \in 0..13 /\ v.x \in Int /\ v.delay = 0
  BY <1>0 DEF VsyncLine, RgbRegs, Registers
<1>2. /\ v.pc \in {2, 4, 5, 6} /\ line >= 1
      /\ Cycle \in 10..(15 + 10 * Bytes)
      /\ r.pc = 4 => Cycle = 10
  <2>1. CASE r.pc = 4
    <3>1. 1 \in irq
      BY <2>1
    <3>2. Clock = 2 /\ phase = 1 /\ v.pc = 4
      BY <1>0, <3>1 DEF VsyncTime
    <3>3. line = Lines - v.x /\ v.x <= V_ACTIVE
      BY <1>0, <1>1, <3>2, ConstantFacts DEF VsyncLine
    <3> QED BY <1>1, <3>2, <3>3, ConstantFacts DEF Cycle
  <2>2. CASE r.pc # 4
    <3>1. r.pc >= 2 /\ Cycle = RgbCycle /\ v.pc \in {2, 4, 5, 6} /\ line >= 1
      BY <1>0, <2>2 DEF RgbTime
    <3>2. /\ r.pc = 5 => r.delay <= 3
          /\ r.pc = 8 => r.delay <= 2
          /\ r.delay <= 4
          /\ r.pc >= 5 => r.x >= 0
      BY <1>0 DEF RgbRegs
    <3>3. RgbCycle \in 10..(15 + 10 * Bytes)
      BY <1>1, <2>2, <3>1, <3>2, ConstantFacts DEF RgbCycle, k
    <3> QED BY <2>2, <3>1, <3>3
  <2> QED BY <2>1, <2>2
<1>3. Clock # 0 /\ ~HsyncEnds
  BY <1>0, <1>2, CycleNext, ConstantFacts DEF SharedNext
<1>4. 0 \notin irq
  BY <1>0, <1>3 DEF VsyncTime
<1>5. v'.pc \in {2, 4, 5, 6}
  <2>1. CASE phase # 0
    <3>1. ~(phase = 0 /\ v.delay = 0)
      BY <2>1
    <3>2. v' = v
      BY <1>1, <2>1, <3>1, VsyncRest
    <3> QED BY <1>2, <3>2
  <2>2. CASE phase = 0
    <3>1. CASE v.pc = 2
      <4>1. v' = v
        BY <1>1, <1>4, <2>2, <3>1, VsyncStep
      <4> QED BY <3>1, <4>1
    <3>2. CASE v.pc = 4
      <4>1. v' = S(IF v.x # 0 THEN 2 ELSE 5, v.x - 1, v.y, v.osr, v.shift, 0)
        BY <1>1, <2>2, <3>2, VsyncStep
      <4> QED BY <4>1 DEF S
    <3>3. CASE v.pc = 5
      <4>1. v' = S(6, v.x, FrontPorch, v.osr, v.shift, 0)
        BY <1>1, <2>2, <3>3, VsyncStep
      <4> QED BY <4>1 DEF S
    <3>4. CASE v.pc = 6
      <4>1. v' = v
        BY <1>1, <1>4, <2>2, <3>4, VsyncStep
      <4> QED BY <3>4, <4>1
    <3> QED BY <1>2, <3>1, <3>2, <3>3, <3>4
  <2> QED BY <2>1, <2>2
<1>6. line' = line
  BY <1>0, <1>2 DEF SharedNext
<1> QED BY <1>2, <1>3, <1>5, <1>6

LEMMA RgbKeeps ==
    ASSUME HsyncInv, VsyncInv, RgbInv, BytesInv, DmaInv, phase \in 0..4, Tick
    PROVE  RgbInv'
<1> DEFINE P == pin["rgb"]
<1>0. RgbRegs /\ RgbTime /\ SharedNext /\ VsyncTime
  BY SharedLemma DEF RgbInv, VsyncInv
<1>1. /\ r.pc \in 0..8 /\ r.x \in Int /\ r.y \in Int /\ r.osr \in Int
      /\ r.shift \in 0..2 /\ r.delay \in 0..31
  BY <1>0 DEF RgbRegs, Registers
<1>2. /\ Cycle \in Nat /\ Cycle' = IF HsyncEnds THEN 0 ELSE Cycle + 1
      /\ HsyncEnds <=> Cycle = 10 * Bytes + 799
  BY <1>0, CycleNext
<1>3. Started' <=> Started \/ HsyncEnds
  BY <1>0 DEF SharedNext
<1>4. Started /\ r.pc # 4 => /\ v'.pc \in {2, 4, 5, 6} /\ line' >= 1 /\ ~HsyncEnds
                             /\ r.pc >= 2 /\ Cycle = RgbCycle
  BY <1>0, VsyncStays DEF RgbTime
<1>5. ~Started => ~(Started' /\ r.pc # 4)
  BY <1>0, <1>1, <1>2, <1>3, ConstantFacts DEF RgbTime
<1>6. CASE r.delay # 0
  <2>1. r' = [r EXCEPT !.delay = @ - 1] /\ P' = P
    BY <1>1, <1>6, RgbRest
  <2>2. /\ r'.pc = r.pc /\ r'.x = r.x /\ r'.y = r.y /\ r'.osr = r.osr
        /\ r'.shift = r.shift /\ r'.delay = r.delay - 1 /\ r' \in Registers
    BY <1>0, <1>1, <1>6, <2>1 DEF RgbRegs, Registers
  <2>3. r.pc \in {5, 7, 8}
    BY <1>0, <1>1, <1>6 DEF RgbRegs
  <2>4. Started
    BY <1>0, <2>3 DEF RgbTime
  <2>5. RgbRegs'
    BY <1>0, <1>1, <1>6, <2>2, <2>3, ConstantFacts DEF RgbRegs
  <2>6. RgbTime'
    BY <1>1, <1>2, <1>3, <1>4, <1>6, <2>2, <2>3, <2>4, ConstantFacts DEF RgbTime, RgbCycle, k
  <2> QED BY <2>5, <2>6 DEF RgbInv
<1>7. CASE r.delay = 0
  <2>0. CASE r.pc = 0
    <3>1. r' = S(1, r.x, r.y, RGB_ACTIVE, 0, 0) /\ P' = P
      BY <1>0, <1>7, <2>0, FifoFacts, RgbStep DEF bytes
    <3>2. /\ r'.pc = (1) /\ r'.x = r.x /\ r'.y = r.y
          /\ r'.osr = RGB_ACTIVE /\ r'.shift = 0 /\ r'.delay = 0
      BY <3>1 DEF S
    <3>3. r' \in Registers
      BY <1>0, <1>1, <2>0, <3>1, FifoFacts, ConstantFacts DEF S, Registers, RgbRegs
    <3>4. RgbRegs'
      BY <1>0, <1>1, <1>7, <2>0, <3>2, <3>3, ConstantFacts DEF RgbRegs
    <3>5. RgbTime'
      BY <1>0, <1>1, <1>2, <1>3, <1>4, <1>5, <1>7, <2>0, <3>1, <3>2, ConstantFacts
      DEF RgbTime, RgbRegs, RgbCycle, k
    <3> QED BY <3>4, <3>5 DEF RgbInv
  <2>1. CASE r.pc = 1
    <3>1. r' = S(2, r.x, r.osr, r.osr, r.shift, 0) /\ P' = P
      BY <1>1, <1>7, <2>1, RgbStep
    <3>2. /\ r'.pc = (2) /\ r'.x = r.x /\ r'.y = r.osr
          /\ r'.osr = r.osr /\ r'.shift = r.shift /\ r'.delay = 0
      BY <3>1 DEF S
    <3>3. r' \in Registers
      BY <1>0, <1>1, <2>1, <3>1, FifoFacts, ConstantFacts DEF S, Registers, RgbRegs
    <3>4. RgbRegs'
      BY <1>0, <1>1, <1>7, <2>1, <3>2, <3>3, ConstantFacts DEF RgbRegs
    <3>5. RgbTime'
      BY <1>0, <1>1, <1>2, <1>3, <1>4, <1>5, <1>7, <2>1, <3>1, <3>2, ConstantFacts
      DEF RgbTime, RgbRegs, RgbCycle, k
    <3> QED BY <3>4, <3>5 DEF RgbInv
  <2>2. CASE r.pc = 2
    <3>1. r' = S(3, r.x, r.y, r.osr, r.shift, 0) /\ P' = Black
      BY <1>1, <1>7, <2>2, RgbStep
    <3>2. /\ r'.pc = (3) /\ r'.x = r.x /\ r'.y = r.y
          /\ r'.osr = r.osr /\ r'.shift = r.shift /\ r'.delay = 0
      BY <3>1 DEF S
    <3>3. r' \in Registers
      BY <1>0, <1>1, <2>2, <3>1, FifoFacts, ConstantFacts DEF S, Registers, RgbRegs
    <3>4. RgbRegs'
      BY <1>0, <1>1, <1>7, <2>2, <3>2, <3>3, ConstantFacts DEF RgbRegs
    <3>5. RgbTime'
      BY <1>0, <1>1, <1>2, <1>3, <1>4, <1>5, <1>7, <2>2, <3>1, <3>2, ConstantFacts
      DEF RgbTime, RgbRegs, RgbCycle, k
    <3> QED BY <3>4, <3>5 DEF RgbInv
  <2>3. CASE r.pc = 3
    <3>1. r' = S(4, r.y, r.y, r.osr, r.shift, 0) /\ P' = P
      BY <1>1, <1>7, <2>3, RgbStep
    <3>2. /\ r'.pc = (4) /\ r'.x = r.y /\ r'.y = r.y
          /\ r'.osr = r.osr /\ r'.shift = r.shift /\ r'.delay = 0
      BY <3>1 DEF S
    <3>3. r' \in Registers
      BY <1>0, <1>1, <2>3, <3>1, FifoFacts, ConstantFacts DEF S, Registers, RgbRegs
    <3>4. RgbRegs'
      BY <1>0, <1>1, <1>7, <2>3, <3>2, <3>3, ConstantFacts DEF RgbRegs
    <3>5. RgbTime'
      BY <1>0, <1>1, <1>2, <1>3, <1>4, <1>5, <1>7, <2>3, <3>1, <3>2, ConstantFacts
      DEF RgbTime, RgbRegs, RgbCycle, k
    <3> QED BY <3>4, <3>5 DEF RgbInv
  <2>4. CASE r.pc = 4 /\ 1 \in irq
    <3>1. r' = S(5, r.x, r.y, r.osr, r.shift, 3) /\ P' = P
      BY <1>1, <1>7, <2>4, RgbStep
    <3>2. /\ r'.pc = (5) /\ r'.x = r.x /\ r'.y = r.y
          /\ r'.osr = r.osr /\ r'.shift = r.shift /\ r'.delay = 3
      BY <3>1 DEF S
    <3>3. r' \in Registers
      BY <1>0, <1>1, <2>4, <3>1, FifoFacts, ConstantFacts DEF S, Registers, RgbRegs
    <3>4. RgbRegs'
      BY <1>0, <1>1, <1>7, <2>4, <3>2, <3>3, ConstantFacts DEF RgbRegs
    <3>5. /\ Started /\ v'.pc \in {2, 4, 5, 6} /\ line' >= 1 /\ ~HsyncEnds
          /\ Cycle = 10
      BY <1>0, <2>4, VsyncStays DEF VsyncTime
    <3>6. r.x = RGB_ACTIVE
      BY <1>0, <2>4 DEF RgbRegs
    <3>7. RgbTime'
      BY <1>1, <1>2, <1>3, <3>2, <3>5, <3>6, ConstantFacts DEF RgbTime, RgbCycle, k
    <3> QED BY <3>4, <3>7 DEF RgbInv
  <2>5. CASE r.pc = 4 /\ 1 \notin irq
    <3>1. r' = r /\ P' = P
      BY <1>1, <1>7, <2>5, RgbStep
    <3>2. RgbRegs'
      BY <1>0, <3>1 DEF RgbRegs
    <3>3. RgbTime'
      BY <1>0, <1>1, <2>5, <3>1 DEF RgbTime
    <3> QED BY <3>2, <3>3 DEF RgbInv
  <2>6. CASE r.pc = 5
    <3>1. r' = S(6, r.x, r.y, Head(bytes), 0, 0) /\ P' = P
      BY <1>0, <1>7, <2>6, FifoFacts, RgbStep DEF bytes
    <3>2. /\ r'.pc = (6) /\ r'.x = r.x /\ r'.y = r.y
          /\ r'.osr = Head(bytes) /\ r'.shift = 0 /\ r'.delay = 0
      BY <3>1 DEF S
    <3>3. r' \in Registers
      BY <1>0, <1>1, <2>6, <3>1, FifoFacts, ConstantFacts DEF S, Registers, RgbRegs
    <3>4. RgbRegs'
      BY <1>0, <1>1, <1>7, <2>6, <3>2, <3>3, ConstantFacts DEF RgbRegs
    <3>5. RgbTime'
      BY <1>0, <1>1, <1>2, <1>3, <1>4, <1>5, <1>7, <2>6, <3>1, <3>2, ConstantFacts
      DEF RgbTime, RgbRegs, RgbCycle, k
    <3> QED BY <3>4, <3>5 DEF RgbInv
  <2>7. CASE r.pc = 6
    <3>1. r' = S(7, r.x, r.y, r.osr, r.shift + 1, 4) /\ P' = 2 * r.osr + r.shift
      BY <1>1, <1>7, <2>7, RgbStep
    <3>2. /\ r'.pc = (7) /\ r'.x = r.x /\ r'.y = r.y
          /\ r'.osr = r.osr /\ r'.shift = r.shift + 1 /\ r'.delay = 4
      BY <3>1 DEF S
    <3>3. r' \in Registers
      BY <1>0, <1>1, <2>7, <3>1, FifoFacts, ConstantFacts DEF S, Registers, RgbRegs
    <3>4. RgbRegs'
      BY <1>0, <1>1, <1>7, <2>7, <3>2, <3>3, ConstantFacts DEF RgbRegs
    <3>5. RgbTime'
      BY <1>0, <1>1, <1>2, <1>3, <1>4, <1>5, <1>7, <2>7, <3>1, <3>2, ConstantFacts
      DEF RgbTime, RgbRegs, RgbCycle, k
    <3> QED BY <3>4, <3>5 DEF RgbInv
  <2>8. CASE r.pc = 7
    <3>1. r' = S(8, r.x, r.y, r.osr, r.shift + 1, 2) /\ P' = 2 * r.osr + r.shift
      BY <1>1, <1>7, <2>8, RgbStep
    <3>2. /\ r'.pc = (8) /\ r'.x = r.x /\ r'.y = r.y
          /\ r'.osr = r.osr /\ r'.shift = r.shift + 1 /\ r'.delay = 2
      BY <3>1 DEF S
    <3>3. r' \in Registers
      BY <1>0, <1>1, <2>8, <3>1, FifoFacts, ConstantFacts DEF S, Registers, RgbRegs
    <3>4. RgbRegs'
      BY <1>0, <1>1, <1>7, <2>8, <3>2, <3>3, ConstantFacts DEF RgbRegs
    <3>5. RgbTime'
      BY <1>0, <1>1, <1>2, <1>3, <1>4, <1>5, <1>7, <2>8, <3>1, <3>2, ConstantFacts
      DEF RgbTime, RgbRegs, RgbCycle, k
    <3> QED BY <3>4, <3>5 DEF RgbInv
  <2>9. CASE r.pc = 8
    <3>1. r' = S(IF r.x # 0 THEN 5 ELSE 2, r.x - 1, r.y, r.osr, r.shift, 0) /\ P' = P
      BY <1>1, <1>7, <2>9, RgbStep
    <3>2. /\ r'.pc = (IF r.x # 0 THEN 5 ELSE 2) /\ r'.x = r.x - 1 /\ r'.y = r.y
          /\ r'.osr = r.osr /\ r'.shift = r.shift /\ r'.delay = 0
      BY <3>1 DEF S
    <3>3. r' \in Registers
      BY <1>0, <1>1, <2>9, <3>1, FifoFacts, ConstantFacts DEF S, Registers, RgbRegs
    <3>4. RgbRegs'
      BY <1>0, <1>1, <1>7, <2>9, <3>2, <3>3, ConstantFacts DEF RgbRegs
    <3>5. RgbTime'
      BY <1>0, <1>1, <1>2, <1>3, <1>4, <1>5, <1>7, <2>9, <3>1, <3>2, ConstantFacts
      DEF RgbTime, RgbRegs, RgbCycle, k
    <3> QED BY <3>4, <3>5 DEF RgbInv
  <2> QED BY <1>1, <2>0, <2>1, <2>2, <2>3, <2>4, <2>5, <2>6, <2>7, <2>8, <2>9
<1> QED BY <1>6, <1>7

-----------------------------------------------------------------------------
(* The DMA.                                                                  *)

\* What a cycle does to the FIFO of rgb, and why: a reload, a byte, a delay of the
\* bus, nothing.
LEMMA DmaStep ==
    ASSUME Tick
    PROVE  \/ read = TXCOUNT /\ read' = 0 /\ lag' = 0 /\ bytes' = Pulled("rgb")
           \/ /\ read # TXCOUNT /\ Len(bytes) < 4 /\ read' = read + 1 /\ lag' = 0
              /\ bytes' = Append(Pulled("rgb"), read)
           \/ /\ read = TXCOUNT \/ Len(bytes) < 4
              /\ lag < Slack /\ read' = read /\ lag' = lag + 1 /\ bytes' = Pulled("rgb")
           \/ /\ read # TXCOUNT /\ ~(Len(bytes) < 4)
              /\ read' = read /\ lag' = 0 /\ bytes' = Pulled("rgb")
<1>1. "rgb" \in Machines
  BY DEF Machines
<1>2. CASE Transfer
  BY <1>1, <1>2 DEF Transfer, Request, FifoDepth, bytes
<1>3. CASE NoTransfer
  BY <1>1, <1>3 DEF NoTransfer, Request, FifoDepth, bytes
<1> QED BY <1>2, <1>3 DEF Tick

\* The bytes keep their order, whatever the DMA does.
LEMMA ChainKept ==
    ASSUME Tick, NEW u \in 0..TXCOUNT, Pulled("rgb") \in Seq(Nat), Len(Pulled("rgb")) <= 4,
           read \in 0..TXCOUNT, Chain(Pulled("rgb"), u, read)
    PROVE  bytes' \in Seq(Nat) /\ Chain(bytes', u, read')
<1> DEFINE Q == Pulled("rgb")
<1>1. Q \in Seq(Nat) /\ Len(Q) \in Nat /\ Len(Q) <= 4 /\ Chain(Q, u, read)
  OBVIOUS
<1>2. TXCOUNT \in Nat /\ TXCOUNT > 4 /\ read \in Nat
  BY ConstantFacts
<1>3. u + Len(Q) \in {read, read + TXCOUNT} /\ u + Len(Q) < 2 * TXCOUNT
  BY <1>1, <1>2 DEF Chain
<1> HIDE DEF Q
<1>4. CASE bytes' = Q /\ read' = read
  BY <1>1, <1>4
<1>5. CASE bytes' = Q /\ read = TXCOUNT /\ read' = 0
  <2>1. u + Len(Q) = 0 + TXCOUNT
    BY <1>1, <1>2, <1>3, <1>5
  <2> QED BY <1>1, <1>5, <2>1 DEF Chain
<1>6. CASE bytes' = Append(Q, read) /\ read # TXCOUNT /\ read' = read + 1
  <2>1. /\ bytes' \in Seq(Nat) /\ Len(bytes') = Len(Q) + 1 /\ bytes'[Len(Q) + 1] = read
        /\ \A i \in 1..Len(Q) : bytes'[i] = Q[i]
    BY <1>1, <1>2, <1>6
  <2>2. Wrap(u + (Len(Q) + 1) - 1) = read
    BY <1>1, <1>2, <1>3, <1>6 DEF Wrap
  <2>3. \A i \in 1..Len(Q) : bytes'[i] = Wrap(u + i - 1)
    BY <1>1, <2>1 DEF Chain
  <2>4. \A i \in 1..Len(bytes') : i \in 1..Len(Q) \/ i = Len(Q) + 1
    BY <1>1, <2>1
  <2>5. \A i \in 1..Len(bytes') : bytes'[i] = Wrap(u + i - 1)
    BY <2>1, <2>2, <2>3, <2>4
  <2>6. u + Len(bytes') \in {read', read' + TXCOUNT}
    <3>1. read' = read + 1 /\ Len(bytes') = Len(Q) + 1
      BY <1>6, <2>1
    <3>2. Len(Q) \in Nat
      BY <1>1
    <3> QED BY <1>2, <1>3, <3>1, <3>2
  <2> QED BY <2>1, <2>5, <2>6 DEF Chain
<1> QED BY <1>4, <1>5, <1>6, DmaStep DEF Q

LEMMA TailChain ==
    ASSUME NEW q \in Seq(Nat), NEW u \in Nat, NEW a \in Nat, q # <<>>, Chain(q, u, a)
    PROVE  /\ Tail(q) \in Seq(Nat) /\ Len(Tail(q)) = Len(q) - 1
           /\ Head(q) = Wrap(u) /\ Chain(Tail(q), u + 1, a)
<1>1. /\ Len(q) \in Nat \ {0} /\ Tail(q) \in Seq(Nat) /\ Len(Tail(q)) = Len(q) - 1
      /\ Head(q) = q[1]
      /\ \A i \in 1..Len(Tail(q)) : Tail(q)[i] = q[i + 1]
  OBVIOUS
<1>2. \A i \in 1..Len(q) : q[i] = Wrap(u + i - 1)
  BY DEF Chain
<1>3. q[1] = Wrap(u)
  <2>1. 1 \in 1..Len(q) /\ u + 1 - 1 = u
    BY <1>1
  <2> QED BY <1>2, <2>1
<1>4. \A i \in 1..Len(Tail(q)) : Tail(q)[i] = Wrap((u + 1) + i - 1)
  <2>1. \A i \in 1..Len(Tail(q)) : i + 1 \in 1..Len(q) /\ u + (i + 1) - 1 = (u + 1) + i - 1
    BY <1>1
  <2> QED BY <1>1, <1>2, <2>1
<1>5. (u + 1) + Len(Tail(q)) \in {a, a + TXCOUNT}
  <2>1. u + Len(q) \in {a, a + TXCOUNT}
    BY DEF Chain
  <2> QED BY <1>1, <2>1
<1> QED BY <1>1, <1>3, <1>4, <1>5 DEF Chain

\* The count of bytes by lines.
LEMMA FirstFacts ==
    /\ First(0) = 0
    /\ \A l \in 1..Lines : /\ First(l - 1) \in Nat /\ First(l - 1) + Bytes = First(l)
                           /\ First(l) <= TXCOUNT
    /\ \A l \in 0..V_ACTIVE : First(l) \in Nat /\ First(l) + Bytes <= TXCOUNT
    /\ First(Lines) = TXCOUNT
<1>1. Bytes \in Nat \ {0} /\ Lines \in Nat /\ V_ACTIVE \in Nat /\ Lines = V_ACTIVE + 1
  BY ConstantFacts
<1>2. TXCOUNT = Bytes * Lines
  BY TimingAssumption DEF Bytes, Lines
<1>3. ASSUME NEW l \in Nat PROVE First(l) \in Nat /\ First(l + 1) = First(l) + Bytes
  BY <1>1 DEF First
<1>4. ASSUME NEW l \in Nat, l <= Lines PROVE First(l) <= TXCOUNT
  <2>1. PICK d \in Nat : Lines = l + d
    <3>1. Lines - l \in Nat /\ Lines = l + (Lines - l)
      BY <1>1, <1>4
    <3> QED BY <3>1
  <2>2. TXCOUNT = First(l) + Bytes * d
    BY <1>1, <1>2, <2>1 DEF First
  <2>3. Bytes * d \in Nat /\ First(l) \in Nat
    BY <1>1, <2>1 DEF First
  <2> QED BY <2>2, <2>3
<1>5. First(0) = 0 /\ First(Lines) = TXCOUNT
  BY <1>1, <1>2 DEF First
<1>6. \A l \in 1..Lines : /\ First(l - 1) \in Nat /\ First(l - 1) + Bytes = First(l)
                          /\ First(l) <= TXCOUNT
  <2> TAKE l \in 1..Lines
  <2>1. l - 1 \in Nat /\ l \in Nat /\ l <= Lines /\ (l - 1) + 1 = l
    BY <1>1
  <2>2. First(l - 1) \in Nat /\ First((l - 1) + 1) = First(l - 1) + Bytes
    BY <1>3, <2>1
  <2>3. First(l) <= TXCOUNT
    BY <1>4, <2>1
  <2> QED BY <2>1, <2>2, <2>3
<1>7. \A l \in 0..V_ACTIVE : First(l) \in Nat /\ First(l) + Bytes <= TXCOUNT
  <2> TAKE l \in 0..V_ACTIVE
  <2>1. l \in Nat /\ l + 1 \in Nat /\ l + 1 <= Lines
    BY <1>1
  <2>2. First(l) \in Nat /\ First(l + 1) = First(l) + Bytes
    BY <1>3, <2>1
  <2>3. First(l + 1) <= TXCOUNT
    BY <1>4, <2>1
  <2> QED BY <2>2, <2>3
<1> QED BY <1>5, <1>6, <1>7

-----------------------------------------------------------------------------
(* The bytes that rgb takes are those of the line that vsync counts.         *)

Pulls == r.pc \in {0, 5} /\ r.delay = 0

\* Where rgb goes, and when it takes a byte.
LEMMA RgbMoves ==
    ASSUME RgbRegs, BytesInv, DmaInv, Tick
    PROVE  /\ r.pc \in 0..8 /\ r.x \in -1..RGB_ACTIVE /\ r.delay \in 0..31
           /\ r.pc = 0 => r'.pc = 1
           /\ r.pc = 1 => r'.pc = 2
           /\ r.pc = 2 => r'.pc = 3
           /\ r.pc = 3 => r'.pc = 4
           /\ r.pc = 4 /\ 1 \in irq => r'.pc = 5 /\ r'.delay = 3 /\ r'.x = r.x
           /\ r.pc = 4 /\ 1 \notin irq => r'.pc = 4
           /\ r.delay # 0 => /\ r'.pc = r.pc /\ r'.x = r.x /\ r'.delay = r.delay - 1
                             /\ r'.osr = r.osr
           /\ r.pc = 5 /\ r.delay = 0 => /\ r'.pc = 6 /\ r'.x = r.x /\ r'.delay = 0
                                         /\ r'.osr = Head(bytes)
           /\ r.pc = 6 => r'.pc = 7 /\ r'.x = r.x /\ r'.delay = 4 /\ r'.osr = r.osr
           /\ r.pc = 7 /\ r.delay = 0 => /\ r'.pc = 8 /\ r'.x = r.x /\ r'.delay = 2
                                         /\ r'.osr = r.osr
           /\ r.pc = 8 /\ r.delay = 0 => /\ r'.pc = IF r.x # 0 THEN 5 ELSE 2
                                         /\ r'.x = r.x - 1 /\ r'.delay = 0
           /\ Pulled("rgb") = IF Pulls THEN Tail(bytes) ELSE bytes
           /\ pin'["rgb"] = IF r.pc \in {6, 7} /\ r.delay = 0 THEN 2 * r.osr + r.shift
                            ELSE IF r.pc = 2 THEN Black ELSE pin["rgb"]
<1>1. /\ r.pc \in 0..8 /\ r.x \in Int /\ r.y \in Int /\ r.osr \in Int
      /\ r.shift \in 0..2 /\ r.delay \in 0..31 /\ r.x \in -1..RGB_ACTIVE
      /\ r.pc \in {0, 1, 2, 3, 4, 6} => r.delay = 0
  BY DEF RgbRegs, Registers
<1>2. CASE r.delay # 0
  <2>1. /\ r' = [r EXCEPT !.delay = @ - 1] /\ pin'["rgb"] = pin["rgb"]
        /\ Pulled("rgb") = fifo["rgb"]
    BY <1>1, <1>2, RgbRest
  <2>2. r'.pc = r.pc /\ r'.x = r.x /\ r'.osr = r.osr /\ r'.delay = r.delay - 1
    BY <1>1, <2>1 DEF RgbRegs, Registers
  <2> QED BY <1>1, <1>2, <2>1, <2>2 DEF Pulls, bytes
<1>3. CASE r.delay = 0
  <2>0. CASE r.pc = 0
    <3>1. r' = S(1, r.x, r.y, RGB_ACTIVE, 0, 0) /\ pin'["rgb"] = pin["rgb"] /\ Pulled("rgb") = Tail(bytes)
      BY <1>1, <1>3, <2>0, FifoFacts, RgbStep DEF bytes
    <3>2. r'.pc = (1) /\ r'.x = r.x /\ r'.osr = RGB_ACTIVE /\ r'.delay = 0
      BY <3>1 DEF S
    <3> QED BY <1>1, <1>3, <2>0, <3>1, <3>2 DEF Pulls
  <2>1. CASE r.pc = 1
    <3>1. r' = S(2, r.x, r.osr, r.osr, r.shift, 0) /\ pin'["rgb"] = pin["rgb"] /\ Pulled("rgb") = bytes
      BY <1>1, <1>3, <2>1, FifoFacts, RgbStep DEF bytes
    <3>2. r'.pc = (2) /\ r'.x = r.x /\ r'.osr = r.osr /\ r'.delay = 0
      BY <3>1 DEF S
    <3> QED BY <1>1, <1>3, <2>1, <3>1, <3>2 DEF Pulls
  <2>2. CASE r.pc = 2
    <3>1. r' = S(3, r.x, r.y, r.osr, r.shift, 0) /\ pin'["rgb"] = Black /\ Pulled("rgb") = bytes
      BY <1>1, <1>3, <2>2, FifoFacts, RgbStep DEF bytes
    <3>2. r'.pc = (3) /\ r'.x = r.x /\ r'.osr = r.osr /\ r'.delay = 0
      BY <3>1 DEF S
    <3> QED BY <1>1, <1>3, <2>2, <3>1, <3>2 DEF Pulls
  <2>3. CASE r.pc = 3
    <3>1. r' = S(4, r.y, r.y, r.osr, r.shift, 0) /\ pin'["rgb"] = pin["rgb"] /\ Pulled("rgb") = bytes
      BY <1>1, <1>3, <2>3, FifoFacts, RgbStep DEF bytes
    <3>2. r'.pc = (4) /\ r'.x = r.y /\ r'.osr = r.osr /\ r'.delay = 0
      BY <3>1 DEF S
    <3> QED BY <1>1, <1>3, <2>3, <3>1, <3>2 DEF Pulls
  <2>4. CASE r.pc = 4 /\ 1 \in irq
    <3>1. r' = S(5, r.x, r.y, r.osr, r.shift, 3) /\ pin'["rgb"] = pin["rgb"] /\ Pulled("rgb") = bytes
      BY <1>1, <1>3, <2>4, FifoFacts, RgbStep DEF bytes
    <3>2. r'.pc = (5) /\ r'.x = r.x /\ r'.osr = r.osr /\ r'.delay = 3
      BY <3>1 DEF S
    <3> QED BY <1>1, <1>3, <2>4, <3>1, <3>2 DEF Pulls
  <2>5. CASE r.pc = 4 /\ 1 \notin irq
    <3>1. r' = r /\ pin'["rgb"] = pin["rgb"] /\ Pulled("rgb") = bytes
      BY <1>1, <1>3, <2>5, FifoFacts, RgbStep DEF bytes
    <3> QED BY <1>1, <1>3, <2>5, <3>1 DEF Pulls
  <2>6. CASE r.pc = 5
    <3>1. r' = S(6, r.x, r.y, Head(bytes), 0, 0) /\ pin'["rgb"] = pin["rgb"] /\ Pulled("rgb") = Tail(bytes)
      BY <1>1, <1>3, <2>6, FifoFacts, RgbStep DEF bytes
    <3>2. r'.pc = (6) /\ r'.x = r.x /\ r'.osr = Head(bytes) /\ r'.delay = 0
      BY <3>1 DEF S
    <3> QED BY <1>1, <1>3, <2>6, <3>1, <3>2 DEF Pulls
  <2>7. CASE r.pc = 6
    <3>1. r' = S(7, r.x, r.y, r.osr, r.shift + 1, 4) /\ pin'["rgb"] = 2 * r.osr + r.shift /\ Pulled("rgb") = bytes
      BY <1>1, <1>3, <2>7, FifoFacts, RgbStep DEF bytes
    <3>2. r'.pc = (7) /\ r'.x = r.x /\ r'.osr = r.osr /\ r'.delay = 4
      BY <3>1 DEF S
    <3> QED BY <1>1, <1>3, <2>7, <3>1, <3>2 DEF Pulls
  <2>8. CASE r.pc = 7
    <3>1. r' = S(8, r.x, r.y, r.osr, r.shift + 1, 2) /\ pin'["rgb"] = 2 * r.osr + r.shift /\ Pulled("rgb") = bytes
      BY <1>1, <1>3, <2>8, FifoFacts, RgbStep DEF bytes
    <3>2. r'.pc = (8) /\ r'.x = r.x /\ r'.osr = r.osr /\ r'.delay = 2
      BY <3>1 DEF S
    <3> QED BY <1>1, <1>3, <2>8, <3>1, <3>2 DEF Pulls
  <2>9. CASE r.pc = 8
    <3>1. r' = S(IF r.x # 0 THEN 5 ELSE 2, r.x - 1, r.y, r.osr, r.shift, 0) /\ pin'["rgb"] = pin["rgb"] /\ Pulled("rgb") = bytes
      BY <1>1, <1>3, <2>9, FifoFacts, RgbStep DEF bytes
    <3>2. r'.pc = (IF r.x # 0 THEN 5 ELSE 2) /\ r'.x = r.x - 1 /\ r'.osr = r.osr /\ r'.delay = 0
      BY <3>1 DEF S
    <3> QED BY <1>1, <1>3, <2>9, <3>1, <3>2 DEF Pulls
  <2> QED BY <1>1, <2>0, <2>1, <2>2, <2>3, <2>4, <2>5, <2>6, <2>7, <2>8, <2>9
<1> QED BY <1>2, <1>3

\* The DMA is well ahead of rgb in a line.
LEMMA FifoLong ==
    ASSUME RgbRegs, BytesInv, DmaInv, r.pc >= 5
    PROVE  Len(bytes) >= 2 /\ Len(bytes) <= 4
<1> DEFINE L == Len(bytes)
<1>1. L \in Nat /\ L <= 4
  <2>1. Len(bytes) \in Nat
    BY FifoFacts
  <2>2. Len(bytes) <= 4
    BY DEF DmaInv, FifoDepth
  <2> QED BY <2>1, <2>2
<1>2. r.delay \in 0..31 /\ r.delay <= 4
  BY DEF RgbRegs, Registers
<1>3. r.pc = 8 => r.delay <= 2
  BY DEF RgbRegs
<1>4. Age >= 0 /\ Age \in Int
  BY <1>2, <1>3 DEF Age
<1>5. Turn = Slack + 1 /\ lag \in 0..Slack /\ Slack \in Nat /\ Reloads \in {0, 1}
  BY ConstantFacts DEF DmaInv, Turn, Reloads
<1>6. ASSUME L \in {0, 1} PROVE FALSE
  <2>1. ~Full
    BY <1>6 DEF Full, FifoDepth
  <2>2. Work + Age <= Turn * (IF Wrapped THEN 2 ELSE 1)
    BY <2>1 DEF DmaInv
  <2>3. Work = Turn * (4 - L + Reloads) - lag
    BY DEF Work, FifoDepth
  <2>4. Work >= Turn * 3 - lag
    <3>1. CASE L = 0
      <4>1. Work = Turn * (4 + Reloads) - lag
        BY <1>5, <2>3, <3>1
      <4> QED BY <1>5, <4>1
    <3>2. CASE L = 1
      <4>1. Work = Turn * (3 + Reloads) - lag
        BY <1>5, <2>3, <3>2
      <4> QED BY <1>5, <4>1
    <3> QED BY <1>6, <3>1, <3>2
  <2>5. Turn * (IF Wrapped THEN 2 ELSE 1) <= Turn * 2
    BY <1>5
  <2>6. Turn \in Nat /\ Turn * (IF Wrapped THEN 2 ELSE 1) \in Int /\ Work \in Int
    BY <1>1, <1>5, <2>3
  <2>7. Work + Age <= Turn * 2
    BY <1>4, <2>2, <2>5, <2>6
  <2> QED BY <1>4, <1>5, <2>4, <2>6, <2>7
<1> HIDE DEF L
<1>7. L >= 2 /\ L <= 4
  BY <1>1, <1>6
<1> QED BY <1>7 DEF L

LEMMA LineRange ==
    ASSUME VsyncLine
    PROVE  line \in 0..Lines /\ (v.pc = 3 => line \in 0..V_ACTIVE) /\ (v.pc = 1 => line \in {0, Lines})
BY ConstantFacts DEF VsyncLine, Registers

\* rgb goes on through the frame buffer, and starts again at its end.
LEMMA UpcomingNext ==
    ASSUME HsyncInv, VsyncInv, RgbInv, BytesInv, DmaInv, phase \in 0..4, Tick
    PROVE  /\ r.pc = 0 => Upcoming' = 0
           /\ r.pc # 0 => /\ Upcoming \in 0..TXCOUNT
                          /\ Pulls => Upcoming < TXCOUNT
                          /\ LET u == IF Pulls THEN Upcoming + 1 ELSE Upcoming
                             IN  \/ Upcoming' = u
                                 \/ Upcoming' = 0 /\ u = TXCOUNT /\ ~Pulls /\ r.pc = 8
           /\ r'.pc \in {6, 7, 8} => First(line' - 1) + k' = First(line - 1) + k
           /\ r.pc >= 5 => First(line - 1) + k \in 0..(TXCOUNT - 1)
<1>0. VsyncLine /\ VsyncTime /\ RgbRegs /\ RgbTime /\ SharedNext
  BY SharedLemma DEF VsyncInv, RgbInv
<1>1. /\ r.pc \in 0..8 /\ r.x \in -1..RGB_ACTIVE /\ r.delay \in 0..31
      /\ r.pc \in {0, 1, 2, 3, 4, 6} => r.delay = 0
  BY <1>0, RgbMoves DEF RgbRegs
<1>2. r.pc = 0 => ~Started
  BY <1>0 DEF RgbTime
<1>3. CASE r.pc <= 4 /\ ~(Started /\ (r.pc # 4 \/ 1 \in irq))
  <2>0. ~(r.pc = 4 /\ 1 \in irq)
    BY <1>0, <1>3 DEF VsyncTime
  <2>1. (r'.pc \in 1..4 /\ ~Pulls) \/ (r.pc = 0 /\ r'.pc = 1)
    BY <1>0, <1>1, <1>3, <2>0, RgbMoves DEF Pulls
  <2>2. Upcoming = IF line = Lines THEN 0 ELSE First(line)
    BY <1>1, <1>3, <2>0 DEF Upcoming
  <2>3. line \in 0..Lines
    BY <1>0, LineRange
  <2>4. CASE phase = 0 /\ v.pc = 3
    <3>1. Started /\ r.pc = 4 /\ r'.pc = 4
      BY <1>0, <1>1, <1>3, <2>0, <2>4, RgbMoves DEF VsyncTime, SharedNext
    <3>2. line \in 0..V_ACTIVE /\ line' = line + 1 /\ 1 \in irq'
      BY <1>0, <2>4, LineRange DEF SharedNext
    <3>3. Upcoming' = First(line' - 1)
      BY <3>1, <3>2 DEF Upcoming
    <3>4. line' - 1 = line /\ line # Lines
      BY <3>2, ConstantFacts
    <3>5. Upcoming' = First(line) /\ Upcoming = First(line)
      BY <2>2, <3>3, <3>4
    <3>6. First(line) \in Nat /\ First(line) + Bytes <= TXCOUNT
      BY <3>2, FirstFacts
    <3>7. Upcoming' = Upcoming /\ Upcoming \in 0..TXCOUNT /\ ~Pulls
      BY <2>1, <3>1, <3>5, <3>6, ConstantFacts
    <3>8. ~Pulls => Upcoming' = Upcoming
      BY <3>7
    <3> QED BY <1>1, <1>3, <3>1, <3>7, <3>8, ConstantFacts
  <2>5. CASE phase = 0 /\ v.pc = 1
    <3>1. line \in {0, Lines} /\ line' = 0 /\ 1 \notin irq'
      BY <1>0, <2>5, LineRange DEF SharedNext
    <3>2. Upcoming' = First(0) \/ Upcoming' = 0
      BY <2>1, <3>1 DEF Upcoming
    <3>3. Upcoming = 0
      BY <2>2, <3>1, FirstFacts
    <3>4. Upcoming' = 0
      BY <3>2, FirstFacts
    <3>5. ~Pulls => Upcoming' = Upcoming
      BY <3>3, <3>4
    <3> QED BY <1>1, <1>3, <2>1, <3>3, <3>4, <3>5, ConstantFacts
  <2>6. CASE ~(phase = 0 /\ v.pc \in {1, 3})
    <3>1. line' = line /\ 1 \notin irq'
      BY <1>0, <2>6 DEF SharedNext
    <3>2. Upcoming' = IF line = Lines THEN 0 ELSE First(line)
      BY <2>1, <3>1 DEF Upcoming
    <3>3. r.pc = 0 => line = 0
      <4>1. r.pc = 0 => Cycle = 4 /\ Cycle = 5 * Clock + IF phase = 0 THEN 4 ELSE phase - 1
        BY <1>0, <1>2, CycleNext DEF RgbTime
      <4>2. r.pc = 0 => Clock = 0
        BY <1>0, <4>1 DEF SharedNext
      <4>3. r.pc = 0 => v.pc = 0
        BY <1>0, <1>2, <4>2 DEF VsyncTime
      <4> QED BY <1>0, <4>3 DEF VsyncLine
    <3>4. Upcoming \in 0..TXCOUNT
      <4>1. line # Lines => line \in 0..V_ACTIVE
        BY <2>3, ConstantFacts
      <4>2. line # Lines => First(line) \in Nat /\ First(line) + Bytes <= TXCOUNT
        BY <4>1, FirstFacts
      <4> QED BY <2>2, <4>2, ConstantFacts
    <3>5. r.pc = 0 => Upcoming' = 0
      BY <3>2, <3>3, FirstFacts
    <3>6. ~Pulls => Upcoming' = Upcoming
      BY <2>2, <3>2
    <3> QED BY <1>1, <1>3, <2>1, <3>4, <3>5, <3>6, ConstantFacts
  <2> QED BY <2>4, <2>5, <2>6
<1>4. CASE Started /\ (r.pc # 4 \/ 1 \in irq)
  <2>1. line' = line /\ line \in 1..Lines /\ r.pc >= 2
    BY <1>0, <1>1, <1>4, VsyncStays, LineRange DEF RgbTime
  <2>2. 1 \notin irq'
    BY <1>0, <1>1, <1>4 DEF RgbTime, SharedNext, VsyncTime
  <2> DEFINE A == First(line - 1)
  <2>3. A \in Nat /\ First(line) = A + Bytes /\ A + Bytes <= TXCOUNT /\ First(Lines) = TXCOUNT
    BY <2>1, FirstFacts
  <2>4. First(line' - 1) = A /\ First(line') = First(line)
    BY <2>1
  <2>5. line # Lines => A + Bytes <= TXCOUNT
    BY <2>3
  <2>6. r.pc >= 5 => r.x >= 0
    BY <1>0 DEF RgbRegs
  <2>7. r.pc = 4 \/ (r.pc = 5 /\ r.delay > 0) => r.x = RGB_ACTIVE
    BY <1>0 DEF RgbRegs
  <2> HIDE DEF A
  <2>8. Upcoming = IF r.pc >= 6 THEN A + k + 1 ELSE IF r.pc = 5 THEN A + k
                   ELSE IF r.pc = 4 THEN A ELSE IF line = Lines THEN 0 ELSE First(line)
    BY <1>4 DEF Upcoming, A
  <2>9. Upcoming' = IF r'.pc >= 6 THEN A + k' + 1 ELSE IF r'.pc = 5 THEN A + k'
                    ELSE IF line = Lines THEN 0 ELSE First(line)
    BY <2>1, <2>2, <2>4 DEF Upcoming
  <2>10. k = RGB_ACTIVE - r.x /\ k' = RGB_ACTIVE - r'.x
    BY DEF k
  <2>11. r.pc >= 5 => A + k \in 0..(TXCOUNT - 1)
    BY <1>1, <2>3, <2>6, <2>10, ConstantFacts
  <2>12. CASE r.pc \in {2, 3}
    <3>1. r'.pc \in {3, 4} /\ ~Pulls
      BY <1>0, <1>1, <2>12, RgbMoves DEF Pulls
    <3>2. Upcoming' = Upcoming
      BY <2>8, <2>9, <2>12, <3>1
    <3>3. Upcoming \in 0..TXCOUNT
      BY <2>3, <2>8, <2>12, ConstantFacts
    <3> QED BY <2>12, <3>1, <3>2, <3>3
  <2>13. CASE r.pc = 4
    <3>1. r'.pc = 5 /\ r'.x = RGB_ACTIVE /\ ~Pulls
      BY <1>0, <1>1, <1>4, <2>7, <2>13, RgbMoves DEF Pulls
    <3>2. Upcoming' = A /\ Upcoming = A
      BY <2>3, <2>8, <2>9, <2>10, <2>13, <3>1, ConstantFacts
    <3> QED BY <2>3, <2>13, <3>1, <3>2, ConstantFacts
  <2>14. CASE r.pc >= 5 /\ r.delay # 0
    <3>1. r'.pc = r.pc /\ r'.x = r.x /\ ~Pulls
      BY <1>0, <1>1, <2>14, RgbMoves DEF Pulls
    <3>2. Upcoming' = Upcoming /\ k' = k
      BY <1>1, <2>8, <2>9, <2>10, <2>14, <3>1
    <3>3. Upcoming \in 0..TXCOUNT
      BY <1>1, <2>8, <2>11, <2>14, ConstantFacts
    <3> QED BY <2>4, <2>11, <2>14, <3>1, <3>2, <3>3 DEF A
  <2>15. CASE r.pc = 5 /\ r.delay = 0
    <3>1. r'.pc = 6 /\ r'.x = r.x /\ Pulls
      BY <1>0, <1>1, <2>15, RgbMoves DEF Pulls
    <3>2. Upcoming = A + k /\ Upcoming' = A + k + 1 /\ k' = k
      BY <2>8, <2>9, <2>10, <2>15, <3>1
    <3> QED BY <2>4, <2>11, <2>15, <3>1, <3>2, ConstantFacts DEF A
  <2>16. CASE r.pc \in {6, 7} /\ r.delay = 0
    <3>1. r'.pc \in {7, 8} /\ r'.x = r.x /\ ~Pulls
      BY <1>0, <1>1, <2>16, RgbMoves DEF Pulls
    <3>2. Upcoming = A + k + 1 /\ Upcoming' = A + k + 1 /\ k' = k
      BY <2>8, <2>9, <2>10, <2>16, <3>1
    <3> QED BY <2>4, <2>11, <2>16, <3>1, <3>2, ConstantFacts DEF A
  <2>17. CASE r.pc = 8 /\ r.delay = 0
    <3>1. r'.pc = (IF r.x # 0 THEN 5 ELSE 2) /\ r'.x = r.x - 1 /\ ~Pulls
      BY <1>0, <1>1, <2>17, RgbMoves DEF Pulls
    <3>2. Upcoming = A + k + 1 /\ Upcoming \in 0..TXCOUNT
      BY <1>1, <2>8, <2>11, <2>17, <2>10, ConstantFacts
    <3>3. r.x # 0 => Upcoming' = A + k + 1
      BY <1>1, <2>3, <2>9, <2>10, <3>1, ConstantFacts
    <3>4. r.x = 0 => A + k + 1 = First(line)
      BY <1>1, <2>3, <2>10, ConstantFacts
    <3>5. r.x = 0 => Upcoming' = IF line = Lines THEN 0 ELSE First(line)
      BY <2>9, <3>1
    <3>6. Upcoming' = Upcoming \/ (Upcoming' = 0 /\ Upcoming = TXCOUNT)
      BY <2>3, <3>2, <3>3, <3>4, <3>5
    <3>7. r'.pc \notin {6, 7, 8}
      BY <3>1
    <3> QED BY <2>11, <2>17, <3>1, <3>2, <3>6, <3>7 DEF A
  <2> QED BY <1>1, <2>1, <2>12, <2>13, <2>14, <2>15, <2>16, <2>17
<1>5. r.pc <= 4 \/ Started
  BY <1>0, <1>1 DEF RgbTime
<1> QED BY <1>1, <1>3, <1>4, <1>5

LEMMA Rewind ==
    ASSUME NEW q \in Seq(Nat), NEW a \in 0..TXCOUNT, q # <<>>, Len(q) <= 4, Chain(q, TXCOUNT, a)
    PROVE  Chain(q, 0, a)
<1>1. TXCOUNT \in Nat /\ TXCOUNT > 4
  BY ConstantFacts
<1>2. Len(q) \in Nat /\ Len(q) # 0
  OBVIOUS
<1>3. \A i \in 1..Len(q) : Wrap(TXCOUNT + i - 1) = Wrap(0 + i - 1)
  BY <1>1, <1>2 DEF Wrap
<1>4. \A i \in 1..Len(q) : q[i] = Wrap(0 + i - 1)
  BY <1>3 DEF Chain
<1>5. TXCOUNT + Len(q) \in {a, a + TXCOUNT}
  BY DEF Chain
<1>6. 0 + Len(q) \in {a, a + TXCOUNT}
  BY <1>1, <1>2, <1>5
<1> QED BY <1>4, <1>6 DEF Chain

\* The sequence after a pull, and after the DMA.
LEMMA PulledFacts ==
    ASSUME RgbInv, BytesInv, DmaInv, Tick, r.pc # 0, Upcoming \in 0..TXCOUNT
    PROVE  /\ Pulled("rgb") \in Seq(Nat) /\ Len(Pulled("rgb")) <= 4
           /\ Chain(Pulled("rgb"), IF Pulls THEN Upcoming + 1 ELSE Upcoming, read)
           /\ Len(Pulled("rgb")) = IF Pulls THEN Len(bytes) - 1 ELSE Len(bytes)
           /\ Pulls => Head(bytes) = Wrap(Upcoming)
<1>1. bytes \in Seq(Nat) /\ Chain(bytes, Upcoming, read)
  BY DEF BytesInv
<1>2. Len(bytes) <= 4 /\ read \in Nat /\ Upcoming \in Nat
  BY ConstantFacts DEF DmaInv, FifoDepth
<1>3. Pulled("rgb") = IF Pulls THEN Tail(bytes) ELSE bytes
  BY RgbMoves DEF RgbInv
<1>4. CASE Pulls
  <2>1. bytes # <<>>
    BY <1>4, FifoFacts DEF RgbInv, Pulls
  <2>2. /\ Tail(bytes) \in Seq(Nat) /\ Len(Tail(bytes)) = Len(bytes) - 1
        /\ Head(bytes) = Wrap(Upcoming) /\ Chain(Tail(bytes), Upcoming + 1, read)
    BY <1>1, <1>2, <2>1, TailChain
  <2>3. Len(bytes) - 1 <= 4
    BY <1>1, <1>2
  <2> QED BY <1>3, <1>4, <2>2, <2>3
<1>5. CASE ~Pulls
  BY <1>1, <1>2, <1>3, <1>5
<1> QED BY <1>4, <1>5

LEMMA BytesKeeps ==
    ASSUME HsyncInv, VsyncInv, RgbInv, BytesInv, DmaInv, phase \in 0..4, Tick
    PROVE  BytesInv'
<1>0. RgbRegs /\ read \in 0..TXCOUNT
  BY DEF RgbInv, DmaInv
<1>1. r.pc \in 0..8 /\ r.delay \in 0..31 /\ (r.pc \in {0, 6} => r.delay = 0)
  BY <1>0, RgbMoves DEF RgbRegs
<1>2. r'.pc # 0
  BY <1>0, <1>1, RgbMoves
<1>3. CASE r.pc = 0
  <2>1. bytes = <<RGB_ACTIVE>> /\ read = 0 /\ Pulls
    BY <1>1, <1>3 DEF BytesInv, Pulls
  <2>2. Pulled("rgb") = <<>>
    <3>1. Pulled("rgb") = Tail(bytes)
      BY <1>0, <2>1, RgbMoves
    <3> QED BY <2>1, <3>1
  <2>3. Pulled("rgb") \in Seq(Nat) /\ Len(Pulled("rgb")) = 0 /\ Len(Pulled("rgb")) <= 4
    <3>1. <<>> \in Seq(Nat) /\ Len(<<>>) = 0
      OBVIOUS
    <3>2. Pulled("rgb") \in Seq(Nat) /\ Len(Pulled("rgb")) = 0
      BY <2>2, <3>1
    <3>3. Len(Pulled("rgb")) <= 4
      BY <3>2
    <3> QED BY <3>2, <3>3
  <2>4. Chain(Pulled("rgb"), 0, read)
    BY <2>1, <2>3 DEF Chain
  <2>5. 0 \in 0..TXCOUNT
    BY ConstantFacts
  <2>6. bytes' \in Seq(Nat) /\ Chain(bytes', 0, read')
    BY <1>0, <2>3, <2>4, <2>5, ChainKept
  <2>7. Upcoming' = 0 /\ r'.pc = 1
    BY <1>0, <1>3, UpcomingNext, RgbMoves
  <2> QED BY <2>6, <2>7 DEF BytesInv
<1>4. CASE r.pc # 0
  <2> DEFINE u == IF Pulls THEN Upcoming + 1 ELSE Upcoming
  <2>1. /\ Upcoming \in 0..TXCOUNT /\ (Pulls => Upcoming < TXCOUNT)
        /\ Upcoming' = u \/ (Upcoming' = 0 /\ u = TXCOUNT /\ ~Pulls /\ r.pc = 8)
    BY <1>4, UpcomingNext
  <2>2. u \in 0..TXCOUNT
    BY <2>1, ConstantFacts
  <2>3. /\ Pulled("rgb") \in Seq(Nat) /\ Len(Pulled("rgb")) <= 4
        /\ Chain(Pulled("rgb"), u, read)
        /\ Len(Pulled("rgb")) = IF Pulls THEN Len(bytes) - 1 ELSE Len(bytes)
        /\ Pulls => Head(bytes) = Wrap(Upcoming)
    BY <1>4, <2>1, PulledFacts
  <2> HIDE DEF u
  <2>4. bytes' \in Seq(Nat) /\ Chain(bytes', u, read')
    BY <1>0, <2>2, <2>3, ChainKept
  <2>5. Chain(bytes', Upcoming', read')
    <3>1. CASE Upcoming' = u
      BY <2>4, <3>1
    <3>2. CASE Upcoming' = 0 /\ u = TXCOUNT /\ ~Pulls /\ r.pc = 8
      <4>1. Len(bytes) >= 2 /\ Len(bytes) <= 4 /\ Pulled("rgb") = bytes
        BY <1>0, <1>1, <3>2, FifoLong, RgbMoves
      <4>2. /\ Len(bytes') >= 1 /\ Len(bytes') <= 4 /\ read' \in 0..TXCOUNT
        <5>1. bytes \in Seq(Nat)
          BY DEF BytesInv
        <5>2. Len(Append(bytes, read)) = Len(bytes) + 1 /\ Len(bytes) \in Nat
          BY <5>1
        <5>3. \/ Len(bytes') = Len(bytes)
              \/ Len(bytes) < 4 /\ Len(bytes') = Len(bytes) + 1
          BY <4>1, <5>2, DmaStep
        <5>4. read' \in 0..TXCOUNT
          BY <1>0, DmaStep, ConstantFacts
        <5> QED BY <4>1, <5>2, <5>3, <5>4
      <4>3. bytes' # <<>>
        BY <4>2
      <4>4. Chain(bytes', 0, read')
        BY <2>4, <3>2, <4>2, <4>3, Rewind
      <4> QED BY <3>2, <4>4
    <3> QED BY <2>1, <3>1, <3>2 DEF u
  <2>6. ASSUME r'.pc \in {6, 7, 8} PROVE r'.osr = First(line' - 1) + k'
    <3>1. First(line' - 1) + k' = First(line - 1) + k
      BY <2>6, UpcomingNext
    <3>2. r.pc \in {5, 6, 7, 8} /\ (r.pc = 5 => r.delay = 0)
      BY <1>0, <1>1, <2>6, RgbMoves
    <3>3. CASE r.pc = 5
      <4>1. r'.osr = Head(bytes) /\ Pulls
        BY <1>0, <3>2, <3>3, RgbMoves DEF Pulls
      <4>2. Upcoming = First(line - 1) + k /\ Upcoming < TXCOUNT /\ Upcoming \in Nat
        BY <2>1, <3>3, <4>1, ConstantFacts DEF Upcoming
      <4>3. Wrap(Upcoming) = Upcoming
        BY <4>2, ConstantFacts DEF Wrap
      <4> QED BY <2>3, <3>1, <4>1, <4>2, <4>3
    <3>4. CASE r.pc \in {6, 7, 8}
      <4>1. r'.osr = r.osr
        BY <1>0, <1>1, <2>6, <3>4, RgbMoves
      <4>2. r.osr = First(line - 1) + k
        BY <3>4 DEF BytesInv
      <4> QED BY <3>1, <4>1, <4>2
    <3> QED BY <3>2, <3>3, <3>4
  <2> QED BY <1>2, <2>4, <2>5, <2>6 DEF BytesInv
<1> QED BY <1>3, <1>4

LEMMA ColourKeeps ==
    ASSUME HsyncInv, VsyncInv, RgbInv, ColourInv, BytesInv, DmaInv, phase \in 0..4, Tick
    PROVE  ColourInv'
<1>1. RgbRegs
  BY DEF RgbInv
<1>2. pin'["rgb"] = IF r.pc \in {6, 7} /\ r.delay = 0 THEN 2 * r.osr + r.shift
                    ELSE IF r.pc = 2 THEN Black ELSE pin["rgb"]
  BY <1>1, RgbMoves
<1>3. CASE r.pc \in {6, 7} /\ r.delay = 0
  <2>1. r.osr = First(line - 1) + k /\ r.shift \in {0, 1}
    BY <1>1, <1>3 DEF BytesInv, RgbRegs
  <2>2. First(line - 1) + k \in 0..(TXCOUNT - 1)
    BY <1>3, UpcomingNext
  <2>3. pin'["rgb"] = 2 * r.osr + r.shift
    BY <1>2, <1>3
  <2>4. r.osr \in 0..(TXCOUNT - 1)
    BY <2>1, <2>2
  <2> QED BY <2>1, <2>3, <2>4, ConstantFacts DEF ColourInv
<1>4. CASE ~(r.pc \in {6, 7} /\ r.delay = 0)
  BY <1>2, <1>4 DEF ColourInv
<1> QED BY <1>3, <1>4

-----------------------------------------------------------------------------
(* The DMA fills the FIFO faster than rgb empties it.                        *)

\* A cycle takes at least one from the work, a byte that rgb takes adds a turn, and
\* the end of the frame buffer adds one: there the DMA turns from not wrapped to
\* wrapped. At the end of a full FIFO nothing is left to do.
LEMMA WorkNext ==
    ASSUME Tick, DmaInv, BytesInv, NEW q \in Nat, Len(Pulled("rgb")) = q, Pulled("rgb") \in Seq(Nat),
           q = Len(bytes) \/ q = Len(bytes) - 1
    PROVE  /\ Len(bytes') <= 4 /\ read' \in 0..TXCOUNT /\ lag' \in 0..Slack
           /\ Work \in Int /\ Work' \in Int /\ MostWork \in Int /\ MostWork' \in Int
           /\ q = Len(bytes) /\ Full => Full'
           /\ q = Len(bytes) => Full' \/ MostWork' <= MostWork - 1
           /\ \/ q = Len(bytes) /\ Full'
              \/ /\ q # Len(bytes) /\ Len(bytes) = 4 /\ read # TXCOUNT /\ Work' = Turn
              \/ /\ ~Full
                 /\ Work' <= Work - 1 + (IF q = Len(bytes) THEN 0 ELSE Turn)
                                      + (IF read # TXCOUNT /\ read' = TXCOUNT THEN Turn ELSE 0)
           /\ MostWork - Work = Turn * (4 - Len(bytes))
<1> DEFINE L == Len(bytes)  LL == Len(bytes')
<1>1. L \in Nat /\ L <= 4 /\ read \in 0..TXCOUNT /\ lag \in 0..Slack
  BY DEF DmaInv, BytesInv, FifoDepth
<1>2. Turn = Slack + 1 /\ Slack \in Nat /\ TXCOUNT \in Nat /\ TXCOUNT > 4
  BY ConstantFacts DEF Turn
<1>3. Len(Append(Pulled("rgb"), read)) = q + 1
  OBVIOUS
<1>4. \/ read = TXCOUNT /\ read' = 0 /\ lag' = 0 /\ LL = q
      \/ read # TXCOUNT /\ L < 4 /\ read' = read + 1 /\ lag' = 0 /\ LL = q + 1
      \/ (read = TXCOUNT \/ L < 4) /\ lag < Slack /\ read' = read /\ lag' = lag + 1 /\ LL = q
      \/ read # TXCOUNT /\ ~(L < 4) /\ read' = read /\ lag' = 0 /\ LL = q
  BY <1>3, DmaStep
<1>5. /\ Work = Turn * (4 - L + Reloads) - lag
      /\ MostWork = Turn * (2 * (4 - L) + Reloads) - lag
      /\ Work' = Turn * (4 - LL + Reloads') - lag'
      /\ MostWork' = Turn * (2 * (4 - LL) + Reloads') - lag'
  BY DEF Work, MostWork, FifoDepth, Turn
<1>6. Reloads = (IF read = TXCOUNT THEN 1 ELSE 0) /\ Reloads' = (IF read' = TXCOUNT THEN 1 ELSE 0)
  BY DEF Reloads
<1>7. Full <=> L = 4 /\ read # TXCOUNT /\ lag = 0
  BY DEF Full, FifoDepth
<1>8. Full' <=> LL = 4 /\ read' # TXCOUNT /\ lag' = 0
  BY DEF Full, FifoDepth
<1>9. q = L \/ q = L - 1
  OBVIOUS
<1> HIDE DEF L, LL
<1>10. LL \in Nat /\ LL <= 4 /\ read' \in 0..TXCOUNT /\ lag' \in 0..Slack
  BY <1>1, <1>2, <1>4, <1>9
<1>11. Reloads \in {0, 1} /\ Reloads' \in {0, 1}
  BY <1>6
<1>12. Work \in Int /\ Work' \in Int /\ MostWork \in Int /\ MostWork' \in Int
  BY <1>1, <1>2, <1>5, <1>10, <1>11
<1>13. MostWork - Work = Turn * (4 - L)
  BY <1>1, <1>2, <1>5, <1>11
<1>14. /\ q = L /\ Full => Full'
       /\ q = L => Full' \/ MostWork' <= MostWork - 1
  <2>1. CASE read = TXCOUNT /\ read' = 0 /\ lag' = 0 /\ LL = q
    BY <1>1, <1>2, <1>5, <1>6, <1>7, <2>1
  <2>2. CASE read # TXCOUNT /\ L < 4 /\ read' = read + 1 /\ lag' = 0 /\ LL = q + 1
    BY <1>1, <1>2, <1>5, <1>6, <1>7, <2>2
  <2>3. CASE (read = TXCOUNT \/ L < 4) /\ lag < Slack /\ read' = read /\ lag' = lag + 1 /\ LL = q
    BY <1>1, <1>2, <1>5, <1>6, <1>7, <2>3
  <2>4. CASE read # TXCOUNT /\ ~(L < 4) /\ read' = read /\ lag' = 0 /\ LL = q
    BY <1>1, <1>2, <1>8, <2>4
  <2> QED BY <1>4, <2>1, <2>2, <2>3, <2>4
<1>15. \/ q = L /\ Full'
       \/ q # L /\ L = 4 /\ read # TXCOUNT /\ Work' = Turn
       \/ /\ ~Full
          /\ Work' <= Work - 1 + (IF q = L THEN 0 ELSE Turn)
                               + (IF read # TXCOUNT /\ read' = TXCOUNT THEN Turn ELSE 0)
  <2>1. CASE read = TXCOUNT /\ read' = 0 /\ lag' = 0 /\ LL = q
    BY <1>1, <1>2, <1>5, <1>6, <1>7, <1>9, <2>1
  <2>2. CASE read # TXCOUNT /\ L < 4 /\ read' = read + 1 /\ lag' = 0 /\ LL = q + 1
    BY <1>1, <1>2, <1>5, <1>6, <1>7, <1>9, <2>2
  <2>3. CASE (read = TXCOUNT \/ L < 4) /\ lag < Slack /\ read' = read /\ lag' = lag + 1 /\ LL = q
    BY <1>1, <1>2, <1>5, <1>6, <1>7, <1>9, <2>3
  <2>4. CASE read # TXCOUNT /\ ~(L < 4) /\ read' = read /\ lag' = 0 /\ LL = q
    <3>1. L = 4 /\ Reloads' = 0
      BY <1>1, <1>6, <2>4
    <3>2. q = 3 => Work' = Turn
      BY <1>2, <1>5, <2>4, <3>1
    <3>3. q = 4 => Full'
      BY <1>8, <2>4
    <3> QED BY <1>9, <2>4, <3>1, <3>2, <3>3
  <2> QED BY <1>4, <2>1, <2>2, <2>3, <2>4
<1> QED BY <1>10, <1>12, <1>13, <1>14, <1>15 DEF L, LL

\* Once the DMA has passed the end of the frame buffer, it stays ahead of rgb by it.
LEMMA WrapNext ==
    ASSUME HsyncInv, VsyncInv, RgbInv, BytesInv, DmaInv, phase \in 0..4, Tick,
           r.pc >= 5, r'.pc >= 5
    PROVE  /\ Wrapped => Wrapped'
           /\ read # TXCOUNT /\ read' = TXCOUNT => ~Wrapped /\ Wrapped'
<1> DEFINE L == Len(bytes)  LL == Len(bytes')  q == Len(Pulled("rgb"))  U == Upcoming  UU == Upcoming'
           u == IF Pulls THEN U + 1 ELSE U
<1>1. r.pc \in 0..8 /\ r.pc # 0
  BY RgbMoves DEF RgbInv
<1>2. U \in 0..TXCOUNT /\ (UU = u \/ (UU = 0 /\ ~Pulls /\ r.pc = 8))
  BY <1>1, UpcomingNext
<1>3. UU = u
  <2>1. CASE r.pc = 8 /\ r.delay = 0 /\ r.x # 0
    <3>1. r'.pc = 5 /\ r'.x = r.x - 1 /\ ~Pulls
      BY <2>1, RgbMoves DEF RgbInv, Pulls
    <3>2. 1 <= k' /\ k' \in Nat /\ First(line - 1) \in Nat
      <4>1. r.x \in 1..RGB_ACTIVE
        BY <2>1 DEF RgbInv, RgbRegs
      <4>2. line \in 1..Lines
        BY <2>1, LineRange DEF RgbInv, RgbTime, VsyncInv
      <4> QED BY <3>1, <4>1, <4>2, FirstFacts, ConstantFacts DEF k
    <3>3. UU = First(line' - 1) + k'
      BY <3>1 DEF Upcoming
    <3>4. line' = line
      BY <2>1, VsyncStays DEF RgbInv, RgbTime
    <3>5. UU # 0
      BY <3>2, <3>3, <3>4, ConstantFacts DEF k
    <3> QED BY <1>2, <3>5
  <2>2. CASE r.pc = 8 /\ r.delay = 0 /\ r.x = 0
    BY <2>2, RgbMoves DEF RgbInv
  <2>3. CASE r.pc = 8 /\ r.delay # 0
    <3>1. r'.pc = 8 /\ r'.x = r.x
      BY <2>3, RgbMoves DEF RgbInv
    <3>2. UU = First(line' - 1) + k' + 1 /\ First(line' - 1) + k' = First(line - 1) + k
      BY <3>1, UpcomingNext DEF Upcoming
    <3>3. First(line - 1) + k \in 0..(TXCOUNT - 1)
      BY <2>3, UpcomingNext
    <3>4. UU # 0
      BY <3>2, <3>3
    <3> QED BY <1>2, <3>4
  <2>4. CASE r.pc # 8
    BY <1>2, <2>4
  <2> QED BY <2>1, <2>2, <2>3, <2>4
<1>4. U + L \in {read, read + TXCOUNT} /\ L >= 2 /\ L <= 4 /\ L \in Nat /\ read \in 0..TXCOUNT
  BY <1>1, FifoLong, FifoFacts DEF BytesInv, RgbInv, DmaInv, Chain
<1>5. q = IF Pulls THEN L - 1 ELSE L
  BY <1>1, <1>2, PulledFacts
<1>6. Len(Append(Pulled("rgb"), read)) = q + 1
  <2>1. Pulled("rgb") \in Seq(Nat)
    BY <1>1, <1>2, PulledFacts
  <2> QED BY <2>1
<1>7. \/ read = TXCOUNT /\ read' = 0 /\ LL = q
      \/ read # TXCOUNT /\ L < 4 /\ read' = read + 1 /\ LL = q + 1
      \/ read' = read /\ LL = q
  BY <1>6, DmaStep
<1>8. Wrapped <=> read = TXCOUNT \/ read + TXCOUNT = U + L
  BY DEF Wrapped
<1>9. Wrapped' <=> read' = TXCOUNT \/ read' + TXCOUNT = UU + LL
  BY DEF Wrapped
<1> HIDE DEF L, LL, q, U, UU
<1> QED BY <1>2, <1>3, <1>4, <1>5, <1>7, <1>8, <1>9, ConstantFacts

LEMMA DmaKeeps ==
    ASSUME HsyncInv, VsyncInv, RgbInv, BytesInv, DmaInv, phase \in 0..4, Tick
    PROVE  DmaInv'
<1> DEFINE q == Len(Pulled("rgb"))
<1>0. RgbRegs /\ RgbTime /\ SharedNext
  BY SharedLemma DEF RgbInv
<1>1. /\ r.pc \in 0..8 /\ r.x \in -1..RGB_ACTIVE /\ r.delay \in 0..31 /\ r.delay <= 4
      /\ r.pc \in {0, 1, 2, 3, 4, 6} => r.delay = 0
      /\ r.pc = 8 => r.delay <= 2
  BY <1>0, RgbMoves DEF RgbRegs
<1>2. /\ Cycle \in Nat /\ Cycle' = IF HsyncEnds THEN 0 ELSE Cycle + 1
      /\ HsyncEnds <=> Cycle = 10 * Bytes + 799
  BY <1>0, CycleNext
<1>3. /\ Turn \in 1..10 /\ TXCOUNT \in Nat /\ TXCOUNT > 4 /\ Bytes \in Nat /\ Bytes = RGB_ACTIVE + 1
      /\ RGB_ACTIVE \in Nat
  BY ConstantFacts DEF Turn
<1>4. Len(bytes) \in Nat /\ Len(bytes) <= 4 /\ read \in 0..TXCOUNT /\ lag \in 0..Slack
  BY FifoFacts DEF DmaInv, RgbInv, FifoDepth
<1>5. CASE r.pc = 0
  <2>1. bytes = <<RGB_ACTIVE>> /\ read = 0 /\ lag = 0
    BY <1>5 DEF BytesInv, DmaInv
  <2>2. Pulled("rgb") = <<>> /\ Len(bytes) = 1
    <3>1. Pulled("rgb") = Tail(bytes)
      BY <1>0, <1>1, <1>5, RgbMoves DEF Pulls
    <3> QED BY <2>1, <3>1
  <2>3. Len(Pulled("rgb")) = 0 /\ Len(Append(Pulled("rgb"), read)) = 1
    BY <2>2
  <2>4. /\ Len(bytes') \in {0, 1} /\ read' \in {0, 1} /\ lag' \in 0..Slack
    BY <2>1, <2>2, <2>3, <1>3, DmaStep, ConstantFacts
  <2>5. r'.pc = 1
    BY <1>0, <1>5, RgbMoves
  <2>6. ~Started /\ Cycle = 4
    BY <1>0, <1>5 DEF RgbTime
  <2>7. ~Started' /\ Cycle' = 5
    BY <1>0, <1>2, <1>3, <2>6 DEF SharedNext
  <2>8. MostWork' = Turn * (2 * (4 - Len(bytes')) + Reloads') - lag' /\ Reloads' = 0
    <3>1. read' # TXCOUNT
      BY <1>3, <2>4
    <3> QED BY <3>1 DEF MostWork, Reloads, FifoDepth, Turn
  <2>9. MostWork' <= 80
    <3>1. /\ Len(bytes') = 0 => MostWork' = Turn * 8 - lag'
          /\ Len(bytes') = 1 => MostWork' = Turn * 6 - lag'
      <4> DEFINE LL == Len(bytes')  RR == Reloads'  MM == MostWork'
      <4>1. MM = Turn * (2 * (4 - LL) + RR) - lag' /\ RR = 0
        BY <2>8
      <4> HIDE DEF LL, RR, MM
      <4>2. LL = 0 => MM = Turn * 8 - lag'
        BY <4>1
      <4>3. LL = 1 => MM = Turn * 6 - lag'
        BY <4>1
      <4> QED BY <4>2, <4>3 DEF LL, MM
    <3>2. lag' \in Nat
      BY <2>4, ConstantFacts
    <3> QED BY <1>3, <2>4, <3>1, <3>2
  <2>10. MostWork' \in Int
    BY <1>3, <2>4, <2>8, ConstantFacts
  <2>11. MostWork' + Cycle' <= 104 + 10 * Bytes
    <3> DEFINE MM == MostWork'
    <3>1. MM \in Int /\ MM <= 80
      BY <2>9, <2>10
    <3> HIDE DEF MM
    <3>2. MM + 5 <= 104 + 10 * Bytes
      BY <1>3, <3>1
    <3> QED BY <2>7, <3>2 DEF MM
  <2>12. Len(bytes') <= 4 /\ read' \in 0..TXCOUNT
    BY <1>3, <2>4
  <2> QED BY <2>4, <2>5, <2>7, <2>11, <2>12 DEF DmaInv, FifoDepth
<1>6. CASE r.pc # 0
  <2>1. Upcoming \in 0..TXCOUNT
    BY <1>6, UpcomingNext
  <2>2. q \in Nat /\ Pulled("rgb") \in Seq(Nat) /\ q = IF Pulls THEN Len(bytes) - 1 ELSE Len(bytes)
    BY <1>6, <2>1, PulledFacts
  <2>3. q = Len(bytes) \/ q = Len(bytes) - 1
    BY <2>2
  <2>4. /\ Len(bytes') <= 4 /\ read' \in 0..TXCOUNT /\ lag' \in 0..Slack
        /\ Work \in Int /\ Work' \in Int /\ MostWork \in Int /\ MostWork' \in Int
        /\ ~Pulls /\ Full => Full'
        /\ ~Pulls => Full' \/ MostWork' <= MostWork - 1
        /\ \/ ~Pulls /\ Full'
           \/ Pulls /\ Work' = Turn
           \/ /\ ~Full
              /\ Work' <= Work - 1 + (IF Pulls THEN Turn ELSE 0)
                                   + (IF read # TXCOUNT /\ read' = TXCOUNT THEN Turn ELSE 0)
        /\ MostWork - Work = Turn * (4 - Len(bytes))
    <3>1. Pulls <=> q # Len(bytes)
      BY <1>4, <2>2
    <3> HIDE DEF q
    <3> QED BY <2>2, <2>3, <3>1, WorkNext DEF q
  <2>5. r'.pc # 0
    BY <1>0, <1>1, <1>6, RgbMoves
  <2>6. CASE r.pc <= 4 /\ r'.pc <= 4
    <3>1. ~Pulls /\ r'.pc \in 1..4
      BY <1>0, <1>1, <1>6, <2>5, <2>6, RgbMoves DEF Pulls
    <3>2. Full \/ (MostWork + Cycle <= 104 + 10 * Bytes /\ (Started => Cycle >= 14 + 10 * Bytes))
      BY <1>1, <1>6, <2>6 DEF DmaInv
    <3>3. MostWork >= -9
      <4>1. MostWork = Turn * (2 * (4 - Len(bytes)) + Reloads) - lag /\ Reloads \in {0, 1}
        BY DEF MostWork, Reloads, FifoDepth
      <4>2. 2 * (4 - Len(bytes)) + Reloads \in Nat
        BY <1>4, <4>1
      <4>3. Turn * (2 * (4 - Len(bytes)) + Reloads) \in Nat
        BY <1>3, <4>2
      <4> QED BY <1>4, <4>1, <4>3, ConstantFacts
    <3>4. HsyncEnds => Full
      BY <1>2, <1>3, <2>4, <3>2, <3>3
    <3>5. Full' \/ (MostWork' + Cycle' <= 104 + 10 * Bytes /\ (Started' => Cycle' >= 14 + 10 * Bytes))
      <4> DEFINE M == MostWork  MM == MostWork'  C == Cycle  CC == Cycle'
      <4>1. /\ M \in Int /\ MM \in Int /\ C \in Nat
            /\ CC = IF HsyncEnds THEN 0 ELSE C + 1
            /\ Full => Full'
            /\ Full' \/ MM <= M - 1
            /\ Full \/ (M + C <= 104 + 10 * Bytes /\ (Started => C >= 14 + 10 * Bytes))
        BY <1>2, <2>4, <3>1, <3>2
      <4>2. Started' <=> Started \/ HsyncEnds
        BY <1>0 DEF SharedNext
      <4> HIDE DEF M, MM, C, CC
      <4>3. Full' \/ (MM + CC <= 104 + 10 * Bytes /\ (Started' => CC >= 14 + 10 * Bytes))
        BY <1>3, <3>4, <4>1, <4>2
      <4> QED BY <4>3 DEF MM, CC
    <3> QED BY <2>4, <3>1, <3>5 DEF DmaInv, FifoDepth
  <2>7. CASE r.pc <= 4 /\ r'.pc >= 5
    <3>1. r.pc = 4 /\ 1 \in irq
      BY <1>0, <1>1, <1>6, <2>7, RgbMoves
    <3>2. Started /\ Cycle = 10
      BY <3>1, VsyncStays DEF VsyncInv, VsyncTime
    <3>3. Full
      BY <1>3, <3>1, <3>2 DEF DmaInv
    <3>4. ~Pulls
      BY <3>1 DEF Pulls
    <3>5. Full'
      BY <2>4, <3>3, <3>4
    <3> QED BY <2>4, <2>5, <2>7, <3>5 DEF DmaInv, FifoDepth
  <2>8. CASE r.pc >= 5 /\ r'.pc <= 4
    <3>1. r.pc = 8 /\ r.delay = 0 /\ r.x = 0 /\ r'.pc = 2 /\ ~Pulls
      BY <1>0, <1>1, <2>8, RgbMoves DEF Pulls
    <3>2. Started /\ Cycle = RgbCycle /\ ~HsyncEnds
      BY <1>0, <3>1, VsyncStays DEF RgbTime
    <3>3. Cycle' = 14 + 10 * Bytes
      BY <1>2, <1>3, <3>1, <3>2 DEF RgbCycle, k
    <3>4. Full \/ Work + 8 <= Turn * 2
      <4>1. Full \/ Work + Age <= Turn * (IF Wrapped THEN 2 ELSE 1)
        BY <3>1 DEF DmaInv
      <4>2. Age = 8
        BY <3>1 DEF Age
      <4> QED BY <1>3, <2>4, <4>1, <4>2
    <3>5. Len(bytes) >= 2 /\ Len(bytes) <= 4
      BY <1>0, <2>8, FifoLong
    <3>6. Turn * (4 - Len(bytes)) <= Turn * 2
      BY <1>3, <1>4, <3>5
    <3>7. ~Full => MostWork <= 32
      <4>1. Turn * (4 - Len(bytes)) \in Int
        BY <1>3, <1>4
      <4> QED BY <1>3, <2>4, <3>4, <3>6, <4>1
    <3>8. Full' \/ MostWork' + Cycle' <= 104 + 10 * Bytes
      <4> DEFINE MM == MostWork'
      <4>1. MM \in Int /\ (Full' \/ MM <= 31)
        BY <2>4, <3>1, <3>7
      <4> HIDE DEF MM
      <4>2. Full' \/ MM + (14 + 10 * Bytes) <= 104 + 10 * Bytes
        BY <1>3, <4>1
      <4> QED BY <3>3, <4>2 DEF MM
    <3>9. Full' \/ (MostWork' + Cycle' <= 104 + 10 * Bytes /\ (Started' => Cycle' >= 14 + 10 * Bytes))
      BY <1>3, <3>3, <3>8
    <3> QED BY <2>4, <3>1, <3>9 DEF DmaInv, FifoDepth
  <2>9. CASE r.pc >= 5 /\ r'.pc >= 5
    <3>1. /\ Wrapped => Wrapped'
          /\ read # TXCOUNT /\ read' = TXCOUNT => ~Wrapped /\ Wrapped'
      BY <2>9, WrapNext
    <3>2. /\ r.pc = 5 /\ k = 0 => Full
          /\ Full \/ Work + Age <= Turn * (IF Wrapped THEN 2 ELSE 1)
      BY <2>9 DEF DmaInv
    <3>3. /\ ~Pulls => Age' <= Age + 1
          /\ Pulls => Age = 9 /\ Age' = 0
          /\ Age \in Int /\ Age' \in Int
      <4> DEFINE pp == r'.pc  dd == r'.delay
      <4>1. \/ r.pc \in {5, 7, 8} /\ r.delay # 0 /\ pp = r.pc /\ dd = r.delay - 1 /\ ~Pulls
            \/ r.pc = 5 /\ r.delay = 0 /\ pp = 6 /\ Pulls
            \/ r.pc = 6 /\ pp = 7 /\ dd = 4 /\ ~Pulls
            \/ r.pc = 7 /\ r.delay = 0 /\ pp = 8 /\ dd = 2 /\ ~Pulls
            \/ r.pc = 8 /\ r.delay = 0 /\ pp = 5 /\ ~Pulls
        BY <1>0, <1>1, <2>9, RgbMoves DEF Pulls
      <4>2. Age' = IF pp = 6 THEN 0 ELSE IF pp = 7 THEN 5 - dd ELSE IF pp = 8 THEN 8 - dd ELSE 9
        BY DEF Age
      <4> HIDE DEF pp, dd
      <4> QED BY <1>1, <4>1, <4>2 DEF Age
    <3>6. r'.pc = 5 /\ k' = 0 => Full'
      <4>1. r'.pc = 5 => (r.pc = 5 /\ r.delay # 0 /\ k' = k) \/ (r.pc = 8 /\ k' = k + 1 /\ r.x > 0)
        <5>1. r'.pc = 5 => (r.pc = 5 /\ r.delay # 0 /\ r'.x = r.x)
                           \/ (r.pc = 8 /\ r.x # 0 /\ r'.x = r.x - 1)
          BY <1>0, <1>1, <2>9, RgbMoves
        <5>2. r.pc = 8 => r.x >= 0
          BY <1>0 DEF RgbRegs
        <5>3. k = RGB_ACTIVE - r.x /\ k' = RGB_ACTIVE - r'.x
          BY DEF k
        <5> QED BY <1>1, <1>3, <5>1, <5>2, <5>3
      <4>2. r.pc = 8 => k >= 0
        BY <1>1, <1>3 DEF k
      <4>3. r.pc = 5 /\ r.delay # 0 => ~Pulls
        BY DEF Pulls
      <4> QED BY <1>1, <1>3, <2>4, <3>2, <4>1, <4>2, <4>3 DEF k
    <3>7. Full' \/ Work' + Age' <= Turn * (IF Wrapped' THEN 2 ELSE 1)
      <4> DEFINE W == Work  WW == Work'  A == Age  AA == Age'
      <4>1. /\ W \in Int /\ WW \in Int /\ A \in Int /\ AA \in Int
            /\ Full \/ W + A <= Turn * (IF Wrapped THEN 2 ELSE 1)
            /\ ~Pulls => AA <= A + 1
            /\ Pulls => A = 9 /\ AA = 0
        BY <2>4, <3>2, <3>3
      <4>2. \/ Full'
            \/ Pulls /\ WW = Turn
            \/ /\ ~Full
               /\ WW <= W - 1 + (IF Pulls THEN Turn ELSE 0)
                              + (IF read # TXCOUNT /\ read' = TXCOUNT THEN Turn ELSE 0)
        BY <2>4
      <4> HIDE DEF W, WW, A, AA
      <4>3. Full' \/ WW + AA <= Turn * (IF Wrapped' THEN 2 ELSE 1)
        <5>1. CASE Pulls /\ WW = Turn
          BY <1>3, <4>1, <5>1
        <5>2. CASE /\ ~Full
                   /\ WW <= W - 1 + (IF Pulls THEN Turn ELSE 0)
                                  + (IF read # TXCOUNT /\ read' = TXCOUNT THEN Turn ELSE 0)
          BY <1>3, <3>1, <4>1, <5>2
        <5> QED BY <4>2, <5>1, <5>2
      <4> QED BY <4>3 DEF WW, AA
    <3>8. Turn' = Turn
      BY DEF Turn
    <3>9. Full' \/ Work' + Age' <= Turn' * (IF Wrapped' THEN 2 ELSE 1)
      BY <3>7, <3>8
    <3>10. ~(r'.pc = 0) /\ ~(r'.pc \in 1..4)
      BY <2>9
    <3> QED BY <2>4, <3>6, <3>9, <3>10 DEF DmaInv, FifoDepth
  <2>10. r'.pc \in Nat
    BY RgbKeeps DEF RgbInv, RgbRegs, Registers
  <2> QED BY <1>1, <2>6, <2>7, <2>8, <2>9, <2>10
<1> QED BY <1>5, <1>6

-----------------------------------------------------------------------------
(* The theorems.                                                             *)

LEMMA InitLemma ==
    ASSUME Init
    PROVE  IInv
<1>1. /\ h = S(0, 0, 0, 0, 0, 0) /\ v = S(0, 0, 0, 0, 0, 0) /\ r = S(0, 0, 0, 0, 0, 0)
      /\ pin["hsync"] = 0 /\ pin["vsync"] = 0 /\ pin["rgb"] = Black
  BY DEF Init, Machines, h, v, r, S
<1>2. /\ fifo["hsync"] = <<H_ACTIVE>> /\ fifo["vsync"] = <<V_ACTIVE>> /\ bytes = <<RGB_ACTIVE>>
  BY DEF Init, bytes
<1>3. irq = {} /\ read = 0 /\ lag = 0 /\ phase = 0 /\ line = 0 /\ since = NotYet
  BY DEF Init
<1>4. /\ h.pc = 0 /\ h.x = 0 /\ h.delay = 0 /\ h \in Registers
      /\ v.pc = 0 /\ v.x = 0 /\ v.delay = 0 /\ v \in Registers
      /\ r.pc = 0 /\ r.x = 0 /\ r.delay = 0 /\ r \in Registers
  BY <1>1 DEF S, Registers
<1>5. ~Started /\ Clock = 0 /\ Cycle = 4
  BY <1>3, <1>4 DEF Started, Clock, Cycle
<1>6. HsyncTime
  BY <1>1, <1>4, <1>5, ConstantFacts DEF HsyncTime
<1>7. VsyncLine
  BY <1>1, <1>3, <1>4, ConstantFacts DEF VsyncLine
<1>8. VsyncTime
  BY <1>3, <1>4, <1>5 DEF VsyncTime
<1>9. RgbRegs
  BY <1>1, <1>4, ConstantFacts DEF RgbRegs
<1>10. RgbTime
  BY <1>1, <1>4, <1>5 DEF RgbTime
<1>11. HsyncFifo /\ VsyncFifo
  BY <1>2, <1>4 DEF HsyncFifo, VsyncFifo
<1>12. BytesInv
  <2>1. bytes \in Seq(Nat)
    BY <1>2, ConstantFacts
  <2> QED BY <1>2, <1>3, <1>4, <2>1 DEF BytesInv
<1>13. DmaInv
  <2>1. Len(bytes) = 1
    BY <1>2
  <2>2. Len(bytes) <= 4
    BY <2>1
  <2> QED BY <1>3, <1>4, <2>2, ConstantFacts DEF DmaInv, FifoDepth
<1>14. ColourInv
  BY <1>1 DEF ColourInv
<1> QED BY <1>3, <1>6, <1>7, <1>8, <1>9, <1>10, <1>11, <1>12, <1>13, <1>14
        DEF IInv, HsyncInv, VsyncInv, RgbInv

LEMMA NextLemma ==
    ASSUME IInv, [Tick]_vars
    PROVE  IInv'
<1>1. CASE Tick
  <2>1. HsyncInv /\ VsyncInv /\ RgbInv /\ ColourInv /\ BytesInv /\ DmaInv /\ phase \in 0..4
    BY DEF IInv
  <2>2. phase' \in 0..4 /\ HsyncInv'
    BY <1>1, <2>1, PhaseNext, HsyncKeeps
  <2> QED BY <1>1, <2>1, <2>2, VsyncKeeps, RgbKeeps, ColourKeeps, BytesKeeps, DmaKeeps DEF IInv
<1>2. CASE UNCHANGED vars
  BY <1>2 DEF vars, IInv, HsyncInv, HsyncTime, HsyncFifo, VsyncInv, VsyncLine, VsyncTime, VsyncFifo,
     RgbInv, RgbRegs, RgbTime, ColourInv, BytesInv, DmaInv, h, v, r, bytes, Clock, Cycle, Started,
     k, RgbCycle, First, Upcoming, Wrap, Chain, Turn, Reloads, Full, Work, MostWork, Age, Wrapped
<1> QED BY <1>1, <1>2

LEMMA InvLemma == Spec => []IInv
BY InitLemma, NextLemma, PTL DEF Spec

\* The values are in their ranges.
THEOREM TypeCorrect == Spec => []TypeOK
<1>1. IInv => TypeOK
  <2> SUFFICES ASSUME IInv PROVE TypeOK
    OBVIOUS
  <2>1. /\ HsyncTime /\ HsyncFifo /\ VsyncLine /\ VsyncTime /\ VsyncFifo /\ RgbRegs
        /\ ColourInv /\ BytesInv /\ DmaInv /\ phase \in 0..4
    BY DEF IInv, HsyncInv, VsyncInv, RgbInv
  <2>2. /\ Len(Program("hsync")) = 9 /\ Len(Program("vsync")) = 14 /\ Len(Program("rgb")) = 9
    BY HsyncCode, VsyncCode, RgbCode
  <2>3. /\ h.pc \in 0..8 /\ h.x \in -1..H_ACTIVE /\ h.delay \in 0..31 /\ h.shift \in 0..2
    BY <2>1 DEF HsyncTime, Registers
  <2>4. /\ v.pc \in 0..13 /\ v.x \in -1..V_ACTIVE /\ v.delay \in 0..31 /\ v.shift \in 0..2
    BY <2>1 DEF VsyncLine, Registers
  <2>5. /\ r.pc \in 0..8 /\ r.x \in -1..RGB_ACTIVE /\ r.delay \in 0..31 /\ r.shift \in 0..2
    BY <2>1 DEF RgbRegs, Registers
  <2>6. Len(fifo["hsync"]) <= 4 /\ Len(fifo["vsync"]) <= 4
    <3>1. Len(<<>>) <= 4 /\ Len(<<H_ACTIVE>>) <= 4 /\ Len(<<V_ACTIVE>>) <= 4
      OBVIOUS
    <3>2. fifo["hsync"] = <<>> \/ fifo["hsync"] = <<H_ACTIVE>>
      BY <2>1 DEF HsyncFifo
    <3>3. fifo["vsync"] = <<>> \/ fifo["vsync"] = <<V_ACTIVE>>
      BY <2>1 DEF VsyncFifo
    <3> QED BY <3>1, <3>2, <3>3
  <2>7. Len(bytes) <= 4 /\ read \in 0..TXCOUNT /\ lag \in 0..Slack
    BY <2>1 DEF DmaInv, FifoDepth
  <2>8. ASSUME NEW m \in Machines
        PROVE  /\ sm[m].pc \in 0..(Len(Program(m)) - 1)
               /\ sm[m].x \in -1..H_ACTIVE \union -1..V_ACTIVE \union -1..RGB_ACTIVE
               /\ sm[m].delay \in 0..31 /\ sm[m].shift \in 0..2
               /\ Len(fifo[m]) <= FifoDepth
    <3>1. CASE m = "hsync"
      <4>1. sm[m] = h /\ Len(Program(m)) - 1 = 8
        BY <2>2, <3>1 DEF h
      <4>2. Len(fifo[m]) <= FifoDepth
        BY <2>6, <3>1 DEF FifoDepth
      <4> QED BY <2>3, <4>1, <4>2
    <3>2. CASE m = "vsync"
      <4>1. sm[m] = v /\ Len(Program(m)) - 1 = 13
        BY <2>2, <3>2 DEF v
      <4>2. Len(fifo[m]) <= FifoDepth
        BY <2>6, <3>2 DEF FifoDepth
      <4> QED BY <2>4, <4>1, <4>2
    <3>3. CASE m = "rgb"
      <4>1. sm[m] = r /\ Len(Program(m)) - 1 = 8
        BY <2>2, <3>3 DEF r
      <4>2. Len(fifo[m]) <= FifoDepth
        BY <2>7, <3>3 DEF FifoDepth, bytes
      <4> QED BY <2>5, <4>1, <4>2
    <3> QED BY <3>1, <3>2, <3>3 DEF Machines
  <2>9. irq \subseteq {0, 1} /\ pin["hsync"] \in {0, 1} /\ pin["vsync"] \in {0, 1}
    BY <2>1 DEF HsyncTime, VsyncLine, VsyncTime
  <2> QED BY <2>1, <2>7, <2>8, <2>9 DEF TypeOK, ColourInv, ClkDiv
<1> QED BY <1>1, InvLemma, PTL

\* rgb finds a byte in its FIFO whenever it needs one in a line: the DMA, late by up
\* to nine cycles at every transfer, is never late for a pixel.
THEOREM NeverStarvedAlways == Spec => []NeverStarved
<1>1. IInv => NeverStarved
  <2> SUFFICES ASSUME IInv, r.pc = 5 PROVE bytes # <<>>
    BY DEF NeverStarved, r, bytes
  <2> QED BY FifoFacts DEF IInv, RgbInv
<1> QED BY <1>1, InvLemma, PTL

\* A pixel is from the line of the frame buffer that vsync counts.
THEOREM LinesAlignedAlways == Spec => []LinesAligned
<1>1. IInv => LinesAligned
  <2> SUFFICES ASSUME IInv, r.pc \in {6, 7} PROVE r.osr \div Bytes = line - 1
    BY DEF LinesAligned, r
  <2>1. r.osr = First(line - 1) + k
    BY DEF IInv, BytesInv
  <2>2. r.x \in 0..RGB_ACTIVE
    BY DEF IInv, RgbInv, RgbRegs
  <2>3. k \in 0..(Bytes - 1)
    BY <2>2, ConstantFacts DEF k
  <2>4. line \in 1..Lines
    BY LineRange DEF IInv, RgbInv, RgbTime, VsyncInv
  <2>5. ASSUME NEW b \in Nat \ {0}, NEW l \in Nat, NEW i \in 0..(b - 1)
        PROVE  (l * b + i) \div b = l
    OBVIOUS
  <2>6. Bytes \in Nat \ {0} /\ line - 1 \in Nat
    BY <2>4, ConstantFacts
  <2> QED BY <2>1, <2>3, <2>5, <2>6 DEF First
<1> QED BY <1>1, InvLemma, PTL

\* The colour pins are black while hsync is low, and from the front porch of the
\* picture to its first line.
THEOREM DarkInPulsesAlways == Spec => []DarkInPulses
<1>1. IInv => DarkInPulses
  <2> SUFFICES ASSUME IInv, pin["hsync"] = 0 \/ v.pc \in 8..13 PROVE pin["rgb"] = Black
    BY DEF DarkInPulses, v
  <2>1. HsyncTime /\ RgbRegs /\ RgbTime /\ phase \in 0..4 /\ HsyncInv
    BY DEF IInv, HsyncInv, RgbInv
  <2>2. CASE ~Started \/ r.pc \in {3, 4}
    BY <2>1, <2>2 DEF RgbTime
  <2>3. CASE Started /\ r.pc \notin {3, 4}
    <3>1. r.pc >= 2 /\ Cycle = RgbCycle /\ v.pc \in {2, 4, 5, 6}
      BY <2>1, <2>3 DEF RgbTime
    <3>2. h.pc \in 4..6 /\ h.delay \in 0..31
      BY <2>1, <2>3, <3>1 DEF HsyncTime, Registers
    <3>3. Clock >= H_ACTIVE + 4 /\ Clock \in Int
      BY <3>2, ConstantFacts DEF Clock
    <3>4. Cycle >= 10 * Bytes + 95
      BY <2>1, <3>3, ConstantFacts DEF Cycle
    <3>5. /\ r.pc \in 0..8 /\ r.x \in -1..RGB_ACTIVE /\ r.delay \in 0..31
          /\ r.pc >= 5 => r.x >= 0
      BY <2>1 DEF RgbRegs, Registers
    <3>6. RgbCycle <= 15 + 10 * Bytes
      BY <2>3, <3>1, <3>5, ConstantFacts DEF RgbCycle, k
    <3>7. RgbCycle \in Int
      BY <3>1, <3>5, ConstantFacts DEF RgbCycle, k
    <3> QED BY <3>1, <3>4, <3>6, <3>7, ConstantFacts
  <2> QED BY <2>2, <2>3
<1> QED BY <1>1, InvLemma, PTL

\* From an interrupt of hsync to the next there are 800 of its clocks (with the
\* numbers of the code).
THEOREM LinePeriodAlways == Spec => LinePeriod
<1>1. IInv /\ [Tick]_vars => [Does("hsync", {"irq"}) /\ since # NotYet => since + 1 = 2 * Bytes + 160]_vars
  <2> SUFFICES ASSUME IInv, Does("hsync", {"irq"}), since # NotYet
               PROVE  since + 1 = 2 * Bytes + 160
    OBVIOUS
  <2>1. HsyncTime /\ h.pc \in 0..8
    BY DEF IInv, HsyncInv, HsyncTime, Registers
  <2>2. Instr("hsync").op = "irq" /\ sm["hsync"].delay = 0
    BY DEF Does, Fires, Due
  <2>3. h.pc = 8 /\ h.delay = 0
    BY <2>1, <2>2, HsyncCode DEF Runs, h
  <2>4. since = H_ACTIVE + 144
    BY <2>1, <2>3, ConstantFacts DEF HsyncTime, Clock, Started
  <2> QED BY <2>4, ConstantFacts
<1> QED BY <1>1, InvLemma, PTL DEF Spec, LinePeriod
=============================================================================
