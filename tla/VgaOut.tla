------------------------------- MODULE VgaOut -------------------------------
(***************************************************************************)
(* The picture generator that initVGA (src/src/vga_graphics.c) sets up:    *)
(* three state machines of one PIO block, which run the programs hsync.pio,*)
(* vsync.pio and rgb.pio in parallel, and two DMA channels that feed the   *)
(* third one from the frame buffer, without end and without the processor. *)
(*                                                                         *)
(* One step is one cycle of the system clock. hsync and vsync execute an   *)
(* instruction every fifth cycle, rgb in every cycle. Nothing but two      *)
(* interrupt flags and these clocks keeps them together: rgb counts pixels,*)
(* vsync counts lines, the DMA counts bytes, each on its own.              *)
(***************************************************************************)
EXTENDS Integers, Sequences

CONSTANTS
    H_ACTIVE, V_ACTIVE, RGB_ACTIVE,   \* 655, 479, 319
    TXCOUNT,              \* the bytes of the frame buffer (153600)
    FrontPorch, BackPorch,\* what vsync.pio loads into y (9 and 31)
    Slack                 \* the cycles the bus may delay a transfer of the DMA

ASSUME VgaAssumption ==
    /\ {H_ACTIVE, V_ACTIVE, RGB_ACTIVE, FrontPorch, BackPorch, Slack} \subseteq Nat
    /\ TXCOUNT \in Nat \ {0}

\* How the numbers of initVGA agree (vga_graphics.c:17-22): the active part of a
\* line with its front porch is counted in clocks of hsync, two to a byte; the
\* frame buffer is one picture, and more than what the FIFO holds. rgb takes a
\* byte every ten cycles: the bus is not later than that.
ASSUME TimingAssumption ==
    /\ H_ACTIVE = 2 * RGB_ACTIVE + 17
    /\ TXCOUNT = (RGB_ACTIVE + 1) * (V_ACTIVE + 1) /\ TXCOUNT > 4
    /\ Slack < 10

Machines == {"hsync", "vsync", "rgb"}
ClkDiv == 5
FifoDepth == 4
Bytes == RGB_ACTIVE + 1     \* the bytes of one line
Lines == V_ACTIVE + 1       \* the lines of one picture

-----------------------------------------------------------------------------
(* The programs. An instruction is an operation, its argument and the cycles *)
(* it delays; addresses count from 0 as in the .pio.h files.                 *)

I(op, arg, delay) == [op |-> op, arg |-> arg, delay |-> delay]

\* Mutant: the load of x takes a cycle that H_ACTIVE does not account for.
Hsync_TwoMovs ==
    << I("pull", 0, 0), I("x=osr", 0, 1), I("jmp_x--", 2, 0),
       I("set_pins", 0, 31), I("set_pins", 0, 31), I("set_pins", 0, 31),
       I("set_pins", 1, 31), I("set_pins", 1, 12), I("irq", 0, 1) >>

Hsync ==
    << I("pull", 0, 0), I("x=osr", 0, 0), I("jmp_x--", 2, 0),
       I("set_pins", 0, 31), I("set_pins", 0, 31), I("set_pins", 0, 31),
       I("set_pins", 1, 31), I("set_pins", 1, 12), I("irq", 0, 1) >>

\* Mutant: the active mode is announced in the front porch as well.
Vsync_PorchActive ==
    << I("pull", 0, 0), I("x=osr", 0, 0),
       I("wait", 0, 0), I("irq", 1, 0), I("jmp_x--", 2, 0),
       I("set_y", FrontPorch, 0), I("wait", 0, 0), I("irq", 1, 0), I("jmp_y--", 6, 0),
       I("set_pins", 0, 0), I("wait", 0, 0), I("wait", 0, 0),
       I("set_y", BackPorch, 0), I("wait_side_1", 0, 0), I("jmp_y--", 13, 0) >>

Vsync ==
    << I("pull", 0, 0), I("x=osr", 0, 0),
       I("wait", 0, 0), I("irq", 1, 0), I("jmp_x--", 2, 0),
       I("set_y", FrontPorch, 0), I("wait", 0, 0), I("jmp_y--", 6, 0),
       I("set_pins", 0, 0), I("wait", 0, 0), I("wait", 0, 0),
       I("set_y", BackPorch, 0), I("wait_side_1", 0, 0), I("jmp_y--", 12, 0) >>

\* Mutant: the pins keep the last pixel of a line.
Rgb_NoBlank ==
    << I("pull", 0, 0), I("y=osr", 0, 0),
       I("x=y", 0, 0), I("x=y", 0, 0), I("wait", 1, 3),
       I("pull", 0, 0), I("out", 0, 4), I("out", 0, 2), I("jmp_x--", 5, 0) >>

\* Mutant: no delays, a byte every four cycles.
Rgb_Fast ==
    << I("pull", 0, 0), I("y=osr", 0, 0),
       I("set_pins", 0, 0), I("x=y", 0, 0), I("wait", 1, 3),
       I("pull", 0, 0), I("out", 0, 0), I("out", 0, 0), I("jmp_x--", 5, 0) >>

Rgb ==
    << I("pull", 0, 0), I("y=osr", 0, 0),
       I("set_pins", 0, 0), I("x=y", 0, 0), I("wait", 1, 3),
       I("pull", 0, 0), I("out", 0, 4), I("out", 0, 2), I("jmp_x--", 5, 0) >>

Program(m) == CASE m = "hsync" -> Hsync [] m = "vsync" -> Vsync [] m = "rgb" -> Rgb

WrapTarget(m) == IF m = "rgb" THEN 2 ELSE 1

-----------------------------------------------------------------------------
VARIABLES
    sm,      \* the state machines: pc, registers x, y and osr, bits shifted out
             \* of osr (in pixels), cycles of delay left
    irq,     \* the flags that are set
    pin,     \* the level of the two sync pins, the pixel on the colour pins
    fifo,    \* the transmit FIFOs; a byte is represented by its index
    read,    \* the read address of DMA channel 0
    lag,     \* the cycles the DMA is late with its next transfer
    phase,   \* the common clock divider of hsync and vsync
    line,    \* history: the lines announced in this picture
    since    \* history: the cycles of hsync since its last interrupt

vars == <<sm, irq, pin, fifo, read, lag, phase, line, since>>

Black == -1
NotYet == -1  \* since, before the first interrupt

\* initVGA up to the start of DMA channel 0: each FIFO holds the first word.
Init ==
    /\ sm = [m \in Machines |-> [pc |-> 0, x |-> 0, y |-> 0, osr |-> 0, shift |-> 0, delay |-> 0]]
    /\ irq = {}
    /\ pin = [m \in Machines |-> IF m = "rgb" THEN Black ELSE 0]
    /\ fifo = [hsync |-> <<H_ACTIVE>>, vsync |-> <<V_ACTIVE>>, rgb |-> <<RGB_ACTIVE>>]
    /\ read = 0 /\ lag = 0
    /\ phase = 0
    /\ line = 0 /\ since = NotYet

-----------------------------------------------------------------------------
(* One instruction.                                                          *)

Instr(m) == Program(m)[sm[m].pc + 1]

Due(m) == (m = "rgb" \/ phase = 0) /\ sm[m].delay = 0

Stalled(m) ==
    \/ Instr(m).op = "pull" /\ fifo[m] = <<>>
    \/ Instr(m).op \in {"wait", "wait_side_1"} /\ Instr(m).arg \notin irq

Fires(m) == Due(m) /\ ~Stalled(m)

Does(m, ops) == Fires(m) /\ Instr(m).op \in ops

\* A jump tests the register before it decrements it. -1 stands for 2^32 - 1; it
\* is loaded anew before it is tested.
NextPc(m) ==
    LET i == Instr(m)
        taken == \/ i.op = "jmp_x--" /\ sm[m].x # 0
                 \/ i.op = "jmp_y--" /\ sm[m].y # 0
    IN  IF taken THEN i.arg
        ELSE IF sm[m].pc + 1 = Len(Program(m)) THEN WrapTarget(m)
        ELSE sm[m].pc + 1

Executed(m) ==
    LET i == Instr(m)
        s == sm[m]
    IN  [pc |-> NextPc(m),
         x |-> CASE i.op = "x=osr" -> s.osr [] i.op = "x=y" -> s.y
                 [] i.op = "jmp_x--" -> s.x - 1 [] OTHER -> s.x,
         y |-> CASE i.op = "y=osr" -> s.osr [] i.op = "set_y" -> i.arg
                 [] i.op = "jmp_y--" -> s.y - 1 [] OTHER -> s.y,
         osr |-> IF i.op = "pull" THEN Head(fifo[m]) ELSE s.osr,
         shift |-> CASE i.op = "pull" -> 0 [] i.op = "out" -> s.shift + 1 [] OTHER -> s.shift,
         delay |-> i.delay]

\* A delay runs on the machine's own clock.
NextMachine(m) ==
    IF Fires(m) THEN Executed(m)
    ELSE IF sm[m].delay > 0 /\ (m = "rgb" \/ phase = 0)
         THEN [sm[m] EXCEPT !.delay = @ - 1]
         ELSE sm[m]

NextPin(m) ==
    CASE Does(m, {"set_pins"}) -> IF m = "rgb" THEN Black ELSE Instr(m).arg
      [] Does(m, {"out"}) -> 2 * sm[m].osr + sm[m].shift
      [] Due(m) /\ Instr(m).op = "wait_side_1" -> 1
      [] OTHER -> pin[m]

NextIrq ==
    (irq \ {Instr(m).arg : m \in {n \in Machines : Does(n, {"wait", "wait_side_1"})}})
        \union {Instr(m).arg : m \in {n \in Machines : Does(n, {"irq"})}}

-----------------------------------------------------------------------------
(* The DMA: channel 0 moves the bytes, channel 1 reloads its read address.   *)

Pulled(m) == IF Does(m, {"pull"}) THEN Tail(fifo[m]) ELSE fifo[m]

\* There is room, or channel 0 is done and channel 1 has to run.
Request == read = TXCOUNT \/ Len(fifo["rgb"]) < FifoDepth

\* Mutant: channel 1 is not chained to channel 0.
Transfer_Once ==
    /\ Request
    /\ lag' = 0
    /\ IF read = TXCOUNT THEN UNCHANGED read /\ fifo' = [m \in Machines |-> Pulled(m)]
       ELSE /\ read' = read + 1
            /\ fifo' = [m \in Machines |-> IF m = "rgb" THEN Append(Pulled(m), read) ELSE Pulled(m)]

Transfer ==
    /\ Request
    /\ lag' = 0
    /\ IF read = TXCOUNT THEN read' = 0 /\ fifo' = [m \in Machines |-> Pulled(m)]
       ELSE /\ read' = read + 1
            /\ fifo' = [m \in Machines |-> IF m = "rgb" THEN Append(Pulled(m), read) ELSE Pulled(m)]

NoTransfer ==
    /\ Request => lag < Slack
    /\ lag' = IF Request THEN lag + 1 ELSE 0
    /\ UNCHANGED read
    /\ fifo' = [m \in Machines |-> Pulled(m)]

Tick ==
    /\ sm' = [m \in Machines |-> NextMachine(m)]
    /\ pin' = [m \in Machines |-> NextPin(m)]
    /\ irq' = NextIrq
    /\ phase' = (phase + 1) % ClkDiv
    /\ line' = CASE Does("vsync", {"irq"}) -> line + 1
                 [] Does("vsync", {"x=osr"}) -> 0
                 [] OTHER -> line
    /\ since' = IF Does("hsync", {"irq"}) THEN 0
                ELSE IF since # NotYet /\ phase = 0 THEN since + 1 ELSE since
    /\ Transfer \/ NoTransfer

Spec == Init /\ [][Tick]_vars /\ WF_vars(Tick)

-----------------------------------------------------------------------------
(* Properties.                                                               *)

TypeOK ==
    /\ \A m \in Machines :
          /\ sm[m].pc \in 0..(Len(Program(m)) - 1)
          /\ sm[m].x \in -1..H_ACTIVE \union -1..V_ACTIVE \union -1..RGB_ACTIVE
          /\ sm[m].delay \in 0..31 /\ sm[m].shift \in 0..2
          /\ Len(fifo[m]) <= FifoDepth
    /\ irq \subseteq {0, 1}
    /\ pin["hsync"] \in {0, 1} /\ pin["vsync"] \in {0, 1}
    /\ pin["rgb"] \in {Black} \union 0..(2 * TXCOUNT - 1)
    /\ read \in 0..TXCOUNT /\ lag \in 0..Slack /\ phase \in 0..(ClkDiv - 1)

\* The line on the screen is the line of the frame buffer, in every picture: the
\* three counts of pixels, lines and bytes never drift, though nobody compares
\* them. rgb is done with a line before vsync announces the next.
LinesAligned ==
    sm["rgb"].pc \in {6, 7} /\ sm["rgb"].delay = 0 =>
        sm["rgb"].osr \div Bytes = line - 1

\* Nothing is shown while hsync is low, nor from the end of the vertical front
\* porch to the first line: a monitor takes its black level there.
DarkInPulses ==
    pin["hsync"] = 0 \/ sm["vsync"].pc \in 8..13 => pin["rgb"] = Black

\* rgb never waits for the DMA within a line, the change from the end
\* of the buffer to its start included: pixels have the same width.
NeverStarved == sm["rgb"].pc = 5 => fifo["rgb"] # <<>>

\* hsync.pio:9-16: a line takes 640 + 16 + 96 + 48 clocks of hsync (800), the
\* clocks of its loads and jumps included.
LinePeriod ==
    [][Does("hsync", {"irq"}) /\ since # NotYet => since + 1 = 2 * Bytes + 160]_vars

\* Every line is shown again and again, from its first to its last pixel.
EveryLineShown ==
    \A l \in 0..(Lines - 1) :
        /\ []<>(pin["rgb"] = 2 * Bytes * l)
        /\ []<>(pin["rgb"] = 2 * Bytes * (l + 1) - 1)
=============================================================================
