# A TLA+ verification development of the capture-the-flag console

The repository is firmware for an RP2350 board: a capture-the-flag game on a VGA
monitor, with a keypad, a serial console, sound effects, an SD card and a
7-segment display. It is C for the Pico SDK; `platformio.ini` builds the C and assembler
files of `src/src` with `-O0`, for one core. What runs concurrently is the main
thread, interrupt handlers that preempt it, and hardware: the PIO state machines,
the DMA and the SD card.

The directory holds several main programs. As committed, the one with the suffix `.c` is
`main_ankush.c`, which starts the audio machine and plays a sample every five seconds. The
game's main program is the file `src/main`; it has no suffix, like `usb` and `vga_main`, and
becomes the program when it is given one in place of the other. The models are about the
components as these programs use them: the game loop of `src/main`, with its set-up and chip
select; the audio machine of `main_ankush.c`; the shell as `command_shell` runs it (a call that
is commented out in `src/main`).

This directory holds TLA+ modules that model the firmware's own code, TLC
configurations that check them on small instances, and proofs that hold for every
value of the constants. `PROJECT.json` lists the components, the runs, a mutation
of the code for every property, the source lines behind every definition, the
hazards and the theorems. Paths in this file are those of the repository.

## 1. Inventory

### The program's own parts

**CTF game** (`src/ctf.c`, `include/ctf.h`). State: two `Player` structs (x, y,
hasFlag) and two `Flag` structs (x, y, state). Operations: `initCTF`, the four move
functions, `moveTo`, `hasFlag`, `moveFlagTo`, the touch tests, `showEnd` (which never
returns). It calls `drawPixel` and, for the sprites, FatFs. Hard: the collision test
looks at a clamped destination; whether a flag is carried is recorded in two structs
that different functions change; `moveTo` skips what the move functions do. Correct
when players never touch or pass through each other, and the flag goes where its
carrier goes.

**Game loop** (`src/main`, see above). State: its place in the loop. Polls two push buttons, moves
player 1, tests for the flag, ends the game. Correct when the pick-up is never missed,
steady play wins and the game ends where the rules say.

**Key event queue** (`src/queue.c`). State: 32 slots, head, tail. `key_push` runs in the
keypad interrupt, `key_pop` in the main thread, with no lock. Hard: an interrupt between
any two accesses of `key_pop`; wrap-around; the limit. Correct when it is a bounded
first-in first-out queue.

**Keypad scanner** (`src/keypad.c`). State: the driven column, the last seen level of 16
keys. Two timer alarms re-arm themselves: one drives a column, one reads its rows and
pushes events. Hard: the order of the two alarms, several events in one scan, a full
queue, keys released before they are scanned. Correct when the application comes to see
what the keys do.

**UART console** (`src/uart.c`). State: a line buffer, its length, a newline flag. The
receive interrupt edits the line, `_read` waits for it and copies it,
`insert_echo_string` pre-types a text. Hard: no masking anywhere, a read-modify-write of
the length against the interrupt, a transmitter that both wait for, a full line. Correct when no
index leaves the buffer, a line is not torn and a line feed is not forgotten.

**Audio voices** (`src/audio_machine_one_core.c`). State: four voices (table, length,
position, active). A PWM interrupt at 44.1 kHz mixes them, `trigger_voice` starts one with
four stores. Hard: the interrupt between the stores, retriggering, the arithmetic of
the mix. Correct when no read leaves a table, every trigger is heard and every voice ends.
It is what the committed `main_ankush.c` runs.

**SD card driver** (`src/diskio.c`, chip select in `src/main`). State: the driver's
status byte, chip select, the card. FatFs calls it; it sends commands over SPI. Hard: cards that
are exchanged between or during calls, retries, errors half-way, chip select left in
different states. Correct when success means one card took every sector, and a good
card works again whatever happened before.

**VGA picture generator** (`src/vga_graphics.c`, `include/{hsync,vsync,rgb}.pio`). Three
PIO programs run in parallel, kept together by two interrupt flags; two chained DMA
channels feed one of them from the frame buffer. Hard: three counters (pixels, lines,
bytes) that nothing compares, and timing. Correct when every line is shown in its place
for ever and it is dark in the blanking intervals.

**Drawing functions** (`src/vga_graphics.c`). State: the frame buffer, two pixels to a
byte, and the text cursor with its size, colours and wrap flag. Hard: packing, clamping
at the border, integer errors that run along a line or a circle, wrapping. Correct when
what is on the screen is what geometry says.

**SD shell and volume** (`src/sdcard.c`) over **FatFs** (`src/ff.c`). Commands of the
console: mount, unmount, append, input, rm, ls, cat, cd, pwd, mkdir, restart. State: the
one file system object (mounted or not, a mount id, a window with one sector that may be
dirty, a hint for the next free cluster), a file object that is open while the user types,
and the card's directory, FAT and clusters. Hard: every access may fail, the power may go
and the card may be exchanged between any two; what was written to the window reaches the
card later or never. Correct when the directory never promises what the clusters do not
hold, no cluster has two owners, and a command that reports no error has done its work.

**FAT clock** (`src/sdcard.c`). State: a time in the bit fields of FAT. `date` sets it,
`advance_fattime` is written for a call every two seconds (nothing in the program makes
that call yet). Hard: `date` takes any fourteen digits, so the carries meet fields no time
has. Correct when it agrees with the calendar, from what is entered on.

**7-segment display** (`src/display.c`): a message of eight digits shown by an interrupt
while the main thread rewrites it. No code of the program calls it.

**USB keyboards** (`src/usb`, a program of its own without a suffix): HID reports to the state
of two players.

**Wavetable synthesiser and PWM breathing** (`src/support.c`, `src/main_ankush.c`): two
phase accumulators and a duty-cycle ramp in interrupts; the calls that would start them are
commented out in `main_ankush.c`.

### Other parts

lwIP and TinyUSB (`lib/`), `dr_mp3.h`: vendored. `audio_machine.c` is commented out
from its first to its last line. Fonts, samples: data. `img_to_vga.py`: a host tool.
`src/vga_main`: a demonstration without a suffix, not compiled.

### How they interact

```
 buttons --> main (game loop) --> ctf.c --> drawPixel --> frame buffer --> DMA --> PIO --> monitor
                                     \--> sprites: FatFs --> diskio.c --> SPI --> card
 keys --> alarms (keypad.c) --> queue.c --> key_pop (application)
 serial port --> receive interrupt (uart.c) --> _read --> command shell --> sdcard.c --> FatFs --> diskio.c
 showEnd --> writeString --> drawChar --> drawPixel
 play_kick ... (main thread) --> voices --> PWM interrupt --> speaker
```

## 2. Modules

| Module | Models | State and actions |
| --- | --- | --- |
| `Ctf` | `ctf.c` | the structs field by field; one action per function, each the whole function without drawing |
| `CtfMain` | `main` | extends `Ctf`; one action per statement of the loop, and the buttons |
| `KeyFifo` | the promise of `queue.h` | abstract bounded queue: `Put`, `Get` |
| `KeyQueue` | `queue.c` | `Push` atomic, `key_pop` in three steps |
| `Keypad` | `keypad.c` | extends `KeyQueue`; one action per alarm handler, an external user and application |
| `UartLine` | `uart.c` | the handler atomic, every access of the main thread to shared data a step, and an end where the code writes behind its buffer |
| `AudioVoices` | `audio_machine_one_core.c` | the interrupt atomic, every store of a trigger a step |
| `SdCard` | `diskio.c` | one action per command sent, with the driver's reaction; the card is external |
| `VgaOut` | `vga_graphics.c`, `*.pio` | one step per clock cycle of all three machines and the DMA |
| `SdShell` | `sdcard.c`, `ff.c` | one action per command for what runs up to the next access to the card, and one per access, which may fail |
| `FatClock` | `sdcard.c` | `date` with any digits, `Advance` (two seconds), beside a calendar |
| `FrameBuffer` | `drawPixel` | an operator on the packed array |
| `Shapes` | `vga_graphics.c` | extends `FrameBuffer`; one operator per drawing function, giving the pixels it draws, which `Paint` draws one by one; `Draw` puts one shape on an empty screen |
| `Text` | `vga_graphics.c` | extends `Shapes`; `SetText` for the cursor and its attributes, one `tft_write` per character |
| `MC...` | | values of constants that a .cfg cannot write |
| `...Proofs` | | theorems about the module of that name; `CtfProofs` also about `CtfMain`, `KeyQueueProofs` about `Keypad`; `MediaProofs` about `SdCard` and `FatClock`, what FatFs asks of its surroundings; `DrawingProofs` about `FrameBuffer`, `Shapes` and `Text` |

Composition: `CtfMain`, `Keypad`, `Shapes` and `Text` extend the modules whose operations
they call; the queue, under the keypad's interrupts, is shown to implement `KeyFifo`. `SdShell` uses what `SdCard` shows of the driver: a call
succeeds or reports an error and changes nothing, and it initialises an exchanged card by
itself.

What each model leaves out, and why that is sound:

* `Ctf`: pixels. `ctf.c` writes the frame buffer and never reads it. `hasFlag(p, 1)` is
  enabled when `p` touches its flag and does not hold it, `hasFlag(p, 0)` when it holds
  it, `moveFlagTo` to reset a flag nobody holds: what the comments of `ctf.h` and the
  caller in `main` do. After `showEnd` nothing is enabled: the function spins.
* `CtfMain`: the wait after a pass. Buttons may change between any two steps. The steps of the
  loop are `Ctf`'s own actions.
* `KeyQueue`: an event is an opaque value. A push is one step since the handler cannot
  be interrupted by the consumer.
* `Keypad`: times. The alarms may fire in any order and any number of times, except
  that a drive precedes the first scan (they are armed 10 ms apart).
* `UartLine`: time. Any number of interrupts come between two steps of the main thread: the
  handler waits for the transmitter (three characters for a backspace), so at full speed the
  next byte is there when it returns, and the main thread waits on. An overrun byte is lost in
  hardware. Where `insert_echo_string` stores behind `serbuf` the model ends (`pc` is
  "beyond"): what lies there is the linker's choice. Two history variables count: `crowd` the
  characters that came during the echo of one, `low` how far the line was rubbed out during the
  copy. What is counted is what the properties are conditional on, never a guard.
* `AudioVoices`: samples are any of the set `Samples`, drawn anew at each interrupt; a
  voice's pointer is "set to its own table" or not. At most `Gap` interrupts come between
  two stores: the main thread runs between interrupts.
* `SdCard`: data bytes. A card hears commands while chip select is asserted, may err at
  any command whose answer the driver tests, and may be removed or exchanged between any
  two commands. A card comes up eventually if it is left alone. Between the first CMD0 and
  the end of `disk_initialize` the driver releases chip select after each command.
* `VgaOut`: a byte of the frame buffer is its index, a pixel its number. The DMA may be up
  to `Slack` cycles late with each transfer; `Slack < 10` is assumed, since rgb takes a byte
  every ten cycles and the DMA could not keep up with it otherwise. The other numbers agree as
  in `initVGA` (`TimingAssumption`): 655 = 2 * 319 + 17, and 153600 is one picture.
* `SdShell`: a typed line is a unit, and a sector holds `PerSector` of them, so a line does
  not straddle two sectors. The volumes are FAT16, formatted alike, with one sector per
  cluster, one sector of directory (with a place for every name) and one of FAT; the second
  copy of the FAT is written and never read, FSInfo and the count of free clusters are FAT32's.
  A write that fails leaves the sector as it was. A failure with a card in the slot appears as
  the card taken out and put back. `cat`, `cd`, `pwd` and `mkdir` are left out: they read, or
  need subdirectories.
* `FatClock`: only the fields, not the printed text. The calendar runs beside the clock when
  what was entered exists, in a year from 1980 to 2107; else only the clock runs.
* `Shapes`, `Text`: a shape is one colour, so its pixels are a set; the dots of a character
  are painted in order. Of the font two glyphs.

## 3. Runs

`tlc -config <cfg> <module>`; every run is exhaustive. `sd_shell` uses the symmetry of file
names (its properties are invariants and an action property); no other run uses symmetry.

| Run | Bounds | Shows |
| --- | --- | --- |
| `ctf_walk` | 8 x 4 board, squares of 2, steps of 1 and 2, player 1 may carry, resets with `moveTo` | players never touch or pass through each other unless a reset put them there; a carried flag follows |
| `ctf_loop` | the program's own numbers | nothing moves after the touch, holding right wins |
| `keypad_scan` | 2 x 2 keys of which 2 in one column are touched, 3 slots | refinement of `KeyFifo`; the slot being popped is stable; until something is dropped the application's view, brought up to date with the queue, is the scanner's; events alternate; a scan drops only what has no room; a held key is seen; a seen press is delivered |
| `uart_console` | buffer of 3, 3 pre-typed characters, 2 printable ones | indices in range until two characters come during the echo of one; lines not torn, line feeds not forgotten |
| `audio_mix` | 3 voices of 2 or 3 frames, samples -32768, -1, 0, 32767, period 3401 | reads in range, no stuck voice, triggers heard, level in range, the mix between its parts, voices end |
| `sd_cards` | 2 cards, 2 tries of CMD0, 2 sectors | success means one card and all sectors; bus released; a call with an undisturbed card succeeds whatever came before; calls return |
| `sd_sectors` | the same | **violation**: `GET_SECTOR_COUNT` fails with a good card |
| `sd_shell` | 2 names, 3 clusters, 2 lines a sector, files of up to 3 lines, 1 reset or removal | what the directory says is in the clusters; no cluster in two files; success is on the card |
| `sd_stale` | 2 cards, 1 name, 2 clusters | **violation**: FatFs goes on with the tables of the old card |
| `vga_frames` | real line (655, 319), 2 lines a picture, porches of 2 lines, DMA late by up to 8 cycles | pixels, lines and bytes aligned; dark in the blanking; the FIFO never empty within a line; a line is 800 clocks; every line shown for ever |
| `drawing` | 20 x 20 screen; lines of a 6 x 6 corner, circles and discs up to radius 5, boxes up to 9 x 9, pixels in 16 colours up to 2 off the screen, texts up to 4 characters in 2 sizes, from 3 columns | each shape against geometry; only the pixel asked for changes; a text that fits is whole |
| `fat_clock` | years around every leap rule and the limits of the field, months 0 to 13, 15 and 99, days 0, 1, 15, 28 to 32 and 99, times around every carry and the widths of the fields, 2 ticks before and 2 after the date | a right clock is the calendar except at the listed days; a month with a name is followed by one with a name, whatever the other fields hold |

Why the bounds are enough:

* The board of `Ctf` has room for both clamps, a square parked at `x = W`, a meeting of
  the squares from every side and a gap smaller than a step; the proofs (section 5) cover
  every board. One player carries in TLC's runs because the flags do not interact;
  the proofs let both carry.
* In `keypad_scan` the two touched keys are both in the second column, so that a scan
  can push two events and the queue of two events can overflow; the first column shows the
  drive order. Three slots make the limit reachable, and let the queue be empty, partly full,
  full and wrapped in every position of the cursors; the proofs cover every number of slots.
* The UART buffer of 3 is filled by the pre-typed text, by the user, and by both, and overrun
  when both type at once.
* The tables of `audio_mix` are longer than `Gap`, as the real ones are (60328 frames and
  more against a few), and short enough to end during a trigger. The samples are the
  extremes and the two values where C's rounding towards zero and a shift differ.
* Two tries of CMD0 tell first, last and exhausted; two sectors tell first and last.
* `vga_frames` scales only the number of lines. Two lines a picture and two in each porch
  tell first, middle and last; the behaviour within a line, where the timing is, is
  the program's, cycle for cycle. A slack of 8 is less than the 10 cycles of a byte. The
  proofs cover every number of lines.
* In `sd_shell` a file needs two clusters, two files need four of the three, so the card
  fills up, chains are freed and reused, and the first and the last line of a sector differ.
  One fault hits every point of every command. Larger instances were run as well without an
  error: two faults (10.7 million states); four clusters and files of five lines (18.8
  million states).
* `drawing`: the corner has every slope of a 6 x 6 grid in all eight directions; radii 0 to 5
  have both branches of the circle's error in every order; the screen of 20 columns is not a
  multiple of a character, and a text of four wraps and then goes on; from column 17 not one
  character has room.
* `fat_clock` starts at the ends of every month and on a day in its midst, at times around every
  carry, and just within and beyond what each field can hold; two ticks cross every boundary.

`CHECK_DEADLOCK FALSE` is used where the system really stops: the game after `showEnd`,
the console when nobody types any more (or it wrote behind its buffer), and where a bound of the model ends a behaviour
(`drawing` after its one shape or text, `fat_clock` after `MaxTicks`).

### Fairness

* `CtfMain`, `UartLine`: weak fairness of the main thread as a whole. It is the only
  thread, its loops have no other wait than the ones modelled as guards, and interrupts
  hold it up only as long as bytes arrive without a pause. Nothing is assumed of users.
* `KeyQueue`, `SdShell`, `FatClock`, `Shapes`, `Text`: none, they have safety properties only.
* `Keypad`: weak fairness of the drive alarm and of the application, which calls `key_pop`
  in a loop; strong fairness of
  the scan *in each column*. Both alarms re-arm themselves after 25 ms plus the time of
  their work, so they drift a few microseconds in a period: they pass through every phase
  and do not stay locked to one column. A scan that always met the same column would need
  a drive exactly every fourth of its own period.
* `AudioVoices`: the PWM keeps wrapping; the main thread finishes a trigger it began.
* `SdCard`: the driver runs on (weak fairness of its steps), and a card that is left
  alone finishes its start-up after finitely many CMD41.
* `VgaOut`: the clock ticks.

### Disagreements found

* `sd_sectors`: `diskio.c:345` promises the number of sectors. `disk_ioctl` does not assert
  chip select for CMD9: it relies on `disk_status` leaving it asserted, which it does not
  if the card had to be initialised.
* `sd_stale`: `ff.c:3419` returns with the comment that the object "is already valid" when
  `disk_status` does not say STA_NOINIT. The driver's `disk_status` initialises an exchanged card
  by itself (`diskio.c:203-214`) and so never says it: FatFs writes the directory and the FAT of
  the old card to the new one.

Noted without a run of their own:

* `ctf.h:42` says that `moveRight` "moves player right by dist"; `ctf.c:57` tests the right
  edge against 640 but sets the *left* edge to 640. A player within a step of the edge jumps by
  up to its own size, off the screen.
* A reset with `moveTo` leaves a carried flag behind until the next step, though `ctf.h:56`
  says otherwise.
* `ctf.h:70` says that `showEnd` is called if a player "reaches their endzone with enemy flag"; the
  loop calls it at the pick-up (`src/main:114-117`), in the middle of the field, and nothing calls
  `playerInEndZone`.
* What the moves paint: `moveUp` paints its new rows one row low (`ctf.c:144-149`), `moveLeft`
  takes the unclamped step (`ctf.c:115`) and so erases beside the square at the left wall,
  `moveFlagTo` leaves a box in the carrier's square, and a sprite's colours above 7 set a bit
  of the pixel to the right (`PixelAlone` says exactly which).
* `insert_echo_string` is to copy its text "into serbuf" (`uart.c:105`). It tests for room (line 111),
  waits for the transmitter (113) and stores (114). If two characters come during the wait `seridx`
  reaches 100 and the store goes to `serbuf[100]`; after it the handler's own test
  `seridx == BUFSIZE` fails, so that it goes on behind the array. TLC reaches this in
  `uart_console` (the action `InsertBeyond`); `OverrunTakesTwo` says that nothing less leads to it.
* What is pre-typed "can be edited by the user" (`uart.c:103`). In a full line the handler returns
  before it reads the data register (`uart.c:41`): a backspace stays there, and with it the
  console is silent for good, also when `_read` has reset the line.
* After an empty line `argc` is 0 and `argv[0]` is not initialised; `uart.c:129` reads it.
* `_read` returns `length`, whatever it copied (`uart.c:73`), so its caller takes what earlier and
  longer lines left in its memory for input as well.
* Two line feeds before `_read` clears the flag are one line feed, and what is typed between the
  copy and `seridx = 0` is discarded. `NewlineIsTaken` and `CopyIsLine` do not speak of them.
* `queue.h:8` says the queue holds 32 events; it holds 31.
* A trigger of a playing voice lets the interrupt see the old position for a moment
  (`audio_machine_one_core.c:129-130` thinks of the order of the stores only).
* `mount` asks `fs->id` whether the volume is mounted (`sdcard.c:319`), `unmount` does not clear
  it: after an unmount every mount says "Already mounted" until the program is restarted.
* On a full card `f_write` returns FR_OK with nothing written; `append` and `input` do not look
  at the number of bytes and the lines are lost silently (`sdcard.c:213`). `SuccessIsOnCard`
  counts a short write as an error FatFs reported.
* A command that failed may leave a change in the window, which the next command completes: a
  removal that printed an error may happen later. `EntryIsBacked` and `ChainsApart` hold
  all the same.
* `advance_fattime` (`sdcard.c:67-96`): February of an ordinary year does not end; in a leap year
  29 February is followed by 2 March, and in 2100 so is 28 February (whatever follows the
  missing braces); October has 30 days, and a clock set to its 31st goes to 1 November two
  seconds later; November has 31. `AdvanceIsCalendar` says that these are the only days on which it
  goes wrong.
* `date` takes any fourteen digits (`sdcard.c:159-174`). A month 0, or one of 13 to 15 (what four
  bits keep of 29 as well), is stored, and the months 1 to 12 are the only ones with a name:
  line 187 prints a null pointer for 0, as it does before any date is entered, and reads behind
  `month_name` for 13 to 15. The clock itself never leaves the named months
  (`MonthStaysNamed`), but from an unnamed one it need not find back.
* `vga_graphics.c:39` calls `tabspace` a number of spaces; `tft_write` moves by that many pixels.

## 4. Mutations

For every property of a passing run there is a changed definition (named after what the
bug would be, such as `Transfer_Once` or `key_push_HeadFirst`) under which TLC finds that
property violated in the same configuration. They stand before the definition they change.

## 5. Proofs

`tlapm <module>`; the theorems hold for every value of the constants that satisfies the
named assumptions, which TLC evaluates for the runs' values. An invariant is proved from an
inductive one: a step for `Init`, one per action (a lemma of its own where it is long), one for
what the invariant implies, and a `PTL` step at the end.

**`CtfProofs`**: `BoardTheorem` (`TypeOK`), `NoTouchTheorem`, `FlagTheorem`
(`CarriedFlagFollows`), for every board, size, starting place and set of carriers
(`SizesAssumption`, `StartAssumption`, `CallersAssumption`), resets included. These three with
`FlagStateAgrees` are together inductive: `NoTouch` follows from the test in `Step` and the
symmetry of touching (a lemma); `CarriedFlagFollows` needs `FlagStateAgrees` (a flag in state
TOUCHED or WITH has a carrier) and `Grip \in 0..Size` (the grip point lies in the square).
`PassTheorem`: `NoPassThrough`. A step moves one player along one axis and ends outside
the other square; to pass it would have to clear a width of two sizes, and even the
jump of the right clamp is not more than a size plus a step, with steps of at most a size.

About the loop, `LastStepTheorem`: `NoStepAfterTouch`. It rests on an invariant of what each place of
the loop knows (outside the test, player 1 holds no flag, and touches it only where a step has
just been made), which is true at the start because player 1 does not start on its flag
(`LoopAssumption`, as in `main`), and on a lemma that every statement of the loop is an action of
`Ctf`'s `WalkSpec` or a stutter, so that the invariants above hold of it.

**`KeyQueueProofs`**: `SlotTheorem` and `NoPhantomTheorem` for every number of slots greater
than 1. The strengthening is that the consumer's place is tied to the cursors: between its test
and its store the queue is not empty and the slot at tail is the one it read.
`QueueImplementsFifo`: `Spec` implies `Fifo!Spec` under the mapping of `pending`. Lemmas say
what a push and a pop do to `Count` and `pending`: a push that is taken appends, an advance
drops the head, all else stutters.

On top of the queue, for every number of rows, columns and slots: `KeypadSlotTheorem`
and `KeypadImplementsFifo`, where a scan pushes the events of its rows one after another;
`ViewTheorem` (`ViewCatchesUp`) and `AlternateTheorem` (`EventsAlternate`). The invariant is
`ViewCatchesUp` itself with the queue's: applying the waiting events to the application's view
gives the scanner's state. A push that is taken changes both sides at the same key; a pop moves
one event from the queue to the view; once an event is dropped nothing more is claimed.
`EventsAlternate` follows: an event differs from what was seen of its key before.
`OverflowTheorem` (`OnlyOverflowIsDropped`): in the loop of one interrupt the changes seen so far all
wait, or the queue is full; each turn takes its own key from those that are not seen and no
other, and the loop comes to every key of the column (`ScanLoopLemma`, an induction over the
turns of the fold).

**`UartLineProofs`**: for every buffer length, and any number of interrupts anywhere.
`OverrunTheorem` (`OverrunTakesTwo`): neither the interrupt nor `_read` leaves the array, and the
echo does so only after two characters during the echo of one. The invariant says that at its store the index
is at most `BUFSIZE - 2 + crowd` as long as `crowd` has not reached two. `CopyTheorem`
(`CopyIsLine`): the characters copied so far are those of the line up to where it was rubbed out
at the lowest (`low`): the places below `low` have been below `seridx` since the copy began, so no
interrupt writes them; and the copy ends only when it has reached the end of the line as it
is then.

**`AudioVoicesProofs`**: `TableTheorem` and `NoStuckTheorem`, for every number of voices and every
table longer than `Gap`. The strengthening (`TableInv`) says, by the place in the trigger, what
is already stored: a pointer is set before a length is, a length is 0 or the table's, and just
before the last store the position is at most the number of interrupts since it was reset,
hence before the end. `TriggerIsHeard`: the action property `StartIsHeard` from the same
invariant. `LevelTheorem` and `MixTheorem`: the mix of any finite set of voices. The sum over
the set (a fold) is bounded by induction on the size of the set; the rest is C's division,
which rounds towards zero.

**`MediaProofs`**, the driver: `BusTheorem`, `OneCardTheorem`, and `RecoveryTheorem` (the action property
`SwapIsRecovered`), for every set of cards, number of tries and sectors. The invariant says of
each place of the driver what the call that got there has shown: an initialised card has not
been exchanged since, the sectors of a transfer all came from one card, which is the one in the
slot if that is ready, and how far a call that nothing disturbed has brought its card. That a call returns
at all is liveness and stays with TLC.

**`SdShellProofs`**: `ApartTheorem` (`ChainsApart`), for any files, cards, clusters and lines per
sector, and any number of resets, failing accesses and exchanged cards. `ChainsApart` is not
inductive. What is: the FAT is a set of chains (every cluster has at most one predecessor, no
chained cluster is free), and the directory's entries begin at different heads of chains;
this holds of every card and, with the sector in the window in its place, of the volume as FatFs
sees it. To it come what the file object and the command in progress know: the chain of an
open file, and the chain about to be freed, belong to no other entry. A cluster that is
allocated was free, hence in no chain; freeing a chain cuts it at its head, which nothing refers
to any more. That two chains with different heads are disjoint is proved by well-founded
induction on the place in the chain.

`BackedTheorem` (`EntryIsBacked`), under the same assumptions. On top of the sound volumes its
invariant (`Backing`) says that every entry's lines are in the clusters of its chain on each card
(`DisksHeld`) and as FatFs sees the volume (`ViewHeld`); that a chain on the card is the
beginning of the one in the window (`Prefix`), since the window may still wait to be written;
that an entry on the card is an earlier one of the same file (`Mixed`); and of the open file that
its lines are on the card, but for those of its last cluster if the buffer is dirty, and where
the file stands: at its last cluster, with that cluster's lines in the buffer if it is not full
(`FileOK`). Without `Prefix` the write of the directory before that of the FAT could not be
shown to be harmless, without `Mixed` the buffer could be written over another file's lines. The
lemmas are about chains (allocating and freeing make the other chains longer at most, no
cluster comes twice in a chain) and about lines and clusters (there is one last cluster, it is
full if the lines come out even), for any number of lines in a sector.

`SuccessTheorem` (the action property `SuccessIsOnCard`) needs in addition what a command has
promised (`Promise`): while nothing has failed, the open file counts every line typed and is
marked as modified if there is one, and before the last write of the window the entry in it, or
already on the card, is the one promised. The last write then puts it on the card.

TLC had checked the three invariants on the configuration of `sd_shell` (1 558 310 states).

**`VgaOutProofs`**: `TypeCorrect` (`TypeOK`), `LinePeriodAlways`, `DarkInPulsesAlways`,
`NeverStarvedAlways` and `LinesAlignedAlways`, for every width and height of a picture, both
porches and every delay of the bus below ten cycles (`VgaAssumption`, `TimingAssumption`). The
three machines never look at each other but through two flags, so the proof gives them a common
clock: `Clock` turns the place, the counter and the delay of hsync into the clocks since its last
interrupt, `Cycle` into cycles of the system. The invariant (`IInv`) has six parts:

* `HsyncInv`: the history variable `since` is that clock, from which `LinePeriod` follows;
* `VsyncInv`: at which of its places vsync can be at clocks 0, 1, 2, 3 and later, when each
  flag is set, and that the line it counts is in its registers;
* `RgbInv`: every place of rgb within a line, with its counter and delay, is one cycle of the
  clock (`RgbCycle`), and vsync is then at a place where a line is shown. The last byte ends
  before the clock of the next interrupt, so rgb is dark and waiting when hsync goes low;
* `ColourInv`, `BytesInv`: the FIFO holds consecutive bytes of the frame buffer (`Chain`), the
  first is the one that rgb takes next (`Upcoming`, computed from the line of vsync and the
  counter of rgb), the last is before the address of the DMA. This ties the three counts;
* `DmaInv`: `Work` is the number of cycles in which the DMA, as late as it may be, fills the FIFO.
  It falls by one in each cycle at least, grows by a turn (`Slack + 1`) when rgb takes a byte,
  which is every ten cycles, and by one more turn at the end of the frame buffer, which the DMA
  passes at most once in a line. An empty FIFO where rgb needs a byte would be more
  work than that allows; between lines there is time to fill it.

The places of the machines come from the programs by lemmas (`HsyncCode`, `VsyncCode`, `RgbCode`),
one lemma per operation says what it does to a machine, one per machine what each place
does. TLC had checked `IInv` with the real line and with small pictures at a slack of 8 and 9.
The proof showed that the model had left `since` open in a cycle where two guards of a CASE
overlapped; it is an IF now.

**`DrawingProofs`**: about the operator `drawPixel`, for every screen of even width:
`PixelInArray` (whatever the coordinates, the write is inside the array), `PixelIsDrawn` and
`OthersStay` (in a colour of three bits no other pixel changes). They rest on a lemma that two
places of the screen have the same number only if they are the same place. `Paint`, which draws
a set of pixels in whatever order, is shown by induction over finite sets to change exactly
these. `PixelTheorem` (`PixelAlone`): every pixel in every colour, at and beyond the
borders. `LineTheorem` (`LineIsStraight`): every line between two points of any screen. The
invariant of the loop is the closed form of its running error: after `i` turns that
moved `k` rows, `error = dx \div 2 - i * dy + k * dx`, and it lies in `0..(dx - 1)`; hence the
line is never more than half a pixel off and ends in its last row. The three other octant
pairs follow by exchanging the ends and the axes.
`CircleTheorem` (`CircleIsRound`): every circle that fits on the screen. The invariant of the
loop of `Arc`: with `Off = x*x + y*y - r*r`, the running error is exactly `f = Off + 2*x + 1 - y`;
`Off` stays within plus or minus `y`, `y` at the lower end only where the diagonal is reached; and
`x` and `y` move by at most one in a turn, so the eighth of the circle and its mirror image
meet every column and every row (`ArcLemma`, `QuarterLemma`). `FillTheorem` (`FillMeetsOutline`): every
disc, rectangle and box with round corners that fits. An outline that a horizontal axis mirrors has as
its hull, in each column, what lies between a point and its image (`HullLemma`); the
filling loops draw, for each point of the quarter, just that (`DiscLemma`, `FillBoxLemma`), and the
straight sides of a box lie in the first and last column of the quarter (`BoxHullLemma`). They assume
`MenuAssumption`: the shape is on the screen (`drawPixel` paints on the border what is beyond),
in another colour than the ground, and the corners of a box do not meet (`2*r` less than its sides).
The invariant also bounds `f` by `2*r + 1` on both sides, so that the code's `short` is wide
enough for every circle on 640 by 480 pixels.
`TextTheorem` (`TextIsWhole`): every text of every length, in every size and colours, with the wrap
on or off. The property says where a character belongs by counting in the text alone: line feeds
and full lines before it give the row, the characters after the last line feed the column. The
invariant (`TextInv`) has three parts: the cursor is where the next character belongs
(`NextPlaceLemma`: the test that looks one character ahead, `LineIsFull`, agrees with the division
and the remainder of the count, `WrapLemma`); everything printed so far is above the cursor or left of it
(`Behind`), so that a new character falls on no older one (`ApartLemma`); and as long as the
text fits, the screen shows what it should. That a character is whole (`CharLemma`) is an induction
over the 48 dots of `drawChar`, for its squares of `size` pixels. Tabs are left out of it, they
move by pixels; the code's cursor has 16 bits and the model's none, which no text that fits can tell.
While the proof was attempted TLC refuted an earlier form of the property, which put a
character in the next line where the line begins too far right for even one: `tft_write`
looks ahead only after a character, and the first one is drawn over the border. The
property now says that a line holds one character at least (`Room`), and the run
includes such a beginning (column 17 of 20).

**`MediaProofs`**, the clock, for any digits entered: `MonthTheorem` (`MonthStaysNamed`). The invariant
is only that the fields are integers; that a named month is followed by a named one then holds
of every step, for the clock's wrong days and for fields no time has. `CalendarTheorem`
(`AdvanceIsCalendar`). The invariant is that the calendar beside
the clock stays on days that exist and times of day that have hours, minutes, bi-seconds and an
odd second. A step is then a case for each carry within the day, and for its last tick a
case for each kind of month (of thirty days, of thirty-one, October and November apart,
February of ordinary years, leap years and 2100), each with and without the end of the month.
The property stops at 2107, where the seven bits of the year are used up: the 128 years stored
after them do not have their leap years at the same places (2200).

### Only model-checked

* Liveness: `HoldingRightWins`, `HeldKeyIsSeen`, `SeenPressIsDelivered`, `NewlineIsTaken`,
  `VoicesEnd`, `CallsReturn`, `EveryLineShown`. Fairness and ENABLED are out of the prover's
  reach.

Every safety property of a passing run is stated by a theorem.

## 6. Not modelled

* The vendored libraries: lwIP (nothing calls it), TinyUSB (nothing that is compiled calls it),
  `dr_mp3.h`, and the parts of FatFs that no command uses (FAT32, exFAT, long names,
  `f_mkfs`, `f_printf`, ...). They are nearly all of the repository's lines, which is why
  the definitions cover a small share of them; a model of a stack the firmware does not run
  would say nothing about the firmware. Fonts, samples and pictures are data.
* What the moves of `ctf.c` paint: no decision depends on it (see the list above).
* `command_shell` and its parsing: sequential, on a private copy of the line.
* `cat`, `cd`, `pwd`, `mkdir`: see section 2.
* `display.c`, `support.c` and the PWM ramp of `main_ankush.c`: compiled, but nothing starts them;
  the rest of `main_ankush.c` calls `audio_machine_init` and `play_sad_sample` and waits.
  `audio_machine.c` is commented out, `vga_main` and `usb` are programs of their own that the
  build does not compile.
* Real time other than the order and counts named above; among others that `hsync.pio` divides by 5
  for 125 MHz while `audio_machine_one_core.c:99` counts on 150.

## 7. Plan

The modules of the plan are built, and the theorems on timing, queues, volumes, drawing and the game
are proved. What is left is what section 6 lists.
