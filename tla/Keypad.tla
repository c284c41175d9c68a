------------------------------- MODULE Keypad -------------------------------
(***************************************************************************)
(* The keypad scanner of src/src/keypad.c on top of the key event queue.   *)
(* One timer alarm drives the next column, another reads the rows of the   *)
(* driven column and pushes an event for every key that changed. Each      *)
(* handler re-arms its own alarm 25 ms after it ran, so the two drift and  *)
(* may come in any order; only the first drive is known to precede the     *)
(* first scan (the alarms start at 1.00 s and 1.01 s).                     *)
(*                                                                         *)
(* The application is external: it keeps the set of keys it takes to be    *)
(* down, from the events it pops.                                          *)
(***************************************************************************)
EXTENDS KeyQueue, SequencesExt

CONSTANTS
    Cols, Rows,   \* 4 and 4
    Touched       \* the keys somebody touches (all of them)

Keys == 0..(Cols * Rows - 1)
KeyOf(c, r) == c * Rows + r

\* An event is (1 << 8)|keymap[key] or (0 << 8)|keymap[key]; keymap is one to
\* one, so the key stands for its character.
KeyEvent(k, isDown) == [key |-> k, down |-> isDown]

ASSUME KeypadAssumption ==
    /\ Cols \in Nat \ {0} /\ Rows \in Nat \ {0}
    /\ Events = [key : Keys, down : BOOLEAN]
    /\ Touched \subseteq Keys

VARIABLES
    col,       \* the driven column, -1 before the first drive
    state,     \* the keys whose press was seen by a scan
    pressed,   \* the keys that are physically down
    view,      \* the keys the application takes to be down
    lost       \* whether key_push ever dropped an event

keypadVars == <<queueVars, col, state, pressed, view, lost>>

KeypadInit ==
    /\ Init
    /\ col = -1
    /\ state = {} /\ pressed = {} /\ view = {}
    /\ lost = FALSE

\* A user presses or releases a key.
Touch(k) ==
    /\ pressed' = IF k \in pressed THEN pressed \ {k} ELSE pressed \union {k}
    /\ UNCHANGED <<queueVars, col, state, view, lost>>

\* Mutant: the last column is never driven.
keypad_drive_column_Short ==
    /\ col' = IF col + 1 > Cols - 2 THEN 0 ELSE col + 1
    /\ UNCHANGED <<queueVars, state, pressed, view, lost>>

keypad_drive_column ==
    /\ col' = IF col + 1 > Cols - 1 THEN 0 ELSE col + 1
    /\ UNCHANGED <<queueVars, state, pressed, view, lost>>

\* Mutant: a release updates state but pushes nothing.
ScanRow_PressOnly(s, k) ==
    IF k \in pressed <=> k \in s.state THEN s
    ELSE IF k \in pressed
    THEN [kev |-> key_push(s.kev, KeyEvent(k, TRUE)), state |-> s.state \union {k},
          lost |-> s.lost \/ Full(s.kev)]
    ELSE [s EXCEPT !.state = @ \ {k}]

\* Mutant: a key that is down is pushed at every scan.
ScanRow_Repeat(s, k) ==
    IF k \notin pressed THEN [s EXCEPT !.state = @ \ {k}]
    ELSE [kev |-> key_push(s.kev, KeyEvent(k, TRUE)), state |-> s.state \union {k},
          lost |-> s.lost \/ Full(s.kev)]

\* What s becomes when the loop of keypad_isr comes to the key k.
ScanRow(s, k) ==
    IF k \in pressed <=> k \in s.state THEN s
    ELSE [kev |-> key_push(s.kev, KeyEvent(k, k \in pressed)),
          state |-> IF k \in pressed THEN s.state \union {k} ELSE s.state \ {k},
          lost |-> s.lost \/ Full(s.kev)]

\* One interrupt handles all rows of the column: up to Rows pushes in a row.
keypad_isr ==
    /\ col # -1
    /\ LET s == FoldLeft(ScanRow, [kev |-> kev, state |-> state, lost |-> lost],
                         [i \in 1..Rows |-> KeyOf(col, i - 1)])
       IN  kev' = s.kev /\ state' = s.state /\ lost' = s.lost
    /\ UNCHANGED <<consumerVars, col, pressed, view>>

Apply(v, e) == IF e.down THEN v \union {e.key} ELSE v \ {e.key}

\* The application runs key_pop and acts on what it returns.
Consume ==
    /\ Pop
    /\ view' = IF pc = "advance" THEN Apply(view, value) ELSE view
    /\ UNCHANGED <<col, state, pressed, lost>>

KeypadNext ==
    \/ keypad_drive_column \/ keypad_isr
    \/ Consume
    \/ \E k \in Touched : Touch(k)

\* Both alarms keep firing, and they drift slowly (a few microseconds in 25 ms):
\* every column is scanned again and again. The application keeps popping.
KeypadSpec ==
    /\ KeypadInit /\ [][KeypadNext]_keypadVars
    /\ WF_keypadVars(keypad_drive_column)
    /\ \A c \in 0..(Cols - 1) : SF_keypadVars(keypad_isr /\ col = c)
    /\ WF_keypadVars(Consume)

-----------------------------------------------------------------------------
(* Properties.                                                               *)

\* As long as the queue dropped nothing, the scanner and the application agree
\* across the queue: the view, brought up to date with the events that wait
\* (the one being popped included), is the state of the last scans.
ViewCatchesUp == ~lost => FoldLeft(Apply, view, pending) = state

\* Until something is dropped, no event tells the application what it knows
\* already: the presses and releases of every key alternate.
EventsAlternate ==
    ~lost => \A i \in DOMAIN pending :
        pending[i].down <=> pending[i].key \notin FoldLeft(Apply, view, SubSeq(pending, 1, i - 1))

\* The keys of the driven column that changed since they were scanned.
News == {k \in {KeyOf(col, r) : r \in 0..(Rows - 1)} : ~(k \in pressed <=> k \in state)}

\* key_push drops what does not fit and nothing else (queue.h:25): after a scan
\* as many more events wait as there was news, or the queue is full, wherever in
\* key_pop the interrupt came.
OnlyOverflowIsDropped ==
    [][keypad_isr => Len(pending') = Min({Len(pending) + Cardinality(News), N - 1})]_keypadVars

\* A key held down is in the end, and from then on, seen as down.
HeldKeyIsSeen ==
    \A k \in Touched : []~lost /\ <>[](k \in pressed) => <>[](k \in view)

\* A tap that ends before its column is scanned leaves no trace, but one that a
\* scan saw is delivered as a press even if the key is released meanwhile.
SeenPressIsDelivered ==
    \A k \in Touched : []~lost => (k \in state ~> k \in view)
=============================================================================
