------------------------------ MODULE UartLine ------------------------------
(***************************************************************************)
(* The serial console of src/src/uart.c: the receive interrupt edits a     *)
(* line in serbuf, _read waits for the line feed and copies the line to    *)
(* its caller, insert_echo_string pre-types a text. The interrupt is       *)
(* atomic to the main thread; the main thread's accesses to seridx,        *)
(* newline_seen and serbuf are steps of their own, in the order of -O0.    *)
(*                                                                         *)
(* Any number of interrupts may come between two steps: the handler waits  *)
(* for the transmitter, so at full speed the next byte is there when it    *)
(* returns, and the main thread waits on.                                  *)
(***************************************************************************)
EXTENDS Integers

CONSTANTS
    BUFSIZE,    \* the size of serbuf (100)
    Length,     \* what the C library asks _read for (its buffer, 1024)
    Typed,      \* the length of the text insert_echo_string types (19)
    Chars,      \* printable characters
    LF, BS,     \* 0x0A and 8
    NUL,        \* the contents of a cleared place
    Empty       \* the receive register holds nothing

ASSUME UartAssumption ==
    /\ BUFSIZE \in Nat \ {0} /\ Length \in Nat /\ Length >= BUFSIZE
    /\ Typed \in Nat
    /\ {LF, BS, NUL, Empty} \cap Chars = {}
    /\ LF # BS /\ NUL # LF /\ NUL # BS /\ Empty \notin {LF, BS, NUL}

VARIABLES
    seridx, newline_seen, serbuf,   \* the globals of uart.c
    dr,         \* the UART's one-byte receive register
    pc,         \* where the main thread is
    i,          \* the loop variable of _read and of insert_echo_string
    idx,        \* the value of seridx that serbuf[seridx++] = c has loaded
    buffer,     \* the memory _read copies to
    crowd,      \* history: the characters that came during one echo; 2 is two or more
    low         \* history: how far the line was rubbed out during the copy

shared == <<seridx, newline_seen, serbuf>>
thread == <<pc, i, idx, buffer>>
history == <<crowd, low>>
vars == <<shared, dr, thread, history>>

Init ==
    /\ seridx = 0 /\ newline_seen = FALSE
    /\ serbuf = [k \in 0..(BUFSIZE - 1) |-> NUL]
    /\ dr = Empty
    /\ pc = "insert" /\ i = 0 /\ idx = 0
    /\ buffer = [k \in 0..(Length - 1) |-> NUL]
    /\ crowd = 0 /\ low = 0

-----------------------------------------------------------------------------
(* The receive interrupt.                                                    *)

\* uart_rx_handler. When the buffer is full it returns without reading dr.
Handle(c) ==
    \/ seridx = BUFSIZE /\ dr' = c /\ UNCHANGED shared
    \/ /\ seridx # BUFSIZE
       /\ UNCHANGED dr
       /\ CASE c = LF -> newline_seen' = TRUE /\ UNCHANGED <<seridx, serbuf>>
            [] c = BS -> /\ seridx' = IF seridx > 0 THEN seridx - 1 ELSE 0
                         /\ serbuf' = [serbuf EXCEPT ![seridx'] = NUL]
                         /\ UNCHANGED newline_seen
            [] OTHER  -> /\ serbuf' = [serbuf EXCEPT ![seridx] = c]
                         /\ seridx' = seridx + 1
                         /\ UNCHANGED newline_seen

Copying == {"copy", "pass", "reset"}

\* A byte arrives. The register is one deep (uart_set_fifo_enabled is
\* called with false): a byte that finds it occupied is lost and raises no interrupt.
uart_rx_handler(c) ==
    /\ pc # "beyond"
    /\ dr = Empty
    /\ Handle(c)
    /\ crowd' = IF pc = "echo" /\ seridx' > seridx /\ crowd < 2 THEN crowd + 1 ELSE crowd
    /\ low' = IF pc \in Copying /\ seridx' < low THEN seridx' ELSE low
    /\ UNCHANGED thread

-----------------------------------------------------------------------------
(* insert_echo_string, before the first command is read.                     *)

InsertReset ==
    /\ pc = "insert"
    /\ seridx' = 0 /\ newline_seen' = FALSE
    /\ pc' = "memset"
    /\ UNCHANGED <<serbuf, dr, i, idx, buffer, history>>

InsertMemset ==
    /\ pc = "memset"
    /\ serbuf' = [k \in 0..(BUFSIZE - 1) |-> NUL]
    /\ pc' = "check" /\ i' = 0
    /\ UNCHANGED <<seridx, newline_seen, dr, idx, buffer, history>>

\* Mutant: no place is kept free.
InsertCheck_NoSpare ==
    /\ pc = "check"
    /\ pc' = IF i < Typed /\ seridx < BUFSIZE THEN "echo" ELSE "app"
    /\ crowd' = 0
    /\ UNCHANGED <<shared, dr, i, idx, buffer, low>>

\* The loop's condition; then the character is echoed, which waits for the transmitter.
InsertCheck ==
    /\ pc = "check"
    /\ pc' = IF i < Typed /\ seridx < BUFSIZE - 1 THEN "echo" ELSE "app"
    /\ crowd' = 0
    /\ UNCHANGED <<shared, dr, i, idx, buffer, low>>

\* serbuf[seridx++] = c: seridx is loaded, the new seridx and then the character
\* are stored.
InsertLoad ==
    /\ pc = "echo"
    /\ idx' = seridx
    /\ pc' = "index"
    /\ UNCHANGED <<shared, dr, i, buffer, history>>

InsertIndex ==
    /\ pc = "index" /\ idx < BUFSIZE
    /\ seridx' = idx + 1
    /\ pc' = "char"
    /\ UNCHANGED <<newline_seen, serbuf, dr, i, idx, buffer, history>>

InsertChar(c) ==
    /\ pc = "char"
    /\ serbuf' = [serbuf EXCEPT ![idx] = c]
    /\ i' = i + 1
    /\ pc' = "check"
    /\ UNCHANGED <<seridx, newline_seen, dr, idx, buffer, history>>

\* Behind serbuf seridx is no longer BUFSIZE, and the interrupt writes there as
\* well. What that destroys is up to the linker: the model ends.
InsertBeyond ==
    /\ pc = "index" /\ idx >= BUFSIZE
    /\ pc' = "beyond"
    /\ UNCHANGED <<shared, dr, i, idx, buffer, history>>

-----------------------------------------------------------------------------
(* _read.                                                                    *)

\* The application has dealt with the line and reads the next one.
AppRead ==
    /\ pc = "app"
    /\ pc' = "wait"
    /\ UNCHANGED <<shared, dr, i, idx, buffer, history>>

\* Mutant: an empty line does not end the wait.
ReadWait_NotEmpty ==
    /\ pc = "wait" /\ newline_seen /\ seridx > 0
    /\ pc' = "clear"
    /\ UNCHANGED <<shared, dr, i, idx, buffer, history>>

\* while(!newline_seen) sleep_ms(5)
ReadWait ==
    /\ pc = "wait" /\ newline_seen
    /\ pc' = "clear"
    /\ UNCHANGED <<shared, dr, i, idx, buffer, history>>

ReadClear ==
    /\ pc = "clear"
    /\ newline_seen' = FALSE
    /\ pc' = "copy" /\ i' = 0
    /\ low' = seridx
    /\ UNCHANGED <<seridx, serbuf, dr, idx, buffer, crowd>>

\* Mutant: the last character stays behind.
ReadTest_OneLess ==
    /\ pc = "copy"
    /\ pc' = IF i < (IF Length > seridx THEN seridx - 1 ELSE Length) THEN "pass" ELSE "reset"
    /\ UNCHANGED <<shared, dr, i, idx, buffer, history>>

\* The condition of the copy loop; seridx is read again in every pass.
ReadTest ==
    /\ pc = "copy"
    /\ pc' = IF i < (IF Length > seridx THEN seridx ELSE Length) THEN "pass" ELSE "reset"
    /\ UNCHANGED <<shared, dr, i, idx, buffer, history>>

ReadCopy ==
    /\ pc = "pass"
    /\ buffer' = [buffer EXCEPT ![i] = serbuf[i]]
    /\ i' = i + 1
    /\ pc' = "copy"
    /\ UNCHANGED <<shared, dr, idx, history>>

\* seridx = 0; return length. What arrived since the last pass is discarded.
ReadReset ==
    /\ pc = "reset"
    /\ seridx' = 0
    /\ pc' = "app"
    /\ low' = 0
    /\ UNCHANGED <<newline_seen, serbuf, dr, i, idx, buffer, crowd>>

Thread ==
    \/ InsertReset \/ InsertMemset \/ InsertCheck
    \/ InsertLoad \/ InsertIndex \/ (\E c \in Chars : InsertChar(c)) \/ InsertBeyond
    \/ AppRead \/ ReadWait \/ ReadClear \/ ReadTest \/ ReadCopy \/ ReadReset

Next == Thread \/ \E c \in Chars \union {LF, BS} : uart_rx_handler(c)

\* The main thread is held up only as long as bytes arrive without a pause.
\* Nobody has to type.
Spec == Init /\ [][Next]_vars /\ WF_vars(Thread)

-----------------------------------------------------------------------------
(* Properties.                                                               *)

TypeOK ==
    /\ seridx \in 0..BUFSIZE
    /\ newline_seen \in BOOLEAN
    /\ serbuf \in [0..(BUFSIZE - 1) -> Chars \union {NUL}]
    /\ dr \in Chars \union {LF, BS, Empty}
    /\ pc \in {"insert", "memset", "check", "echo", "index", "char", "beyond",
               "app", "wait", "clear", "copy", "pass", "reset"}
    /\ i \in Nat
    /\ pc \in Copying => i \in 0..BUFSIZE
    /\ idx \in 0..BUFSIZE
    /\ crowd \in 0..2 /\ low \in 0..BUFSIZE

\* No index leaves serbuf, neither the interrupt's (which appends below seridx =
\* BUFSIZE and rubs out above 0) nor the one of _read, whatever is typed when.
\* insert_echo_string, which keeps one place free, leaves it only when two
\* characters or more came while it echoed a single one (uart.c:41, 69, 111-114).
OverrunTakesTwo ==
    /\ seridx \in 0..BUFSIZE
    /\ pc = "pass" => i < BUFSIZE
    /\ pc = "beyond" => crowd = 2

\* A line is not torn, however much is typed and rubbed out while it is copied:
\* all that was not rubbed out meanwhile is in the caller's memory.
CopyIsLine ==
    pc = "reset" => low <= i /\ \A k \in 0..(low - 1) : buffer[k] = serbuf[k]

\* A line feed the interrupt saw ends the wait for a line, also if the line is
\* empty, typed before anybody waits (but after the buffer was cleared), or
\* followed by a flood of characters (uart.c:65).
NewlineIsTaken ==
    newline_seen /\ pc \notin {"insert", "memset"} ~> pc \in {"copy", "beyond"}
=============================================================================
