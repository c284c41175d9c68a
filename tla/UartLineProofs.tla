---------------------------- MODULE UartLineProofs ----------------------------
(***************************************************************************)
(* The console for every size of the line buffer, every length of the      *)
(* pre-typed text, every set of characters and any number of interrupts    *)
(* between two steps of the main thread.                                   *)
(***************************************************************************)
EXTENDS UartLine, TLAPS

\* The loop of insert_echo_string tests against BUFSIZE - 1; each character that
\* comes during the echo moves seridx by one place.
EchoInv ==
    /\ pc = "echo" /\ crowd < 2 => seridx <= BUFSIZE - 2 + crowd
    /\ pc = "index" /\ crowd < 2 => idx <= BUFSIZE - 2 + crowd
    /\ pc = "char" => idx < BUFSIZE
    /\ pc = "beyond" => crowd = 2

\* The interrupt writes at seridx or one below, so nothing below low changes.
CopyInv ==
    /\ buffer \in [0..(Length - 1) -> Chars \union {NUL}]
    /\ pc \in Copying =>
          /\ low <= seridx
          /\ \A k \in 0..(BUFSIZE - 1) : k < i /\ k < low => buffer[k] = serbuf[k]
    /\ pc = "pass" => i < BUFSIZE
    /\ pc = "reset" => low <= i

IInv == TypeOK /\ EchoInv /\ CopyInv

LEMMA InitLemma == Init => IInv
<1> SUFFICES ASSUME Init PROVE IInv
  OBVIOUS
<1> USE UartAssumption DEF Init
<1>1. newline_seen \in BOOLEAN
  OBVIOUS
<1>2. TypeOK
  BY <1>1 DEF TypeOK, Copying
<1>3. EchoInv /\ CopyInv
  BY DEF EchoInv, CopyInv, Copying
<1> QED BY <1>2, <1>3 DEF IInv

\* What the receive interrupt does to the line.
LEMMA HandleLemma ==
    ASSUME TypeOK, NEW c \in Chars \union {LF, BS}, Handle(c)
    PROVE  /\ seridx' \in 0..BUFSIZE /\ seridx' - seridx \in -1..1
           /\ newline_seen' \in BOOLEAN
           /\ serbuf' \in [0..(BUFSIZE - 1) -> Chars \union {NUL}]
           /\ \A k \in 0..(BUFSIZE - 1) : k < seridx /\ k < seridx' => serbuf'[k] = serbuf[k]
<1>1. /\ BUFSIZE \in Nat \ {0} /\ seridx \in 0..BUFSIZE /\ newline_seen \in BOOLEAN
      /\ serbuf \in [0..(BUFSIZE - 1) -> Chars \union {NUL}]
  BY UartAssumption DEF TypeOK
<1>2. CASE UNCHANGED shared
  BY <1>1, <1>2 DEF shared
<1>3. CASE newline_seen' = TRUE /\ UNCHANGED <<seridx, serbuf>>
  BY <1>1, <1>3
<1>4. CASE /\ seridx' = IF seridx > 0 THEN seridx - 1 ELSE 0
           /\ serbuf' = [serbuf EXCEPT ![seridx'] = NUL]
           /\ UNCHANGED newline_seen
  BY <1>1, <1>4
<1>5. CASE /\ seridx # BUFSIZE /\ c \in Chars
           /\ serbuf' = [serbuf EXCEPT ![seridx] = c]
           /\ seridx' = seridx + 1
           /\ UNCHANGED newline_seen
  BY <1>1, <1>5
<1> QED BY <1>2, <1>3, <1>4, <1>5 DEF Handle

LEMMA InterruptLemma ==
    ASSUME IInv, NEW c \in Chars \union {LF, BS}, uart_rx_handler(c)
    PROVE  IInv'
<1>1. /\ seridx' \in 0..BUFSIZE /\ seridx' - seridx \in -1..1
      /\ newline_seen' \in BOOLEAN
      /\ serbuf' \in [0..(BUFSIZE - 1) -> Chars \union {NUL}]
      /\ \A k \in 0..(BUFSIZE - 1) : k < seridx /\ k < seridx' => serbuf'[k] = serbuf[k]
  BY HandleLemma DEF IInv, uart_rx_handler
<1>2. /\ UNCHANGED <<pc, i, idx, buffer>> /\ pc # "beyond"
      /\ crowd' = IF pc = "echo" /\ seridx' > seridx /\ crowd < 2 THEN crowd + 1 ELSE crowd
      /\ low' = IF pc \in Copying /\ seridx' < low THEN seridx' ELSE low
      /\ dr' \in Chars \union {LF, BS, Empty}
  BY DEF uart_rx_handler, thread, Handle, IInv, TypeOK
<1>3. /\ BUFSIZE \in Nat \ {0} /\ seridx \in 0..BUFSIZE
      /\ crowd \in 0..2 /\ low \in 0..BUFSIZE
  BY UartAssumption DEF IInv, TypeOK
<1>4. crowd' \in 0..2 /\ low' \in 0..BUFSIZE
  BY <1>1, <1>2, <1>3
<1>5. TypeOK'
  BY <1>1, <1>2, <1>4 DEF IInv, TypeOK
<1>6. EchoInv'
  <2>1. pc = "echo" /\ crowd' < 2 => seridx' <= BUFSIZE - 2 + crowd'
    <3> SUFFICES ASSUME pc = "echo", crowd' < 2 PROVE seridx' <= BUFSIZE - 2 + crowd'
      OBVIOUS
    <3>1. crowd < 2 /\ crowd' = IF seridx' > seridx THEN crowd + 1 ELSE crowd
      BY <1>2, <1>3
    <3>2. seridx <= BUFSIZE - 2 + crowd
      BY <3>1 DEF IInv, EchoInv
    <3>3. PICK n \in 0..BUFSIZE : n = seridx'
      BY <1>1
    <3>4. n - seridx \in -1..1
      BY <1>1, <3>3
    <3>5. n <= seridx + 1
      BY <1>3, <3>4
    <3>6. crowd' = IF n > seridx THEN crowd + 1 ELSE crowd
      BY <3>1, <3>3
    <3>7. n <= BUFSIZE - 2 + crowd'
      BY <1>3, <3>2, <3>5, <3>6
    <3> QED BY <3>3, <3>7
  <2>2. pc # "echo" => crowd' = crowd
    BY <1>2
  <2>3. pc = "index" /\ crowd' < 2 => idx <= BUFSIZE - 2 + crowd'
    BY <2>2 DEF IInv, EchoInv
  <2> QED BY <1>2, <2>1, <2>3 DEF IInv, EchoInv
<1>7. CopyInv'
  <2>1. pc \in Copying =>
           /\ low' <= seridx' /\ low' <= low
           /\ \A k \in 0..(BUFSIZE - 1) : k < i /\ k < low' => buffer[k] = serbuf'[k]
    <3> SUFFICES ASSUME pc \in Copying
                 PROVE  /\ low' <= seridx' /\ low' <= low
                        /\ \A k \in 0..(BUFSIZE - 1) : k < i /\ k < low' => buffer[k] = serbuf'[k]
      OBVIOUS
    <3>1. low <= seridx
      BY DEF IInv, CopyInv
    <3>2. low' <= seridx' /\ low' <= low
      BY <1>1, <1>2, <1>3
    <3>3. ASSUME NEW k \in 0..(BUFSIZE - 1), k < i, k < low' PROVE buffer[k] = serbuf'[k]
      <4>1. k < low /\ k < seridx /\ k < seridx'
        BY <1>1, <1>3, <1>4, <3>1, <3>2, <3>3
      <4>2. buffer[k] = serbuf[k]
        BY <3>3, <4>1 DEF IInv, CopyInv
      <4> QED BY <1>1, <4>1, <4>2
    <3> QED BY <3>2, <3>3
  <2>2. pc = "reset" => low' <= i
    <3>1. pc = "reset" => pc \in Copying /\ low <= i /\ i \in 0..BUFSIZE
      BY DEF IInv, CopyInv, TypeOK, Copying
    <3> QED BY <1>3, <1>4, <2>1, <3>1
  <2> QED BY <1>2, <2>1, <2>2 DEF IInv, CopyInv
<1> QED BY <1>5, <1>6, <1>7 DEF IInv

-----------------------------------------------------------------------------
(* The main thread.                                                          *)

LEMMA InsertLemma ==
    ASSUME IInv, InsertReset \/ InsertMemset \/ InsertCheck \/ InsertLoad \/ InsertIndex \/ InsertBeyond
    PROVE  IInv'
<1> USE UartAssumption
        DEF InsertReset, InsertMemset, InsertCheck, InsertLoad, InsertIndex, InsertBeyond,
            shared, history
<1>1. TypeOK'
  <2>1. newline_seen' \in BOOLEAN
    BY DEF IInv, TypeOK
  <2> QED BY <2>1 DEF IInv, TypeOK, Copying
<1>2. EchoInv'
  BY DEF IInv, TypeOK, EchoInv
<1>3. CopyInv'
  BY DEF IInv, CopyInv, Copying
<1> QED BY <1>1, <1>2, <1>3 DEF IInv

LEMMA InsertCharLemma ==
    ASSUME IInv, NEW c \in Chars, InsertChar(c)
    PROVE  IInv'
<1> USE UartAssumption DEF InsertChar, history
<1>1. idx \in 0..(BUFSIZE - 1)
  BY DEF IInv, TypeOK, EchoInv
<1>2. TypeOK'
  BY <1>1 DEF IInv, TypeOK, Copying
<1>3. EchoInv' /\ CopyInv'
  BY DEF IInv, EchoInv, CopyInv, Copying
<1> QED BY <1>2, <1>3 DEF IInv

LEMMA ReadLemma ==
    ASSUME IInv, AppRead \/ ReadWait \/ ReadClear \/ ReadTest \/ ReadReset
    PROVE  IInv'
<1> USE UartAssumption DEF AppRead, ReadWait, ReadClear, ReadTest, ReadReset, shared, history
<1>1. TypeOK'
  <2>1. newline_seen' \in BOOLEAN
    BY DEF IInv, TypeOK
  <2> QED BY <2>1 DEF IInv, TypeOK, Copying
<1>2. EchoInv'
  BY DEF EchoInv
<1>3. CopyInv'
  BY DEF IInv, TypeOK, CopyInv, Copying
<1> QED BY <1>1, <1>2, <1>3 DEF IInv

LEMMA ReadCopyLemma ==
    ASSUME IInv, ReadCopy
    PROVE  IInv'
<1>1. /\ BUFSIZE \in Nat \ {0} /\ Length \in Nat /\ Length >= BUFSIZE
      /\ i \in 0..(BUFSIZE - 1) /\ low \in 0..BUFSIZE /\ low <= seridx
      /\ serbuf \in [0..(BUFSIZE - 1) -> Chars \union {NUL}]
      /\ buffer \in [0..(Length - 1) -> Chars \union {NUL}]
      /\ \A k \in 0..(BUFSIZE - 1) : k < i /\ k < low => buffer[k] = serbuf[k]
  BY UartAssumption DEF IInv, TypeOK, CopyInv, ReadCopy, Copying
<1>2. /\ UNCHANGED <<seridx, newline_seen, serbuf, dr, idx, crowd, low>>
      /\ buffer' = [buffer EXCEPT ![i] = serbuf[i]] /\ i' = i + 1 /\ pc' = "copy"
  BY DEF ReadCopy, shared, history
<1>3. TypeOK' /\ EchoInv'
  BY <1>1, <1>2 DEF IInv, TypeOK, EchoInv
<1>4. CopyInv'
  BY <1>1, <1>2 DEF CopyInv
<1> QED BY <1>3, <1>4 DEF IInv

LEMMA InvLemma == Spec => []IInv
<1>1. IInv /\ [Next]_vars => IInv'
  <2> SUFFICES ASSUME IInv, [Next]_vars PROVE IInv'
    OBVIOUS
  <2>1. CASE UNCHANGED vars
    BY <2>1 DEF vars, shared, thread, history, IInv, TypeOK, EchoInv, CopyInv
  <2> QED BY <2>1, InterruptLemma, InsertLemma, InsertCharLemma, ReadLemma, ReadCopyLemma
          DEF Next, Thread
<1> QED BY InitLemma, <1>1, PTL DEF Spec

\* Every variable keeps its type, whatever arrives between any two steps (uart.c).
THEOREM TypeCorrect == Spec => []TypeOK
BY InvLemma, PTL DEF IInv

\* The pre-typed text leaves serbuf only if two characters or more come while one is
\* echoed (uart.c:111-114).
THEOREM OverrunTheorem == Spec => []OverrunTakesTwo
<1>1. IInv => OverrunTakesTwo
  BY DEF IInv, TypeOK, EchoInv, CopyInv, OverrunTakesTwo
<1> QED BY <1>1, InvLemma, PTL

\* _read returns every character of the line that was not rubbed out during the copy,
\* however many interrupts came (uart.c:68-71).
THEOREM CopyTheorem == Spec => []CopyIsLine
<1>1. IInv => CopyIsLine
  <2> SUFFICES ASSUME IInv, pc = "reset"
               PROVE  low <= i /\ \A k \in 0..(low - 1) : buffer[k] = serbuf[k]
    BY DEF CopyIsLine
  <2>1. BUFSIZE \in Nat /\ i \in 0..BUFSIZE /\ low \in 0..BUFSIZE /\ low <= i
    BY UartAssumption DEF IInv, TypeOK, CopyInv, Copying
  <2>2. \A k \in 0..(BUFSIZE - 1) : k < i /\ k < low => buffer[k] = serbuf[k]
    BY DEF IInv, CopyInv, Copying
  <2> QED BY <2>1, <2>2
<1> QED BY <1>1, InvLemma, PTL
=============================================================================
