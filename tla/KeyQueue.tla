------------------------------ MODULE KeyQueue ------------------------------
(***************************************************************************)
(* The key event queue of src/src/queue.c. key_push runs in the keypad     *)
(* interrupt and is atomic to the consumer; key_pop runs in the main       *)
(* thread, and an interrupt may come between any two of its accesses.      *)
(***************************************************************************)
EXTENDS Integers, Sequences

CONSTANTS
    N,          \* the number of slots (32)
    Events,     \* what is pushed
    NoEvent     \* the initial contents of the slots

ASSUME QueueAssumption == N \in Nat /\ N > 1 /\ NoEvent \notin Events

VARIABLES
    kev,        \* the struct KeyEvents: q, head, tail
    pc,         \* where the consumer is in key_pop
    value,      \* the local variable of key_pop
    popped      \* what the last key_pop returned

consumerVars == <<pc, value, popped>>
queueVars == <<kev, consumerVars>>

NextSlot(i) == (i + 1) % N

Init ==
    /\ kev = [q |-> [i \in 0..(N - 1) |-> NoEvent], head |-> 0, tail |-> 0]
    /\ pc = "wait"
    /\ value = NoEvent
    /\ popped = NoEvent

\* Mutant: two slots are kept empty.
Full_Early(k) == NextSlot(NextSlot(k.head)) = k.tail

Full(k) == NextSlot(k.head) = k.tail

\* Mutant: the newest event overwrites the oldest one when the queue is full.
key_push_Overwrite(k, e) ==
    [q |-> [k.q EXCEPT ![k.head] = e], head |-> NextSlot(k.head),
     tail |-> IF Full(k) THEN NextSlot(k.tail) ELSE k.tail]

\* Mutant: head is advanced first and the event stored there.
key_push_HeadFirst(k, e) ==
    IF Full(k) THEN k
    ELSE [k EXCEPT !.q[NextSlot(k.head)] = e, !.head = NextSlot(k.head)]

\* The queue after key_push(e).
key_push(k, e) ==
    IF Full(k) THEN k
    ELSE [k EXCEPT !.q[k.head] = e, !.head = NextSlot(k.head)]

Push(e) ==
    /\ kev' = key_push(kev, e)
    /\ UNCHANGED consumerVars

\* while (kev.head == kev.tail) sleep_ms(10)
PopWait ==
    /\ pc = "wait"
    /\ kev.head # kev.tail
    /\ pc' = "read"
    /\ UNCHANGED <<kev, value, popped>>

PopRead ==
    /\ pc = "read"
    /\ value' = kev.q[kev.tail]
    /\ pc' = "advance"
    /\ UNCHANGED <<kev, popped>>

\* Mutant: the consumer advances past the slot the producer fills next.
PopAdvance_Skip ==
    /\ pc = "advance"
    /\ kev' = [kev EXCEPT !.tail = kev.head]
    /\ popped' = value
    /\ pc' = "wait"
    /\ UNCHANGED value

\* tail moves on and key_pop returns; the consumer then calls it again.
PopAdvance ==
    /\ pc = "advance"
    /\ kev' = [kev EXCEPT !.tail = NextSlot(kev.tail)]
    /\ popped' = value
    /\ pc' = "wait"
    /\ UNCHANGED value

Pop == PopWait \/ PopRead \/ PopAdvance

Next == Pop \/ \E e \in Events : Push(e)

Spec == Init /\ [][Next]_queueVars

-----------------------------------------------------------------------------
(* The refinement mapping: the events from tail up to head, in order.        *)

Count(k) == IF k.head >= k.tail THEN k.head - k.tail ELSE k.head - k.tail + N

Slot(k, i) == IF k.tail + i < N THEN k.tail + i ELSE k.tail + i - N

Waiting(k) == [i \in 1..Count(k) |-> k.q[Slot(k, i - 1)]]

pending == Waiting(kev)

Fifo == INSTANCE KeyFifo WITH Capacity <- N - 1, buf <- pending

-----------------------------------------------------------------------------
(* Properties.                                                               *)

Queue == [q : [0..(N - 1) -> Events \union {NoEvent}], head : 0..(N - 1), tail : 0..(N - 1)]

TypeOK ==
    /\ kev \in Queue
    /\ pc \in {"wait", "read", "advance"}
    /\ value \in Events \union {NoEvent}
    /\ popped \in Events \union {NoEvent}

\* While the consumer is between its test, its read and its store to tail, the
\* pushes that come in meanwhile neither empty the queue nor overwrite the slot.
SlotStable ==
    /\ pc # "wait" => kev.head # kev.tail
    /\ pc = "advance" => value = kev.q[kev.tail]

\* The program's queue, with its cursors, its one wasted slot and its
\* three-step pop, does what queue.h says, up to its capacity: one slot is never
\* used, so it is 31 events and not the 32 of queue.h:8.
ImplementsFifo == Fifo!Spec
=============================================================================
