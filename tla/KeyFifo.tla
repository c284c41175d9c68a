------------------------------ MODULE KeyFifo -------------------------------
(***************************************************************************)
(* What queue.h promises: a first-in first-out queue of key events that    *)
(* drops an event pushed while it is full, and never blocks the pusher.    *)
(***************************************************************************)
EXTENDS Naturals, Sequences

CONSTANTS
    Capacity,   \* how many events the queue holds
    Events,     \* the events
    NoEvent     \* nothing was popped yet

VARIABLES
    buf,        \* the events pushed and not yet popped
    popped      \* what the last key_pop returned

vars == <<buf, popped>>

Init ==
    /\ buf = <<>>
    /\ popped = NoEvent

\* One interrupt pushes one or more events; those that do not fit are dropped.
Put(es) ==
    /\ Len(buf) + Len(es) <= Capacity
    /\ buf' = buf \o es
    /\ UNCHANGED popped

Get ==
    /\ buf # <<>>
    /\ popped' = Head(buf)
    /\ buf' = Tail(buf)

Next == Get \/ \E n \in 1..Capacity : \E es \in [1..n -> Events] : Put(es)

Spec == Init /\ [][Next]_vars
=============================================================================
