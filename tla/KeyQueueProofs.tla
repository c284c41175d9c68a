--------------------------- MODULE KeyQueueProofs ---------------------------
(***************************************************************************)
(* The key queue for every number of slots: the ring never holds anything  *)
(* but pushed events, and it implements the bounded FIFO of KeyFifo. On    *)
(* top of it the keypad of every size: the scanner and the application     *)
(* agree across the queue.                                                 *)
(***************************************************************************)
EXTENDS Keypad, FiniteSetTheorems, TLAPS

-----------------------------------------------------------------------------
(* The ring as a value: what key_push and the end of key_pop do to it.       *)

\* The wrap of a cursor is a conditional subtraction.
LEMMA NextSlotLemma ==
    ASSUME NEW i \in 0..(N - 1)
    PROVE  /\ NextSlot(i) \in 0..(N - 1)
           /\ NextSlot(i) = IF i + 1 = N THEN 0 ELSE i + 1
BY QueueAssumption DEF NextSlot

\* Where the cursors are tells how many events wait, and Slot walks from tail
\* to head without meeting a slot twice.
LEMMA CountLemma ==
    ASSUME NEW k \in Queue
    PROVE  /\ N \in Nat /\ Count(k) \in 0..(N - 1)
           /\ k.head = k.tail <=> Count(k) = 0
           /\ Full(k) <=> Count(k) = N - 1
           /\ Slot(k, 0) = k.tail /\ Slot(k, Count(k)) = k.head
           /\ \A i \in 0..(N - 1) : Slot(k, i) \in 0..(N - 1)
           /\ \A i, j \in 0..(N - 1) : Slot(k, i) = Slot(k, j) => i = j
<1>1. N \in Nat /\ N > 1 /\ k.head \in 0..(N - 1) /\ k.tail \in 0..(N - 1)
  BY QueueAssumption DEF Queue
<1>2. Full(k) <=> (IF k.head + 1 = N THEN 0 ELSE k.head + 1) = k.tail
  BY <1>1, NextSlotLemma DEF Full
<1> QED BY <1>1, <1>2 DEF Count, Slot

\* The events that wait are as many as the cursors say.
LEMMA WaitingLemma ==
    ASSUME NEW k \in Queue
    PROVE  /\ Waiting(k) \in Seq(Events \union {NoEvent}) /\ Len(Waiting(k)) = Count(k)
           /\ \A i \in 1..Count(k) : Waiting(k)[i] = k.q[Slot(k, i - 1)]
<1>1. Count(k) \in Nat /\ Count(k) <= N - 1 /\ N \in Nat
  BY CountLemma
<1>2. \A i \in 1..Count(k) : k.q[Slot(k, i - 1)] \in Events \union {NoEvent}
  <2> SUFFICES ASSUME NEW i \in 1..Count(k)
               PROVE  k.q[Slot(k, i - 1)] \in Events \union {NoEvent}
    OBVIOUS
  <2>1. i - 1 \in 0..(N - 1)
    BY <1>1
  <2>2. Slot(k, i - 1) \in 0..(N - 1)
    BY <2>1, CountLemma
  <2> QED BY <2>2 DEF Queue
<1> QED BY <1>1, <1>2 DEF Waiting

\* key_push to a queue that is not full appends the event and leaves the first
\* waiting slot alone.
LEMMA PushLemma ==
    ASSUME NEW k \in Queue, NEW e \in Events, ~Full(k)
    PROVE  LET new == key_push(k, e)
           IN  /\ new \in Queue /\ Count(new) = Count(k) + 1
               /\ Waiting(new) = Append(Waiting(k), e)
               /\ new.tail = k.tail
               /\ k.head # k.tail => new.q[new.tail] = k.q[k.tail]
<1> DEFINE new == key_push(k, e)
<1>1. /\ N \in Nat /\ N > 1 /\ k.head \in 0..(N - 1) /\ k.tail \in 0..(N - 1)
      /\ k.q \in [0..(N - 1) -> Events \union {NoEvent}]
  BY QueueAssumption DEF Queue
<1>2. /\ new.q = [k.q EXCEPT ![k.head] = e]
      /\ new.head = NextSlot(k.head) /\ new.tail = k.tail
      /\ new = [q |-> new.q, head |-> new.head, tail |-> new.tail]
  BY DEF key_push, Queue
<1> HIDE DEF new
<1>3. new \in Queue
  BY <1>1, <1>2, NextSlotLemma DEF Queue
<1>4. Count(k) < N - 1
  BY <1>1, CountLemma
<1>5. Count(new) = Count(k) + 1
  BY <1>1, <1>2, <1>4, NextSlotLemma DEF Count
<1>6. \A i \in 0..(N - 1) : Slot(new, i) = Slot(k, i)
  BY <1>2 DEF Slot
<1>7. /\ Waiting(new) \in Seq(Events \union {NoEvent}) /\ Len(Waiting(new)) = Count(k) + 1
      /\ Waiting(k) \in Seq(Events \union {NoEvent}) /\ Len(Waiting(k)) = Count(k)
  BY <1>3, <1>5, WaitingLemma
<1>8. ASSUME NEW i \in 1..(Count(k) + 1)
      PROVE  Waiting(new)[i] = Append(Waiting(k), e)[i]
  <2>1. i - 1 \in 0..(N - 1) /\ Count(k) \in 0..(N - 1)
    BY <1>1, <1>4, CountLemma
  <2>2. Waiting(new)[i] = new.q[Slot(k, i - 1)]
    BY <2>1, <1>3, <1>5, <1>6, WaitingLemma
  <2>3. CASE i = Count(k) + 1
    <3>1. Slot(k, i - 1) = k.head
      BY <2>1, <2>3, CountLemma
    <3> QED BY <3>1, <2>2, <2>3, <1>1, <1>2, <1>7
  <2>4. CASE i # Count(k) + 1
    <3>1. i \in 1..Count(k) /\ i - 1 # Count(k)
      BY <2>1, <2>4
    <3>2. Slot(k, i - 1) # Slot(k, Count(k)) /\ Slot(k, Count(k)) = k.head
      BY <2>1, <3>1, CountLemma
    <3>3. Slot(k, i - 1) \in 0..(N - 1)
      BY <2>1, CountLemma
    <3>4. new.q[Slot(k, i - 1)] = k.q[Slot(k, i - 1)]
      BY <3>2, <3>3, <1>1, <1>2
    <3>5. Waiting(k)[i] = k.q[Slot(k, i - 1)]
      BY <3>1, WaitingLemma
    <3>6. Append(Waiting(k), e)[i] = Waiting(k)[i]
      BY <3>1, <1>7
    <3> QED BY <2>2, <3>4, <3>5, <3>6
  <2> QED BY <2>3, <2>4
<1>9. /\ Append(Waiting(k), e) \in Seq(Events \union {NoEvent})
      /\ Len(Append(Waiting(k), e)) = Count(k) + 1
  BY <1>7
<1>10. Waiting(new) = Append(Waiting(k), e)
  BY <1>7, <1>8, <1>9
<1>11. k.head # k.tail => new.q[new.tail] = k.q[k.tail]
  BY <1>1, <1>2
<1> QED BY <1>2, <1>3, <1>5, <1>10, <1>11 DEF new

\* The end of key_pop removes the first event.
LEMMA PopLemma ==
    ASSUME NEW k \in Queue, k.head # k.tail
    PROVE  LET new == [k EXCEPT !.tail = NextSlot(k.tail)]
           IN  /\ new \in Queue /\ Count(new) = Count(k) - 1
               /\ Waiting(k) # <<>> /\ Head(Waiting(k)) = k.q[k.tail]
               /\ Waiting(new) = Tail(Waiting(k))
<1> DEFINE new == [k EXCEPT !.tail = NextSlot(k.tail)]
<1>1. /\ N \in Nat /\ N > 1 /\ k.head \in 0..(N - 1) /\ k.tail \in 0..(N - 1)
      /\ k.q \in [0..(N - 1) -> Events \union {NoEvent}]
  BY QueueAssumption DEF Queue
<1>2. /\ new.q = k.q /\ new.head = k.head /\ new.tail = NextSlot(k.tail)
      /\ new = [q |-> new.q, head |-> new.head, tail |-> new.tail]
  BY DEF Queue
<1> HIDE DEF new
<1>3. new \in Queue
  BY <1>1, <1>2, NextSlotLemma DEF Queue
<1>4. Count(k) \in 1..(N - 1)
  BY <1>1, CountLemma
<1>5. Count(new) = Count(k) - 1
  BY <1>1, <1>2, <1>4, NextSlotLemma DEF Count
<1>6. ASSUME NEW i \in 0..(N - 2)
      PROVE  Slot(new, i) = Slot(k, i + 1)
  <2>1. new.tail = IF k.tail + 1 = N THEN 0 ELSE k.tail + 1
    BY <1>1, <1>2, NextSlotLemma
  <2>2. k.tail \in Int /\ i \in Int /\ N \in Int /\ 0 <= i /\ i <= N - 2
        /\ 0 <= k.tail /\ k.tail <= N - 1
    BY <1>1
  <2>3. /\ Slot(new, i) = IF new.tail + i < N THEN new.tail + i ELSE new.tail + i - N
        /\ Slot(k, i + 1) = IF k.tail + (i + 1) < N THEN k.tail + (i + 1)
                                                  ELSE k.tail + (i + 1) - N
    BY DEF Slot
  <2>4. CASE k.tail + 1 = N
    <3>1. new.tail + i = i /\ i < N /\ k.tail + (i + 1) = N + i /\ N + i - N = i
      BY <2>1, <2>2, <2>4
    <3> QED BY <2>2, <2>3, <3>1
  <2>5. CASE k.tail + 1 # N
    <3>1. new.tail = k.tail + 1 /\ new.tail + i = k.tail + (i + 1)
      BY <2>1, <2>2, <2>5
    <3>2. CASE k.tail + (i + 1) < N
      <4>1. Slot(new, i) = new.tail + i /\ Slot(k, i + 1) = k.tail + (i + 1)
        BY <2>2, <2>3, <3>1, <3>2
      <4> QED BY <3>1, <4>1
    <3>3. CASE ~(k.tail + (i + 1) < N)
      <4>1. Slot(new, i) = new.tail + i - N /\ Slot(k, i + 1) = k.tail + (i + 1) - N
        BY <2>2, <2>3, <3>1, <3>3
      <4> QED BY <2>2, <3>1, <4>1
    <3> QED BY <3>2, <3>3
  <2> QED BY <2>4, <2>5
<1>7. /\ Waiting(new) \in Seq(Events \union {NoEvent}) /\ Len(Waiting(new)) = Count(k) - 1
      /\ Waiting(k) \in Seq(Events \union {NoEvent}) /\ Len(Waiting(k)) = Count(k)
  BY <1>3, <1>5, WaitingLemma
<1>8. Waiting(k) # <<>> /\ Head(Waiting(k)) = k.q[k.tail]
  <2>1. Waiting(k)[1] = k.q[Slot(k, 0)] /\ Slot(k, 0) = k.tail
    BY <1>4, <1>1, WaitingLemma, CountLemma
  <2> QED BY <2>1, <1>4, <1>7
<1>9. ASSUME NEW i \in 1..(Count(k) - 1)
      PROVE  Waiting(new)[i] = Tail(Waiting(k))[i]
  <2>1. i - 1 \in 0..(N - 2) /\ i + 1 \in 1..Count(k) /\ (i - 1) + 1 = i /\ (i + 1) - 1 = i
    BY <1>1, <1>4
  <2>2. Waiting(new)[i] = new.q[Slot(new, i - 1)]
    BY <1>3, <1>5, WaitingLemma
  <2>3. Slot(new, i - 1) = Slot(k, i)
    BY <1>6, <2>1
  <2>4. Waiting(k)[i + 1] = k.q[Slot(k, i)]
    BY <2>1, WaitingLemma
  <2>5. Tail(Waiting(k))[i] = Waiting(k)[i + 1]
    BY <1>4, <1>7
  <2> QED BY <2>2, <2>3, <2>4, <2>5, <1>2
<1>10. Tail(Waiting(k)) \in Seq(Events \union {NoEvent}) /\ Len(Tail(Waiting(k))) = Count(k) - 1
  BY <1>4, <1>7, <1>8
<1>11. Waiting(new) = Tail(Waiting(k))
  BY <1>7, <1>9, <1>10
<1> QED BY <1>3, <1>5, <1>8, <1>11 DEF new

-----------------------------------------------------------------------------
(* The invariants of the queue, and the implementation of the abstract one.  *)

\* Every slot between tail and head holds an event that was pushed: key_pop
\* never returns a slot's initial contents.
NoPhantom == \A i \in 1..Count(kev) : pending[i] \in Events

\* The queue k is sound for a consumer where pc and value say it is.
Sound(k) ==
    /\ k \in Queue
    /\ pc # "wait" => k.head # k.tail
    /\ pc = "advance" => value = k.q[k.tail]
    /\ \A i \in 1..Count(k) : Waiting(k)[i] \in Events

ConsumerOK ==
    /\ pc \in {"wait", "read", "advance"}
    /\ value \in Events \union {NoEvent} /\ popped \in Events \union {NoEvent}

\* What the slots hold between tail and head is only known to be stable, and
\* only known to be events, together with the types.
IInv == Sound(kev) /\ ConsumerOK

LEMMA IInvLemma == IInv <=> TypeOK /\ SlotStable /\ NoPhantom
BY DEF IInv, Sound, ConsumerOK, TypeOK, SlotStable, NoPhantom, pending

LEMMA InitLemma == Init => IInv /\ pending = <<>>
<1> SUFFICES ASSUME Init PROVE IInv /\ pending = <<>>
  OBVIOUS
<1>1. kev \in Queue /\ ConsumerOK
  BY QueueAssumption DEF Init, Queue, ConsumerOK
<1>2. Count(kev) = 0
  BY DEF Init, Count
<1>3. pending = <<>>
  BY <1>1, <1>2, WaitingLemma DEF pending
<1>4. Sound(kev)
  <2>1. pc = "wait" /\ 1..Count(kev) = {}
    BY <1>2 DEF Init
  <2> QED BY <1>1, <2>1 DEF Sound
<1> QED BY <1>1, <1>3, <1>4 DEF IInv

\* A push while the consumer is anywhere in key_pop.
LEMMA PushSoundLemma ==
    ASSUME NEW k, Sound(k), NEW e \in Events
    PROVE  /\ Sound(key_push(k, e))
           /\ ~Full(k) => Count(k) < N - 1 /\ Waiting(key_push(k, e)) = Append(Waiting(k), e)
<1>1. CASE Full(k)
  BY <1>1 DEF key_push
<1>2. CASE ~Full(k)
  <2> DEFINE new == key_push(k, e)
  <2>1. /\ k \in Queue /\ new \in Queue /\ Count(new) = Count(k) + 1
        /\ Waiting(new) = Append(Waiting(k), e) /\ new.tail = k.tail
        /\ k.head # k.tail => new.q[new.tail] = k.q[k.tail]
    BY <1>2, PushLemma DEF Sound
  <2> HIDE DEF new
  <2>2. Count(k) \in 0..(N - 1) /\ Count(k) < N - 1 /\ N \in Nat
    BY <1>2, <2>1, CountLemma
  <2>3. Waiting(k) \in Seq(Events \union {NoEvent}) /\ Len(Waiting(k)) = Count(k)
    BY <2>1, WaitingLemma
  <2>4. ASSUME NEW i \in 1..(Count(k) + 1) PROVE Waiting(new)[i] \in Events
    <3>1. CASE i = Count(k) + 1
      BY <3>1, <2>1, <2>2, <2>3
    <3>2. CASE i # Count(k) + 1
      <4>1. i \in 1..Count(k)
        BY <3>2, <2>2
      <4>2. Append(Waiting(k), e)[i] = Waiting(k)[i]
        BY <4>1, <2>2, <2>3
      <4> QED BY <4>1, <4>2, <2>1 DEF Sound
    <3> QED BY <3>1, <3>2
  <2>5. new.head # new.tail
    BY <2>1, <2>2, CountLemma
  <2>6. Sound(new)
    BY <2>1, <2>4, <2>5 DEF Sound
  <2> QED BY <2>1, <2>2, <2>6 DEF new
<1> QED BY <1>1, <1>2

\* The last step of key_pop, with whatever was pushed since its first.
LEMMA PopInvLemma ==
    ASSUME IInv, PopAdvance
    PROVE  /\ IInv' /\ pending # <<>> /\ popped' = Head(pending) /\ pending' = Tail(pending)
           /\ Count(kev) \in 1..(N - 1) /\ Count(kev') = Count(kev) - 1
<1> DEFINE new == [kev EXCEPT !.tail = NextSlot(kev.tail)]
<1>1. /\ kev \in Queue /\ kev.head # kev.tail /\ value = kev.q[kev.tail]
      /\ kev' = new /\ pc' = "wait" /\ value' = value /\ popped' = value
  BY DEF IInv, Sound, PopAdvance
<1>2. /\ new \in Queue /\ Count(new) = Count(kev) - 1
      /\ pending # <<>> /\ Head(pending) = kev.q[kev.tail] /\ Waiting(new) = Tail(pending)
  BY <1>1, PopLemma DEF pending
<1> HIDE DEF new
<1>3. pending' = Waiting(new)
  BY <1>1 DEF pending
<1>4. /\ pending \in Seq(Events \union {NoEvent}) /\ Len(pending) = Count(kev)
      /\ Count(kev) \in 0..(N - 1) /\ N \in Nat /\ Count(kev) # 0
  BY <1>1, WaitingLemma, CountLemma DEF pending
<1>5. ASSUME NEW i \in 1..(Count(kev) - 1) PROVE Tail(pending)[i] \in Events
  <2>1. i + 1 \in 1..Count(kev) /\ Tail(pending)[i] = pending[i + 1]
    BY <1>2, <1>4
  <2> QED BY <2>1 DEF IInv, Sound, pending
<1>6. ConsumerOK'
  BY <1>1 DEF IInv, ConsumerOK
<1>7. Sound(kev)'
  BY <1>1, <1>2, <1>5 DEF Sound
<1>8. Count(kev) \in 1..(N - 1) /\ Count(kev') = Count(kev) - 1
  BY <1>1, <1>2, <1>4
<1> QED BY <1>1, <1>2, <1>3, <1>6, <1>7, <1>8 DEF IInv

\* The first two steps of key_pop leave the queue alone.
LEMMA PopReadLemma ==
    ASSUME IInv, PopWait \/ PopRead \/ UNCHANGED queueVars
    PROVE  IInv' /\ UNCHANGED <<kev, pending, popped>>
<1>1. kev' = kev /\ popped' = popped
  BY DEF PopWait, PopRead, queueVars, consumerVars
<1>2. UNCHANGED pending
  BY <1>1 DEF pending
<1>3. Sound(kev)'
  BY <1>1 DEF IInv, Sound, PopWait, PopRead, queueVars, consumerVars
<1>4. ConsumerOK'
  BY <1>1 DEF IInv, Sound, ConsumerOK, PopWait, PopRead, queueVars, consumerVars, Queue
<1> QED BY <1>1, <1>2, <1>3, <1>4 DEF IInv

LEMMA NextLemma == IInv /\ [Next]_queueVars => IInv'
<1>1. ASSUME IInv, NEW e \in Events, Push(e) PROVE IInv'
  <2>1. Sound(key_push(kev, e)) /\ kev' = key_push(kev, e) /\ UNCHANGED consumerVars
    BY <1>1, PushSoundLemma DEF IInv, Push
  <2> HIDE DEF key_push
  <2>2. Sound(kev)'
    BY <2>1 DEF Sound, consumerVars
  <2>3. ConsumerOK'
    BY <1>1, <2>1 DEF IInv, ConsumerOK, consumerVars
  <2> QED BY <2>2, <2>3 DEF IInv
<1> QED BY <1>1, PopInvLemma, PopReadLemma DEF Next, Pop

LEMMA InvLemma == Spec => []IInv
BY InitLemma, NextLemma, PTL DEF Spec

\* No interrupt between two steps of key_pop empties the queue or overwrites the
\* event being popped (queue.c).
THEOREM SlotTheorem == Spec => []SlotStable
BY InvLemma, IInvLemma, PTL

\* key_pop never returns a slot nothing was pushed to (queue.c).
THEOREM NoPhantomTheorem == Spec => []NoPhantom
BY InvLemma, IInvLemma, PTL

\* An interrupt puts what it pushed in order after what waited, as far as the
\* queue has room.
LEMMA PutLemma ==
    ASSUME NEW es \in Seq(Events), pending' = pending \o es, Len(pending) + Len(es) <= N - 1,
           pending \in Seq(Events \union {NoEvent}), UNCHANGED popped
    PROVE  [Fifo!Next]_Fifo!vars
<1>1. CASE es = <<>>
  <2>1. pending' = pending
    BY <1>1
  <2> QED BY <2>1 DEF Fifo!vars
<1>2. CASE es # <<>>
  <2>1. /\ Len(es) \in 1..(N - 1) /\ es \in [1..Len(es) -> Events]
    BY <1>2, QueueAssumption
  <2>2. Fifo!Put(es)
    BY DEF Fifo!Put
  <2> QED BY <2>1, <2>2 DEF Fifo!Next
<1> QED BY <1>1, <1>2

LEMMA GetLemma == ASSUME IInv, Pop PROVE IInv' /\ [Fifo!Next]_Fifo!vars
<1>1. CASE PopAdvance
  <2>1. Fifo!Get
    BY <1>1, PopInvLemma DEF Fifo!Get
  <2> QED BY <1>1, <2>1, PopInvLemma DEF Fifo!Next
<1>2. CASE PopWait \/ PopRead
  BY <1>2, PopReadLemma DEF Fifo!vars
<1> QED BY <1>1, <1>2 DEF Pop

\* key_push and the three steps of key_pop implement the queue of queue.h.
THEOREM QueueImplementsFifo == Spec => ImplementsFifo
<1>1. Init => Fifo!Init
  BY InitLemma DEF Fifo!Init, Init
<1>2. IInv /\ [Next]_queueVars => [Fifo!Next]_Fifo!vars
  <2> SUFFICES ASSUME IInv, [Next]_queueVars
               PROVE  [Fifo!Next]_Fifo!vars
    OBVIOUS
  <2>1. ASSUME NEW e \in Events, Push(e)
        PROVE  [Fifo!Next]_Fifo!vars
    <3>1. /\ kev' = key_push(kev, e) /\ popped' = popped /\ Sound(kev)
          /\ pending \in Seq(Events \union {NoEvent}) /\ Len(pending) = Count(kev)
      BY <2>1, WaitingLemma DEF Push, consumerVars, IInv, Sound, pending
    <3>2. CASE Full(kev)
      <4>1. UNCHANGED <<pending, popped>>
        BY <3>1, <3>2 DEF pending, key_push
      <4> QED BY <4>1 DEF Fifo!vars
    <3>3. CASE ~Full(kev)
      <4>1. Count(kev) < N - 1 /\ pending' = Append(pending, e)
        BY <3>1, <3>3, PushSoundLemma DEF pending
      <4>2. /\ <<e>> \in Seq(Events) /\ Len(<<e>>) = 1 /\ pending' = pending \o <<e>>
            /\ Len(pending) + 1 <= N - 1
        <5>1. Count(kev) \in Nat /\ N \in Nat
          BY <3>1, CountLemma DEF Sound
        <5> QED BY <3>1, <4>1, <5>1
      <4> QED BY <3>1, <4>2, PutLemma
    <3> QED BY <3>2, <3>3
  <2>2. CASE Pop
    BY <2>2, GetLemma
  <2>3. CASE UNCHANGED queueVars
    BY <2>3, PopReadLemma DEF Fifo!vars
  <2> QED BY <2>1, <2>2, <2>3 DEF Next
<1> QED BY InvLemma, <1>1, <1>2, PTL DEF Spec, ImplementsFifo, Fifo!Spec

-----------------------------------------------------------------------------
(* The loop of keypad_isr and the application's view are folds.              *)

\* Induction on a finite set, an element at a time.
LEMMA SetInduction ==
    ASSUME NEW S, IsFiniteSet(S), NEW Q,
           \A T \in SUBSET S : (\A x \in T : T \ {x} \in Q) => T \in Q
    PROVE  S \in Q
<1> DEFINE Bad == {T \in SUBSET S : T \notin Q}
<1> SUFFICES ASSUME S \notin Q PROVE FALSE
  OBVIOUS
<1>1. Bad \subseteq FiniteSubsetsOf(S) /\ Bad # {}
  BY FS_Subset DEF FiniteSubsetsOf
<1>2. PICK T \in Bad : \A U \in Bad : ~ (<<U, T>> \in StrictSubsetOrdering(S))
  <2> HIDE DEF Bad
  <2> QED BY <1>1, FS_StrictSubsetOrderingWellFounded, WFMin
<1>3. ASSUME NEW x \in T PROVE T \ {x} \in Q
  <2>1. T \ {x} \in SUBSET S /\ T \ {x} \subseteq T /\ T \ {x} # T /\ T \in SUBSET S
    BY <1>3
  <2>2. <<T \ {x}, T>> \in StrictSubsetOrdering(S)
    BY <2>1 DEF StrictSubsetOrdering
  <2> QED BY <1>2, <2>1, <2>2
<1> QED BY <1>3

LEMMA NatSetInduction ==
    ASSUME NEW S, 0 \in S, \A n \in Nat : n \in S => n + 1 \in S
    PROVE  Nat \subseteq S
<1> DEFINE T == Nat \ S
<1> SUFFICES ASSUME T # {} PROVE FALSE
  OBVIOUS
<1>1. PICK x \in T : \A y \in T : ~ (<<y, x>> \in OpToRel(<, Nat))
  <2>1. T \subseteq Nat OBVIOUS
  <2>. HIDE DEF T
  <2> QED BY <2>1, NatLessThanWellFounded, WFMin
<1>2. \A y \in T : ~(y < x)
  <2>1. \A y \in T : y \in Nat /\ x \in Nat OBVIOUS
  <2>. HIDE DEF T
  <2> QED BY <1>1, <2>1, Zenon DEF OpToRel
<1> QED BY <1>2

Recurs(g, S, base, pick, step) ==
    \A T \in SUBSET S :
        g[T] = IF T = {} THEN base ELSE step[<<pick[T], g[T \ {pick[T]}]>>]

\* A function on the subsets of S that recurs on a set without one element.
LEMMA SetRecursion ==
    ASSUME NEW S, IsFiniteSet(S), NEW V, NEW base \in V,
           NEW pick, \A T \in SUBSET S : T # {} => pick[T] \in T,
           NEW step \in [S \X V -> V]
    PROVE  \E g \in [SUBSET S -> V] : Recurs(g, S, base, pick, step)
<1> DEFINE Value(g, T) == IF T = {} THEN base ELSE step[<<pick[T], g[T \ {pick[T]}]>>]
           UpTo(n) == {T \in SUBSET S : Cardinality(T) <= n}
           Q == {n \in Nat : \E g \in [SUBSET S -> V] : \A T \in UpTo(n) : g[T] = Value(g, T)}
<1>1. ASSUME NEW T \in SUBSET S
      PROVE  /\ Cardinality(T) \in Nat /\ IsFiniteSet(T)
             /\ T = {} <=> Cardinality(T) = 0
             /\ T # {} => Cardinality(T \ {pick[T]}) = Cardinality(T) - 1
             /\ Cardinality(T) <= Cardinality(S)
  BY FS_Subset, FS_CardinalityType, FS_EmptySet, FS_RemoveElement
<1>2. 0 \in Q
  <2> DEFINE g == [T \in SUBSET S |-> base]
  <2>1. g \in [SUBSET S -> V]
    OBVIOUS
  <2>2. ASSUME NEW T \in UpTo(0) PROVE T \in SUBSET S /\ g[T] = base /\ T = {}
    <3>1. T \in SUBSET S /\ Cardinality(T) <= 0
      OBVIOUS
    <3>2. Cardinality(T) \in Nat /\ (T = {} <=> Cardinality(T) = 0)
      BY <1>1, <3>1
    <3> QED BY <3>1, <3>2
  <2> HIDE DEF g
  <2>3. \A T \in UpTo(0) : g[T] = Value(g, T)
    BY <2>2
  <2> QED BY <2>1, <2>3
<1>3. ASSUME NEW n \in Nat, n \in Q PROVE n + 1 \in Q
  <2>1. PICK g \in [SUBSET S -> V] : \A T \in UpTo(n) : g[T] = Value(g, T)
    BY <1>3
  <2> DEFINE h == [T \in SUBSET S |-> IF Cardinality(T) <= n THEN g[T] ELSE Value(g, T)]
  <2>2. h \in [SUBSET S -> V]
    BY <2>1, <1>1
  <2>3. ASSUME NEW T \in UpTo(n + 1) PROVE h[T] = Value(h, T)
    <3>1. CASE T = {}
      BY <3>1, <1>1, <2>1
    <3>2. CASE T # {}
      <4>1. T \ {pick[T]} \in UpTo(n) /\ T \in SUBSET S
        BY <3>2, <1>1
      <4>2. h[T \ {pick[T]}] = g[T \ {pick[T]}]
        BY <4>1
      <4>3. h[T] = Value(g, T)
        BY <2>1
      <4> QED BY <4>2, <4>3
    <3> QED BY <3>1, <3>2
  <2> HIDE DEF h
  <2>4. \A T \in UpTo(n + 1) : h[T] = Value(h, T)
    BY <2>3
  <2> HIDE DEF UpTo, Value
  <2> QED BY <2>2, <2>4
<1> HIDE DEF Q
<1>4. Nat \subseteq Q
  BY <1>2, <1>3, NatSetInduction
<1>5. Cardinality(S) \in Q
  BY <1>1, <1>4
<1> QED BY <1>5, <1>1 DEF Q, Recurs


LEMMA MaxLemma ==
    ASSUME NEW m \in Nat, NEW T \in SUBSET (1..m), T # {}
    PROVE  Max(T) \in T /\ \A i \in T : i <= Max(T)
<1> DEFINE Q == {U \in SUBSET (1..m) : U # {} => \E x \in U : \A y \in U : x >= y}
<1>1. ASSUME NEW U \in SUBSET T, \A x \in U : U \ {x} \in Q PROVE U \in Q
  <2> SUFFICES ASSUME U # {} PROVE \E x \in U : \A y \in U : x >= y
    OBVIOUS
  <2>1. PICK u \in U : TRUE
    OBVIOUS
  <2>2. CASE U \ {u} = {}
    <3>1. \A y \in U : y = u /\ u \in Int
      BY <2>2
    <3> QED BY <3>1
  <2>3. CASE U \ {u} # {}
    <3>1. PICK x \in U \ {u} : \A y \in U \ {u} : x >= y
      BY <1>1, <2>3
    <3> DEFINE top == IF u > x THEN u ELSE x
    <3>2. top \in U /\ \A y \in U : top >= y
      BY <3>1
    <3> QED BY <3>2
  <2> QED BY <2>2, <2>3
<1>2. T \in Q
  <2>1. IsFiniteSet(T)
    <3>1. IsFiniteSet(1..m)
      BY FS_Interval
    <3> QED BY <3>1, FS_Subset
  <2> HIDE DEF Q
  <2> QED BY <1>1, <2>1, SetInduction
<1>3. \E x \in T : \A y \in T : x >= y
  BY <1>2
<1> QED BY <1>3 DEF Max

\* The loop of keypad_isr stays in every set G that its turns do not leave, and
\* comes to each of its keys: what a turn does to its key (a relation R of states
\* and keys) and no other turn undoes is done at the end.
LEMMA ScanLoopLemma ==
    ASSUME NEW G, NEW start \in G, NEW m \in Nat, NEW keys \in [1..m -> Keys], NEW R,
           \A s \in G, i \in 1..m :
               /\ ScanRow(s, keys[i]) \in G /\ <<ScanRow(s, keys[i]), keys[i]>> \in R
               /\ \A k \in Keys : <<s, k>> \in R => <<ScanRow(s, keys[i]), k>> \in R
    PROVE  /\ FoldLeft(ScanRow, start, keys) \in G
           /\ \A i \in 1..m : <<FoldLeft(ScanRow, start, keys), keys[i]>> \in R
<1> DEFINE S == 1..m
           pick == [T \in SUBSET S |-> Max(T)]
           step == [p \in S \X G |-> ScanRow(p[2], keys[p[1]])]
           iter[T \in SUBSET S] == IF T = {} THEN start
                                   ELSE LET x == Max(T) IN ScanRow(iter[T \ {x}], keys[x])
<1>1. IsFiniteSet(S)
  BY FS_Interval
<1>2. \A T \in SUBSET S : T # {} => Max(T) \in T
  BY MaxLemma
<1>3. /\ step \in [S \X G -> G]
      /\ \A x \in S, s \in G : step[<<x, s>>] = ScanRow(s, keys[x])
  OBVIOUS
<1>4. iter = [T \in SUBSET S |-> IF T = {} THEN start
                                 ELSE LET x == Max(T) IN ScanRow(iter[T \ {x}], keys[x])]
  <2>1. \A T \in SUBSET S : T # {} => pick[T] \in T
    BY <1>2
  <2> HIDE DEF step
  <2>2. PICK g \in [SUBSET S -> G] : Recurs(g, S, start, pick, step)
    <3>1. step \in [S \X G -> G]
      BY <1>3
    <3> HIDE DEF pick, S
    <3> QED BY <1>1, <2>1, <3>1, SetRecursion
  <2>3. ASSUME NEW T \in SUBSET S
        PROVE  g[T] = IF T = {} THEN start
                      ELSE LET x == Max(T) IN ScanRow(g[T \ {x}], keys[x])
    <3>1. CASE T = {}
      BY <3>1, <2>2 DEF Recurs
    <3>2. CASE T # {}
      <4>1. Max(T) \in S /\ T \ {Max(T)} \in SUBSET S /\ pick[T] = Max(T)
        BY <1>2, <3>2
      <4> HIDE DEF pick, S
      <4>2. g[T \ {Max(T)}] \in G
        BY <4>1, <2>2
      <4>3. g[T] = step[<<pick[T], g[T \ {pick[T]}]>>]
        BY <2>2, <3>2 DEF Recurs
      <4> QED BY <4>1, <4>2, <4>3, <1>3, <3>2
    <3> QED BY <3>1, <3>2
  <2>4. g = [T \in SUBSET S |-> IF T = {} THEN start
                                ELSE LET x == Max(T) IN ScanRow(g[T \ {x}], keys[x])]
    <3> HIDE DEF S
    <3> QED BY <2>2, <2>3
  <2> QED BY <2>4
<1>5. FoldLeft(ScanRow, start, keys) = iter[S]
  BY DEF FoldLeft, MapThenFoldSet
<1> HIDE DEF iter
<1> DEFINE Q == {T \in SUBSET S : iter[T] \in G /\ \A i \in T : <<iter[T], keys[i]>> \in R}
<1>6. ASSUME NEW T \in SUBSET S, \A x \in T : T \ {x} \in Q PROVE T \in Q
  <2>1. CASE T = {}
    BY <2>1, <1>4
  <2>2. CASE T # {}
    <3> DEFINE x == Max(T)
               s == iter[T \ {x}]
    <3>1. x \in T /\ x \in S /\ T \ {x} \in Q
      BY <1>2, <1>6, <2>2
    <3>2. iter[T] = ScanRow(s, keys[x])
      BY <1>4, <2>2
    <3> HIDE DEF x
    <3>3. s \in G /\ \A i \in T \ {x} : <<s, keys[i]>> \in R
      BY <3>1
    <3> HIDE DEF s
    <3>4. iter[T] \in G /\ <<iter[T], keys[x]>> \in R
      BY <3>1, <3>2, <3>3
    <3>5. ASSUME NEW i \in T \ {x} PROVE <<iter[T], keys[i]>> \in R
      BY <3>1, <3>2, <3>3
    <3> QED BY <3>1, <3>4, <3>5
  <2> QED BY <2>1, <2>2
<1>7. S \in Q
  <2> HIDE DEF Q
  <2> QED BY <1>1, <1>6, SetInduction
<1> QED BY <1>5, <1>7

\* g runs through the views of an application that starts with v, handles the
\* events p and ends with st; and no event is news that v had already.
Agrees(g, v, p, st) ==
    /\ g \in [0..Len(p) -> SUBSET Keys]
    /\ g[0] = v /\ g[Len(p)] = st
    /\ \A i \in 1..Len(p) : /\ g[i] = Apply(g[i - 1], p[i])
                            /\ p[i].down <=> p[i].key \notin g[i - 1]

LEMMA AppendConcatLemma ==
    ASSUME NEW a \in Seq(Events), NEW b \in Seq(Events), NEW e \in Events
    PROVE  Append(a \o b, e) = a \o Append(b, e)
OBVIOUS

\* What such a run ends with is the fold of the properties.
LEMMA ViewFoldLemma ==
    ASSUME NEW p \in Seq(Events), NEW g, g \in [0..Len(p) -> SUBSET Keys],
           \A i \in 1..Len(p) : g[i] = Apply(g[i - 1], p[i])
    PROVE  FoldLeft(Apply, g[0], p) = g[Len(p)]
<1> DEFINE S == 1..Len(p)
           G == SUBSET Keys
           start == g[0]
           pick == [T \in SUBSET S |-> Max(T)]
           step == [q \in S \X G |-> Apply(q[2], p[q[1]])]
           iter[T \in SUBSET S] == IF T = {} THEN start
                                   ELSE LET x == Max(T) IN Apply(iter[T \ {x}], p[x])
<1>1. IsFiniteSet(S) /\ Len(p) \in Nat /\ DOMAIN p = S
  BY FS_Interval
<1>2. \A T \in SUBSET S : T # {} => Max(T) \in T
  BY <1>1, MaxLemma
<1>3. /\ step \in [S \X G -> G]
      /\ \A x \in S, s \in G : step[<<x, s>>] = Apply(s, p[x])
  <2>1. \A x \in S : p[x].key \in Keys
    <3>1. \A x \in S : p[x] \in Events
      BY <1>1
    <3>2. \A e \in Events : e.key \in Keys
      BY KeypadAssumption
    <3> QED BY <3>1, <3>2
  <2>2. \A x \in S, s \in G : Apply(s, p[x]) \in G
    BY <2>1 DEF Apply
  <2> QED BY <2>2
<1>4. iter = [T \in SUBSET S |-> IF T = {} THEN start
                                 ELSE LET x == Max(T) IN Apply(iter[T \ {x}], p[x])]
  <2>1. \A T \in SUBSET S : T # {} => pick[T] \in T
    BY <1>2
  <2> HIDE DEF step
  <2>2. PICK h \in [SUBSET S -> G] : Recurs(h, S, start, pick, step)
    <3>0. step \in [S \X G -> G]
      BY <1>3
    <3>1. start \in G
      BY <1>1
    <3> HIDE DEF pick, S, G, start
    <3> QED BY <1>1, <2>1, <3>0, <3>1, SetRecursion
  <2>3. ASSUME NEW T \in SUBSET S
        PROVE  h[T] = IF T = {} THEN start
                      ELSE LET x == Max(T) IN Apply(h[T \ {x}], p[x])
    <3>1. CASE T = {}
      BY <3>1, <2>2 DEF Recurs
    <3>2. CASE T # {}
      <4>1. Max(T) \in S /\ T \ {Max(T)} \in SUBSET S /\ pick[T] = Max(T)
        BY <1>2, <3>2
      <4> HIDE DEF pick, S, G
      <4>2. h[T \ {Max(T)}] \in G
        BY <4>1, <2>2
      <4>3. h[T] = step[<<pick[T], h[T \ {pick[T]}]>>]
        BY <2>2, <3>2 DEF Recurs
      <4> QED BY <4>1, <4>2, <4>3, <1>3, <3>2
    <3> QED BY <3>1, <3>2
  <2>4. h = [T \in SUBSET S |-> IF T = {} THEN start
                                ELSE LET x == Max(T) IN Apply(h[T \ {x}], p[x])]
    <3> HIDE DEF S, G
    <3> QED BY <2>2, <2>3
  <2> QED BY <2>4
<1>5. FoldLeft(Apply, start, p) = iter[S]
  BY <1>1 DEF FoldLeft, MapThenFoldSet
<1> HIDE DEF iter
<1> DEFINE Q == {n \in Nat : n <= Len(p) => iter[1..n] = g[n]}
<1>6. 0 \in Q
  BY <1>1, <1>4
<1>7. ASSUME NEW n \in Nat, n \in Q PROVE n + 1 \in Q
  <2> SUFFICES ASSUME n + 1 <= Len(p) PROVE iter[1..(n + 1)] = g[n + 1]
    OBVIOUS
  <2>1. 1..(n + 1) \in SUBSET S /\ 1..(n + 1) # {} /\ n + 1 \in S
    <3>1. Len(p) \in Nat /\ n + 1 \in 1..(n + 1) /\ n + 1 \in S
      BY <1>1
    <3>2. \A j \in 1..(n + 1) : j \in S
      BY <3>1
    <3> QED BY <3>1, <3>2
  <2>2. Max(1..(n + 1)) = n + 1
    <3>1. Max(1..(n + 1)) \in 1..(n + 1) /\ \A i \in 1..(n + 1) : i <= Max(1..(n + 1))
      BY <1>1, <2>1, MaxLemma
    <3> QED BY <3>1
  <2>3. (1..(n + 1)) \ {n + 1} = 1..n
    OBVIOUS
  <2>4. iter[1..(n + 1)] = Apply(iter[1..n], p[n + 1])
    <3> DEFINE T == 1..(n + 1)
    <3>1. T \in SUBSET S /\ T # {} /\ Max(T) = n + 1 /\ T \ {n + 1} = 1..n
      BY <2>1, <2>2, <2>3
    <3> HIDE DEF T, S
    <3>2. iter[T] = LET x == Max(T) IN Apply(iter[T \ {x}], p[x])
      BY <1>4, <3>1
    <3>3. iter[T] = Apply(iter[T \ {n + 1}], p[n + 1])
      BY <3>1, <3>2
    <3>4. iter[T] = Apply(iter[1..n], p[n + 1])
      BY <3>1, <3>3
    <3> QED BY <3>4 DEF T
  <2>5. iter[1..n] = g[n] /\ (n + 1) - 1 = n
    BY <1>1, <1>7
  <2> QED BY <2>1, <2>4, <2>5
<1>8. Len(p) \in Q
  <2> HIDE DEF Q
  <2> QED BY <1>1, <1>6, <1>7, NatSetInduction
<1> QED BY <1>1, <1>5, <1>8

\* The properties, read off from a run.
LEMMA ReadOffLemma ==
    ASSUME NEW p \in Seq(Events), NEW g, NEW v, NEW st, Agrees(g, v, p, st)
    PROVE  /\ FoldLeft(Apply, v, p) = st
           /\ \A i \in 1..Len(p) :
                  p[i].down <=> p[i].key \notin FoldLeft(Apply, v, SubSeq(p, 1, i - 1))
<1> USE DEF Agrees
<1>1. FoldLeft(Apply, v, p) = st
  BY ViewFoldLemma
<1>2. ASSUME NEW i \in 1..Len(p)
      PROVE  FoldLeft(Apply, v, SubSeq(p, 1, i - 1)) = g[i - 1]
  <2> DEFINE q == SubSeq(p, 1, i - 1)
             h == [j \in 0..(i - 1) |-> g[j]]
  <2>1. q \in Seq(Events) /\ Len(q) = i - 1 /\ \A j \in 1..(i - 1) : q[j] = p[j]
    OBVIOUS
  <2>2. h \in [0..Len(q) -> SUBSET Keys]
    <3>1. Len(p) \in Nat /\ g \in [0..Len(p) -> SUBSET Keys]
      OBVIOUS
    <3>2. \A j \in 0..(i - 1) : j \in 0..Len(p)
      BY <3>1
    <3>3. \A j \in 0..(i - 1) : g[j] \in SUBSET Keys
      BY <3>1, <3>2
    <3> QED BY <2>1, <3>3
  <2>3. ASSUME NEW j \in 1..Len(q) PROVE h[j] = Apply(h[j - 1], q[j])
    <3>1. j \in 1..Len(p) /\ j \in 0..(i - 1) /\ j - 1 \in 0..(i - 1) /\ q[j] = p[j]
      BY <2>1
    <3> QED BY <3>1
  <2>4. h[0] = v /\ h[Len(q)] = g[i - 1]
    BY <2>1
  <2> HIDE DEF h, q
  <2>5. FoldLeft(Apply, h[0], q) = h[Len(q)]
    BY <2>1, <2>2, <2>3, ViewFoldLemma
  <2> QED BY <2>4, <2>5 DEF q
<1>3. ASSUME NEW i \in 1..Len(p)
      PROVE  p[i].down <=> p[i].key \notin FoldLeft(Apply, v, SubSeq(p, 1, i - 1))
  BY <1>2, <1>3
<1> QED BY <1>1, <1>3

LEMMA EventLemma ==
    /\ \A e \in Events : e.key \in Keys
    /\ \A k \in Keys, d \in BOOLEAN : KeyEvent(k, d) \in Events
BY KeypadAssumption DEF KeyEvent

\* An event that is news goes on with the run.
LEMMA AppendLemma ==
    ASSUME NEW p \in Seq(Events), NEW g, NEW v, NEW st, Agrees(g, v, p, st),
           NEW e \in Events, e.down <=> e.key \notin st
    PROVE  \E h : Agrees(h, v, Append(p, e), Apply(st, e))
<1> DEFINE n == Len(p)
           q == Append(p, e)
           h == [j \in 0..(n + 1) |-> IF j = n + 1 THEN Apply(st, e) ELSE g[j]]
<1>1. /\ n \in Nat /\ Len(q) = n + 1 /\ q[n + 1] = e /\ \A j \in 1..n : q[j] = p[j]
  OBVIOUS
<1>2. /\ g \in [0..n -> SUBSET Keys] /\ g[0] = v /\ g[n] = st
      /\ \A i \in 1..n : g[i] = Apply(g[i - 1], p[i]) /\ (p[i].down <=> p[i].key \notin g[i - 1])
  BY DEF Agrees
<1> HIDE DEF q, n
<1>3. h \in [0..(n + 1) -> SUBSET Keys]
  <2>1. Apply(st, e) \in SUBSET Keys
    <3>1. e.key \in Keys
      BY EventLemma
    <3>2. st \in SUBSET Keys
      BY <1>1, <1>2
    <3> QED BY <3>1, <3>2 DEF Apply
  <2>2. \A j \in 0..(n + 1) : j # n + 1 => g[j] \in SUBSET Keys
    BY <1>1, <1>2
  <2> QED BY <2>1, <2>2
<1>4. h[0] = v /\ h[n] = st /\ h[n + 1] = Apply(st, e) /\ \A j \in 0..n : h[j] = g[j]
  BY <1>1, <1>2
<1> HIDE DEF h
<1>5. ASSUME NEW i \in 1..(n + 1)
      PROVE  h[i] = Apply(h[i - 1], q[i]) /\ (q[i].down <=> q[i].key \notin h[i - 1])
  <2>1. CASE i = n + 1
    <3>1. i - 1 = n
      BY <1>1, <2>1
    <3> QED BY <2>1, <3>1, <1>1, <1>4
  <2>2. CASE i # n + 1
    <3>1. i \in 1..n /\ i - 1 \in 0..n /\ i \in 0..n
      BY <1>1, <2>2
    <3>2. h[i] = g[i] /\ h[i - 1] = g[i - 1] /\ q[i] = p[i]
      BY <3>1, <1>1, <1>4
    <3> QED BY <3>1, <3>2, <1>2
  <2> QED BY <2>1, <2>2
<1>6. Agrees(h, v, q, Apply(st, e))
  BY <1>1, <1>3, <1>4, <1>5 DEF Agrees
<1> QED BY <1>6 DEF q

\* The application handles the first event.
LEMMA TailLemma ==
    ASSUME NEW p \in Seq(Events), p # <<>>, NEW g, NEW v, NEW st, Agrees(g, v, p, st)
    PROVE  \E h : Agrees(h, Apply(v, Head(p)), Tail(p), st)
<1> DEFINE n == Len(p)
           q == Tail(p)
           h == [j \in 0..(n - 1) |-> g[j + 1]]
<1>1. /\ n \in Nat /\ n > 0 /\ Len(q) = n - 1 /\ Head(p) = p[1]
      /\ \A j \in 1..(n - 1) : q[j] = p[j + 1]
  OBVIOUS
<1>2. /\ g \in [0..n -> SUBSET Keys] /\ g[0] = v /\ g[n] = st
      /\ \A i \in 1..n : g[i] = Apply(g[i - 1], p[i]) /\ (p[i].down <=> p[i].key \notin g[i - 1])
  BY DEF Agrees
<1> HIDE DEF q, n
<1>3. h \in [0..(n - 1) -> SUBSET Keys]
  <2>1. \A j \in 0..(n - 1) : g[j + 1] \in SUBSET Keys
    BY <1>1, <1>2
  <2> QED BY <2>1
<1>4. \A j \in 0..(n - 1) : h[j] = g[j + 1]
  OBVIOUS
<1> HIDE DEF h
<1>5. h[0] = Apply(v, Head(p)) /\ h[n - 1] = st
  <2>1. 1 \in 1..n /\ 1 - 1 = 0 /\ 0 \in 0..(n - 1) /\ 0 + 1 = 1 /\ n - 1 \in 0..(n - 1) /\ (n - 1) + 1 = n
    BY <1>1
  <2>2. g[1] = Apply(g[1 - 1], p[1])
    BY <1>2, <2>1
  <2> QED BY <2>1, <2>2, <1>1, <1>2, <1>4
<1>6. ASSUME NEW i \in 1..(n - 1)
      PROVE  h[i] = Apply(h[i - 1], q[i]) /\ (q[i].down <=> q[i].key \notin h[i - 1])
  <2>1. i + 1 \in 1..n /\ (i + 1) - 1 = i /\ (i - 1) + 1 = i /\ i \in 0..(n - 1) /\ i - 1 \in 0..(n - 1)
    BY <1>1
  <2>2. h[i] = g[i + 1] /\ h[i - 1] = g[i] /\ q[i] = p[i + 1]
    BY <2>1, <1>1, <1>4
  <2>3. /\ g[i + 1] = Apply(g[(i + 1) - 1], p[i + 1])
        /\ p[i + 1].down <=> p[i + 1].key \notin g[(i + 1) - 1]
    BY <2>1, <1>2
  <2> QED BY <2>1, <2>2, <2>3
<1>7. Agrees(h, Apply(v, Head(p)), q, st)
  BY <1>1, <1>3, <1>5, <1>6 DEF Agrees
<1> QED BY <1>7 DEF q

-----------------------------------------------------------------------------
(* The keypad.                                                               *)

\* The scanner and the application agree across the queue, unless something was
\* dropped.
ViewInv == ~lost => \E g : Agrees(g, view, pending, state)

KeypadInv ==
    /\ IInv
    /\ col \in -1..(Cols - 1)
    /\ state \in SUBSET Keys /\ pressed \in SUBSET Keys /\ view \in SUBSET Keys
    /\ lost \in BOOLEAN
    /\ ViewInv

\* The states of the scanner that the loop of one interrupt goes through: what
\* it has pushed comes after what waited before.
Scans ==
    {s \in [kev : Queue, state : SUBSET Keys, lost : BOOLEAN] :
        /\ Sound(s.kev)
        /\ \E es \in Seq(Events) : /\ Waiting(s.kev) = pending \o es
                                   /\ Len(pending) + Len(es) <= N - 1
        /\ ~s.lost => \E g : Agrees(g, view, Waiting(s.kev), s.state)}

LEMMA SoundLemma ==
    ASSUME NEW k, Sound(k)
    PROVE  /\ k \in Queue /\ Waiting(k) \in Seq(Events) /\ Len(Waiting(k)) = Count(k)
           /\ Count(k) \in 0..(N - 1) /\ N \in Nat
<1>1. k \in Queue /\ \A i \in 1..Count(k) : Waiting(k)[i] \in Events
  BY DEF Sound
<1>2. Count(k) \in 0..(N - 1) /\ N \in Nat
  BY <1>1, CountLemma
<1>3. Waiting(k) \in Seq(Events \union {NoEvent}) /\ Len(Waiting(k)) = Count(k)
  BY <1>1, WaitingLemma
<1>4. Waiting(k) \in Seq(Events)
  BY <1>1, <1>2, <1>3
<1> QED BY <1>1, <1>2, <1>3, <1>4

LEMMA ScanRowLemma ==
    ASSUME KeypadInv, NEW s \in Scans, NEW k \in Keys
    PROVE  ScanRow(s, k) \in Scans
<1>1. CASE k \in pressed <=> k \in s.state
  BY <1>1 DEF ScanRow
<1>2. CASE ~(k \in pressed <=> k \in s.state)
  <2> DEFINE e == KeyEvent(k, k \in pressed)
             new == key_push(s.kev, e)
             t == IF k \in pressed THEN s.state \union {k} ELSE s.state \ {k}
             l == s.lost \/ Full(s.kev)
  <2>1. ScanRow(s, k) = [kev |-> new, state |-> t, lost |-> l]
    BY <1>2 DEF ScanRow
  <2>2. e \in Events /\ e.key = k /\ (e.down <=> k \in pressed)
    <3>1. (k \in pressed) \in BOOLEAN
      OBVIOUS
    <3> QED BY <3>1, EventLemma DEF KeyEvent
  <2>3. (e.down <=> e.key \notin s.state) /\ t = Apply(s.state, e)
    BY <1>2, <2>2 DEF Apply
  <2>4. /\ Sound(s.kev) /\ s.state \in SUBSET Keys /\ s.lost \in BOOLEAN
        /\ ~s.lost => \E g : Agrees(g, view, Waiting(s.kev), s.state)
    BY DEF Scans
  <2>5. PICK es \in Seq(Events) : /\ Waiting(s.kev) = pending \o es
                                  /\ Len(pending) + Len(es) <= N - 1
    BY DEF Scans
  <2> HIDE DEF e
  <2>6. Sound(new) /\ new \in Queue
    BY <2>2, <2>4, PushSoundLemma DEF Sound
  <2>7. t \in SUBSET Keys /\ l \in BOOLEAN
    BY <2>4
  <2>8. \E fs \in Seq(Events) : /\ Waiting(new) = pending \o fs
                                /\ Len(pending) + Len(fs) <= N - 1
    <3>1. CASE Full(s.kev)
      BY <2>5, <3>1 DEF key_push
    <3>2. CASE ~Full(s.kev)
      <4>1. Count(s.kev) < N - 1 /\ Waiting(new) = Append(Waiting(s.kev), e)
        BY <2>2, <2>4, <3>2, PushSoundLemma
      <4>2. /\ Len(Waiting(s.kev)) = Count(s.kev) /\ Count(s.kev) \in Nat /\ N \in Nat
            /\ pending \in Seq(Events)
        BY <2>4, SoundLemma DEF KeypadInv, IInv, pending
      <4> DEFINE fs == Append(es, e)
      <4>3. fs \in Seq(Events) /\ Append(pending \o es, e) = pending \o fs
        <5>1. fs \in Seq(Events)
          BY <2>2
        <5>2. Append(pending \o es, e) = pending \o fs
          <6>1. pending \in Seq(Events) /\ es \in Seq(Events) /\ e \in Events
            BY <2>2, <4>2
          <6> HIDE DEF pending
          <6> QED BY <6>1, AppendConcatLemma
        <5> QED BY <5>1, <5>2
      <4>4. Len(pending) + Len(fs) <= N - 1
        BY <2>2, <2>5, <4>1, <4>2
      <4> QED BY <2>5, <4>1, <4>3, <4>4
    <3> QED BY <3>1, <3>2
  <2>9. ~l => \E g : Agrees(g, view, Waiting(new), t)
    <3> SUFFICES ASSUME ~s.lost, ~Full(s.kev) PROVE \E g : Agrees(g, view, Waiting(new), t)
      OBVIOUS
    <3>1. PICK g : Agrees(g, view, Waiting(s.kev), s.state)
      BY <2>4
    <3>2. Waiting(s.kev) \in Seq(Events) /\ Waiting(new) = Append(Waiting(s.kev), e)
      BY <2>2, <2>4, SoundLemma, PushSoundLemma
    <3>3. \E h : Agrees(h, view, Append(Waiting(s.kev), e), Apply(s.state, e))
      BY <2>2, <2>3, <3>1, <3>2, AppendLemma
    <3> QED BY <2>3, <3>2, <3>3
  <2> HIDE DEF new, t, l
  <2> DEFINE r == [kev |-> new, state |-> t, lost |-> l]
  <2>10. r \in [kev : Queue, state : SUBSET Keys, lost : BOOLEAN]
    BY <2>6, <2>7
  <2>11. r.kev = new /\ r.state = t /\ r.lost = l
    OBVIOUS
  <2> HIDE DEF r
  <2>12. r \in Scans
    BY <2>6, <2>8, <2>9, <2>10, <2>11 DEF Scans
  <2> QED BY <2>1, <2>12 DEF r
<1> QED BY <1>1, <1>2

\* The keys one interrupt looks at, and those of them whose change the scanner
\* has not seen in its state s.
Column == {KeyOf(col, r) : r \in 0..(Rows - 1)}

Unseen(s) == {k \in Column : ~(k \in pressed <=> k \in s)}

LEMMA ColumnLemma ==
    ASSUME KeypadInv, col # -1
    PROVE  LET keys == [i \in 1..Rows |-> KeyOf(col, i - 1)]
           IN  /\ Rows \in Nat /\ keys \in [1..Rows -> Keys]
               /\ \A i \in 1..Rows : keys[i] \in Column
               /\ \A k \in Column : \E i \in 1..Rows : k = keys[i]
<1>1. Rows \in Nat /\ Cols \in Nat /\ Rows > 0 /\ Cols > 0
  BY KeypadAssumption
<1>2. col \in 0..(Cols - 1)
  BY <1>1 DEF KeypadInv
<1>3. ASSUME NEW i \in 1..Rows PROVE KeyOf(col, i - 1) \in Keys
  <2>1. col * Rows \in Int /\ col * Rows >= 0 /\ col * Rows <= (Cols - 1) * Rows
    BY <1>1, <1>2
  <2>2. (Cols - 1) * Rows = Cols * Rows - Rows /\ Cols * Rows \in Int
    BY <1>1
  <2> QED BY <1>1, <2>1, <2>2 DEF KeyOf, Keys
<1>4. ASSUME NEW i \in 1..Rows PROVE KeyOf(col, i - 1) \in Column
  <2>1. i - 1 \in 0..(Rows - 1)
    BY <1>1
  <2> QED BY <2>1 DEF Column
<1>5. ASSUME NEW k \in Column PROVE \E i \in 1..Rows : k = KeyOf(col, i - 1)
  <2>1. PICK r \in 0..(Rows - 1) : k = KeyOf(col, r)
    BY DEF Column
  <2>2. r + 1 \in 1..Rows /\ (r + 1) - 1 = r
    BY <1>1
  <2> QED BY <2>1, <2>2
<1> QED BY <1>1, <1>3, <1>4, <1>5

LEMMA KeypadInitLemma == KeypadInit => KeypadInv /\ Fifo!Init
<1> SUFFICES ASSUME KeypadInit PROVE KeypadInv /\ Fifo!Init
  OBVIOUS
<1>1. IInv /\ pending = <<>> /\ Init
  BY InitLemma DEF KeypadInit
<1>2. /\ col = -1 /\ state = {} /\ pressed = {} /\ view = {} /\ lost = FALSE
  BY DEF KeypadInit
<1>3. Agrees([i \in 0..0 |-> {}], {}, <<>>, {})
  BY DEF Agrees
<1>4. col \in -1..(Cols - 1)
  BY <1>2, KeypadAssumption
<1>5. ViewInv
  BY <1>1, <1>2, <1>3 DEF ViewInv
<1>6. KeypadInv
  BY <1>1, <1>2, <1>4, <1>5 DEF KeypadInv
<1> QED BY <1>1, <1>6 DEF Fifo!Init, Init

\* One interrupt pushes events that are news, in order; one that finds the queue
\* full drops them and says so.
LEMMA ScanLemma ==
    ASSUME KeypadInv, keypad_isr
    PROVE  KeypadInv' /\ [Fifo!Next]_Fifo!vars
<1> DEFINE start == [kev |-> kev, state |-> state, lost |-> lost]
           keys == [i \in 1..Rows |-> KeyOf(col, i - 1)]
           s == FoldLeft(ScanRow, start, keys)
<1>1. /\ kev' = s.kev /\ state' = s.state /\ lost' = s.lost
      /\ col # -1 /\ UNCHANGED <<pc, value, popped, col, pressed, view>>
  BY DEF keypad_isr, consumerVars
<1>2. /\ Sound(kev) /\ kev \in Queue /\ pending \in Seq(Events)
      /\ Len(pending) \in 0..(N - 1) /\ N \in Nat
  BY SoundLemma DEF KeypadInv, IInv, pending
<1>3. start \in Scans
  <2>1. start \in [kev : Queue, state : SUBSET Keys, lost : BOOLEAN]
    BY <1>2 DEF KeypadInv
  <2>2. start.kev = kev /\ start.state = state /\ start.lost = lost
    OBVIOUS
  <2> HIDE DEF start
  <2>3. \E es \in Seq(Events) : pending = pending \o es /\ Len(pending) + Len(es) <= N - 1
    <3>1. <<>> \in Seq(Events) /\ pending = pending \o <<>> /\ Len(<<>>) = 0
      BY <1>2
    <3>2. Len(pending) + Len(<<>>) <= N - 1
      BY <1>2
    <3> QED BY <3>1, <3>2
  <2> QED BY <1>2, <2>1, <2>2, <2>3 DEF Scans, KeypadInv, ViewInv, pending
<1>4. Rows \in Nat /\ keys \in [1..Rows -> Keys]
  BY <1>1, ColumnLemma
<1> HIDE DEF start, keys
<1>5. s \in Scans
  <2> DEFINE R == Scans \X Keys
  <2>1. ASSUME NEW t \in Scans, NEW i \in 1..Rows
        PROVE  /\ ScanRow(t, keys[i]) \in Scans /\ <<ScanRow(t, keys[i]), keys[i]>> \in R
               /\ \A k \in Keys : <<t, k>> \in R => <<ScanRow(t, keys[i]), k>> \in R
    BY <1>4, ScanRowLemma
  <2> HIDE DEF R
  <2> QED BY <1>3, <1>4, <2>1, ScanLoopLemma
<1> HIDE DEF s
<1>6. /\ kev' \in Queue /\ state' \in SUBSET Keys
      /\ Sound(s.kev)
      /\ ~lost' => \E g : Agrees(g, view, Waiting(kev'), state')
  BY <1>1, <1>5 DEF Scans
<1>7. lost' \in BOOLEAN
  BY <1>1, <1>5 DEF Scans
<1>8. PICK es \in Seq(Events) : pending' = pending \o es /\ Len(pending) + Len(es) <= N - 1
  BY <1>1, <1>5 DEF Scans, pending
<1>9. Sound(kev)'
  BY <1>1, <1>6 DEF Sound
<1>10. ConsumerOK'
  BY <1>1 DEF KeypadInv, IInv, ConsumerOK
<1>11. ViewInv'
  BY <1>1, <1>6 DEF ViewInv, pending
<1>12. /\ col' \in -1..(Cols - 1) /\ pressed' \in SUBSET Keys /\ view' \in SUBSET Keys
  BY <1>1 DEF KeypadInv
<1>13. KeypadInv'
  BY <1>6, <1>7, <1>9, <1>10, <1>11, <1>12 DEF KeypadInv, IInv
<1>14. [Fifo!Next]_Fifo!vars
  BY <1>1, <1>2, <1>8, PutLemma
<1> QED BY <1>13, <1>14

LEMMA ConsumeLemma ==
    ASSUME KeypadInv, Consume
    PROVE  KeypadInv' /\ [Fifo!Next]_Fifo!vars
<1>1. Pop /\ IInv /\ UNCHANGED <<col, state, pressed, lost>>
  BY DEF Consume, KeypadInv
<1>2. IInv' /\ [Fifo!Next]_Fifo!vars
  BY <1>1, GetLemma
<1>3. pending \in Seq(Events)
  BY <1>1, SoundLemma DEF IInv, pending
<1>4. view' \in SUBSET Keys /\ ViewInv'
  <2>1. CASE PopAdvance
    <3>1. pc = "advance" /\ popped' = value
      BY <2>1 DEF PopAdvance
    <3>2. pending # <<>> /\ value = Head(pending) /\ pending' = Tail(pending)
      BY <1>1, <2>1, <3>1, PopInvLemma
    <3>3. view' = Apply(view, Head(pending))
      BY <3>1, <3>2 DEF Consume
    <3>4. Head(pending) \in Events
      BY <1>3, <3>2
    <3>5. view' \in SUBSET Keys
      BY <3>3, <3>4, EventLemma DEF Apply, KeypadInv
    <3>6. ViewInv'
      <4> SUFFICES ASSUME ~lost PROVE \E h : Agrees(h, view', pending', state)
        BY <1>1 DEF ViewInv
      <4>1. PICK g : Agrees(g, view, pending, state)
        BY DEF KeypadInv, ViewInv
      <4> QED BY <4>1, <1>3, <3>2, <3>3, TailLemma
    <3> QED BY <3>5, <3>6
  <2>2. CASE PopWait \/ PopRead
    <3>1. UNCHANGED <<pending, view>>
      BY <1>1, <2>2, PopReadLemma DEF Consume, PopWait, PopRead
    <3> QED BY <1>1, <3>1 DEF KeypadInv, ViewInv
  <2> QED BY <1>1, <2>1, <2>2 DEF Pop
<1>5. KeypadInv'
  BY <1>1, <1>2, <1>4 DEF KeypadInv
<1> QED BY <1>2, <1>5

LEMMA KeypadNextLemma == KeypadInv /\ [KeypadNext]_keypadVars => KeypadInv' /\ [Fifo!Next]_Fifo!vars
<1> SUFFICES ASSUME KeypadInv, [KeypadNext]_keypadVars
             PROVE  KeypadInv' /\ [Fifo!Next]_Fifo!vars
  OBVIOUS
<1>1. ASSUME UNCHANGED <<queueVars, state, view, lost>>,
             col' \in -1..(Cols - 1), pressed' \in SUBSET Keys
      PROVE  KeypadInv' /\ [Fifo!Next]_Fifo!vars
  <2>1. IInv' /\ UNCHANGED <<pending, popped>>
    BY <1>1, PopReadLemma DEF KeypadInv
  <2>2. ViewInv'
    BY <1>1, <2>1 DEF KeypadInv, ViewInv
  <2>3. KeypadInv'
    BY <1>1, <2>1, <2>2 DEF KeypadInv
  <2> QED BY <2>1, <2>3 DEF Fifo!vars
<1>2. CASE keypad_drive_column
  <2>1. Cols \in Nat /\ Cols > 0
    BY KeypadAssumption
  <2>2. col' \in -1..(Cols - 1)
    BY <1>2, <2>1 DEF keypad_drive_column, KeypadInv
  <2> QED BY <1>1, <1>2, <2>2 DEF keypad_drive_column, KeypadInv
<1>3. CASE keypad_isr
  BY <1>3, ScanLemma
<1>4. CASE Consume
  BY <1>4, ConsumeLemma
<1>5. ASSUME NEW k \in Touched, Touch(k) PROVE KeypadInv' /\ [Fifo!Next]_Fifo!vars
  <2>1. k \in Keys
    BY KeypadAssumption
  <2> QED BY <1>1, <1>5, <2>1 DEF Touch, KeypadInv
<1>6. CASE UNCHANGED keypadVars
  BY <1>1, <1>6 DEF keypadVars, KeypadInv
<1> QED BY <1>2, <1>3, <1>4, <1>5, <1>6 DEF KeypadNext

LEMMA KeypadInvLemma == KeypadSpec => []KeypadInv
BY KeypadInitLemma, KeypadNextLemma, PTL DEF KeypadSpec

\* Pushes come several to an interrupt and between any two steps of key_pop: the
\* slot being popped is stable under the keypad as well (keypad.c, queue.c).
THEOREM KeypadSlotTheorem == KeypadSpec => []SlotStable
<1>1. KeypadInv => SlotStable
  BY IInvLemma DEF KeypadInv
<1> QED BY <1>1, KeypadInvLemma, PTL

\* Until an event is dropped, the view of the application brought up to date
\* with the waiting events is what the scanner saw (keypad_isr), for a keypad
\* and a queue of any size.
THEOREM ViewTheorem == KeypadSpec => []ViewCatchesUp
<1>1. KeypadInv => ViewCatchesUp
  <2> SUFFICES ASSUME KeypadInv, ~lost PROVE FoldLeft(Apply, view, pending) = state
    BY DEF ViewCatchesUp
  <2>1. pending \in Seq(Events)
    BY SoundLemma DEF KeypadInv, IInv, pending
  <2>2. PICK g : Agrees(g, view, pending, state)
    BY DEF KeypadInv, ViewInv
  <2> QED BY <2>1, <2>2, ReadOffLemma
<1> QED BY <1>1, KeypadInvLemma, PTL

\* Until an event is dropped, the presses and releases of every key alternate.
THEOREM AlternateTheorem == KeypadSpec => []EventsAlternate
<1>1. KeypadInv => EventsAlternate
  <2> SUFFICES ASSUME KeypadInv, ~lost
               PROVE  \A i \in DOMAIN pending :
                        pending[i].down <=>
                        pending[i].key \notin FoldLeft(Apply, view, SubSeq(pending, 1, i - 1))
    BY DEF EventsAlternate
  <2>1. pending \in Seq(Events)
    BY SoundLemma DEF KeypadInv, IInv, pending
  <2>2. PICK g : Agrees(g, view, pending, state)
    BY DEF KeypadInv, ViewInv
  <2>3. DOMAIN pending = 1..Len(pending)
    BY <2>1
  <2> QED BY <2>1, <2>2, <2>3, ReadOffLemma
<1> QED BY <1>1, KeypadInvLemma, PTL

\* The queue as the keypad and the application use it, with several pushes to an
\* interrupt, is the bounded queue of queue.h.
THEOREM KeypadImplementsFifo == KeypadSpec => ImplementsFifo
BY KeypadInitLemma, KeypadInvLemma, KeypadNextLemma, PTL
   DEF KeypadSpec, ImplementsFifo, Fifo!Spec

\* The states of the loop again, for what they say of the number of events: the
\* changes it has seen wait behind what waited before, or the queue is full.
Taken(s) == Len(pending) + Cardinality(News \ Unseen(s.state))

Fillings ==
    {s \in [kev : Queue, state : SUBSET Keys, lost : BOOLEAN] :
        /\ Sound(s.kev)
        /\ Unseen(s.state) \subseteq News
        /\ Count(s.kev) = Taken(s) \/ (Count(s.kev) = N - 1 /\ Taken(s) >= N - 1)}

\* A turn of the loop takes its key from those that are not seen, and no other.
LEMMA SeenLemma ==
    ASSUME NEW s \in Fillings, NEW k \in Column
    PROVE  Unseen(ScanRow(s, k).state) = Unseen(s.state) \ {k}
<1>1. CASE k \in pressed <=> k \in s.state
  BY <1>1 DEF ScanRow, Unseen
<1>2. CASE ~(k \in pressed <=> k \in s.state)
  <2> DEFINE t == IF k \in pressed THEN s.state \union {k} ELSE s.state \ {k}
  <2>1. ScanRow(s, k).state = t
    BY <1>2 DEF ScanRow
  <2>2. \A j : (j \in t) <=> IF j = k THEN k \in pressed ELSE j \in s.state
    OBVIOUS
  <2> HIDE DEF t
  <2> QED BY <2>1, <2>2 DEF Unseen
<1> QED BY <1>1, <1>2

LEMMA FillingLemma ==
    ASSUME KeypadInv, col # -1, NEW s \in Fillings, NEW k \in Column
    PROVE  ScanRow(s, k) \in Fillings
<1>1. CASE k \in pressed <=> k \in s.state
  BY <1>1 DEF ScanRow
<1>2. CASE ~(k \in pressed <=> k \in s.state)
  <2> DEFINE e == KeyEvent(k, k \in pressed)
             new == key_push(s.kev, e)
             r == ScanRow(s, k)
  <2>1. k \in Keys /\ IsFiniteSet(News)
    <3>1. k \in Keys /\ Column \subseteq Keys
      BY ColumnLemma
    <3>2. Cols * Rows - 1 \in Int
      BY KeypadAssumption
    <3>3. IsFiniteSet(Keys)
      BY <3>2, FS_Interval DEF Keys
    <3>4. News \in SUBSET Keys
      BY <3>1 DEF News, Column
    <3> QED BY <3>1, <3>3, <3>4, FS_Subset
  <2>2. e \in Events
    <3>1. (k \in pressed) \in BOOLEAN
      OBVIOUS
    <3> QED BY <2>1, <3>1, EventLemma DEF KeyEvent
  <2> HIDE DEF e
  <2>3. /\ Sound(s.kev) /\ s.kev \in Queue /\ Count(s.kev) \in 0..(N - 1) /\ N \in Nat
        /\ s.state \in SUBSET Keys /\ s.lost \in BOOLEAN
        /\ Unseen(s.state) \subseteq News
        /\ Count(s.kev) = Taken(s) \/ (Count(s.kev) = N - 1 /\ Taken(s) >= N - 1)
    BY SoundLemma DEF Fillings
  <2>4. /\ r.kev = new
        /\ r \in [kev : Queue, state : SUBSET Keys, lost : BOOLEAN] /\ Sound(new)
    <3>1. Sound(new) /\ new \in Queue
      BY <2>2, <2>3, PushSoundLemma DEF Sound
    <3> HIDE DEF new
    <3>2. r = [kev |-> new, state |-> IF k \in pressed THEN s.state \union {k} ELSE s.state \ {k},
               lost |-> s.lost \/ Full(s.kev)]
      BY <1>2 DEF ScanRow, new, e
    <3> QED BY <2>1, <2>3, <3>1, <3>2
  <2>5. /\ Unseen(r.state) \subseteq News
        /\ News \ Unseen(r.state) = (News \ Unseen(s.state)) \union {k}
        /\ k \notin News \ Unseen(s.state)
    <3>1. Unseen(r.state) = Unseen(s.state) \ {k}
      BY SeenLemma
    <3>2. k \in Unseen(s.state)
      BY <1>2 DEF Unseen
    <3> QED BY <2>3, <3>1, <3>2
  <2>6. Taken(r) = Taken(s) + 1 /\ Taken(s) \in Nat
    <3> DEFINE D == News \ Unseen(s.state)
    <3>1. IsFiniteSet(D)
      BY <2>1, FS_Subset
    <3>2. Cardinality(D) \in Nat
      BY <3>1, FS_CardinalityType
    <3>3. Cardinality(D \union {k}) = Cardinality(D) + 1
      BY <2>5, <3>1, FS_AddElement
    <3>4. Len(pending) \in Nat
      BY SoundLemma DEF KeypadInv, IInv, pending
    <3>5. Taken(s) = Len(pending) + Cardinality(D)
      BY DEF Taken
    <3>6. Taken(r) = Len(pending) + Cardinality(D \union {k})
      <4> HIDE DEF r
      <4> QED BY <2>5 DEF Taken
    <3> HIDE DEF D
    <3> QED BY <3>2, <3>3, <3>4, <3>5, <3>6
  <2>7. Count(new) = Taken(r) \/ (Count(new) = N - 1 /\ Taken(r) >= N - 1)
    <3>1. CASE Full(s.kev)
      <4>1. Count(new) = N - 1 /\ Count(s.kev) = N - 1
        BY <2>3, <3>1, CountLemma DEF key_push
      <4> QED BY <2>3, <2>6, <4>1
    <3>2. CASE ~Full(s.kev)
      <4>1. Count(new) = Count(s.kev) + 1 /\ Count(s.kev) < N - 1
        BY <2>2, <2>3, <3>2, PushLemma, PushSoundLemma
      <4> QED BY <2>3, <2>6, <4>1
    <3> QED BY <3>1, <3>2
  <2> HIDE DEF r, new
  <2> QED BY <2>4, <2>5, <2>7 DEF Fillings, r
<1> QED BY <1>1, <1>2

\* Nothing is dropped that the queue has room for: the loop of one interrupt
\* comes to every key of the column, sees each change once, and each takes a
\* slot until the last one is taken (keypad_isr, key_push).
THEOREM OverflowTheorem == KeypadSpec => OnlyOverflowIsDropped
<1>1. ASSUME KeypadInv, keypad_isr
      PROVE  Len(pending') = Min({Len(pending) + Cardinality(News), N - 1})
  <2> DEFINE start == [kev |-> kev, state |-> state, lost |-> lost]
             keys == [i \in 1..Rows |-> KeyOf(col, i - 1)]
             s == FoldLeft(ScanRow, start, keys)
             R == {p \in Fillings \X Keys : p[2] \notin Unseen(p[1].state)}
  <2>1. kev' = s.kev /\ col # -1
    BY <1>1 DEF keypad_isr
  <2>2. /\ Sound(kev) /\ kev \in Queue /\ Len(pending) = Count(kev)
        /\ Len(pending) \in 0..(N - 1) /\ N \in Nat
    BY <1>1, SoundLemma DEF KeypadInv, IInv, pending
  <2>3. start \in Fillings
    <3>1. start \in [kev : Queue, state : SUBSET Keys, lost : BOOLEAN]
      BY <1>1, <2>2 DEF KeypadInv
    <3>2. start.kev = kev /\ start.state = state
      OBVIOUS
    <3> HIDE DEF start
    <3>3. Unseen(start.state) = News
      BY <3>2 DEF Unseen, News, Column
    <3>4. News \ Unseen(start.state) = {}
      BY <3>3
    <3>5. Taken(start) = Len(pending)
      <4>1. Cardinality(News \ Unseen(start.state)) = 0
        BY <3>4, FS_EmptySet
      <4>2. Len(pending) \in Nat
        BY <2>2
      <4> QED BY <4>1, <4>2 DEF Taken
    <3> QED BY <2>2, <3>1, <3>2, <3>3, <3>5 DEF Fillings
  <2>4. /\ Rows \in Nat /\ keys \in [1..Rows -> Keys]
        /\ \A i \in 1..Rows : keys[i] \in Column
        /\ \A k \in Column : \E i \in 1..Rows : k = keys[i]
    BY <1>1, <2>1, ColumnLemma
  <2> HIDE DEF start, keys
  <2>5. ASSUME NEW t \in Fillings, NEW i \in 1..Rows
        PROVE  /\ ScanRow(t, keys[i]) \in Fillings /\ <<ScanRow(t, keys[i]), keys[i]>> \in R
               /\ \A k \in Keys : <<t, k>> \in R => <<ScanRow(t, keys[i]), k>> \in R
    <3> DEFINE r == ScanRow(t, keys[i])
    <3>1. r \in Fillings /\ Unseen(r.state) = Unseen(t.state) \ {keys[i]}
      BY <1>1, <2>1, <2>4, FillingLemma, SeenLemma
    <3> HIDE DEF r
    <3>2. keys[i] \in Keys
      BY <2>4
    <3> QED BY <3>1, <3>2 DEF r
  <2>6. s \in Fillings /\ \A i \in 1..Rows : <<s, keys[i]>> \in R
    <3> HIDE DEF R
    <3> QED BY <2>3, <2>4, <2>5, ScanLoopLemma
  <2> HIDE DEF s
  <2>7. Unseen(s.state) = {}
    <3>1. \A k \in Column : k \notin Unseen(s.state)
      BY <2>4, <2>6
    <3> QED BY <3>1 DEF Unseen
  <2>8. News \ Unseen(s.state) = News
    BY <2>7
  <2>9. /\ Sound(s.kev)
        /\ \/ Count(s.kev) = Len(pending) + Cardinality(News)
           \/ Count(s.kev) = N - 1 /\ Len(pending) + Cardinality(News) >= N - 1
    BY <2>6, <2>8 DEF Fillings, Taken
  <2>10. Len(pending') = Count(s.kev) /\ Count(s.kev) \in 0..(N - 1)
    BY <2>1, <2>9, SoundLemma DEF pending
  <2>11. Cardinality(News) \in Nat
    <3>1. IsFiniteSet(Keys)
      BY KeypadAssumption, FS_Interval DEF Keys
    <3>2. News \in SUBSET Keys
      BY <2>4 DEF News, Column
    <3> QED BY <3>1, <3>2, FS_Subset, FS_CardinalityType
  <2> DEFINE a == Len(pending) + Cardinality(News)
  <2>12. /\ a \in Nat /\ N - 1 \in Int
         /\ Count(s.kev) = IF a <= N - 1 THEN a ELSE N - 1
    BY <2>2, <2>9, <2>10, <2>11
  <2> HIDE DEF a
  <2>13. Min({a, N - 1}) = IF a <= N - 1 THEN a ELSE N - 1
    BY <2>12 DEF Min
  <2> QED BY <2>10, <2>12, <2>13 DEF a
<1> QED BY <1>1, KeypadInvLemma, PTL DEF OnlyOverflowIsDropped
=============================================================================
