-------------------------- MODULE AudioVoicesProofs --------------------------
(***************************************************************************)
(* The voices for any number of them, tables of any length and any number  *)
(* of interrupts between two stores that is below the shortest table.      *)
(***************************************************************************)
EXTENDS AudioVoices, FiniteSetTheorems, TLAPS

\* How far a trigger has come. Each store relies on those before it.
TriggerInv ==
    /\ store \in {"frames", "pos", "active"} => voice \in pcm
    /\ store \in {"pos", "active"} => frames[voice] = Length[voice]
    /\ store = "active" => pos[voice] <= late

\* A voice with a length also has a table.
TableInv == \A v \in Voices : frames[v] # 0 => v \in pcm

\* Neither property is inductive alone: a voice is safe to activate only because
\* of what the stores before it left, whatever the interrupt did in between.
IInv == TypeOK /\ NoStuckVoice /\ TriggerInv /\ TableInv

LEMMA InitLemma == Init => IInv
BY AudioAssumption DEF Init, IInv, TypeOK, NoStuckVoice, TriggerInv, TableInv

LEMMA IsrLemma ==
    ASSUME IInv, audio_isr
    PROVE  IInv'
<1> USE DEF IInv, Playing
<1>1. /\ pos' = [v \in Voices |-> IF v \in Playing THEN pos[v] + 1 ELSE pos[v]]
      /\ active' = [v \in Voices |-> active[v] /\ (v \in Playing => pos'[v] < frames[v])]
      /\ UNCHANGED <<pcm, frames, store, voice>>
      /\ late' = (IF store # "none" THEN late + 1 ELSE 0)
      /\ store # "none" => late < Gap
  BY DEF audio_isr
<1>2. TypeOK'
  BY <1>1, AudioAssumption DEF TypeOK
<1>3. NoStuckVoice'
  BY <1>1, <1>2 DEF TypeOK, NoStuckVoice
<1>4. TriggerInv'
  BY <1>1, AudioAssumption DEF TypeOK, TriggerInv
<1>5. TableInv'
  BY <1>1 DEF TableInv
<1> QED BY <1>2, <1>3, <1>4, <1>5

LEMMA StoreLemma ==
    ASSUME IInv, Main \/ (\E v \in Voices : Trigger(v))
    PROVE  IInv'
<1> USE DEF IInv
<1>1. CASE StorePcm
  BY <1>1, AudioAssumption DEF StorePcm, TypeOK, NoStuckVoice, TriggerInv, TableInv
<1>2. CASE StoreFrames
  <2> USE <1>2 DEF StoreFrames
  <2>1. Length[voice] \in Nat /\ Length[voice] # 0 /\ voice \in Voices
    BY AudioAssumption DEF TypeOK
  <2>2. TypeOK'
    BY <2>1, AudioAssumption DEF TypeOK
  <2>3. NoStuckVoice'
    <3> SUFFICES ASSUME NEW v \in Voices, active[v] PROVE pos[v] < frames'[v]
      BY DEF NoStuckVoice
    <3>1. pos[v] < frames[v] /\ frames[v] \in Nat /\ pos[v] \in Nat
      BY DEF NoStuckVoice, TypeOK
    <3>2. frames[v] = Length[v]
      BY <3>1 DEF TypeOK
    <3> QED BY <3>1, <3>2 DEF TypeOK
  <2>4. TriggerInv' /\ TableInv'
    BY <2>1 DEF TypeOK, TriggerInv, TableInv
  <2> QED BY <2>2, <2>3, <2>4
<1>3. CASE StorePos
  BY <1>3, AudioAssumption DEF StorePos, TypeOK, NoStuckVoice, TriggerInv, TableInv
<1>4. CASE StoreActive
  <2> USE <1>4 DEF StoreActive
  <2>1. TypeOK' /\ TriggerInv' /\ TableInv'
    BY AudioAssumption DEF TypeOK, TriggerInv, TableInv
  <2>2. pos[voice] <= late /\ late <= Gap /\ Gap < Length[voice] /\ frames[voice] = Length[voice]
    BY AudioAssumption DEF TypeOK, TriggerInv
  <2>3. NoStuckVoice'
    BY <2>2, AudioAssumption DEF TypeOK, NoStuckVoice
  <2> QED BY <2>1, <2>3
<1>5. ASSUME NEW v \in Voices, Trigger(v) PROVE IInv'
  BY <1>5, AudioAssumption DEF Trigger, TypeOK, NoStuckVoice, TriggerInv, TableInv
<1> QED BY <1>1, <1>2, <1>3, <1>4, <1>5 DEF Main

LEMMA NextLemma == IInv /\ [Next]_vars => IInv'
<1>1. IInv /\ UNCHANGED vars => IInv'
  BY DEF vars, mainVars, IInv, TypeOK, NoStuckVoice, TriggerInv, TableInv
<1> QED BY <1>1, IsrLemma, StoreLemma DEF Next

LEMMA InvLemma == Spec => []IInv
BY InitLemma, NextLemma, PTL DEF Spec

\* Wherever the interrupt comes between the stores of trigger_voice, it reads
\* inside a table it has the pointer of.
THEOREM TableTheorem == Spec => []ReadsInsideTable
<1>1. IInv => ReadsInsideTable
  BY AudioAssumption DEF IInv, TypeOK, ReadsInsideTable, TableInv, Playing
<1> QED BY <1>1, InvLemma, PTL

\* No voice is left active at its end (audio_isr and trigger_voice).
THEOREM NoStuckTheorem == Spec => []NoStuckVoice
<1>1. IInv => NoStuckVoice
  BY DEF IInv, NoStuckVoice
<1> QED BY <1>1, InvLemma, PTL

\* A trigger always makes its voice sound from the start, a retrigger too.
THEOREM TriggerIsHeard == Spec => StartIsHeard
<1>1. IInv /\ [Next]_vars =>
        [store = "active" /\ store' = "none" =>
           /\ active'[voice] /\ pos'[voice] <= Gap /\ pos'[voice] < frames'[voice]]_vars
  <2> SUFFICES ASSUME IInv, Next, store = "active", store' = "none"
               PROVE  active'[voice] /\ pos'[voice] <= Gap /\ pos'[voice] < frames'[voice]
    OBVIOUS
  <2>1. StoreActive
    BY DEF Next, Main, audio_isr, StorePcm, StoreFrames, StorePos, Trigger
  <2> QED BY <2>1, AudioAssumption DEF IInv, StoreActive, TypeOK, TriggerInv
<1> QED BY <1>1, InvLemma, PTL DEF Spec, StartIsHeard

-----------------------------------------------------------------------------
(* Facts about finite sets: the sum of the mix is a fold.                    *)

\* Induction on a finite set, an element at a time.
LEMMA SetInduction ==
    ASSUME NEW S, IsFiniteSet(S), NEW Q,
           \A T \in SUBSET S : (\A x \in T : T \ {x} \in Q) => T \in Q
    PROVE  S \in Q
<1> DEFINE Bad == {T \in SUBSET S : T \notin Q}
<1> SUFFICES ASSUME S \notin Q PROVE FALSE
  OBVIOUS
<1>1. Bad \subseteq FiniteSubsetsOf(S) /\ Bad # {}
  BY FS_Subset DEF FiniteSubsetsOf
<1>2. PICK T \in Bad : \A U \in Bad : ~ (<<U, T>> \in StrictSubsetOrdering(S))
  <2> HIDE DEF Bad
  <2> QED BY <1>1, FS_StrictSubsetOrderingWellFounded, WFMin
<1>3. ASSUME NEW x \in T PROVE T \ {x} \in Q
  <2>1. T \ {x} \in SUBSET S /\ T \ {x} \subseteq T /\ T \ {x} # T /\ T \in SUBSET S
    BY <1>3
  <2>2. <<T \ {x}, T>> \in StrictSubsetOrdering(S)
    BY <2>1 DEF StrictSubsetOrdering
  <2> QED BY <1>2, <2>1, <2>2
<1> QED BY <1>3

LEMMA NatSetInduction ==
    ASSUME NEW S, 0 \in S, \A n \in Nat : n \in S => n + 1 \in S
    PROVE  Nat \subseteq S
<1> DEFINE T == Nat \ S
<1> SUFFICES ASSUME T # {} PROVE FALSE
  OBVIOUS
<1>1. PICK x \in T : \A y \in T : ~ (<<y, x>> \in OpToRel(<, Nat))
  <2>1. T \subseteq Nat OBVIOUS
  <2>. HIDE DEF T
  <2> QED BY <2>1, NatLessThanWellFounded, WFMin
<1>2. \A y \in T : ~(y < x)
  <2>1. \A y \in T : y \in Nat /\ x \in Nat OBVIOUS
  <2>. HIDE DEF T
  <2> QED BY <1>1, <2>1, Zenon DEF OpToRel
<1> QED BY <1>2

Recurs(g, S, base, pick, step) ==
    \A T \in SUBSET S :
        g[T] = IF T = {} THEN base ELSE step[<<pick[T], g[T \ {pick[T]}]>>]

\* A function on the subsets of S that recurs on a set without one element.
LEMMA SetRecursion ==
    ASSUME NEW S, IsFiniteSet(S), NEW V, NEW base \in V,
           NEW pick, \A T \in SUBSET S : T # {} => pick[T] \in T,
           NEW step \in [S \X V -> V]
    PROVE  \E g \in [SUBSET S -> V] : Recurs(g, S, base, pick, step)
<1> DEFINE Value(g, T) == IF T = {} THEN base ELSE step[<<pick[T], g[T \ {pick[T]}]>>]
           UpTo(n) == {T \in SUBSET S : Cardinality(T) <= n}
           Q == {n \in Nat : \E g \in [SUBSET S -> V] : \A T \in UpTo(n) : g[T] = Value(g, T)}
<1>1. ASSUME NEW T \in SUBSET S
      PROVE  /\ Cardinality(T) \in Nat /\ IsFiniteSet(T)
             /\ T = {} <=> Cardinality(T) = 0
             /\ T # {} => Cardinality(T \ {pick[T]}) = Cardinality(T) - 1
             /\ Cardinality(T) <= Cardinality(S)
  BY FS_Subset, FS_CardinalityType, FS_EmptySet, FS_RemoveElement
<1>2. 0 \in Q
  <2> DEFINE g == [T \in SUBSET S |-> base]
  <2>1. g \in [SUBSET S -> V]
    OBVIOUS
  <2>2. ASSUME NEW T \in UpTo(0) PROVE T \in SUBSET S /\ g[T] = base /\ T = {}
    <3>1. T \in SUBSET S /\ Cardinality(T) <= 0
      OBVIOUS
    <3>2. Cardinality(T) \in Nat /\ (T = {} <=> Cardinality(T) = 0)
      BY <1>1, <3>1
    <3> QED BY <3>1, <3>2
  <2> HIDE DEF g
  <2>3. \A T \in UpTo(0) : g[T] = Value(g, T)
    BY <2>2
  <2> QED BY <2>1, <2>3
<1>3. ASSUME NEW n \in Nat, n \in Q PROVE n + 1 \in Q
  <2>1. PICK g \in [SUBSET S -> V] : \A T \in UpTo(n) : g[T] = Value(g, T)
    BY <1>3
  <2> DEFINE h == [T \in SUBSET S |-> IF Cardinality(T) <= n THEN g[T] ELSE Value(g, T)]
  <2>2. h \in [SUBSET S -> V]
    BY <2>1, <1>1
  <2>3. ASSUME NEW T \in UpTo(n + 1) PROVE h[T] = Value(h, T)
    <3>1. CASE T = {}
      BY <3>1, <1>1, <2>1
    <3>2. CASE T # {}
      <4>1. T \ {pick[T]} \in UpTo(n) /\ T \in SUBSET S
        BY <3>2, <1>1
      <4>2. h[T \ {pick[T]}] = g[T \ {pick[T]}]
        BY <4>1
      <4>3. h[T] = Value(g, T)
        BY <2>1
      <4> QED BY <4>2, <4>3
    <3> QED BY <3>1, <3>2
  <2> HIDE DEF h
  <2>4. \A T \in UpTo(n + 1) : h[T] = Value(h, T)
    BY <2>3
  <2> HIDE DEF UpTo, Value
  <2> QED BY <2>2, <2>4
<1> HIDE DEF Q
<1>4. Nat \subseteq Q
  BY <1>2, <1>3, NatSetInduction
<1>5. Cardinality(S) \in Q
  BY <1>1, <1>4
<1> QED BY <1>5, <1>1 DEF Q, Recurs

-----------------------------------------------------------------------------
(* The mix.                                                                  *)

\* The sum of the samples lies between so many times the quietest and so many
\* times the loudest of them.
LEMMA SumLemma ==
    ASSUME NEW S, IsFiniteSet(S), NEW s, \A v \in S : s[v] \in Int,
           NEW lo \in Int, NEW hi \in Int, \A v \in S : lo <= s[v] /\ s[v] <= hi
    PROVE  /\ Total(S, s) \in Int
           /\ Cardinality(S) * lo <= Total(S, s) /\ Total(S, s) <= Cardinality(S) * hi
<1> DEFINE pick == [T \in SUBSET S |-> CHOOSE x \in T : TRUE]
           step == [p \in S \X Int |-> s[p[1]] + p[2]]
           iter[T \in SUBSET S] == IF T = {} THEN 0
                                   ELSE LET x == CHOOSE y \in T : TRUE
                                        IN  s[x] + iter[T \ {x}]
<1>1. iter = [T \in SUBSET S |-> IF T = {} THEN 0
                                 ELSE LET x == CHOOSE y \in T : TRUE IN s[x] + iter[T \ {x}]]
  <2>1. \A T \in SUBSET S : T # {} => pick[T] \in T
    OBVIOUS
  <2>2. /\ step \in [S \X Int -> Int]
        /\ \A x \in S, v \in Int : step[<<x, v>>] = s[x] + v
    OBVIOUS
  <2> HIDE DEF step
  <2>3. PICK g \in [SUBSET S -> Int] : Recurs(g, S, 0, pick, step)
    <3>1. 0 \in Int
      OBVIOUS
    <3>2. step \in [S \X Int -> Int]
      BY <2>2
    <3> HIDE DEF pick
    <3> QED BY <2>1, <3>1, <3>2, SetRecursion
  <2>4. ASSUME NEW T \in SUBSET S
        PROVE  g[T] = IF T = {} THEN 0
                      ELSE LET x == CHOOSE y \in T : TRUE IN s[x] + g[T \ {x}]
    <3>1. CASE T = {}
      BY <3>1, <2>3 DEF Recurs
    <3>2. CASE T # {}
      <4>1. pick[T] \in S /\ T \ {pick[T]} \in SUBSET S /\ pick[T] = CHOOSE y \in T : TRUE
        BY <2>1, <3>2
      <4> HIDE DEF pick
      <4>2. g[T \ {pick[T]}] \in Int
        BY <4>1, <2>3
      <4> QED BY <4>1, <4>2, <2>2, <2>3, <3>2 DEF Recurs
    <3> QED BY <3>1, <3>2
  <2>5. g = [T \in SUBSET S |-> IF T = {} THEN 0
                                ELSE LET x == CHOOSE y \in T : TRUE IN s[x] + g[T \ {x}]]
    BY <2>3, <2>4
  <2> QED BY <2>5
<1>2. Total(S, s) = iter[S]
  BY DEF Total, MapThenSumSet, MapThenFoldSet
<1> HIDE DEF iter
<1> DEFINE Q == {T \in SUBSET S : /\ iter[T] \in Int
                                  /\ Cardinality(T) * lo <= iter[T]
                                  /\ iter[T] <= Cardinality(T) * hi}
<1>3. ASSUME NEW T \in SUBSET S, \A x \in T : T \ {x} \in Q PROVE T \in Q
  <2>1. CASE T = {}
    BY <2>1, <1>1, FS_EmptySet
  <2>2. CASE T # {}
    <3> DEFINE x == CHOOSE y \in T : TRUE
    <3>1. x \in T /\ x \in S /\ T \ {x} \in Q
      BY <1>3, <2>2
    <3>2. iter[T] = s[x] + iter[T \ {x}]
      BY <1>1, <2>2
    <3>3. Cardinality(T \ {x}) = Cardinality(T) - 1 /\ Cardinality(T) \in Nat
      BY <3>1, FS_Subset, FS_RemoveElement, FS_CardinalityType
    <3> HIDE DEF x
    <3>4. s[x] \in Int /\ lo <= s[x] /\ s[x] <= hi
      BY <3>1
    <3> QED BY <3>1, <3>2, <3>3, <3>4
  <2> QED BY <2>1, <2>2
<1>4. S \in Q
  <2> HIDE DEF Q
  <2> QED BY <1>3, SetInduction
<1> QED BY <1>2, <1>4
\* Some element has the least value, and some the greatest.
LEMMA ExtremesLemma ==
    ASSUME NEW S, IsFiniteSet(S), S # {}, NEW s, \A v \in S : s[v] \in Int
    PROVE  \E lo, hi \in S : \A v \in S : s[lo] <= s[v] /\ s[v] <= s[hi]
<1> DEFINE Q == {T \in SUBSET S : T # {} =>
                    \E lo, hi \in T : \A v \in T : s[lo] <= s[v] /\ s[v] <= s[hi]}
<1>1. ASSUME NEW T \in SUBSET S, \A x \in T : T \ {x} \in Q PROVE T \in Q
  <2> SUFFICES ASSUME T # {}
               PROVE  \E lo, hi \in T : \A v \in T : s[lo] <= s[v] /\ s[v] <= s[hi]
    OBVIOUS
  <2>1. PICK x \in T : TRUE
    OBVIOUS
  <2>2. CASE T \ {x} = {}
    BY <2>2
  <2>3. CASE T \ {x} # {}
    <3>1. PICK l \in T \ {x}, h \in T \ {x} :
             \A v \in T \ {x} : s[l] <= s[v] /\ s[v] <= s[h]
      BY <1>1, <2>3
    <3> DEFINE lo == IF s[x] < s[l] THEN x ELSE l
               hi == IF s[x] > s[h] THEN x ELSE h
    <3>2. lo \in T /\ hi \in T /\ \A v \in T : s[lo] <= s[v] /\ s[v] <= s[hi]
      BY <3>1
    <3> QED BY <3>2
  <2> QED BY <2>2, <2>3
<1>2. S \in Q
  <2> HIDE DEF Q
  <2> QED BY <1>1, SetInduction
<1> QED BY <1>2

\* Rounding towards zero keeps an average between its bounds.
LEMMA QuotientLemma ==
    ASSUME NEW sum \in Int, NEW n \in Nat, n > 0, NEW lo \in Int, NEW hi \in Int,
           n * lo <= sum, sum <= n * hi
    PROVE  LET q == Quotient(sum, n) IN q \in Int /\ lo <= q /\ q <= hi
<1>1. CASE sum >= 0
  <2> DEFINE q == sum \div n
  <2>1. q \in Int /\ n * q <= sum /\ sum < n * (q + 1)
    BY <1>1
  <2> HIDE DEF q
  <2>2. n * q <= n * hi /\ n * lo < n * (q + 1)
    BY <2>1
  <2>3. q <= hi /\ lo < q + 1
    BY <2>1, <2>2
  <2> QED BY <1>1, <2>1, <2>3 DEF Quotient, q
<1>2. CASE sum < 0
  <2> DEFINE q == (-sum) \div n
  <2>1. q \in Int /\ n * q <= -sum /\ -sum < n * (q + 1)
    BY <1>2
  <2> HIDE DEF q
  <2>2. n * q <= n * (-lo) /\ n * (-hi) < n * (q + 1)
    BY <2>1
  <2>3. q <= -lo /\ -hi < q + 1
    BY <2>1, <2>2
  <2> QED BY <1>2, <2>1, <2>3 DEF Quotient, q
<1> QED BY <1>1, <1>2

\* The mix of some voices lies between two of their samples.
LEMMA MixLemma ==
    ASSUME NEW S \in SUBSET Voices, S # {}, NEW s \in [S -> Samples]
    PROVE  /\ Mix(S, s) \in Int /\ -32768 <= Mix(S, s) /\ Mix(S, s) <= 32767
           /\ \E v, w \in S : s[v] <= Mix(S, s) /\ Mix(S, s) <= s[w]
<1>1. IsFiniteSet(S) /\ Cardinality(S) \in Nat /\ Cardinality(S) > 0
  BY AudioAssumption, FS_Subset, FS_CardinalityType, FS_EmptySet
<1>2. \A v \in S : s[v] \in Int /\ -32768 <= s[v] /\ s[v] <= 32767
  <2> SUFFICES ASSUME NEW v \in S
               PROVE  s[v] \in Int /\ -32768 <= s[v] /\ s[v] <= 32767
    OBVIOUS
  <2>1. s[v] \in Samples
    OBVIOUS
  <2>2. \A x \in Samples : x \in Int /\ -32768 <= x /\ x <= 32767
    BY SamplesAssumption
  <2> QED BY <2>1, <2>2
<1>3. PICK v \in S, w \in S : \A u \in S : s[v] <= s[u] /\ s[u] <= s[w]
  <2>1. \A v \in S : s[v] \in Int
    BY <1>2
  <2> QED BY <1>1, <2>1, ExtremesLemma
<1> DEFINE n == Cardinality(S)
           mean == IF n > 1 THEN Quotient(Total(S, s), n) ELSE Total(S, s)
<1>4. Total(S, s) \in Int /\ n * s[v] <= Total(S, s) /\ Total(S, s) <= n * s[w]
  BY <1>1, <1>2, <1>3, SumLemma
<1>5. s[v] \in Int /\ s[w] \in Int /\ -32768 <= s[v] /\ s[w] <= 32767
  BY <1>2, <1>3
<1>6. mean \in Int /\ s[v] <= mean /\ mean <= s[w]
  <2>1. CASE n > 1
    BY <2>1, <1>1, <1>4, <1>5, QuotientLemma
  <2>2. CASE n = 1
    BY <2>2, <1>4, <1>5
  <2> QED BY <1>1, <2>1, <2>2
<1>7. Mix(S, s) = Clamp(mean, -32768, 32767)
  BY DEF Mix
<1> HIDE DEF mean
<1>8. Mix(S, s) = mean
  BY <1>5, <1>6, <1>7 DEF Clamp
<1> QED BY <1>3, <1>5, <1>6, <1>8

\* Silence is the mix of no voices.
LEMMA SilenceLemma == \A s : Mix({}, s) = 0
<1> SUFFICES ASSUME NEW s PROVE Mix({}, s) = 0
  OBVIOUS
<1>1. IsFiniteSet({}) /\ Cardinality({}) = 0
  BY FS_EmptySet
<1>2. Total({}, s) \in Int /\ 0 * 0 <= Total({}, s) /\ Total({}, s) <= 0 * 0
  BY <1>1, SumLemma
<1> QED BY <1>1, <1>2 DEF Mix, Clamp

\* A mix in the range of 16 bits becomes a level below the period.
LEMMA LevelLemma ==
    ASSUME NEW mix \in Int, -32768 <= mix, mix <= 32767
    PROVE  LevelOf(mix) \in 0..(Period - 1)
<1>1. mix + 32768 \in Nat
  OBVIOUS
<1> DEFINE u == mix + 32768
<1>2. Period \in Nat /\ Period > 0
  BY AudioAssumption
<1> DEFINE scaled == (u * Period) \div 65536
<1>3. u \in Nat
  BY <1>1
<1> HIDE DEF u
<1>4. u * Period \in Int /\ u * Period >= 0
  BY <1>2, <1>3
<1>5. scaled \in Int /\ scaled >= 0
  BY <1>4
<1>6. LevelOf(mix) = IF scaled >= Period THEN Period - 1 ELSE scaled
  BY DEF LevelOf, u
<1> HIDE DEF scaled
<1> QED BY <1>2, <1>5, <1>6

\* What the interrupt writes to the PWM channel is below its period, whatever
\* plays (audio_isr).
THEOREM LevelTheorem == Spec => []LevelInRange
<1>1. Init => LevelInRange
  <2>1. Period \in Nat /\ Period > 0
    BY AudioAssumption
  <2> QED BY <2>1 DEF Init, LevelInRange
<1>2. IInv /\ LevelInRange /\ [Next]_vars => LevelInRange'
  <2> SUFFICES ASSUME IInv, LevelInRange, [Next]_vars PROVE LevelInRange'
    OBVIOUS
  <2>1. CASE audio_isr
    <3>1. PICK s \in [Playing -> Samples] : level' = LevelOf(Mix(Playing, s))
      BY <2>1 DEF audio_isr
    <3>2. Mix(Playing, s) \in Int /\ -32768 <= Mix(Playing, s) /\ Mix(Playing, s) <= 32767
      <4>1. CASE Playing = {}
        BY <4>1, SilenceLemma
      <4>2. CASE Playing # {}
        <5>1. Playing \in SUBSET Voices
          BY DEF Playing
        <5> QED BY <4>2, <5>1, MixLemma
      <4> QED BY <4>1, <4>2
    <3>3. LevelOf(Mix(Playing, s)) \in 0..(Period - 1)
      BY <3>2, LevelLemma
    <3> QED BY <3>1, <3>3 DEF LevelInRange
  <2>2. CASE ~audio_isr
    <3>1. level' = level
      BY <2>2 DEF Next, Main, StorePcm, StoreFrames, StorePos, StoreActive, Trigger, vars
    <3> QED BY <3>1 DEF LevelInRange
  <2> QED BY <2>1, <2>2
<1> QED BY <1>1, <1>2, InvLemma, PTL DEF Spec

\* The average of audio_isr, with C's division, lies between the quietest and
\* the loudest voice that plays, for any number of voices.
THEOREM MixTheorem == Spec => []MixIsBetween
<1>1. MixIsBetween
  <2> SUFFICES ASSUME Playing # {}, NEW s \in [Playing -> Samples]
               PROVE  \E v, w \in Playing : s[v] <= Mix(Playing, s) /\ Mix(Playing, s) <= s[w]
    BY DEF MixIsBetween
  <2>1. Playing \in SUBSET Voices
    BY DEF Playing
  <2> QED BY <2>1, MixLemma
<1> QED BY <1>1, PTL
=============================================================================
