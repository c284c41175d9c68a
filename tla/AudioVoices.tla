----------------------------- MODULE AudioVoices -----------------------------
(***************************************************************************)
(* The audio engine of src/src/audio_machine_one_core.c: an interrupt at   *)
(* 44.1 kHz mixes the voices, the main thread starts a voice with four     *)
(* stores. The interrupt is atomic to the main thread; the stores happen   *)
(* in source order (platformio.ini builds with -O0, and there is one core).*)
(***************************************************************************)
EXTENDS Integers, FiniteSetsExt

CONSTANTS
    Voices,     \* the voices (0..3)
    Length,     \* the length of each voice's table in flash, in frames
    Samples,    \* the sample values the tables hold (16 bits)
    Period,     \* pwm_period (3401)
    Gap         \* the interrupts that may come between two adjacent stores

\* Between two stores the main thread loses at most the time of other interrupt
\* handlers (a few frames); the shortest table has 60328 frames.
ASSUME AudioAssumption ==
    /\ Gap \in Nat
    /\ IsFiniteSet(Voices)
    /\ Length \in [Voices -> Nat \ {0}] /\ \A v \in Voices : Gap < Length[v]
    /\ Period \in Nat \ {0}

ASSUME SamplesAssumption ==
    Samples \subseteq Int /\ \A s \in Samples : -32768 <= s /\ s <= 32767

VARIABLES
    pcm,      \* the voices whose pcm pointer is set (to their own table)
    frames, pos, active,   \* the other fields of voice_t
    level,    \* what was last written to the PWM channel
    store,    \* the next store of trigger_voice, or "none"
    voice,    \* the voice being triggered
    late      \* the interrupts since the last store

mainVars == <<store, voice, late>>
vars == <<pcm, frames, pos, active, level, mainVars>>

\* audio_machine_init: the voices are zero, the channel is at half level.
Init ==
    /\ pcm = {}
    /\ frames = [v \in Voices |-> 0]
    /\ pos = [v \in Voices |-> 0]
    /\ active = [v \in Voices |-> FALSE]
    /\ level = Period \div 2
    /\ store = "none" /\ voice \in Voices /\ late = 0

-----------------------------------------------------------------------------
(* The interrupt.                                                            *)

\* C division truncates towards zero.
Quotient(a, b) == IF a >= 0 THEN a \div b ELSE -((-a) \div b)

Clamp(x, lo, hi) == IF x < lo THEN lo ELSE IF x > hi THEN hi ELSE x

\* The sum of the samples s of the voices S.
Total(S, s) == MapThenSumSet(LAMBDA v : s[v], S)

\* Mutant: the sum is not divided, and the clamps do all the work.
Mix_Sum(S, s) == Clamp(Total(S, s), -32768, 32767)

\* The samples s of the playing voices S, averaged and clamped.
Mix(S, s) ==
    LET n == Cardinality(S)
    IN  Clamp(IF n > 1 THEN Quotient(Total(S, s), n) ELSE Total(S, s), -32768, 32767)

\* Mutant: the signed sample is not shifted to an unsigned one.
LevelOf_Signed(mix) == (mix * Period) \div 65536

LevelOf(mix) ==
    LET scaled == ((mix + 32768) * Period) \div 65536
    IN  IF scaled >= Period THEN Period - 1 ELSE scaled

Playing == {v \in Voices : active[v] /\ pos[v] < frames[v]}

\* Mutant: a voice stays active after its last frame.
audio_isr_NeverStops ==
    /\ store # "none" => late < Gap
    /\ late' = IF store # "none" THEN late + 1 ELSE 0
    /\ \E s \in [Playing -> Samples] : level' = LevelOf(Mix(Playing, s))
    /\ pos' = [v \in Voices |-> IF v \in Playing THEN pos[v] + 1 ELSE pos[v]]
    /\ UNCHANGED <<pcm, frames, active, store, voice>>

audio_isr ==
    /\ store # "none" => late < Gap
    /\ late' = IF store # "none" THEN late + 1 ELSE 0
    /\ \E s \in [Playing -> Samples] : level' = LevelOf(Mix(Playing, s))
    /\ pos' = [v \in Voices |-> IF v \in Playing THEN pos[v] + 1 ELSE pos[v]]
    /\ active' = [v \in Voices |-> active[v] /\ (v \in Playing => pos'[v] < frames[v])]
    /\ UNCHANGED <<pcm, frames, store, voice>>

-----------------------------------------------------------------------------
(* trigger_voice, called by play_kick, play_snare, play_hat and              *)
(* play_sad_sample: one action per store.                                    *)

\* Mutant: the pointer is never set.
Trigger_NoPcm(v) ==
    /\ store = "none"
    /\ voice' = v /\ store' = "frames" /\ late' = 0
    /\ UNCHANGED <<pcm, frames, pos, active, level>>

Trigger(v) ==
    /\ store = "none"
    /\ voice' = v /\ store' = "pcm" /\ late' = 0
    /\ UNCHANGED <<pcm, frames, pos, active, level>>

StorePcm ==
    /\ store = "pcm"
    /\ pcm' = pcm \union {voice}
    /\ store' = "frames" /\ late' = 0
    /\ UNCHANGED <<frames, pos, active, level, voice>>

StoreFrames ==
    /\ store = "frames"
    /\ frames' = [frames EXCEPT ![voice] = Length[voice]]
    /\ store' = "pos" /\ late' = 0
    /\ UNCHANGED <<pcm, pos, active, level, voice>>

\* Mutant: the position is left where the last playback ended.
StorePos_Keep ==
    /\ store = "pos"
    /\ store' = "active" /\ late' = 0
    /\ UNCHANGED <<pcm, frames, pos, active, level, voice>>

StorePos ==
    /\ store = "pos"
    /\ pos' = [pos EXCEPT ![voice] = 0]
    /\ store' = "active" /\ late' = 0
    /\ UNCHANGED <<pcm, frames, active, level, voice>>

StoreActive ==
    /\ store = "active"
    /\ active' = [active EXCEPT ![voice] = TRUE]
    /\ store' = "none" /\ late' = 0
    /\ UNCHANGED <<pcm, frames, pos, level, voice>>

Main == StorePcm \/ StoreFrames \/ StorePos \/ StoreActive

Next == audio_isr \/ Main \/ \E v \in Voices : Trigger(v)

\* The PWM keeps wrapping, the main thread finishes a trigger it has begun.
Spec == Init /\ [][Next]_vars /\ WF_vars(audio_isr) /\ WF_vars(Main)

-----------------------------------------------------------------------------
(* Properties.                                                               *)

TypeOK ==
    /\ pcm \subseteq Voices
    /\ frames \in [Voices -> Nat] /\ \A v \in Voices : frames[v] \in {0, Length[v]}
    /\ pos \in [Voices -> Nat]
    /\ active \in [Voices -> BOOLEAN]
    /\ store \in {"none", "pcm", "frames", "pos", "active"}
    /\ voice \in Voices /\ late \in 0..Gap

\* What is written to the channel is below the period, for every mix of the
\* extreme samples.
LevelInRange == level \in 0..(Period - 1)

\* Wherever the interrupt comes in a trigger, the first one of a voice
\* included, it reads through a pointer that is set and inside the table.
ReadsInsideTable == \A v \in Playing : v \in pcm /\ pos[v] < Length[v]

\* No voice is left active at its end: the interrupt would pass over it for
\* ever and nobody would clear the flag. In the middle of a trigger as well.
NoStuckVoice == \A v \in Voices : active[v] => pos[v] < frames[v]

\* When a trigger is over the voice sounds from its start, up to the frames
\* that the interrupts between the last two stores played: a retrigger of a
\* voice that plays, or ends meanwhile, does not lose the sound.
StartIsHeard ==
    [][store = "active" /\ store' = "none" =>
         /\ active'[voice] /\ pos'[voice] <= Gap /\ pos'[voice] < frames'[voice]]_vars

\* The mix of any number of voices lies between the quietest and the loudest of
\* them, though C rounds towards zero: the clamps never distort the sound.
MixIsBetween ==
    Playing # {} => \A s \in [Playing -> Samples] :
        \E v, w \in Playing : s[v] <= Mix(Playing, s) /\ Mix(Playing, s) <= s[w]

\* Without new triggers every voice comes to its end.
VoicesEnd ==
    \A v \in Voices : <>[](store = "none") => <>[](~active[v])
=============================================================================
