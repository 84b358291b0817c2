------------------------------ MODULE Envelope ------------------------------
(* The envelopes of the SPU (spu/envelope.rs): the rate and the step of a     *)
(* change of volume, the ADSR envelope of a voice and the sweep of a volume.  *)
(* Levels have LevelBits bits, 15 in the code; the other numbers of the code  *)
(* keep their relations to it.                                                *)
EXTENDS Integers

CONSTANTS LevelBits,    \* bits of a volume without its sign: 15
          UnitShift,    \* the shift of one step per clock: 11
          MaxShift      \* the greatest shift a register holds: 31

MaxLevel == 2 ^ LevelBits - 1
ENVELOPE_COUNTER == 2 ^ (MaxShift + 2 - UnitShift)

Bounded(n, low, high) == IF n < low THEN low ELSE IF n > high THEN high ELSE n
Excess(a, b) == IF a > b THEN a - b ELSE 0       \* saturating_sub

Settings(step, shift, direction, mode) ==
  [step |-> step, shift |-> shift, direction |-> direction, mode |-> mode]

\* An exponential increase is slower in the last quarter.
EffectiveShift(s, level) ==
  IF s.direction = "Increasing" /\ s.mode = "Exponential" /\ level > 3 * 2 ^ (LevelBits - 2)
  THEN s.shift + 2 ELSE s.shift

CounterDecrement(s, level) ==
  ENVELOPE_COUNTER \div 2 ^ Excess(EffectiveShift(s, level), UnitShift)

UnitStep(s) == IF s.direction = "Increasing" THEN 7 - s.step ELSE - (8 - s.step)

ScaledTowardsZero(step, level) == - ((- step * level) \div 2 ^ LevelBits)
\* An arithmetic shift to the right rounds down: a decrease is at least 1.
Scaled(step, level) == (step * level) \div 2 ^ LevelBits

NextStep(s, level) ==
  LET step == UnitStep(s) * 2 ^ Excess(UnitShift, EffectiveShift(s, level))
  IN IF s.mode = "Exponential" /\ s.direction = "Decreasing" THEN Scaled(step, level) ELSE step
-----------------------------------------------------------------------------
\* parse_sustain_level: n is the register's four bits.
SustainLevel(n) == (n + 1) * 2 ^ (LevelBits - 4)

AdsrSettings(attack, decay_shift, sustain_bits, sustain, release_shift, release_mode) ==
  [sustain_level |-> SustainLevel(sustain_bits),
   Attack |-> [attack EXCEPT !.direction = "Increasing"],
   Decay |-> Settings(0, decay_shift, "Decreasing", "Exponential"),
   Sustain |-> sustain,
   Release |-> Settings(0, release_shift, "Decreasing", release_mode)]

NewAdsr == [level |-> 0, phase |-> "Release", counter |-> ENVELOPE_COUNTER]

KeyOnAdsr(e) == [e EXCEPT !.phase = "Attack", !.level = 0]
KeyOffAdsr(e) == [e EXCEPT !.phase = "Release"]
Silenced(e) == [e EXCEPT !.phase = "Release", !.level = 0]

AfterAttack(e) == IF e.phase = "Attack" /\ e.level = MaxLevel THEN "Decay" ELSE e.phase
NextPhase(e, settings) ==
  IF AfterAttack(e) = "Decay" /\ e.level <= settings.sustain_level THEN "Sustain" ELSE AfterAttack(e)

\* AdsrEnvelope::clock.
ClockAdsr(e, settings) ==
  LET phase == NextPhase(e, settings)
      s == settings[phase]
      counter == Excess(e.counter, CounterDecrement(s, e.level))
  IN IF counter > 0 THEN [e EXCEPT !.phase = phase, !.counter = counter]
     ELSE [phase |-> phase, counter |-> ENVELOPE_COUNTER,
           level |-> Bounded(e.level + NextStep(s, e.level), 0, MaxLevel)]
-----------------------------------------------------------------------------
Fixed == [sweeps |-> FALSE, negative |-> FALSE, s |-> Settings(0, 0, "Increasing", "Linear")]
Sweep(s, negative) == [sweeps |-> TRUE, negative |-> negative, s |-> s]
NewSweep == [volume |-> 0, setting |-> Fixed, counter |-> ENVELOPE_COUNTER]

\* SweepEnvelope::write: a fixed volume is set at once.
WriteFixed(e, volume) == [e EXCEPT !.setting = Fixed, !.volume = volume]
WriteSweep(e, setting) == [e EXCEPT !.setting = setting]

Magnitude(volume) == Bounded(IF volume < 0 THEN - volume ELSE volume, 0, MaxLevel)

\* A negative sweep with exponential decrease increases.
SweepStep(e) ==
  LET s == e.setting.s
      step == NextStep(s, Magnitude(e.volume))
  IN IF e.setting.negative /\ s.direction = "Decreasing" /\ s.mode = "Exponential"
     THEN - step ELSE step

Swept(e) ==
  IF e.setting.negative THEN - Bounded(SweepStep(e) - e.volume, 0, MaxLevel)
  ELSE Bounded(e.volume + SweepStep(e), 0, MaxLevel)

\* SweepEnvelope::clock: the counter stays at 0 once it got there.
ClockSweep(e) ==
  LET counter == Excess(e.counter, CounterDecrement(e.setting.s, Magnitude(e.volume)))
  IN IF ~e.setting.sweeps THEN e
     ELSE [e EXCEPT !.counter = counter, !.volume = IF counter = 0 THEN Swept(e) ELSE @]
=============================================================================
