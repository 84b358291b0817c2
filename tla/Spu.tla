-------------------------------- MODULE Spu ---------------------------------
(* The SPU (spu.rs, spu/voice.rs, spu/noise.rs): one of its voices, with its  *)
(* envelope and a volume, the sound RAM with its interrupt, the data port,    *)
(* the capture buffers and the noise generator.  Voices share nothing but the *)
(* sound RAM.  A sample is nothing but the time it takes: sound RAM is a      *)
(* sequence of ADPCM blocks, of which only the loop flags are kept; addresses *)
(* are those of blocks.  Block 0 is where the capture buffers are.            *)
EXTENDS Envelope

CONSTANTS Blocks,            \* number of ADPCM blocks in sound RAM
          SamplesPerBlock,   \* 28
          PitchUnit,         \* the pitch counter of one sample: $1000
          MaxPitchStep,      \* the greatest step of the pitch counter: $4000
          CaptureLen,        \* samples in a capture buffer: 512
          ReverbStart,       \* the first block of the reverb buffer
          NoisePeriods,      \* the noise generator's period of each shift
          Adsrs,             \* the envelope settings software chooses from
          Rates, Volumes, Sweeps, NoiseShifts, NoiseSteps

VARIABLES voice,       \* Voice
          volume,      \* SweepEnvelope: a volume of the voice
          ram,         \* the loop flags of every block
          irq,         \* SoundRam: irq_enabled, irq_address, irq; last_irq_bit
          istat,       \* the SPU bit of I_STAT
          port,        \* DataPort: the current address
          capture,     \* capture_buffer_addr
          noise,       \* NoiseGenerator: timer, shift, step
          told,        \* history: what software said last of keys and repeats, and
               \* whether the volume moved in the last clock
          owed         \* history: an access to the IRQ address that nothing has answered

vars == <<voice, volume, ram, irq, istat, port, capture, noise, told, owed>>

Addresses == 0 .. Blocks - 1
Flags == [loop_start : BOOLEAN, loop_end : BOOLEAN, loop_repeat : BOOLEAN]
Plain == [loop_start |-> FALSE, loop_end |-> FALSE, loop_repeat |-> FALSE]

Init ==
  /\ \E a \in Adsrs :
       voice = [start |-> 0, repeat |-> 0, locked |-> FALSE, current |-> 0,
                restart_pending |-> FALSE, restart_delay |-> 0, release_pending |-> FALSE,
                soft_reset |-> TRUE, adsr |-> NewAdsr, settings |-> a,
                left |-> SamplesPerBlock, pitch_counter |-> 0, rate |-> 0, modulated |-> FALSE]
  /\ volume = NewSweep
  /\ ram = [a \in Addresses |-> Plain]
  /\ irq = [enabled |-> FALSE, address |-> 0, flag |-> FALSE, last |-> FALSE]
  /\ istat = FALSE /\ port = 0 /\ capture = 0
  /\ noise = [timer |-> 0, shift |-> 0, step |-> 0]
  /\ told = [off |-> "none", repeat |-> Blocks, moved |-> FALSE] /\ owed = FALSE
-----------------------------------------------------------------------------
\* Voice::decode_adpcm_block.
Decoded(v) ==
  LET header == ram[v.current]
      repeat == IF header.loop_start /\ ~v.locked THEN v.current ELSE v.repeat
  IN [v EXCEPT !.repeat = repeat,
               !.current = IF header.loop_end THEN repeat ELSE (@ + 1) % Blocks,
               !.adsr = IF header.loop_end /\ ~header.loop_repeat THEN Silenced(@) ELSE @]

\* Voice::restart.
Unlocked(v) == [v EXCEPT !.locked = FALSE]
Restarted(v) ==
  Decoded([Unlocked(v) EXCEPT !.restart_pending = FALSE, !.restart_delay = 5,
             !.adsr = KeyOnAdsr(@), !.current = v.start,
             !.left = SamplesPerBlock, !.pitch_counter = 0])

PreventsStartLater(v, delay) == delay <= 2 /\ (v.release_pending \/ v.soft_reset)

\* A key off or a soft reset that is there in the last clocks of the delay
\* prevents the start; one before them is forgotten.
PreventsStart(v, delay) == delay <= 3 /\ (v.release_pending \/ v.soft_reset)

Delayed(v) ==
  LET delay == v.restart_delay - 1
  IN [v EXCEPT !.restart_delay = delay, !.release_pending = FALSE,
               !.adsr = IF PreventsStart(v, delay) THEN KeyOffAdsr(@) ELSE @]

Released(v) == [v EXCEPT !.release_pending = FALSE,
                         !.adsr = IF v.release_pending THEN KeyOffAdsr(@) ELSE @]

\* The pitch counter moves by the sample rate, or by what the voice before
\* makes of it; a block has more samples than the greatest step takes.
PitchSteps(v) == IF v.modulated THEN 0 .. MaxPitchStep ELSE {Bounded(v.rate, 0, MaxPitchStep)}
Advanced(v, step) ==
  LET pitch == v.pitch_counter + step
      taken == pitch \div PitchUnit
      moved == [v EXCEPT !.pitch_counter = pitch % PitchUnit]
  IN IF taken < v.left THEN [moved EXCEPT !.left = @ - taken]
     ELSE [Decoded(moved) EXCEPT !.left = SamplesPerBlock - (taken - v.left)]

Playing(v, step) ==
  LET r == Released(v)
  IN Advanced([r EXCEPT !.adsr = ClockAdsr(r.adsr, r.settings)], step)

IsPlaying(v) == ~v.restart_pending /\ v.restart_delay = 0

\* Voice::clock
ClockVoice(v, step) ==
  IF v.restart_pending THEN Restarted(v)
  ELSE IF v.restart_delay # 0 THEN Delayed(v)
  ELSE Playing(v, step)

\* The block a voice decodes in this clock.
Reads(v, step) ==
  IF v.restart_pending THEN {v.start}
  ELSE IF IsPlaying(v) /\ (v.pitch_counter + step) \div PitchUnit >= v.left THEN {v.current}
  ELSE {}

CaptureWrites == IF capture = 0 THEN {0} ELSE {}
\* What the reverb unit reads and writes, as far as the interrupt can tell.
ReverbAccesses == SUBSET ({irq.address} \cap (ReverbStart .. Blocks - 1))

\* NoiseGenerator::clock
NoisePeriod(shift) == NoisePeriods[shift]
ClockNoise ==
  LET timer == noise.timer - (noise.step + 4)
      period == NoisePeriod(noise.shift)
  IN [noise EXCEPT !.timer = IF timer >= 0 THEN timer ELSE timer % period]

\* SoundRam::index
Touched(addresses) == irq.enabled /\ irq.address \in addresses
Flagged(addresses) == irq.flag \/ Touched(addresses)

\* Spu::clock.  All of it, then the interrupt: an edge from one clock to the next.
LastBit(flag) == flag

Clock ==
  \E step \in PitchSteps(voice), reverb \in ReverbAccesses :
    LET flag == Flagged(Reads(voice, step) \cup CaptureWrites \cup reverb)
    IN /\ voice' = ClockVoice(voice, step)
       /\ volume' = IF IsPlaying(voice) THEN ClockSweep(volume) ELSE volume
       /\ noise' = ClockNoise
       /\ capture' = (capture + 1) % CaptureLen
       /\ irq' = [irq EXCEPT !.flag = flag, !.last = LastBit(flag)]
       /\ istat' = (istat \/ (flag /\ ~irq.last))
       /\ owed' = FALSE
       /\ told' = [told EXCEPT !.repeat = IF voice.restart_pending THEN Blocks ELSE @,
                                !.moved = volume'.volume # volume.volume]
       /\ UNCHANGED <<ram, port>>
-----------------------------------------------------------------------------
\* Registers of the voice.

WriteKeyOn ==
  /\ voice' = [voice EXCEPT !.restart_pending = TRUE]
  /\ told' = [told EXCEPT !.off = "none"]
  /\ UNCHANGED <<volume, ram, irq, istat, port, capture, noise, owed>>

WriteKeyOff ==
  /\ voice' = [voice EXCEPT !.release_pending = TRUE]
  /\ told' = [told EXCEPT !.off = IF voice.restart_pending \/ voice.restart_delay = 5
                                  THEN "early" ELSE "heard"]
  /\ UNCHANGED <<volume, ram, irq, istat, port, capture, noise, owed>>

WriteStartAddress ==
  /\ \E a \in Addresses : voice' = [voice EXCEPT !.start = a]
  /\ UNCHANGED <<volume, ram, irq, istat, port, capture, noise, told, owed>>

\* A repeat address that gives way to the loop starts of the samples.
NeverLocks(v) == v.locked
Locks(v) == v.locked \/ v.restart_delay = 0

WriteRepeatAddress ==
  /\ \E a \in Addresses :
       /\ voice' = [voice EXCEPT !.repeat = a, !.locked = Locks(voice)]
       /\ told' = [told EXCEPT !.repeat = IF voice.restart_delay = 0 THEN a ELSE @]
  /\ UNCHANGED <<volume, ram, irq, istat, port, capture, noise, owed>>

WriteSampleRate ==
  /\ \/ \E r \in Rates : voice' = [voice EXCEPT !.rate = r]
     \/ \E m \in BOOLEAN : voice' = [voice EXCEPT !.modulated = m]
  /\ UNCHANGED <<volume, ram, irq, istat, port, capture, noise, told, owed>>

WriteAdsrSettings ==
  /\ \E a \in Adsrs : voice' = [voice EXCEPT !.settings = a]
  /\ UNCHANGED <<volume, ram, irq, istat, port, capture, noise, told, owed>>

WriteVolume ==
  /\ \/ \E v \in Volumes : volume' = WriteFixed(volume, v)
     \/ \E s \in Sweeps : volume' = WriteSweep(volume, s)
  /\ told' = [told EXCEPT !.moved = FALSE]
  /\ UNCHANGED <<voice, ram, irq, istat, port, capture, noise, owed>>

\* SPUCNT: soft reset, noise frequency, interrupt enable.
SoftReset(v, reset) ==
  [v EXCEPT !.soft_reset = reset, !.adsr = IF reset THEN Silenced(@) ELSE @]

Smaller(m, n) == IF m < n THEN m ELSE n
NoiseTimer(timer, shift) == Smaller(timer, NoisePeriod(shift))

WriteSpucnt(reset, enabled, shift, step) ==
  /\ voice' = SoftReset(voice, reset)
  /\ noise' = [timer |-> NoiseTimer(noise.timer, shift), shift |-> shift, step |-> step]
  /\ irq' = [irq EXCEPT !.enabled = enabled, !.flag = @ /\ enabled]
  /\ owed' = (owed /\ enabled)
  /\ UNCHANGED <<volume, ram, istat, port, capture, told>>
-----------------------------------------------------------------------------
\* Sound RAM: each of these may touch the IRQ address between two clocks.
\* An access is owed an interrupt when the line was low at the last clock.

Access(a) ==
  /\ irq' = [irq EXCEPT !.flag = Flagged({a})]
  /\ owed' = (owed \/ (Touched({a}) /\ ~irq.last))

WriteIrqAddress ==
  /\ \E a \in Addresses : irq' = [irq EXCEPT !.address = a]
  /\ UNCHANGED <<voice, volume, ram, istat, port, capture, noise, told, owed>>

WriteTransferAddress ==
  /\ \E a \in Addresses : port' = a
  /\ UNCHANGED <<voice, volume, ram, irq, istat, capture, noise, told, owed>>

WriteDataPort ==
  /\ \E f \in Flags : ram' = [ram EXCEPT ![port] = f]
  /\ Access(port) /\ port' = (port + 1) % Blocks
  /\ UNCHANGED <<voice, volume, istat, capture, noise, told>>

ReadDataPort ==
  /\ Access(port) /\ port' = (port + 1) % Blocks
  /\ UNCHANGED <<voice, volume, ram, istat, capture, noise, told>>

AcknowledgeIrq ==
  /\ istat' = FALSE
  /\ UNCHANGED <<voice, volume, ram, irq, port, capture, noise, told, owed>>

Spucnt == \E reset, enabled \in BOOLEAN, shift \in NoiseShifts, step \in NoiseSteps :
            WriteSpucnt(reset, enabled, shift, step)

KeyWrites == WriteKeyOn \/ WriteKeyOff
LoopWrites == WriteStartAddress \/ WriteRepeatAddress \/ WriteSampleRate
RamAccesses == WriteTransferAddress \/ WriteDataPort \/ ReadDataPort

Next ==
  \/ Clock \/ KeyWrites \/ LoopWrites \/ WriteAdsrSettings \/ WriteVolume \/ Spucnt
  \/ WriteIrqAddress \/ RamAccesses \/ AcknowledgeIrq

Spec == Init /\ [][Next]_vars /\ WF_vars(Clock)
-----------------------------------------------------------------------------
\* A key off releases the voice at its next clock, unless it comes before the
\* voice has been restarting for a clock: then it is forgotten.  Later in the
\* restart it prevents the voice from starting.
KeyOffIsHeard == told.off = "heard" /\ ~voice.release_pending => voice.adsr.phase = "Release"

\* A voice whose repeat address software wrote while it played loops to that
\* address until it is keyed on again, whatever loop starts its samples mark.
LoopsWhereTold ==
  [][told.repeat # Blocks /\ ~voice.restart_pending /\ voice'.current # voice.current
       /\ ram[voice.current].loop_end => voice'.current = told.repeat]_vars

\* The noise generator is never further from its next sample than the period of
\* the frequency that software chose last.
NoiseRateIsCurrent == noise.timer \in 0 .. NoisePeriod(noise.shift)

\* An access to the IRQ address that finds the line low at the clock before
\* raises the interrupt at the next clock, unless software disables it first.
AccessInterrupts == [][owed /\ owed' = FALSE => istat' \/ ~irq'.enabled]_vars

\* Whatever settings software writes meanwhile, an attack reaches the full
\* level and a release silence.
EnvelopesEnd ==
  /\ voice.adsr.phase = "Attack" /\ IsPlaying(voice) ~>
       voice.adsr.level = MaxLevel \/ voice.adsr.phase # "Attack" \/ ~IsPlaying(voice)
  /\ voice.adsr.phase = "Release" ~> voice.adsr.level = 0 \/ voice.adsr.phase # "Release"

\* The comment on counter_decrement, for sweeps: with a shift above the unit's, a
\* volume is not updated in two clocks in a row.
SweepKeepsItsRate ==
  [][told.moved /\ told'.moved =>
       CounterDecrement(volume.setting.s, Magnitude(volume.volume)) = ENVELOPE_COUNTER]_vars
=============================================================================
