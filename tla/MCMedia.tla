------------------------------ MODULE MCMedia -------------------------------
(* The processors of pictures and sound, in parts that share nothing: the     *)
(* GPU's command processor ("commands") and the SPU, in parts by what         *)
(* software writes ("keys", "loops", "irq", "sweep", "noise"), the MDEC       *)
(* ("mdec") and the copies of VRAM of the wgpu rasterizer ("wgpu").           *)
EXTENDS Gp0

CONSTANTS
  Parts,
  LevelBits, UnitShift, MaxShift,                         \* of the SPU: levels and rates
  SoundBlocks, SamplesPerBlock, PitchUnit, MaxPitchStep,  \* samples
  CaptureLen, ReverbStart, NoisePeriods,
  Rates, Volumes, NoiseShifts, NoiseSteps,                \* what software writes
  TileCount, SyncDelay, MaxDraws,                         \* of the wgpu rasterizer: VRAM, limits
  TileWidth, Texels, PaletteUnit, LongPalette,            \*   the units of textures
  Triangles, Rectangles, Areas, Blits, Copies             \* what is drawn

VARIABLES
  part,
  voice, volume, ram, irq, istat, port, capture, noise, told, owed,
  command_state_mdec, decode_config, data_in, data_out, tables, decoded, host, wanted, begun,
  draw_commands, marked, scaled_native_sync_delay, out_of_sync, ram_buffer, mem, vram, issued, lines, missed, since, stale

\* Two commands in a row, any of them abandoned anywhere: what the first one leaves in the
\* buffers and settings is there for the second.
MCCommands ==
  LineCommands
    \union {c \in PolygonCommands : c.gouraud = c.textured \/ (c.vertices = 4 /\ c.textured)}
    \union {c \in RectangleCommands : c.textured = c.variable}
    \union [kind: {"Setting"}, name: {"E1", "E6"}]
    \union [kind: {"Fill", "VramToVram", "CpuToVram", "VramToCpu"}]
MCRegisterWrites == [name: {"dma_mode"}, value: {2, 3}]

\* Five-bit volumes; shifts up to 2, of which those above 1 make an envelope slower than one
\* step in a clock; blocks of three samples, of which a clock takes two at most.
MCVolumes == {-12, 20}
MCNoisePeriods == [shift \in 0 .. 1 |-> IF shift = 0 THEN 8 ELSE 4]
ASSUME SoundAssumption ==
  /\ SoundBlocks \in Nat \ {0} /\ 0 \in NoiseShifts /\ 0 \in NoiseSteps /\ NoiseSteps \subseteq Nat
  /\ \A shift \in NoiseShifts : NoisePeriods[shift] \in Nat \ {0}

Env == INSTANCE Envelope
Rate(shift, direction, mode) == Env!Settings(3, shift, direction, mode)

Sound == INSTANCE Spu WITH
  Blocks <- SoundBlocks,
  Adsrs <- {Env!AdsrSettings(Rate(1, "Increasing", "Exponential"), 0, 7, Rate(2, "Decreasing", "Linear"), 1, "Exponential"),
            Env!AdsrSettings(Rate(0, "Increasing", "Linear"), 1, 15, Rate(0, "Increasing", "Exponential"), 2, "Linear")},
  Sweeps <- {Env!Sweep(Rate(2, "Increasing", "Linear"), FALSE), Env!Sweep(Rate(1, "Decreasing", "Exponential"), TRUE),
             Env!Sweep(Rate(1, "Increasing", "Linear"), TRUE)}

\* Blocks of three positions: one or two pictures of every combination, and a macroblock of
\* colors of which one block differs from the others.
Blocks == {{0} \union P : P \in SUBSET {1, 2}}
MonoPictures == [depth: {"Four"}, blocks: {<<>>} \union {<<b>> : b \in Blocks} \union (Blocks \X {{0}, {0, 2}})]
ColorPictures == [depth: {"Fifteen"}, blocks: {[i \in 1 .. 6 |-> IF i = n THEN b ELSE {0, 1}] : n \in {1, 6}, b \in {{0}, {0, 2}}}]

Pictures == INSTANCE Mdec WITH
  command_state <- command_state_mdec,
  BlockLen <- 3, QuantWords <- 1, OutputWords <- [depth \in {"Four", "Eight", "Fifteen", "TwentyFour"} |->
                                                    IF depth = "Four" THEN 1 ELSE 2],
  Pictures <- MonoPictures \union ColorPictures, Gaps <- 0 .. 1, MaxCommands <- 2

\* Draws that sample tiles drawn to before, their own or around the end of VRAM: with a
\* palette that is not checked, with none, and one around the end of its page with one that is.
MCMapping(depth, base, u, width, clut_x) ==
  {[depth |-> depth, base |-> base, u |-> u, width |-> width, window |-> FALSE, clut_x |-> clut_x]}
MCTriangles == [area: {{0}, {2}}, masked: {FALSE}, texture: {MCMapping("Four", 7, 0, 7, 5)}]
                 \union [area: {{2}}, masked: {FALSE}, texture: {{}, MCMapping("Fifteen", 10, 0, 4, 0)}]
MCRectangles == [area: {{}, {0, 1}}, masked: {TRUE}, texture: {{}}]
                  \union [area: {{1}}, masked: {FALSE}, texture: {MCMapping("Eight", 6, 6, 4, 0)}]
MCBlits == {[area |-> {1, 2}, reached |-> {1, 2}], [area |-> {0, 2}, reached |-> {2}]}
MCCopies == [source: {0}, dest: {2}]

Tiles == 0 .. TileCount - 1
VramWidth == TileWidth * TileCount
Mappings ==
  [depth: {"Four", "Eight", "Fifteen"}, base: 0 .. VramWidth - 1, u: 0 .. Texels - 1, width: Nat \ {0},
   window: BOOLEAN, clut_x: Nat]
ASSUME WgpuAssumption ==
  /\ TileCount \in Nat /\ SyncDelay \in Nat
  /\ TileWidth \in Nat \ {0} /\ Texels \in 1 .. VramWidth
  /\ PaletteUnit \in 0 .. VramWidth /\ LongPalette \in 0 .. VramWidth
  /\ \A draw \in Triangles \union Rectangles :
       /\ draw \in [area: SUBSET Tiles, masked: BOOLEAN, texture: SUBSET Mappings]
       /\ \A a, b \in draw.texture : a = b
  /\ Areas \subseteq SUBSET Tiles
  /\ Blits \subseteq [area: SUBSET Tiles, reached: SUBSET Tiles]
  /\ \A blit \in Blits : blit.reached \subseteq blit.area
  /\ Copies \subseteq [source: Tiles, dest: Tiles]

Wgpu == INSTANCE WgpuVram WITH MaxCommands <- MaxDraws

commands == vars
mdec == <<command_state_mdec, decode_config, data_in, data_out, tables, decoded, host, wanted, begun>>
wgpu == <<draw_commands, marked, scaled_native_sync_delay, out_of_sync, ram_buffer, mem, vram, issued, lines, missed, since, stale>>
sound == <<voice, volume, ram, irq, istat, port, capture, noise, told, owed>>
mc_vars == <<part, commands, sound, mdec, wgpu>>

OfPart(p) == part = p /\ part' = part
SoundParts == {"keys", "loops", "irq", "sweep", "noise"}

MCInit ==
  /\ part \in Parts
  /\ Init /\ Sound!Init /\ Pictures!Init /\ Wgpu!Init
  /\ part # "keys" => voice.settings.sustain_level = 16

KeysStep ==
  \/ Sound!KeyWrites \/ Sound!WriteAdsrSettings
  \/ \E reset \in BOOLEAN : Sound!WriteSpucnt(reset, FALSE, 0, 0)

\* Loops that repeat, written to the first two blocks before the voice gets going.
LoopBlocks == {[loop_start |-> s, loop_end |-> e, loop_repeat |-> e] : s, e \in BOOLEAN}
LoopsStep ==
  \/ Sound!WriteKeyOn
  \/ Sound!LoopWrites /\ ~voice'.modulated /\ voice'.rate \in {0, 9}
  \/ voice.rate = 0 /\ port < 2 /\ Sound!WriteDataPort /\ ram'[port] \in LoopBlocks

IrqStep ==
  \/ Sound!WriteSampleRate \/ Sound!WriteIrqAddress \/ Sound!AcknowledgeIrq
  \/ Sound!RamAccesses /\ ram' = ram
  \/ \E enabled \in BOOLEAN : Sound!WriteSpucnt(TRUE, enabled, 0, 0)

SoundStep ==
  \/ Sound!Clock
  \/ part = "keys" /\ KeysStep
  \/ part = "loops" /\ LoopsStep
  \/ part = "irq" /\ IrqStep
  \/ part = "sweep" /\ Sound!WriteVolume
  \/ part = "noise" /\ \E shift \in NoiseShifts, step \in NoiseSteps : Sound!WriteSpucnt(TRUE, FALSE, shift, step)

MCNext ==
  \/ OfPart("commands") /\ Next /\ UNCHANGED <<sound, mdec, wgpu>>
  \/ part \in SoundParts /\ OfPart(part) /\ SoundStep /\ UNCHANGED <<commands, mdec, wgpu>>
  \/ OfPart("mdec") /\ Pictures!Next /\ UNCHANGED <<commands, sound, wgpu>>
  \/ OfPart("wgpu") /\ Wgpu!Next /\ UNCHANGED <<commands, sound, mdec>>

SoundRuns == part = "keys" /\ OfPart("keys") /\ Sound!Clock /\ UNCHANGED <<commands, mdec, wgpu>>
MCSpec == MCInit /\ [][MCNext]_mc_vars /\ WF_sound(SoundRuns)
-----------------------------------------------------------------------------
\* A key off is heard and the noise runs at the rate software chose last.
VoicesObey == part \in SoundParts => Sound!KeyOffIsHeard /\ Sound!NoiseRateIsCurrent

\* A voice loops where software told it to, and an access to the IRQ address interrupts.
SoundRamIsObserved == Sound!LoopsWhereTold /\ Sound!AccessInterrupts

\* Pictures are decoded into their blocks and tables are set, whatever a reset dropped before,
\* and a picture is not lost unread when software waits.
PicturesAreWhole == Pictures!DataIsTheCommands /\ Pictures!DecodesPictures /\ Pictures!ReadBeforeNext

\* The copies of VRAM look like one: to the CPU, to the display, and to textures unless the
\* sync is being held back.
VramIsOne == Wgpu!BatchesKeepTheOrder /\ Wgpu!CpuReadsCurrent /\ Wgpu!TexturesAreFresh

\* Whatever software writes to the settings, attacks and releases end.
EnvelopesEnd == part = "keys" => Sound!EnvelopesEnd
SweepKeepsItsRate == Sound!SweepKeepsItsRate
=============================================================================
